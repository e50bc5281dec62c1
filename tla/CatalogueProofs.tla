-------------------------- MODULE CatalogueProofs --------------------------
(***************************************************************************)
(* Theorems about Catalogue, for any homes, policies, patterns and number  *)
(* of changes: every list and count is what the caches say it is.          *)
(*                                                                         *)
(* The lists are kept and sorted by rank (Arranged of Listing), so the     *)
(* first facts are about ranks; then the invariant, action by action; then *)
(* each property, from the invariant alone.                                *)
(***************************************************************************)
EXTENDS Catalogue, TLAPS, FiniteSetTheorems, SequenceTheorems, WellFoundedInduction

---------------------------------------------------------------------------
(***************************************************************************)
(* Arranging a finite set in a strict total order: every rank below the    *)
(* cardinality is taken by one element.                                    *)
(***************************************************************************)

(* What comes before x.                                                    *)
Below(S, before, x) == {y \in S : <<y, x>> \in before}

(* before orders S: neither loops nor ties.                                *)
StrictTotal(S, before) ==
  /\ \A x \in S : <<x, x>> \notin before
  /\ \A x, y \in S : x # y => <<x, y>> \in before \/ <<y, x>> \in before
  /\ \A x, y, z \in S : <<x, y>> \in before /\ <<y, z>> \in before => <<x, z>> \in before

(* How many elements come before one says how far up it is.                *)
LEMMA RankFacts ==
  ASSUME NEW S, IsFiniteSet(S), NEW before, StrictTotal(S, before)
  PROVE  /\ \A x \in S : Cardinality(Below(S, before, x)) \in 0..(Cardinality(S) - 1)
         /\ \A x, y \in S : <<x, y>> \in before =>
              Cardinality(Below(S, before, x)) < Cardinality(Below(S, before, y))
<1>1. ASSUME NEW x \in S
      PROVE  /\ IsFiniteSet(Below(S, before, x))
             /\ Cardinality(Below(S, before, x)) \in 0..(Cardinality(S) - 1)
  <2>1. Below(S, before, x) \in SUBSET (S \ {x}) BY DEF Below, StrictTotal
  <2>2. /\ IsFiniteSet(S \ {x}) /\ Cardinality(S \ {x}) = Cardinality(S) - 1
    BY FS_RemoveElement
  <2>3. /\ IsFiniteSet(Below(S, before, x))
        /\ Cardinality(Below(S, before, x)) <= Cardinality(S \ {x})
    BY <2>1, <2>2, FS_Subset
  <2>4. Cardinality(Below(S, before, x)) \in Nat /\ Cardinality(S) \in Nat
    BY <2>3, FS_CardinalityType
  <2> QED BY <2>2, <2>3, <2>4
<1>2. ASSUME NEW x \in S, NEW y \in S, <<x, y>> \in before
      PROVE  Cardinality(Below(S, before, x)) < Cardinality(Below(S, before, y))
  <2>1. Below(S, before, x) \in SUBSET Below(S, before, y) BY <1>2 DEF Below, StrictTotal
  <2>2. x \in Below(S, before, y) /\ x \notin Below(S, before, x) BY <1>2 DEF Below, StrictTotal
  <2>3. /\ Cardinality(Below(S, before, x)) <= Cardinality(Below(S, before, y))
        /\ Cardinality(Below(S, before, x)) # Cardinality(Below(S, before, y))
    BY <1>1, <2>1, <2>2, FS_Subset
  <2> QED BY <1>1, <2>3
<1> QED BY <1>1, <1>2

(* Arranged lists every element once, each before those it comes before.   *)
LEMMA Arrangement ==
  ASSUME NEW S, IsFiniteSet(S), NEW before, StrictTotal(S, before)
  PROVE  /\ Cardinality(S) \in Nat
         /\ Arranged(S, before) \in Bijection(1..Cardinality(S), S)
         /\ \A m, n \in 1..Cardinality(S) :
              m < n => <<Arranged(S, before)[m], Arranged(S, before)[n]>> \in before
<1> DEFINE N == Cardinality(S)
           rank == [x \in S |-> Cardinality(Below(S, before, x))]
           f == [x \in S |-> rank[x] + 1]
           o == Arranged(S, before)
<1>1. N \in Nat BY FS_CardinalityType
<1>2. rank \in [S -> 0..(N - 1)] BY RankFacts
<1>3. \A x, y \in S : <<x, y>> \in before => rank[x] < rank[y] BY RankFacts
<1>4. \A n \in 1..N : o[n] = CHOOSE x \in S : rank[x] = n - 1
  <2> SUFFICES ASSUME NEW n \in 1..N PROVE o[n] = CHOOSE x \in S : rank[x] = n - 1 OBVIOUS
  <2>1. o[n] = CHOOSE x \in S : Cardinality(Below(S, before, x)) = n - 1 BY DEF Arranged, Below
  <2>2. \A x \in S : rank[x] = Cardinality(Below(S, before, x)) OBVIOUS
  <2> HIDE DEF rank, o
  <2> QED BY <2>1, <2>2
<1>5. o = [n \in 1..N |-> CHOOSE x \in S : Cardinality({y \in S : <<y, x>> \in before}) = n - 1]
  BY DEF Arranged
<1>6. DOMAIN o = 1..N /\ o = [n \in 1..N |-> o[n]] BY <1>5
<1> HIDE DEF o, rank, N
<1>7. ASSUME NEW x \in S, NEW y \in S, x # y PROVE rank[x] # rank[y]
  <2>1. rank[x] \in Int /\ rank[y] \in Int BY <1>1, <1>2
  <2>2. <<x, y>> \in before \/ <<y, x>> \in before BY <1>7 DEF StrictTotal
  <2>3. rank[x] < rank[y] \/ rank[y] < rank[x] BY <2>2, <1>3
  <2> QED BY <2>1, <2>3
<1>8. f \in Injection(S, 1..N) BY <1>1, <1>2, <1>7 DEF Injection, IsInjective
<1>9. IsFiniteSet(1..N) /\ Cardinality(1..N) = N BY <1>1, FS_Interval
<1>10. f \in Surjection(S, 1..N) BY <1>8, <1>9, FS_Injection DEF N
<1>11. ASSUME NEW n \in 1..N PROVE o[n] \in S /\ rank[o[n]] = n - 1
  <2>1. PICK x \in S : f[x] = n BY <1>10 DEF Surjection
  <2>2. rank[x] = n - 1 BY <2>1, <1>2, <1>1
  <2> QED BY <2>2, <1>4
<1>12. o \in [1..N -> S] BY <1>6, <1>11
<1>13. \A m, n \in 1..N : o[m] = o[n] => m = n BY <1>11, <1>1
<1>14. ASSUME NEW x \in S PROVE \E n \in 1..N : o[n] = x
  <2>1. PICK n \in 1..N : n - 1 = rank[x]
    <3> DEFINE k == rank[x] + 1
    <3>1. k \in 1..N /\ k - 1 = rank[x] BY <1>1, <1>2
    <3> HIDE DEF k
    <3> QED BY <3>1
  <2>2. o[n] \in S /\ rank[o[n]] = rank[x] BY <2>1, <1>11
  <2> QED BY <2>2, <1>7
<1>15. o \in Bijection(1..N, S)
  BY <1>12, <1>13, <1>14 DEF Bijection, Injection, Surjection, IsInjective
<1>16. ASSUME NEW m \in 1..N, NEW n \in 1..N, m < n PROVE <<o[m], o[n]>> \in before
  <2>1. o[m] \in S /\ o[n] \in S /\ rank[o[m]] < rank[o[n]] BY <1>11, <1>16, <1>1
  <2>2. o[m] # o[n] /\ <<o[n], o[m]>> \notin before BY <2>1, <1>2, <1>3
  <2> QED BY <2>1, <2>2 DEF StrictTotal
<1> QED BY <1>1, <1>15, <1>16 DEF o, N

(* Positions come in their order. *)
LEMMA KeepFacts ==
  ASSUME NEW T, NEW s \in Seq(T), NEW I \in SUBSET DOMAIN s
  PROVE  /\ IsFiniteSet(I) /\ Cardinality(I) \in Nat
         /\ Keep(s, I) \in Seq(T)
         /\ Len(Keep(s, I)) = Cardinality(I)
         /\ Range(Keep(s, I)) = {s[i] : i \in I}
<1> DEFINE before == Earlier(I)
           o == Arranged(I, before)
<1>1. IsFiniteSet(I) /\ Cardinality(I) \in Nat
  <2>1. IsFiniteSet(1..Len(s)) BY FS_Interval
  <2> QED BY <2>1, FS_Subset, FS_CardinalityType
<1>2. StrictTotal(I, before)
  <2>1. I \subseteq Int OBVIOUS
  <2>2. \A x, y \in I : <<x, y>> \in before <=> x < y BY DEF Earlier
  <2> HIDE DEF before
  <2> QED BY <2>1, <2>2 DEF StrictTotal
<1>3. o \in Bijection(1..Cardinality(I), I) BY <1>1, <1>2, Arrangement
<1> HIDE DEF o
<1>4. /\ o \in [1..Cardinality(I) -> I]
      /\ \A i \in I : \E n \in 1..Cardinality(I) : o[n] = i
  BY <1>3 DEF Bijection, Injection, Surjection
<1>5. Keep(s, I) = [n \in 1..Cardinality(I) |-> s[o[n]]] BY <1>4 DEF Keep, o
<1>6. \A n \in 1..Cardinality(I) : s[o[n]] \in T BY <1>4
<1>7. Keep(s, I) \in Seq(T) /\ Len(Keep(s, I)) = Cardinality(I) BY <1>1, <1>5, <1>6
<1>8. Range(Keep(s, I)) = {s[i] : i \in I}
  <2>1. Range(Keep(s, I)) = {s[o[n]] : n \in 1..Cardinality(I)} BY <1>5 DEF Range
  <2> QED BY <2>1, <1>4
<1> QED BY <1>1, <1>7, <1>8

---------------------------------------------------------------------------
(***************************************************************************)
(* The invariant.                                                          *)
(***************************************************************************)

(* What was removed still fits: an area that goes takes it out. *)
GoneOK ==
  /\ DOMAIN gone = Kind
  /\ gone["device"] \subseteq Device /\ gone["entity"] \subseteq Entity
  /\ \A k \in Kind : \A x \in gone[k] : x.area \in DOMAIN ha.areas \cup {None}

(* The cached devices were copied with one state of the areas, that which  *)
(* is cached or an earlier one; the rules may be of yet another.           *)
ServerOK ==
  /\ DOMAIN server = {"devices", "areas", "entities", "engine", "flags", "exceptions"}
  /\ DOMAIN server.flags = Kind
  /\ NamedApart(server.areas)
  /\ server.devices \in Seq(Device) /\ Distinct(server.devices)
  /\ \E names : /\ NamedApart(names)
                 /\ \A d \in Range(server.devices) : d.areaName = Get(names, d.area)
  /\ server.entities \in Seq(Entity)

(* The rules are those of the file, compiled for the areas of some time.   *)
EngineOK == \E names : server.engine = Compile(Policies, names)

(* Exceptions are triples of a kind, an id and a policy.                   *)
KeysOK ==
  /\ server.exceptions \in Seq(Range(server.exceptions))
  /\ \A key \in Range(server.exceptions) : key = <<key[1], key[2], key[3]>>

(* What the tracker saw go and the device cache holds again is flagged. *)
ReturnsFlagged ==
  /\ DOMAIN deleted = Kind
  /\ deleted["device"] \cap Unidentified = {}
  /\ \A d \in Range(server.devices) : d.id \in deleted["device"] => d.id \in server.flags["device"]

IInv == IsHome(ha) /\ GoneOK /\ ServerOK /\ EngineOK /\ KeysOK /\ ReturnsFlagged

---------------------------------------------------------------------------
(* Facts about the helpers of the copies. *)

(* Of a device and an entity, what the proofs ask most.                    *)
LEMMA DeviceFields ==
  \A d \in Device : d.kind = "device" /\ d.id \in DeviceId /\ d.area \in Optional /\ d # None
BY NoneAssumption DEF Device

(* The same of an entity.                                                  *)
LEMMA EntityFields == \A e \in Entity : e.kind = "entity" /\ e.area \in Optional
BY DEF Entity

(* An area that is looked up has a name or None.                           *)
LEMMA GetText ==
  ASSUME NEW areas, NamedApart(areas), NEW a PROVE Get(areas, a) \in Optional
BY DEF Get, NamedApart, Optional, Range

(* Copying names into the devices changes nothing else of them.            *)
LEMMA DeviceCopiesFacts ==
  ASSUME NEW raw \in Seq(Device), NEW areas, NamedApart(areas), Distinct(raw)
  PROVE  LET copies == DeviceCopies(raw, areas) IN
         /\ copies \in Seq(Device) /\ Distinct(copies)
         /\ \A d \in Range(copies) : d.areaName = Get(areas, d.area)
         /\ Ids(copies) = Ids(raw)
<1> DEFINE copies == DeviceCopies(raw, areas)
<1>1. /\ copies = [i \in 1..Len(raw) |-> [raw[i] EXCEPT !.areaName = Get(areas, raw[i].area)]]
      /\ DOMAIN raw = 1..Len(raw)
  BY DEF DeviceCopies
<1> HIDE DEF copies
<1>2. ASSUME NEW i \in 1..Len(raw)
      PROVE  /\ copies[i] \in Device
             /\ copies[i].id = raw[i].id /\ copies[i].area = raw[i].area
             /\ copies[i].kind = "device" /\ raw[i].kind = "device"
             /\ copies[i].areaName = Get(areas, copies[i].area)
  <2>1. raw[i] \in Device BY <1>1
  <2>2. Get(areas, raw[i].area) \in Optional BY GetText
  <2>3. copies[i] = [raw[i] EXCEPT !.areaName = Get(areas, raw[i].area)] BY <1>1
  <2> HIDE DEF Optional
  <2> QED BY <2>1, <2>2, <2>3 DEF Device
<1>3. copies \in Seq(Device) /\ DOMAIN copies = 1..Len(raw)
  <2>1. copies = [i \in 1..Len(raw) |-> copies[i]] /\ Len(raw) \in Nat BY <1>1
  <2> QED BY <2>1, <1>2
<1>4. Distinct(copies)
  <2> SUFFICES ASSUME NEW i \in 1..Len(raw), NEW j \in 1..Len(raw),
                      copies[i].id = copies[j].id \/ Identity(copies[i]) = Identity(copies[j])
               PROVE  i = j
    BY <1>3 DEF Distinct
  <2>1. raw[i].id = raw[j].id BY <1>2 DEF Identity
  <2> QED BY <2>1, <1>1 DEF Distinct
<1>6. \A d \in Range(copies) : d.areaName = Get(areas, d.area) BY <1>2, <1>3 DEF Range
<1>7. Ids(copies) = Ids(raw)
  <2>1. Ids(copies) = {copies[i].id : i \in 1..Len(raw)} BY <1>3 DEF Ids, Range
  <2>2. Ids(raw) = {raw[i].id : i \in 1..Len(raw)} BY <1>1 DEF Ids, Range
  <2> QED BY <2>1, <2>2, <1>2
<1> QED BY <1>3, <1>4, <1>6, <1>7 DEF copies

(* Copied entities are entities.                                           *)
LEMMA EntityCopiesFacts ==
  ASSUME NEW raw \in Seq(Entity), NEW devices, NEW areas, NamedApart(areas)
  PROVE  EntityCopies(raw, devices, areas) \in Seq(Entity)
<1> DEFINE area(e) == IF e.area = None /\ e.device \in DOMAIN devices
                        THEN devices[e.device].area ELSE e.area
           copies == EntityCopies(raw, devices, areas)
<1>1. /\ copies = [i \in 1..Len(raw) |-> [raw[i] EXCEPT !.areaName = Get(areas, area(raw[i]))]]
      /\ DOMAIN raw = 1..Len(raw)
  BY DEF EntityCopies
<1> HIDE DEF area, copies
<1>2. ASSUME NEW i \in 1..Len(raw) PROVE copies[i] \in Entity
  <2>1. raw[i] \in Entity BY <1>1
  <2>2. Get(areas, area(raw[i])) \in Optional BY GetText
  <2>3. copies[i] = [raw[i] EXCEPT !.areaName = Get(areas, area(raw[i]))] BY <1>1
  <2> QED BY <2>1, <2>2, <2>3 DEF Entity
<1> QED BY <1>1, <1>2 DEF copies

---------------------------------------------------------------------------
(* Initially and after each action. *)

(* What a home holds first, and its copies.                                *)
LEMMA InitFacts == Init => IInv
<1> SUFFICES ASSUME Init PROVE IInv OBVIOUS
<1> DEFINE devices == DeviceCopies(ha.devices, ha.areas)
<1>1. IsHome(ha) BY HomesAssumption DEF Init
<1>2. PICK kept \in Kept :
        server = [devices |-> devices, areas |-> ha.areas,
                  entities |-> EntityCopies(ha.entities, ById(devices), ha.areas),
                  engine |-> Compile(Policies, ha.areas),
                  flags |-> [k \in Kind |-> {}], exceptions |-> kept]
  BY DEF Init
<1>3. /\ devices \in Seq(Device) /\ Distinct(devices)
      /\ \A d \in Range(devices) : d.areaName = Get(ha.areas, d.area)
  BY <1>1, DeviceCopiesFacts DEF IsHome
<1> HIDE DEF devices
<1>4. EntityCopies(ha.entities, ById(devices), ha.areas) \in Seq(Entity)
  BY <1>1, EntityCopiesFacts DEF IsHome
<1>5. GoneOK BY DEF GoneOK, Init, Kind
<1>6. ServerOK BY <1>1, <1>2, <1>3, <1>4 DEF ServerOK, IsHome
<1>7. EngineOK BY <1>2 DEF EngineOK
<1>8. KeysOK BY <1>2, KeptAssumption DEF KeysOK
<1>9. ReturnsFlagged BY DEF ReturnsFlagged, Init, Kind
<1> QED BY <1>1, <1>5, <1>6, <1>7, <1>8, <1>9 DEF IInv

(* One of a list is changed, and keeps what it is known by. *)
LEMMA ReplacedFacts ==
  ASSUME NEW T, NEW items \in Seq(T), NEW areas, Distinct(items), Housed(items, areas),
         NEW i \in DOMAIN items, NEW x \in T, x.area \in DOMAIN areas \cup {None},
         \A j \in DOMAIN items \ {i} : x.id # items[j].id /\ Identity(x) # Identity(items[j])
  PROVE  LET new == [items EXCEPT ![i] = x] IN
         new \in Seq(T) /\ Distinct(new) /\ Housed(new, areas)
<1> DEFINE new == [items EXCEPT ![i] = x]
<1>1. /\ new \in Seq(T) /\ DOMAIN new = DOMAIN items
      /\ \A j \in DOMAIN items : new[j] = IF j = i THEN x ELSE items[j]
  OBVIOUS
<1> HIDE DEF new
<1>2. Distinct(new) BY <1>1 DEF Distinct
<1>3. Housed(new, areas) BY <1>1 DEF Housed, Range
<1> QED BY <1>1, <1>2, <1>3 DEF new

(* What only changes Home Assistant's lists. *)
LEMMA HomeStep ==
  ASSUME IInv, IsHome(ha'), UNCHANGED <<server, deleted>>, GoneOK'
  PROVE  IInv'
BY DEF IInv, ServerOK, EngineOK, KeysOK, ReturnsFlagged

(* The user names a device, or moves it to another room.                   *)
LEMMA DeviceEditedKeeps == ASSUME IInv, DeviceEdited PROVE IInv'
<1>1. PICK i \in DOMAIN ha.devices :
        \/ \E a \in DOMAIN ha.areas \cup {None} : ha' = [ha EXCEPT !.devices[i].area = a]
        \/ \E n \in NewNames : ha' = [ha EXCEPT !.devices[i].byUser = n]
  BY DEF DeviceEdited
<1>2. /\ IsHome(ha) /\ ha.devices \in Seq(Device) /\ Distinct(ha.devices)
      /\ Housed(ha.devices, ha.areas) /\ NamedApart(ha.areas)
      /\ DOMAIN ha = {"areas", "devices", "entities"}
  BY DEF IInv, IsHome
<1>3. ha.devices[i] \in Device /\ ha.devices[i].area \in DOMAIN ha.areas \cup {None}
  BY <1>2 DEF Housed, Range
<1>4. PICK x \in Device :
        /\ x.id = ha.devices[i].id /\ x.area \in DOMAIN ha.areas \cup {None}
        /\ ha' = [ha EXCEPT !.devices = [ha.devices EXCEPT ![i] = x]]
  <2>1. CASE \E a \in DOMAIN ha.areas \cup {None} : ha' = [ha EXCEPT !.devices[i].area = a]
    <3>1. PICK a \in DOMAIN ha.areas \cup {None} : ha' = [ha EXCEPT !.devices[i].area = a] BY <2>1
    <3> DEFINE x == [ha.devices[i] EXCEPT !.area = a]
    <3>2. a \in Optional BY <1>2 DEF NamedApart, Optional
    <3>3. x \in Device /\ x.id = ha.devices[i].id /\ x.area = a
      BY <1>3, <3>2 DEF Device
    <3>4. ha' = [ha EXCEPT !.devices = [ha.devices EXCEPT ![i] = x]] BY <3>1, <1>2
    <3> HIDE DEF x
    <3> QED BY <3>3, <3>4
  <2>2. CASE \E n \in NewNames : ha' = [ha EXCEPT !.devices[i].byUser = n]
    <3>1. PICK n \in NewNames : ha' = [ha EXCEPT !.devices[i].byUser = n] BY <2>2
    <3> DEFINE x == [ha.devices[i] EXCEPT !.byUser = n]
    <3>2. n \in Optional BY NewAssumption DEF Optional
    <3>3. x \in Device /\ x.id = ha.devices[i].id /\ x.area = ha.devices[i].area
      BY <1>3, <3>2 DEF Device
    <3>4. ha' = [ha EXCEPT !.devices = [ha.devices EXCEPT ![i] = x]] BY <3>1, <1>2
    <3> HIDE DEF x
    <3> QED BY <1>3, <3>3, <3>4
  <2> QED BY <1>1, <2>1, <2>2
<1> DEFINE new == [ha.devices EXCEPT ![i] = x]
<1>5. /\ DOMAIN ha' = DOMAIN ha /\ ha'.areas = ha.areas /\ ha'.entities = ha.entities
      /\ ha'.devices = new
  BY <1>2, <1>4
<1>6. \A j \in DOMAIN ha.devices \ {i} : x.id # ha.devices[j].id /\ Identity(x) # Identity(ha.devices[j])
  <2>1. \A j \in DOMAIN ha.devices : ha.devices[j] \in Device BY <1>2
  <2> QED BY <1>2, <1>4, <2>1, DeviceFields DEF Distinct, Identity
<1>7. new \in Seq(Device) /\ Distinct(new) /\ Housed(new, ha.areas)
  BY <1>2, <1>4, <1>6, ReplacedFacts
<1> HIDE DEF new
<1>8. IsHome(ha') BY <1>2, <1>5, <1>7 DEF IsHome
<1>9. GoneOK' BY <1>5 DEF IInv, GoneOK, DeviceEdited
<1> QED BY <1>8, <1>9, HomeStep DEF DeviceEdited, Change

(* The user names an entity, moves it, disables it or changes its          *)
(* entity_id.                                                              *)
LEMMA EntityEditedKeeps == ASSUME IInv, EntityEdited PROVE IInv'
<1> DEFINE With(x, i) == ha' = [ha EXCEPT !.entities = [ha.entities EXCEPT ![i] = x]]
<1>1. PICK i \in DOMAIN ha.entities :
        \/ \E a \in DOMAIN ha.areas \cup {None} : ha' = [ha EXCEPT !.entities[i].area = a]
        \/ \E n \in NewNames : ha' = [ha EXCEPT !.entities[i].name = n]
        \/ \E o \in NewIds : /\ \A x \in Range(ha.entities) : x.id.object # o
                             /\ ha' = [ha EXCEPT !.entities[i].id.object = o]
        \/ ha' = [ha EXCEPT !.entities[i].disabled = ~@]
  BY DEF EntityEdited
<1>2. /\ IsHome(ha) /\ ha.entities \in Seq(Entity) /\ Distinct(ha.entities)
      /\ Housed(ha.entities, ha.areas) /\ NamedApart(ha.areas)
      /\ DOMAIN ha = {"areas", "devices", "entities"}
  BY DEF IInv, IsHome
<1> DEFINE e == ha.entities[i]
<1>3. e \in Entity /\ e.area \in DOMAIN ha.areas \cup {None}
  BY <1>2 DEF Housed, Range
<1>4. PICK x \in Entity :
        /\ x.uid = e.uid /\ x.area \in DOMAIN ha.areas \cup {None}
        /\ x.id = e.id \/ \A j \in DOMAIN ha.entities : x.id # ha.entities[j].id
        /\ ha' = [ha EXCEPT !.entities = [ha.entities EXCEPT ![i] = x]]
  <2>1. CASE \E a \in DOMAIN ha.areas \cup {None} : ha' = [ha EXCEPT !.entities[i].area = a]
    <3>1. PICK a \in DOMAIN ha.areas \cup {None} : ha' = [ha EXCEPT !.entities[i].area = a] BY <2>1
    <3> DEFINE x == [e EXCEPT !.area = a]
    <3>2. a \in Optional BY <1>2 DEF NamedApart, Optional
    <3>3. x \in Entity /\ x.uid = e.uid /\ x.id = e.id /\ x.area = a BY <1>3, <3>2 DEF Entity
    <3>4. ha' = [ha EXCEPT !.entities = [ha.entities EXCEPT ![i] = x]] BY <3>1, <1>2
    <3> HIDE DEF x, e
    <3> QED BY <3>3, <3>4
  <2>2. CASE \E n \in NewNames : ha' = [ha EXCEPT !.entities[i].name = n]
    <3>1. PICK n \in NewNames : ha' = [ha EXCEPT !.entities[i].name = n] BY <2>2
    <3> DEFINE x == [e EXCEPT !.name = n]
    <3>2. n \in Optional BY NewAssumption DEF Optional
    <3>3. x \in Entity /\ x.uid = e.uid /\ x.id = e.id /\ x.area = e.area BY <1>3, <3>2 DEF Entity
    <3>4. ha' = [ha EXCEPT !.entities = [ha.entities EXCEPT ![i] = x]] BY <3>1, <1>2
    <3> HIDE DEF x, e
    <3> QED BY <1>3, <3>3, <3>4
  <2>3. CASE \E o \in NewIds : /\ \A x \in Range(ha.entities) : x.id.object # o
                               /\ ha' = [ha EXCEPT !.entities[i].id.object = o]
    <3>1. PICK o \in NewIds : /\ \A x \in Range(ha.entities) : x.id.object # o
                              /\ ha' = [ha EXCEPT !.entities[i].id.object = o]
      BY <2>3
    <3> DEFINE x == [e EXCEPT !.id = [e.id EXCEPT !.object = o]]
    <3>2. o \in Text BY NewAssumption
    <3>3. e.id \in [domain : Text, object : Text] BY <1>3 DEF Entity
    <3>4. [e.id EXCEPT !.object = o] \in [domain : Text, object : Text] BY <3>2, <3>3
    <3>5. /\ x \in Entity /\ x.uid = e.uid /\ x.area = e.area
          /\ x.id = [e.id EXCEPT !.object = o]
      BY <1>3, <3>4 DEF Entity
    <3>6. x.id.object = o BY <3>3, <3>5
    <3>7. ha' = [ha EXCEPT !.entities = [ha.entities EXCEPT ![i] = x]] BY <3>1, <1>2, <1>3, <3>3 DEF Entity
    <3>8. \A j \in DOMAIN ha.entities : ha.entities[j].id.object # o BY <3>1 DEF Range
    <3> HIDE DEF x, e
    <3>9. \A j \in DOMAIN ha.entities : x.id # ha.entities[j].id BY <3>6, <3>8
    <3> QED BY <1>3, <3>5, <3>7, <3>9
  <2>4. CASE ha' = [ha EXCEPT !.entities[i].disabled = ~@]
    <3> DEFINE x == [e EXCEPT !.disabled = ~@]
    <3>3. x \in Entity /\ x.uid = e.uid /\ x.id = e.id /\ x.area = e.area BY <1>3 DEF Entity
    <3>4. ha' = [ha EXCEPT !.entities = [ha.entities EXCEPT ![i] = x]] BY <2>4, <1>2
    <3> HIDE DEF x, e
    <3> QED BY <1>3, <3>3, <3>4
  <2> QED BY <1>1, <2>1, <2>2, <2>3, <2>4
<1> DEFINE new == [ha.entities EXCEPT ![i] = x]
<1>5. /\ DOMAIN ha' = DOMAIN ha /\ ha'.areas = ha.areas /\ ha'.devices = ha.devices
      /\ ha'.entities = new
  BY <1>2, <1>4
<1>6. \A j \in DOMAIN ha.entities \ {i} : x.id # ha.entities[j].id /\ Identity(x) # Identity(ha.entities[j])
  <2>1. \A j \in DOMAIN ha.entities : ha.entities[j] \in Entity BY <1>2
  <2>2. \A y \in Entity : Identity(y) = y.uid BY EntityFields DEF Identity
  <2> QED BY <1>2, <1>4, <2>1, <2>2 DEF Distinct
<1>7. new \in Seq(Entity) /\ Distinct(new) /\ Housed(new, ha.areas)
  BY <1>2, <1>4, <1>6, ReplacedFacts
<1> HIDE DEF new
<1>8. IsHome(ha') BY <1>2, <1>5, <1>7 DEF IsHome
<1>9. GoneOK' BY <1>5 DEF IInv, GoneOK, EntityEdited
<1> QED BY <1>8, <1>9, HomeStep DEF EntityEdited, Change

(* An area more houses what was housed.                                    *)
LEMMA AreaCreatedKeeps == ASSUME IInv, AreaCreated PROVE IInv'
<1>1. PICK a \in DOMAIN NewAreas \ DOMAIN ha.areas :
        /\ Free(NewAreas[a], a)
        /\ ha' = [ha EXCEPT !.areas = [b \in DOMAIN @ \cup {a} |-> IF b = a THEN NewAreas[a] ELSE @[b]]]
  BY DEF AreaCreated
<1>2. IsHome(ha) /\ DOMAIN ha = {"areas", "devices", "entities"} BY DEF IInv, IsHome
<1> DEFINE new == [b \in DOMAIN ha.areas \cup {a} |-> IF b = a THEN NewAreas[a] ELSE ha.areas[b]]
<1>3. /\ DOMAIN ha' = DOMAIN ha /\ ha'.areas = new
      /\ ha'.devices = ha.devices /\ ha'.entities = ha.entities
  BY <1>1, <1>2
<1>4. /\ DOMAIN new = DOMAIN ha.areas \cup {a} /\ new[a] = NewAreas[a]
      /\ \A b \in DOMAIN ha.areas : new[b] = ha.areas[b]
  BY <1>1
<1> HIDE DEF new
<1>5. NamedApart(new)
  <2>1. a \in Text /\ NewAreas[a] \in Text BY <1>1, NewAssumption DEF Range
  <2>2. NamedApart(ha.areas) BY <1>2 DEF IsHome
  <2>3. DOMAIN new \subseteq Text BY <1>4, <2>1, <2>2 DEF NamedApart
  <2>4. Range(new) \subseteq Text BY <1>4, <2>1, <2>2 DEF NamedApart, Range
  <2>5. \A b, c \in DOMAIN new : Lower(new[b]) = Lower(new[c]) => b = c
    BY <1>1, <1>4, <2>2 DEF NamedApart, Free
  <2> QED BY <2>3, <2>4, <2>5 DEF NamedApart
<1>6. IsHome(ha') BY <1>2, <1>3, <1>4, <1>5 DEF IsHome, Housed
<1>7. GoneOK' BY <1>3, <1>4 DEF IInv, GoneOK, AreaCreated
<1> QED BY <1>6, <1>7, HomeStep DEF AreaCreated, Change

(* An area is renamed and keeps its id.                                    *)
LEMMA AreaRenamedKeeps == ASSUME IInv, AreaRenamed PROVE IInv'
<1>1. PICK a \in DOMAIN ha.areas, n \in NewNames : Free(n, a) /\ ha' = [ha EXCEPT !.areas[a] = n]
  BY DEF AreaRenamed
<1>2. IsHome(ha) /\ DOMAIN ha = {"areas", "devices", "entities"} /\ NamedApart(ha.areas)
  BY DEF IInv, IsHome
<1> DEFINE new == [ha.areas EXCEPT ![a] = n]
<1>3. /\ DOMAIN ha' = DOMAIN ha /\ ha'.areas = new
      /\ ha'.devices = ha.devices /\ ha'.entities = ha.entities
  BY <1>1, <1>2
<1>4. /\ DOMAIN new = DOMAIN ha.areas /\ new[a] = n
      /\ \A b \in DOMAIN ha.areas \ {a} : new[b] = ha.areas[b]
  OBVIOUS
<1> HIDE DEF new
<1>5. NamedApart(new)
  <2>1. n \in Text BY NewAssumption
  <2>2. DOMAIN new \subseteq Text BY <1>2, <1>4 DEF NamedApart
  <2>3. \A b \in DOMAIN ha.areas : ha.areas[b] \in Text BY <1>2 DEF NamedApart, Range
  <2>4. Range(new) \subseteq Text BY <1>4, <2>1, <2>3 DEF Range
  <2>5. \A b, c \in DOMAIN new : Lower(new[b]) = Lower(new[c]) => b = c
    BY <1>1, <1>2, <1>4 DEF NamedApart, Free
  <2> QED BY <2>2, <2>4, <2>5 DEF NamedApart
<1>6. IsHome(ha') BY <1>2, <1>3, <1>4, <1>5 DEF IsHome, Housed
<1>7. GoneOK' BY <1>3, <1>4 DEF IInv, GoneOK, AreaRenamed
<1> QED BY <1>6, <1>7, HomeStep DEF AreaRenamed, Change

(* What was in the area that goes is in none.                              *)
LEMMA MovedFacts ==
  ASSUME NEW T, T = Device \/ T = Entity, NEW areas, NEW a,
         NEW x \in T, x.area \in DOMAIN areas \cup {None}
  PROVE  LET y == Moved(x, a) IN
         /\ y \in T /\ y.id = x.id /\ Identity(y) = Identity(x)
         /\ y.area \in (DOMAIN areas \ {a}) \cup {None}
<1> DEFINE to == IF x.area = a THEN None ELSE x.area
           y == [x EXCEPT !.area = to]
<1>1. Moved(x, a) = y BY DEF Moved
<1>2. to \in (DOMAIN areas \ {a}) \cup {None} OBVIOUS
<1>3. CASE T = Device
  <2>1. to \in Optional BY <1>3, DeviceFields DEF Optional
  <2> HIDE DEF to
  <2>2. y \in Device /\ y.id = x.id /\ y.kind = x.kind /\ y.area = to BY <1>3, <2>1 DEF Device
  <2>3. Identity(y) = Identity(x) BY <1>3, <2>2, DeviceFields DEF Identity
  <2> QED BY <1>1, <1>2, <1>3, <2>2, <2>3
<1>4. CASE T = Entity
  <2>1. to \in Optional BY <1>4, EntityFields DEF Optional
  <2> HIDE DEF to
  <2>2. y \in Entity /\ y.id = x.id /\ y.uid = x.uid /\ y.area = to BY <1>4, <2>1 DEF Entity
  <2>3. Identity(y) = Identity(x) BY <1>4, <2>2, EntityFields DEF Identity
  <2> QED BY <1>1, <1>2, <1>4, <2>2, <2>3
<1> QED BY <1>3, <1>4

(* A list whose items are taken out of an area.                            *)
MovedOut(items, a) == [i \in DOMAIN items |-> Moved(items[i], a)]

(* Its items are those that were there, in the areas that are left.        *)
LEMMA MovedOutFacts ==
  ASSUME NEW T, T = Device \/ T = Entity, NEW areas, NEW a,
         NEW items \in Seq(T), Distinct(items), Housed(items, areas)
  PROVE  /\ MovedOut(items, a) \in Seq(T) /\ Distinct(MovedOut(items, a))
         /\ \A x \in Range(MovedOut(items, a)) : x.area \in (DOMAIN areas \ {a}) \cup {None}
<1> DEFINE new == MovedOut(items, a)
<1>1. DOMAIN items = 1..Len(items) /\ Len(items) \in Nat OBVIOUS
<1>2. DOMAIN new = 1..Len(items) /\ \A i \in 1..Len(items) : new[i] = Moved(items[i], a) BY <1>1 DEF MovedOut
<1>3. new = [i \in 1..Len(items) |-> new[i]] BY <1>1 DEF MovedOut
<1> HIDE DEF new
<1>4. ASSUME NEW i \in 1..Len(items)
      PROVE  /\ new[i] \in T /\ new[i].id = items[i].id
             /\ Identity(new[i]) = Identity(items[i])
             /\ new[i].area \in (DOMAIN areas \ {a}) \cup {None}
  <2> DEFINE x == items[i]
  <2>1. x \in T /\ x.area \in DOMAIN areas \cup {None} BY <1>1 DEF Housed, Range
  <2>2. new[i] = Moved(x, a) BY <1>2
  <2> HIDE DEF x
  <2>3. /\ Moved(x, a) \in T /\ Moved(x, a).id = x.id /\ Identity(Moved(x, a)) = Identity(x)
        /\ Moved(x, a).area \in (DOMAIN areas \ {a}) \cup {None}
    BY <2>1, MovedFacts
  <2> QED BY <2>2, <2>3 DEF x
<1>5. new \in Seq(T) BY <1>1, <1>3, <1>4
<1>6. Distinct(new) BY <1>1, <1>2, <1>4 DEF Distinct
<1>7. \A x \in Range(new) : x.area \in (DOMAIN areas \ {a}) \cup {None} BY <1>2, <1>4 DEF Range
<1> QED BY <1>5, <1>6, <1>7 DEF new

(* An area is removed with everything taken out of it.                     *)
LEMMA AreaRemovedKeeps == ASSUME IInv, AreaRemoved PROVE IInv'
<1> DEFINE less(a) == [b \in DOMAIN ha.areas \ {a} |-> ha.areas[b]]
<1>1. PICK a \in DOMAIN ha.areas :
        /\ ha' = [areas |-> less(a), devices |-> MovedOut(ha.devices, a),
                  entities |-> MovedOut(ha.entities, a)]
        /\ gone' = [k \in Kind |-> {Moved(x, a) : x \in gone[k]}]
  BY DEF AreaRemoved, MovedOut
<1>2. /\ IsHome(ha) /\ NamedApart(ha.areas)
      /\ ha.devices \in Seq(Device) /\ Distinct(ha.devices) /\ Housed(ha.devices, ha.areas)
      /\ ha.entities \in Seq(Entity) /\ Distinct(ha.entities) /\ Housed(ha.entities, ha.areas)
  BY DEF IInv, IsHome
<1>3. /\ MovedOut(ha.devices, a) \in Seq(Device) /\ Distinct(MovedOut(ha.devices, a))
      /\ \A x \in Range(MovedOut(ha.devices, a)) : x.area \in (DOMAIN ha.areas \ {a}) \cup {None}
  BY <1>2, MovedOutFacts
<1>4. /\ MovedOut(ha.entities, a) \in Seq(Entity) /\ Distinct(MovedOut(ha.entities, a))
      /\ \A x \in Range(MovedOut(ha.entities, a)) : x.area \in (DOMAIN ha.areas \ {a}) \cup {None}
  BY <1>2, MovedOutFacts
<1>5. DOMAIN less(a) = DOMAIN ha.areas \ {a} /\ NamedApart(less(a)) BY <1>2 DEF NamedApart, Range
<1> HIDE DEF less
<1>6. IsHome(ha') BY <1>1, <1>3, <1>4, <1>5 DEF IsHome, Housed
<1>7. GoneOK'
  <2>1. ASSUME NEW k \in Kind, NEW x \in gone'[k]
        PROVE  /\ k = "device" => x \in Device
               /\ k = "entity" => x \in Entity
               /\ x.area \in DOMAIN less(a) \cup {None}
    <3>1. PICK y \in gone[k] : x = Moved(y, a) BY <1>1, <2>1
    <3>2. /\ k = "device" => y \in Device
          /\ k = "entity" => y \in Entity
          /\ y.area \in DOMAIN ha.areas \cup {None}
      BY <3>1 DEF IInv, GoneOK, Kind
    <3>3. CASE k = "device"
      <4>1. x \in Device /\ x.area \in (DOMAIN ha.areas \ {a}) \cup {None}
        BY <3>1, <3>2, <3>3, MovedFacts
      <4> QED BY <3>3, <4>1, <1>5
    <3>4. CASE k = "entity"
      <4>1. x \in Entity /\ x.area \in (DOMAIN ha.areas \ {a}) \cup {None}
        BY <3>1, <3>2, <3>4, MovedFacts
      <4> QED BY <3>4, <4>1, <1>5
    <3> QED BY <3>3, <3>4 DEF Kind
  <2>2. DOMAIN gone' = Kind /\ ha'.areas = less(a) BY <1>1
  <2> QED BY <2>1, <2>2 DEF GoneOK, Kind
<1> QED BY <1>6, <1>7, HomeStep DEF AreaRemoved, Change

(* A list with one less is still one of distinct items.                    *)
LEMMA RemoveAtFacts ==
  ASSUME NEW T, NEW items \in Seq(T), NEW areas, Distinct(items), Housed(items, areas),
         NEW i \in DOMAIN items
  PROVE  LET new == RemoveAt(items, i) IN
         new \in Seq(T) /\ Distinct(new) /\ Housed(new, areas)
<1> DEFINE new == RemoveAt(items, i)
<1>1. /\ new \in Seq(T) /\ Len(new) = Len(items) - 1
      /\ \A j \in 1..Len(new) : new[j] = IF j < i THEN items[j] ELSE items[j + 1]
  <2> DEFINE front == SubSeq(items, 1, i - 1)
             back  == SubSeq(items, i + 1, Len(items))
  <2>1. i \in 1..Len(items) /\ Len(items) \in Nat OBVIOUS
  <2>2. front \in Seq(T) /\ Len(front) = i - 1 /\ \A j \in 1..(i - 1) : front[j] = items[j]
    BY <2>1
  <2>3. /\ back \in Seq(T) /\ Len(back) = Len(items) - i
        /\ \A j \in 1..(Len(items) - i) : back[j] = items[i + j]
    BY <2>1
  <2>4. new = front \o back BY DEF RemoveAt
  <2> HIDE DEF new, front, back
  <2> QED BY <2>1, <2>2, <2>3, <2>4
<1> HIDE DEF new
<1>2. DOMAIN new = 1..Len(new) /\ DOMAIN items = 1..Len(items) BY <1>1
<1> DEFINE at(j) == IF j < i THEN j ELSE j + 1
<1>3. \A j \in DOMAIN new : at(j) \in DOMAIN items /\ new[j] = items[at(j)] BY <1>1, <1>2
<1>4. \A j, k \in DOMAIN new : at(j) = at(k) => j = k BY <1>2
<1> HIDE DEF at
<1>5. Distinct(new) BY <1>3, <1>4 DEF Distinct
<1>6. Housed(new, areas) BY <1>3 DEF Housed, Range
<1> QED BY <1>1, <1>5, <1>6 DEF new

(* So is one with one more, unlike the others.                             *)
LEMMA AppendFacts ==
  ASSUME NEW T, NEW items \in Seq(T), NEW areas, Distinct(items), Housed(items, areas),
         NEW x \in T, x.area \in DOMAIN areas \cup {None},
         \A y \in Range(items) : y.id # x.id /\ Identity(y) # Identity(x)
  PROVE  LET new == Append(items, x) IN
         new \in Seq(T) /\ Distinct(new) /\ Housed(new, areas)
<1> DEFINE new == Append(items, x)
<1>1. /\ new \in Seq(T) /\ DOMAIN new = 1..(Len(items) + 1) /\ DOMAIN items = 1..Len(items)
      /\ \A j \in DOMAIN items : new[j] = items[j]
      /\ new[Len(items) + 1] = x /\ Len(items) \in Nat
  OBVIOUS
<1> HIDE DEF new
<1>2. \A j \in DOMAIN new : j \in DOMAIN items \/ j = Len(items) + 1 BY <1>1
<1>3. \A j \in DOMAIN items : items[j].id # x.id /\ Identity(items[j]) # Identity(x) BY DEF Range
<1>4. Distinct(new) BY <1>1, <1>2, <1>3 DEF Distinct
<1>5. Housed(new, areas) BY <1>1, <1>2 DEF Housed, Range
<1> QED BY <1>1, <1>4, <1>5 DEF new

(* An item goes, and may come back as it was.                              *)
LEMMA RemovedKeeps == ASSUME IInv, NEW k \in Kind, Removed(k) PROVE IInv'
<1>1. PICK i \in DOMAIN ha[List[k]] :
        /\ gone' = [gone EXCEPT ![k] = @ \cup {ha[List[k]][i]}]
        /\ ha' = [ha EXCEPT ![List[k]] = RemoveAt(@, i)]
  BY DEF Removed
<1>2. IsHome(ha) /\ DOMAIN ha = {"areas", "devices", "entities"} BY DEF IInv, IsHome
<1> DEFINE list == ha[List[k]]
           T == IF k = "device" THEN Device ELSE Entity
<1>3. list \in Seq(T) /\ Distinct(list) /\ Housed(list, ha.areas)
  BY <1>2 DEF IsHome, List, Kind
<1> HIDE DEF T
<1>4. RemoveAt(list, i) \in Seq(T) /\ Distinct(RemoveAt(list, i)) /\ Housed(RemoveAt(list, i), ha.areas)
  BY <1>3, RemoveAtFacts
<1>5. /\ DOMAIN ha' = DOMAIN ha /\ ha'.areas = ha.areas
      /\ k = "device" => ha'.devices = RemoveAt(list, i) /\ ha'.entities = ha.entities
      /\ k = "entity" => ha'.entities = RemoveAt(list, i) /\ ha'.devices = ha.devices
  BY <1>1, <1>2 DEF List, Kind
<1>6. IsHome(ha')
  <2>1. CASE k = "device" BY <2>1, <1>2, <1>4, <1>5 DEF IsHome, T
  <2>2. CASE k = "entity" BY <2>2, <1>2, <1>4, <1>5 DEF IsHome, T
  <2> QED BY <2>1, <2>2 DEF Kind
<1>7. list[i] \in T /\ list[i].area \in DOMAIN ha.areas \cup {None}
  BY <1>3 DEF Housed, Range
<1> HIDE DEF list
<1>8. GoneOK'
  <2>1. /\ DOMAIN gone = Kind
        /\ gone["device"] \subseteq Device /\ gone["entity"] \subseteq Entity
        /\ \A m \in Kind : \A x \in gone[m] : x.area \in DOMAIN ha.areas \cup {None}
    BY DEF IInv, GoneOK
  <2>2. gone' = [gone EXCEPT ![k] = @ \cup {list[i]}] BY <1>1 DEF list
  <2> QED BY <1>5, <1>7, <2>1, <2>2 DEF GoneOK, T, Kind
<1> QED BY <1>6, <1>8, HomeStep DEF Removed, Change

(* It comes back: nothing has taken its id meanwhile.                      *)
LEMMA CameBackKeeps == ASSUME IInv, NEW k \in Kind, CameBack(k) PROVE IInv'
<1>1. PICK x \in gone[k] :
        /\ \A y \in Range(ha[List[k]]) : y.id # x.id /\ Identity(y) # Identity(x)
        /\ ha' = [ha EXCEPT ![List[k]] = Append(@, x)]
  BY DEF CameBack
<1>2. IsHome(ha) /\ DOMAIN ha = {"areas", "devices", "entities"} BY DEF IInv, IsHome
<1> DEFINE list == ha[List[k]]
           T == IF k = "device" THEN Device ELSE Entity
<1>3. list \in Seq(T) /\ Distinct(list) /\ Housed(list, ha.areas)
  BY <1>2 DEF IsHome, List, Kind
<1>4. x \in T /\ x.area \in DOMAIN ha.areas \cup {None} BY DEF IInv, GoneOK, Kind
<1> HIDE DEF T
<1>5. Append(list, x) \in Seq(T) /\ Distinct(Append(list, x)) /\ Housed(Append(list, x), ha.areas)
  BY <1>1, <1>3, <1>4, AppendFacts
<1>6. /\ DOMAIN ha' = DOMAIN ha /\ ha'.areas = ha.areas
      /\ k = "device" => ha'.devices = Append(list, x) /\ ha'.entities = ha.entities
      /\ k = "entity" => ha'.entities = Append(list, x) /\ ha'.devices = ha.devices
  BY <1>1, <1>2 DEF List, Kind
<1>7. IsHome(ha')
  <2>1. CASE k = "device" BY <2>1, <1>2, <1>5, <1>6 DEF IsHome, T
  <2>2. CASE k = "entity" BY <2>2, <1>2, <1>5, <1>6 DEF IsHome, T
  <2> QED BY <2>1, <2>2 DEF Kind
<1>8. GoneOK' BY <1>6 DEF IInv, GoneOK, CameBack
<1> QED BY <1>7, <1>8, HomeStep DEF CameBack, Change

(* What changes only the cached areas or the compiled rules. *)
LEMMA CacheStep ==
  ASSUME IInv, NEW areas, NEW engine, NamedApart(areas),
         server' = [server EXCEPT !.areas = areas, !.engine = engine],
         UNCHANGED <<ha, gone, deleted>>,
         \E names : engine = Compile(Policies, names)
  PROVE  IInv'
<1>1. DOMAIN server = {"devices", "areas", "entities", "engine", "flags", "exceptions"}
  BY DEF IInv, ServerOK
<1>2. /\ DOMAIN server' = DOMAIN server /\ server'.devices = server.devices
      /\ server'.areas = areas /\ server'.engine = engine
      /\ server'.entities = server.entities /\ server'.flags = server.flags
      /\ server'.exceptions = server.exceptions
  BY <1>1
<1>3. IsHome(ha)' /\ GoneOK' BY DEF IInv, GoneOK
<1>4. ServerOK' BY <1>2 DEF ServerOK, IInv
<1>5. EngineOK' /\ KeysOK' BY <1>2 DEF EngineOK, KeysOK, IInv
<1>6. ReturnsFlagged' BY <1>2 DEF ReturnsFlagged, IInv
<1> QED BY <1>3, <1>4, <1>5, <1>6 DEF IInv

(* The areas of a refresh arrive.                                          *)
LEMMA RefreshAreasKeeps == ASSUME IInv, RefreshAreas PROVE IInv'
<1>1. server' = [server EXCEPT !.areas = ha.areas, !.engine = server.engine]
  BY DEF RefreshAreas, IInv, ServerOK
<1>2. NamedApart(ha.areas) BY DEF IInv, IsHome
<1>3. \E names : server.engine = Compile(Policies, names) BY DEF IInv, EngineOK
<1> QED BY <1>1, <1>2, <1>3, CacheStep DEF RefreshAreas

(* The rules are compiled again.                                           *)
LEMMA RecompileKeeps == ASSUME IInv, Recompile PROVE IInv'
<1>1. server' = [server EXCEPT !.areas = server.areas, !.engine = Compile(Policies, server.areas)]
  BY DEF Recompile, IInv, ServerOK
<1>2. NamedApart(server.areas) BY DEF IInv, ServerOK
<1> QED BY <1>1, <1>2, CacheStep DEF Recompile

(* The device cache is filled anew and the tracker flags what returned.    *)
LEMMA RefreshDevicesKeeps == ASSUME IInv, RefreshDevices PROVE IInv'
<1> DEFINE devices == DeviceCopies(ha.devices, server.areas)
           flags   == Flagged("device", devices)
           new     == deleted["device"] \cup Deleted(server.devices, devices)
<1>1. /\ server' = [server EXCEPT !.devices = devices, !.flags.device = flags]
      /\ deleted' = [deleted EXCEPT !.device = new]
      /\ UNCHANGED <<ha, gone, changes>>
  BY DEF RefreshDevices
<1>2. /\ devices \in Seq(Device) /\ Distinct(devices)
      /\ \A d \in Range(devices) : d.areaName = Get(server.areas, d.area)
  BY DeviceCopiesFacts DEF IInv, IsHome, ServerOK
<1> HIDE DEF devices, flags, new
<1>3. /\ DOMAIN server = {"devices", "areas", "entities", "engine", "flags", "exceptions"}
      /\ DOMAIN server.flags = Kind /\ "device" \in Kind /\ DOMAIN deleted = Kind
      /\ server.entities \in Seq(Entity) /\ NamedApart(server.areas)
      /\ server.devices \in Seq(Device)
  BY DEF IInv, ServerOK, ReturnsFlagged, Kind
<1>4. /\ DOMAIN server' = DOMAIN server /\ server'.devices = devices /\ server'.areas = server.areas
      /\ server'.engine = server.engine /\ server'.entities = server.entities
      /\ server'.exceptions = server.exceptions
      /\ DOMAIN server'.flags = Kind /\ server'.flags["device"] = flags
      /\ DOMAIN deleted' = Kind /\ deleted'["device"] = new
  BY <1>1, <1>3
<1>5. IsHome(ha)' /\ GoneOK' BY <1>1 DEF IInv, GoneOK
<1>6. ServerOK' BY <1>2, <1>3, <1>4 DEF ServerOK
<1>7. EngineOK' BY <1>4 DEF IInv, EngineOK
<1>8. KeysOK' BY <1>4 DEF KeysOK, IInv
<1>9. ReturnsFlagged'
  <2>6. new \cap Unidentified = {}
    <3>1. \A x \in Range(server.devices) : Identity(x) = x.id /\ x.kind = "device"
      BY <1>3, DeviceFields DEF Identity, Range
    <3>2. Went(server.devices, devices) \cap Unidentified = {} BY <3>1 DEF Went, Identified
    <3> QED BY <3>2 DEF new, Deleted, IInv, ReturnsFlagged
  <2> SUFFICES ASSUME NEW d \in Range(devices), d.id \in new PROVE d.id \in flags
    BY <1>4, <2>6 DEF ReturnsFlagged
  <2>1. Identity(d) = d.id /\ Identified(d)
    <3>1. d \in Device BY <1>2 DEF Range
    <3> QED BY <3>1, <2>6, DeviceFields DEF Identity, Identified
  <2>2. d.id \in Ids(devices) BY DEF Ids
  <2>3. d.id \in deleted["device"] BY <2>1 DEF new, Deleted
  <2>4. CASE d.id \in Ids(server.devices)
    <3>1. d.id \in server.flags["device"] BY <2>3, <2>4 DEF IInv, ReturnsFlagged, Ids
    <3> QED BY <3>1, <2>2 DEF flags, Flagged
  <2>5. CASE d.id \notin Ids(server.devices)
    <3>1. d.id \in Back("device", server.devices, devices) BY <2>1, <2>3, <2>5 DEF Back
    <3> QED BY <3>1, <2>2 DEF flags, Flagged, List
  <2> QED BY <2>4, <2>5
<1> QED BY <1>5, <1>6, <1>7, <1>8, <1>9 DEF IInv

(* The entity cache is filled anew from the cached devices.                *)
LEMMA RefreshEntitiesKeeps == ASSUME IInv, RefreshEntities PROVE IInv'
<1> DEFINE entities == EntityCopies(ha.entities, ById(server.devices), server.areas)
           flags    == Flagged("entity", entities)
           new      == deleted["entity"] \cup Deleted(server.entities, entities)
<1>1. /\ server' = [server EXCEPT !.entities = entities, !.flags.entity = flags]
      /\ deleted' = [deleted EXCEPT !.entity = new]
      /\ UNCHANGED <<ha, gone, changes>>
  BY DEF RefreshEntities
<1>2. entities \in Seq(Entity) BY EntityCopiesFacts DEF IInv, IsHome, ServerOK
<1> HIDE DEF entities, flags, new
<1>3. /\ DOMAIN server = {"devices", "areas", "entities", "engine", "flags", "exceptions"}
      /\ DOMAIN server.flags = Kind /\ DOMAIN deleted = Kind
  BY DEF IInv, ServerOK, ReturnsFlagged
<1>4. /\ DOMAIN server' = DOMAIN server /\ server'.devices = server.devices
      /\ server'.areas = server.areas
      /\ server'.engine = server.engine /\ server'.entities = entities
      /\ server'.exceptions = server.exceptions
      /\ DOMAIN server'.flags = Kind /\ server'.flags["device"] = server.flags["device"]
      /\ DOMAIN deleted' = Kind /\ deleted'["device"] = deleted["device"]
  BY <1>1, <1>3 DEF Kind
<1>5. IsHome(ha)' /\ GoneOK' BY <1>1 DEF IInv, GoneOK
<1>6. ServerOK' BY <1>2, <1>4 DEF ServerOK, IInv
<1>7. EngineOK' /\ KeysOK' BY <1>4 DEF EngineOK, KeysOK, IInv
<1>8. ReturnsFlagged' BY <1>4 DEF ReturnsFlagged, IInv
<1> QED BY <1>5, <1>6, <1>7, <1>8 DEF IInv

(* What only changes the exceptions. *)
LEMMA ExceptionsStep ==
  ASSUME IInv, NEW keys, server' = [server EXCEPT !.exceptions = keys],
         UNCHANGED <<ha, gone, deleted>>,
         keys \in Seq(Range(keys)), \A key \in Range(keys) : key = <<key[1], key[2], key[3]>>
  PROVE  IInv'
<1>1. DOMAIN server = {"devices", "areas", "entities", "engine", "flags", "exceptions"}
  BY DEF IInv, ServerOK
<1>2. /\ DOMAIN server' = DOMAIN server /\ server'.devices = server.devices
      /\ server'.areas = server.areas /\ server'.engine = server.engine
      /\ server'.entities = server.entities /\ server'.flags = server.flags
      /\ server'.exceptions = keys
  BY <1>1
<1>3. IsHome(ha)' /\ GoneOK' BY DEF IInv, GoneOK
<1>4. ServerOK' BY <1>2 DEF ServerOK, IInv
<1>5. EngineOK' /\ KeysOK' BY <1>2 DEF EngineOK, KeysOK, IInv
<1>6. ReturnsFlagged' BY <1>2 DEF ReturnsFlagged, IInv
<1> QED BY <1>3, <1>4, <1>5, <1>6 DEF IInv

(* Taking an exception off the list leaves the others.                     *)
LEMMA WithoutFacts ==
  ASSUME NEW keys, keys \in Seq(Range(keys)), NEW key
  PROVE  /\ Without(keys, key) \in Seq(Range(keys))
         /\ Range(Without(keys, key)) = Range(keys) \ {key}
<1> DEFINE I == {n \in DOMAIN keys : keys[n] # key}
<1>1. Keep(keys, I) \in Seq(Range(keys)) /\ Range(Keep(keys, I)) = {keys[i] : i \in I}
  BY KeepFacts
<1> QED BY <1>1 DEF Without, Range

(* A sequence is one of its own elements. *)
LEMMA OwnRange ==
  ASSUME NEW T, NEW s \in Seq(T) PROVE s \in Seq(Range(s)) /\ Range(s) \subseteq T
<1>1. Len(s) \in Nat /\ DOMAIN s = 1..Len(s) /\ s = [i \in 1..Len(s) |-> s[i]] OBVIOUS
<1>2. \A i \in 1..Len(s) : s[i] \in Range(s) BY <1>1 DEF Range
<1>3. s \in Seq(Range(s)) BY <1>1, <1>2
<1> QED BY <1>3 DEF Range

(* An exception is added, once.                                            *)
LEMMA AcknowledgeKeeps == ASSUME IInv, Acknowledge PROVE IInv'
<1>1. PICK key : /\ key = <<key[1], key[2], key[3]>>
                 /\ server' = [server EXCEPT !.exceptions = <<key>> \o Without(@, key)]
  <2>1. PICK row, issue :
          server' = [server EXCEPT !.exceptions =
            <<<<row.item.kind, row.item.id, issue.policy>>>> \o
              Without(@, <<row.item.kind, row.item.id, issue.policy>>)]
    BY DEF Acknowledge
  <2> DEFINE key == <<row.item.kind, row.item.id, issue.policy>>
  <2>2. key = <<key[1], key[2], key[3]>> OBVIOUS
  <2> HIDE DEF key
  <2> QED BY <2>1, <2>2 DEF key
<1> DEFINE old == server.exceptions
           rest == Without(old, key)
           keys == <<key>> \o rest
<1>2. old \in Seq(Range(old)) /\ \A k \in Range(old) : k = <<k[1], k[2], k[3]>>
  BY DEF IInv, KeysOK
<1>3. rest \in Seq(Range(old)) BY <1>2, WithoutFacts
<1> HIDE DEF rest
<1>4. keys \in Seq(Range(old) \cup {key}) BY <1>3
<1>5. server' = [server EXCEPT !.exceptions = keys]
  BY <1>1 DEF IInv, ServerOK, rest
<1> HIDE DEF keys
<1>6. keys \in Seq(Range(keys)) /\ Range(keys) \subseteq Range(old) \cup {key} BY <1>4, OwnRange
<1>7. \A k \in Range(keys) : k = <<k[1], k[2], k[3]>> BY <1>1, <1>2, <1>6
<1> QED BY <1>5, <1>6, <1>7, ExceptionsStep DEF Acknowledge, Change

(* An exception is cleared.                                                *)
LEMMA ClearKeeps == ASSUME IInv, Clear PROVE IInv'
<1>1. PICK key : server' = [server EXCEPT !.exceptions = Without(@, key)] BY DEF Clear
<1> DEFINE old == server.exceptions
           keys == Without(old, key)
<1>2. old \in Seq(Range(old)) /\ \A k \in Range(old) : k = <<k[1], k[2], k[3]>>
  BY DEF IInv, KeysOK
<1>3. keys \in Seq(Range(old)) BY <1>2, WithoutFacts
<1>4. server' = [server EXCEPT !.exceptions = keys] BY <1>1 DEF IInv, ServerOK
<1> HIDE DEF keys
<1>5. keys \in Seq(Range(keys)) /\ Range(keys) \subseteq Range(old) BY <1>3, OwnRange
<1>6. \A k \in Range(keys) : k = <<k[1], k[2], k[3]>> BY <1>2, <1>5
<1> QED BY <1>4, <1>5, <1>6, ExceptionsStep DEF Clear, Change

(* One action after the other.                                             *)
LEMMA NextKeeps == IInv /\ [Next]_vars => IInv'
<1> SUFFICES ASSUME IInv, [Next]_vars PROVE IInv' OBVIOUS
<1>1. CASE UNCHANGED vars
  BY <1>1 DEF vars, IInv, GoneOK, ServerOK, EngineOK, KeysOK, ReturnsFlagged
<1>2. CASE Next
  BY <1>2, DeviceEditedKeeps, EntityEditedKeeps, AreaCreatedKeeps, AreaRenamedKeeps,
     AreaRemovedKeeps, RemovedKeeps, CameBackKeeps, RefreshAreasKeeps, RefreshDevicesKeeps,
     RecompileKeeps, RefreshEntitiesKeeps, AcknowledgeKeeps, ClearKeeps DEF Next
<1> QED BY <1>1, <1>2

(* In every state that edits, removals, returns, refreshes and             *)
(* acknowledgements lead to, Home Assistant's lists hold distinct items in *)
(* areas that exist, the cached devices have their area names of one state *)
(* of the areas, no two cached areas have one name, the rules are the      *)
(* file's, and the flags cover the devices that the tracker saw go and     *)
(* that are cached again.                                                  *)
THEOREM Invariance == Spec => []IInv
BY InitFacts, NextKeeps, PTL DEF Spec

(* Devices that are copied with the cached areas have their names.         *)
LEMMA CurrentFacts ==
  ASSUME IInv, DevicesCurrent, NEW d \in Range(server.devices)
  PROVE  d.areaName = Get(server.areas, d.area) /\ d.area \in DOMAIN server.areas \cup {None}
<1>1. server.devices \in Seq(Device) /\ Distinct(server.devices) /\ NamedApart(server.areas)
  BY DEF IInv, ServerOK
<1>2. \A x \in Range(DeviceCopies(server.devices, server.areas)) : x.areaName = Get(server.areas, x.area)
  BY <1>1, DeviceCopiesFacts
<1> QED BY <1>2 DEF DevicesCurrent, Housed

---------------------------------------------------------------------------
(* What the rows hold. *)

(* A policy is reported.                                                   *)
Blamed(issues, id) == \E i \in issues : i.policy = id

(* It is reported when one of its compiled rules reports.                  *)
LEMMA BlamedFacts ==
  ASSUME NEW engine, NEW x, NEW ctx, NEW id
  PROVE  Blamed(Evaluate(engine, x, ctx), id) <=>
           \E r \in Range(engine) : r.policy.id = id /\ Reports(r, x, ctx)
<1> DEFINE issue(r) == [policy |-> r.policy.id, type |-> r.policy.type,
                        severity |-> r.policy.severity, message |-> Head(Messages(r, x, ctx))]
<1>1. Evaluate(engine, x, ctx) = {issue(r) : r \in {s \in Range(engine) : Reports(s, x, ctx)}}
  BY DEF Evaluate
<1>2. \A r : issue(r).policy = r.policy.id OBVIOUS
<1> HIDE DEF issue
<1> QED BY <1>1, <1>2 DEF Blamed

(* Hydrating a device adds the tracker's flag.                             *)
LEMMA HydratedFacts ==
  ASSUME IInv
  PROVE  /\ DOMAIN Hydrated(server) = DOMAIN server.devices /\ Hydrated(server) \in Seq(Device)
         /\ \A i \in DOMAIN server.devices :
              LET d == server.devices[i]
                  h == Hydrated(server)[i]
              IN  /\ d \in Device /\ h \in Device
                  /\ h = [d EXCEPT !.reappeared = @ \/ d.id \in server.flags.device]
                  /\ h.id = d.id /\ h.area = d.area /\ h.areaName = d.areaName /\ h.kind = "device"
                  /\ h.integration = d.integration /\ h.name = d.name /\ h.byUser = d.byUser
                  /\ h.reappeared = (d.reappeared \/ d.id \in server.flags["device"])
<1>1. server.devices \in Seq(Device) BY DEF IInv, ServerOK
<1>2. Hydrated(server) =
        [i \in DOMAIN server.devices |->
          [server.devices[i] EXCEPT !.reappeared = @ \/ server.devices[i].id \in server.flags.device]]
  BY DEF Hydrated
<1>3. ASSUME NEW i \in DOMAIN server.devices
      PROVE  LET d == server.devices[i]
                 h == Hydrated(server)[i]
             IN  /\ d \in Device /\ h \in Device
                 /\ h = [d EXCEPT !.reappeared = @ \/ d.id \in server.flags.device]
                 /\ h.id = d.id /\ h.area = d.area /\ h.areaName = d.areaName /\ h.kind = "device"
                 /\ h.integration = d.integration /\ h.name = d.name /\ h.byUser = d.byUser
                 /\ h.reappeared = (d.reappeared \/ d.id \in server.flags["device"])
  <2> DEFINE d == server.devices[i]
             h == Hydrated(server)[i]
             b == d.reappeared \/ d.id \in server.flags["device"]
  <2>1. d \in Device BY <1>1
  <2>2. h = [d EXCEPT !.reappeared = b] BY <1>2
  <2>3. b \in BOOLEAN OBVIOUS
  <2> HIDE DEF d, h, b
  <2>4. /\ h \in Device /\ h.id = d.id /\ h.area = d.area /\ h.areaName = d.areaName
        /\ h.kind = "device" /\ h.integration = d.integration /\ h.name = d.name
        /\ h.byUser = d.byUser /\ h.reappeared = b
    BY <2>1, <2>2, <2>3 DEF Device
  <2> QED BY <2>1, <2>2, <2>4 DEF d, h, b
<1>4. Hydrated(server) \in Seq(Device)
  <2>1. /\ Len(server.devices) \in Nat /\ DOMAIN server.devices = 1..Len(server.devices)
    BY <1>1
  <2>2. Hydrated(server) = [i \in 1..Len(server.devices) |-> Hydrated(server)[i]] BY <1>2, <2>1
  <2>3. \A i \in 1..Len(server.devices) : Hydrated(server)[i] \in Device BY <2>1, <1>3
  <2> QED BY <2>1, <2>2, <2>3
<1> QED BY <1>2, <1>3, <1>4

(* A row for each device, with what the rules say of it.                   *)
LEMMA DeviceRowFacts ==
  ASSUME IInv
  PROVE  /\ DeviceRows(server) \in Seq(Range(DeviceRows(server)))
         /\ DOMAIN DeviceRows(server) = DOMAIN server.devices
         /\ \A i \in DOMAIN server.devices :
              /\ DeviceRows(server)[i].item = Hydrated(server)[i]
              /\ DeviceRows(server)[i].issues =
                   Evaluate(server.engine, Hydrated(server)[i], DeviceContext(server))
<1>1. DOMAIN Hydrated(server) = 1..Len(server.devices) /\ Len(server.devices) \in Nat
  BY HydratedFacts DEF IInv, ServerOK
<1>2. DeviceRows(server) = [i \in 1..Len(server.devices) |-> [item |-> Hydrated(server)[i],
        issues |-> Evaluate(server.engine, Hydrated(server)[i], DeviceContext(server))]]
  BY <1>1 DEF DeviceRows, Evaluated
<1>3. DeviceRows(server) \in Seq(Range(DeviceRows(server)))
  <2> DEFINE s == DeviceRows(server)
  <2>1. s = [i \in 1..Len(server.devices) |-> s[i]] BY <1>2
  <2> HIDE DEF s
  <2>2. \A i \in 1..Len(server.devices) : s[i] \in Range(s) BY <2>1 DEF Range
  <2>3. s \in Seq(Range(s)) BY <1>1, <2>1, <2>2
  <2> QED BY <2>3 DEF s
<1> QED BY <1>1, <1>2, <1>3, HydratedFacts

(* A row for each entity, with what the rules say of it.                   *)
LEMMA EntityRowFacts ==
  ASSUME IInv
  PROVE  /\ EntityRows(server) \in Seq(Range(EntityRows(server)))
         /\ DOMAIN EntityRows(server) = DOMAIN server.entities
         /\ \A i \in DOMAIN server.entities :
              /\ server.entities[i] \in Entity
              /\ EntityRows(server)[i].item = server.entities[i]
              /\ EntityRows(server)[i].issues =
                   Evaluate(server.engine, server.entities[i], EntityContext(server))
<1>1. /\ DOMAIN server.entities = 1..Len(server.entities) /\ Len(server.entities) \in Nat
      /\ \A i \in DOMAIN server.entities : server.entities[i] \in Entity
  BY DEF IInv, ServerOK
<1>2. EntityRows(server) = [i \in 1..Len(server.entities) |-> [item |-> server.entities[i],
        issues |-> Evaluate(server.engine, server.entities[i], EntityContext(server))]]
  BY <1>1 DEF EntityRows, Evaluated
<1>3. EntityRows(server) \in Seq(Range(EntityRows(server)))
  <2> DEFINE s == EntityRows(server)
  <2>1. s = [i \in 1..Len(server.entities) |-> s[i]] BY <1>2
  <2> HIDE DEF s
  <2>2. \A i \in 1..Len(server.entities) : s[i] \in Range(s) BY <2>1 DEF Range
  <2>3. s \in Seq(Range(s)) BY <1>1, <2>1, <2>2
  <2> QED BY <2>3 DEF s
<1> QED BY <1>1, <1>2, <1>3

(* A rule for each policy, in the order of the file.                       *)
LEMMA EngineFacts ==
  ASSUME IInv
  PROVE  \E names : /\ DOMAIN server.engine = DOMAIN Policies
                    /\ \A i \in DOMAIN Policies :
                         /\ Policies[i] \in Range(Policies) /\ ValidPolicy(Policies[i])
                         /\ server.engine[i] = CompileRule(Policies[i], names)
                         /\ server.engine[i].policy = Policies[i]
                         /\ server.engine[i].broken = Broken(Policies[i], names)
<1>1. PICK names : server.engine = Compile(Policies, names) BY DEF IInv, EngineOK
<1>2. \A i \in DOMAIN Policies :
        server.engine[i] = CompileRule(Policies[i], names) /\ Policies[i] \in Range(Policies)
  BY <1>1 DEF Compile, Range
<1>3. DOMAIN server.engine = DOMAIN Policies BY <1>1 DEF Compile
<1>4. \A p : CompileRule(p, names).policy = p /\ CompileRule(p, names).broken = Broken(p, names)
  BY DEF CompileRule
<1> QED BY <1>2, <1>3, <1>4, PoliciesAssumption

(* A device that a refresh found gone and a later one found back is        *)
(* reported by every enabled rule for returned devices, unless that is     *)
(* acknowledged (deletion_tracker.py, rules/reappeared_after_delete.py):   *)
(* whatever else changed in between, and in whatever order the caches were *)
(* filled.                                                                 *)
THEOREM ReturnsAreReported == Spec => []DeviceReturnsReported
<1>1. IInv => DeviceReturnsReported
  <2> SUFFICES ASSUME IInv,
                      NEW r \in Range(server.engine), r.policy.type = "reappeared_after_delete",
                      NEW row \in Range(DeviceRows(server)), Identity(row.item) \in deleted["device"],
                      r.policy.scope = "device", r.policy.enabled,
                      <<"device", row.item.id, r.policy.id>> \notin Range(server.exceptions)
               PROVE  \E i \in row.issues : i.policy = r.policy.id
    BY DEF DeviceReturnsReported, ReturnsReported
  <2>1. ~r.broken
    <3>1. PICK names :
            /\ DOMAIN server.engine = DOMAIN Policies
            /\ \A i \in DOMAIN Policies : /\ server.engine[i].policy = Policies[i]
                                          /\ server.engine[i].broken = Broken(Policies[i], names)
      BY EngineFacts
    <3>2. PICK i \in DOMAIN Policies : r = server.engine[i] BY <3>1 DEF Range
    <3>3. r.policy = Policies[i] /\ r.broken = Broken(Policies[i], names) BY <3>1, <3>2
    <3> QED BY <3>3 DEF Broken
  <2>2. PICK i \in DOMAIN server.devices : row = DeviceRows(server)[i]
    BY DeviceRowFacts DEF Range
  <2> DEFINE h == Hydrated(server)[i]
  <2>3. /\ row.item = h /\ row.issues = Evaluate(server.engine, h, DeviceContext(server))
        /\ h \in Device /\ h.kind = "device" /\ h.id = server.devices[i].id
        /\ h.reappeared = (server.devices[i].reappeared \/ h.id \in server.flags["device"])
    BY <2>2, DeviceRowFacts, HydratedFacts
  <2> HIDE DEF h
  <2>4. h.reappeared
    <3>1. h.id \in deleted["device"] BY <2>3 DEF Identity
    <3>2. h.id \in server.flags["device"]
      BY <2>3, <3>1 DEF IInv, ReturnsFlagged, Range
    <3> QED BY <3>2, <2>3
  <2>5. Messages(r, h, DeviceContext(server)) = <<"reappeared_after_delete">> BY <2>4 DEF Messages
  <2>6. DeviceContext(server).exceptions = Range(server.exceptions) BY DEF DeviceContext
  <2>7. Reports(r, h, DeviceContext(server)) BY <2>1, <2>3, <2>5, <2>6 DEF Reports
  <2>8. Blamed(Evaluate(server.engine, h, DeviceContext(server)), r.policy.id)
    BY <2>7, BlamedFacts
  <2> QED BY <2>3, <2>8 DEF Blamed
<1> QED BY <1>1, Invariance, PTL

---------------------------------------------------------------------------
(* The custom rules. *)

(* The ids of the items that a policy is reported of. *)
BlamedIds(items, engine, ctx, id) ==
  {row.item.id : row \in {x \in Range(Evaluated(items, engine, ctx)) : \E i \in x.issues : i.policy = id}}

(* They are those of the items that the policy's rules report.             *)
LEMMA BlamedIdsFacts ==
  ASSUME NEW items, NEW engine, NEW ctx, NEW id
  PROVE  BlamedIds(items, engine, ctx, id) =
           {items[n].id : n \in {m \in DOMAIN items :
              \E r \in Range(engine) : r.policy.id = id /\ Reports(r, items[m], ctx)}}
<1> DEFINE rows == Evaluated(items, engine, ctx)
<1>1. /\ DOMAIN rows = DOMAIN items
      /\ \A n \in DOMAIN items : /\ rows[n].item = items[n]
                                 /\ rows[n].issues = Evaluate(engine, items[n], ctx)
  BY DEF Evaluated
<1> HIDE DEF rows
<1>2. Range(rows) = {rows[n] : n \in DOMAIN items} BY <1>1 DEF Range
<1>3. \A n \in DOMAIN items : (\E i \in rows[n].issues : i.policy = id) <=>
        \E r \in Range(engine) : r.policy.id = id /\ Reports(r, items[n], ctx)
  <2> SUFFICES ASSUME NEW n \in DOMAIN items
               PROVE  (\E i \in rows[n].issues : i.policy = id) <=>
                        \E r \in Range(engine) : r.policy.id = id /\ Reports(r, items[n], ctx)
    OBVIOUS
  <2>1. Blamed(rows[n].issues, id) <=>
          \E r \in Range(engine) : r.policy.id = id /\ Reports(r, items[n], ctx)
    BY <1>1, BlamedFacts
  <2> QED BY <2>1 DEF Blamed
<1>4. BlamedIds(items, engine, ctx, id) =
        {row.item.id : row \in {x \in Range(rows) : \E i \in x.issues : i.policy = id}}
  BY DEF BlamedIds, rows
<1> QED BY <1>1, <1>2, <1>3, <1>4

(* A custom rule reports where its expression fails.                       *)
LEMMA CustomReports ==
  ASSUME NEW p, p.type = "custom", "unparsable" \notin {p.when, p.assert}, NEW names,
         NEW x, x.kind = p.scope, NEW ctx
  PROVE  Reports(CompileRule(p, names), x, ctx) <=>
           /\ p.enabled /\ <<x.kind, x.id, p.id>> \notin ctx.exceptions
           /\ Outcome(p, x, ctx) = "failing"
<1> DEFINE r == CompileRule(p, names)
<1>1. r.policy = p /\ r.broken = Broken(p, names) BY DEF CompileRule
<1>2. ~Broken(p, names) BY DEF Broken
<1> HIDE DEF r
<1>3. Messages(r, x, ctx) = IF Outcome(p, x, ctx) = "failing" THEN <<p.type>> ELSE << >>
  BY <1>1 DEF Messages
<1>4. Messages(r, x, ctx) # << >> <=> Outcome(p, x, ctx) = "failing" BY <1>3
<1> QED BY <1>1, <1>2, <1>4 DEF Reports, r

(* An expression sees of its context only what the simulator gives it. *)
LEMMA SameOutcome ==
  ASSUME NEW p, NEW x, NEW c1, NEW c2,
         x.kind = "device" \/ (c1.names = c2.names /\ c1.devices = c2.devices)
  PROVE  Outcome(p, x, c1) = Outcome(p, x, c2)
<1>1. \A e : Cel(e, x, c1) = Cel(e, x, c2) BY DEF Cel, Owner
<1> DEFINE of(when, assert) ==
             LET value == IF when = "true" THEN assert ELSE when
             IN  IF when = "false" THEN "skipped"
                 ELSE CASE value = "true" -> "passing" [] value = "false" -> "failing"
                        [] value = "raises" -> "errored"
<1>2. \A c : Outcome(p, x, c) = of(Cel(p.when, x, c), Cel(p.assert, x, c)) BY DEF Outcome
<1> HIDE DEF of
<1> QED BY <1>1, <1>2

(* What the simulator calls failing is what the lists report of the rule   *)
(* once it is enabled and the acknowledged are taken off                   *)
(* (rules/custom_cel.py, check and evaluate), for every expression and  *)
(* every state of the caches, if no other policy has the rule's id.        *)
THEOREM SimulatorIsHonest == Spec => []SimulatorAgrees
<1>1. IInv => SimulatorAgrees
  <2> SUFFICES ASSUME IInv, NEW p \in Range(Policies), p.type = "custom",
                      ~Broken(p, server.areas), OwnId(p)
               PROVE  LET alone == Compile(<<[p EXCEPT !.enabled = TRUE]>>, server.areas)
                          rows(e) == IF p.scope = "device"
                                       THEN Evaluated(Hydrated(server), e, DeviceContext(server))
                                       ELSE Evaluated(server.entities, e, EntityContext(server))
                          blamed(e) == {r.item.id : r \in {x \in Range(rows(e)) : \E i \in x.issues : i.policy = p.id}}
                          acknowledged == {k[2] : k \in {x \in Range(server.exceptions) : x[1] = p.scope /\ x[3] = p.id}}
                      IN  /\ blamed(alone) = Simulate(server, p).failing \ acknowledged
                          /\ blamed(server.engine) = IF p.enabled THEN blamed(alone) ELSE {}
    BY DEF SimulatorAgrees
  <2> DEFINE p1    == [p EXCEPT !.enabled = TRUE]
             alone == Compile(<<p1>>, server.areas)
             items == IF p.scope = "device" THEN Hydrated(server) ELSE server.entities
             ctx   == IF p.scope = "device" THEN DeviceContext(server) ELSE EntityContext(server)
             blamed(e) == BlamedIds(items, e, ctx, p.id)
             acknowledged == {k[2] : k \in {x \in Range(server.exceptions) : x[1] = p.scope /\ x[3] = p.id}}
             reported == {items[n].id : n \in {m \in DOMAIN items :
                            /\ <<p.scope, items[m].id, p.id>> \notin Range(server.exceptions)
                            /\ Outcome(p, items[m], ctx) = "failing"}}
  <2>1. /\ {"id", "type", "scope", "enabled", "when", "assert"} \subseteq DOMAIN p
        /\ p.scope \in {"device", "entity"} /\ p.enabled \in BOOLEAN
    BY PoliciesAssumption DEF ValidPolicy
  <2>2. /\ p1.type = "custom" /\ p1.id = p.id /\ p1.scope = p.scope /\ p1.when = p.when
        /\ p1.assert = p.assert /\ p1.enabled = TRUE
    BY <2>1
  <2>3. "unparsable" \notin {p.when, p.assert} BY DEF Broken
  <2>4. /\ \A n \in DOMAIN items : items[n].kind = p.scope
        /\ ctx.exceptions = Range(server.exceptions)
        /\ ctx.names = server.areas
        /\ p.scope = "entity" => ctx.devices = ById(server.devices)
    <3>1. CASE p.scope = "device" BY <3>1, HydratedFacts DEF DeviceContext
    <3>2. CASE p.scope = "entity" BY <3>2, EntityRowFacts, EntityFields DEF DeviceContext, EntityContext
    <3> QED BY <2>1, <3>1, <3>2
  <2> HIDE DEF p1, items, ctx
  <2>5. \A x : Outcome(p1, x, ctx) = Outcome(p, x, ctx) BY <2>2 DEF Outcome
  <2>6. ASSUME NEW n \in DOMAIN items
        PROVE  (\E r \in Range(alone) : r.policy.id = p.id /\ Reports(r, items[n], ctx)) <=>
                 /\ <<p.scope, items[n].id, p.id>> \notin Range(server.exceptions)
                 /\ Outcome(p, items[n], ctx) = "failing"
    <3>1. Range(alone) = {CompileRule(p1, server.areas)} BY DEF Compile, Range
    <3>2. CompileRule(p1, server.areas).policy = p1 BY DEF CompileRule
    <3>3. Reports(CompileRule(p1, server.areas), items[n], ctx) <=>
            /\ <<p.scope, items[n].id, p.id>> \notin Range(server.exceptions)
            /\ Outcome(p, items[n], ctx) = "failing"
      BY <2>2, <2>3, <2>4, <2>5, CustomReports
    <3> QED BY <2>2, <3>1, <3>2, <3>3
  <2>7. blamed(alone) = reported BY <2>6, BlamedIdsFacts
  <2>8. ASSUME NEW n \in DOMAIN items
        PROVE  (\E r \in Range(server.engine) : r.policy.id = p.id /\ Reports(r, items[n], ctx)) <=>
                 /\ p.enabled
                 /\ <<p.scope, items[n].id, p.id>> \notin Range(server.exceptions)
                 /\ Outcome(p, items[n], ctx) = "failing"
    <3>1. PICK names : /\ DOMAIN server.engine = DOMAIN Policies
                       /\ \A i \in DOMAIN Policies :
                            /\ Policies[i] \in Range(Policies)
                            /\ server.engine[i] = CompileRule(Policies[i], names)
                            /\ server.engine[i].policy = Policies[i]
      BY EngineFacts
    <3>2. PICK i \in DOMAIN Policies : Policies[i] = p BY DEF Range
    <3>3. \A j \in DOMAIN Policies : Policies[j].id = p.id => Policies[j] = p BY <3>1 DEF OwnId
    <3>4. \A r \in Range(server.engine) : r.policy.id = p.id => r = CompileRule(p, names)
      BY <3>1, <3>3 DEF Range
    <3>5. CompileRule(p, names) \in Range(server.engine) /\ CompileRule(p, names).policy = p
      BY <3>1, <3>2 DEF Range
    <3>6. Reports(CompileRule(p, names), items[n], ctx) <=>
            /\ p.enabled
            /\ <<p.scope, items[n].id, p.id>> \notin Range(server.exceptions)
            /\ Outcome(p, items[n], ctx) = "failing"
      BY <2>3, <2>4, CustomReports
    <3> QED BY <3>4, <3>5, <3>6
  <2>9. blamed(server.engine) = IF p.enabled THEN reported ELSE {}
    <3>1. CASE p.enabled BY <3>1, <2>8, BlamedIdsFacts
    <3>2. CASE ~p.enabled BY <3>2, <2>8, BlamedIdsFacts
    <3> QED BY <3>1, <3>2
  <2>10. reported = Simulate(server, p).failing \ acknowledged
    <3> DEFINE sim == SimulationContext(server, p.scope)
               from == Range(IF p.scope = "entity" THEN server.entities ELSE Hydrated(server))
               failing == {x.id : x \in {y \in from : Outcome(p, y, sim) = "failing"}}
    <3>1. Simulate(server, p).failing = failing BY DEF Simulate
    <3>2. from = {items[n] : n \in DOMAIN items} BY <2>1 DEF items, Range
    <3>3. \A n \in DOMAIN items : Outcome(p, items[n], sim) = Outcome(p, items[n], ctx)
      <4>1. p.scope = "entity" => sim.names = ctx.names /\ sim.devices = ctx.devices
        BY <2>4 DEF SimulationContext
      <4> HIDE DEF sim
      <4> QED BY <4>1, <2>1, <2>4, SameOutcome
    <3>4. \A id : id \in acknowledged <=> <<p.scope, id, p.id>> \in Range(server.exceptions)
      BY DEF IInv, KeysOK
    <3> DEFINE fails(n) == Outcome(p, items[n], ctx) = "failing"
    <3>5. failing = {items[n].id : n \in {m \in DOMAIN items : fails(m)}}
      <4> HIDE DEF sim, from
      <4> QED BY <3>2, <3>3
    <3>6. reported = {items[n].id : n \in {m \in DOMAIN items :
                        items[m].id \notin acknowledged /\ fails(m)}}
      <4> HIDE DEF acknowledged, fails
      <4>1. \A m \in DOMAIN items : items[m].id \notin acknowledged <=>
              <<p.scope, items[m].id, p.id>> \notin Range(server.exceptions)
        BY <3>4
      <4> QED BY <4>1 DEF fails
    <3> HIDE DEF failing, acknowledged, fails, reported
    <3>7. reported = failing \ acknowledged BY <3>5, <3>6
    <3> QED BY <3>1, <3>7
  <2>11. \A e : blamed(e) =
           LET rows == IF p.scope = "device"
                         THEN Evaluated(Hydrated(server), e, DeviceContext(server))
                         ELSE Evaluated(server.entities, e, EntityContext(server))
           IN  {r.item.id : r \in {x \in Range(rows) : \E i \in x.issues : i.policy = p.id}}
    BY DEF BlamedIds, items, ctx
  <2> HIDE DEF blamed, reported, acknowledged
  <2> QED BY <2>7, <2>9, <2>10, <2>11 DEF p1, acknowledged
<1> QED BY <1>1, Invariance, PTL

---------------------------------------------------------------------------
(* The naming rules. *)

(* In title case a name is not rewritten for its room.                     *)
LEMMA TitleFacts ==
  /\ \A pattern, t : pattern.preset = "title-case" =>
       (Accepts(pattern, t) <=> t.style = "title" /\ t.words[1] # 0)
  /\ \A area, name : RoomPrefix("title-case", area, name) = name
BY Zenon DEF Accepts, RoomPrefix

(* In lower case a title has the same words.                               *)
LEMMA LowerFacts ==
  ASSUME NEW t \in Text, t.style = "title"
  PROVE  Lower(t).words = t.words /\ Lower(t).style = "spaced"
BY DEF Lower, Text

(* The device rule, in a room where it wants the room in title case. *)
LEMMA NamingFacts ==
  ASSUME NEW r, NEW d, WantsRoomTitle(r, d.area), d.area # None, d.areaName # None
  PROVE  NamingMessages(r, d) # << >> <=>
           ~(Accepts(TitleCase, DeviceName(d)) /\ StartsWith(DeviceName(d), d.areaName))
<1> DEFINE use  == InEffect(r, d.area)
           name == DeviceName(d)
<1>1. /\ use.pattern.preset = "title-case" /\ use.startsWithRoom /\ ~OptedOut(r.rooms, d.area)
  BY DEF WantsRoomTitle
<1>2. Accepts(use.pattern, name) <=> Accepts(TitleCase, name)
  BY <1>1, TitleFacts DEF TitleCase
<1>3. RoomPrefix(use.pattern.preset, d.area, d.areaName) = d.areaName BY <1>1, TitleFacts
<1> HIDE DEF use, name
<1>4. NamingMessages(r, d) =
        IF ~Accepts(use.pattern, name) THEN <<"not the convention">>
        ELSE IF ~StartsWith(name, d.areaName) THEN <<"not its room">> ELSE << >>
  BY <1>1, <1>3 DEF NamingMessages, use, name
<1>5. <<"not the convention">> # << >> /\ <<"not its room">> # << >> OBVIOUS
<1> DEFINE a == Accepts(use.pattern, name)
           b == StartsWith(name, d.areaName)
           m == NamingMessages(r, d)
<1>6. m # << >> <=> ~(a /\ b)
  <2>1. m = IF ~a THEN <<"not the convention">> ELSE IF ~b THEN <<"not its room">> ELSE << >>
    BY <1>4
  <2> HIDE DEF a, b, m
  <2> QED BY <2>1, <1>5
<1> QED BY <1>2, <1>6 DEF name

(* The entity rule, of an entity with a name and a device. *)
LEMMA EntityNamingFacts ==
  ASSUME NEW n, NEW e, NEW ctx, WantsRoomTitle(n, e.area), e.area # None, e.name # None,
         Accepts(InEffect(n, e.area).pattern, e.name),
         Owner(e, ctx) # None, DeviceName(Owner(e, ctx)) # None,
         ~StartsWith(e.name, DeviceName(Owner(e, ctx)))
  PROVE  /\ EntityNameMessages(n, e, ctx) \in Seq({"not its device"})
         /\ EntityNameMessages(n, e, ctx) # << >> <=>
              ~LeftToDevice(Owner(e, ctx), Get(ctx.names, e.area))
<1> DEFINE use    == InEffect(n, e.area)
           device == Owner(e, ctx)
           room   == Get(ctx.names, e.area)
           anchor == IF LeftToDevice(device, room) THEN None ELSE DeviceName(device)
<1>1. use.startsWithRoom /\ ~OptedOut(n.rooms, e.area) BY DEF WantsRoomTitle
<1>2. EntityName(e) = e.name /\ ~Inherits(e) BY DEF EntityName, Inherits
<1>3. EntityNameMessages(n, e, ctx) =
        IF anchor # None /\ ~StartsWith(e.name, anchor) THEN <<"not its device">> ELSE << >>
  <2> HIDE DEF use, device
  <2>1. Accepts(use.pattern, e.name) /\ device # None BY DEF use, device
  <2> QED BY <1>1, <1>2, <2>1 DEF EntityNameMessages, use, device
<1>4. (anchor # None /\ ~StartsWith(e.name, anchor)) <=> ~LeftToDevice(device, room)
  <2> HIDE DEF room
  <2> QED OBVIOUS
<1> DEFINE a == anchor # None /\ ~StartsWith(e.name, anchor)
           m == EntityNameMessages(n, e, ctx)
<1>5. m \in Seq({"not its device"}) /\ (m # << >> <=> a)
  <2>1. m = IF a THEN <<"not its device">> ELSE << >> BY <1>3
  <2>2. CASE a
    <3>1. m = <<"not its device">> BY <2>1, <2>2
    <3>2. <<"not its device">> \in Seq({"not its device"}) /\ <<"not its device">> # << >> OBVIOUS
    <3> HIDE DEF m, a
    <3> QED BY <3>1, <3>2, <2>2
  <2>3. CASE ~a
    <3>1. m = << >> BY <2>1, <2>3
    <3>2. << >> \in Seq({"not its device"}) OBVIOUS
    <3> HIDE DEF m, a
    <3> QED BY <3>1, <3>2, <2>3
  <2> QED BY <2>2, <2>3
<1> QED BY <1>4, <1>5

(* A rule whose policy has its id for itself is the only one to speak for it. *)
LEMMA OwnRule ==
  ASSUME IInv, NEW r \in Range(server.engine), OwnId(r.policy), NEW x, NEW ctx
  PROVE  /\ ValidPolicy(r.policy)
         /\ Blamed(Evaluate(server.engine, x, ctx), r.policy.id) <=> Reports(r, x, ctx)
<1>1. PICK names : /\ DOMAIN server.engine = DOMAIN Policies
                   /\ \A i \in DOMAIN Policies :
                        /\ Policies[i] \in Range(Policies) /\ ValidPolicy(Policies[i])
                        /\ server.engine[i] = CompileRule(Policies[i], names)
                        /\ server.engine[i].policy = Policies[i]
  BY EngineFacts
<1>2. PICK i \in DOMAIN Policies : r = server.engine[i] BY <1>1 DEF Range
<1>3. r.policy = Policies[i] /\ r = CompileRule(Policies[i], names) BY <1>1, <1>2
<1>4. \A j \in DOMAIN Policies : Policies[j].id = r.policy.id => Policies[j] = Policies[i]
  BY <1>1, <1>3 DEF OwnId
<1>5. \A s \in Range(server.engine) : s.policy.id = r.policy.id => s = r
  BY <1>1, <1>3, <1>4 DEF Range
<1>6. ValidPolicy(r.policy) BY <1>1, <1>3
<1>7. Blamed(Evaluate(server.engine, x, ctx), r.policy.id) <=>
        \E s \in Range(server.engine) : s.policy.id = r.policy.id /\ Reports(s, x, ctx)
  BY BlamedFacts
<1> QED BY <1>5, <1>6, <1>7

(* Each of a list of distinct items is found by its id.                    *)
LEMMA ByIdFacts ==
  ASSUME NEW T, NEW items \in Seq(T), Distinct(items), NEW i \in DOMAIN items
  PROVE  items[i].id \in DOMAIN ById(items) /\ ById(items)[items[i].id] = items[i]
<1> DEFINE id == items[i].id
<1>1. items[i] \in Range(items) BY DEF Range
<1>2. \A x \in Range(items) : x.id = id => x = items[i] BY DEF Distinct, Range
<1>3. id \in DOMAIN ById(items) /\ ById(items)[id] = CHOOSE x \in Range(items) : x.id = id
  BY <1>1 DEF ById
<1> QED BY <1>1, <1>2, <1>3

(* Every device is called something.                                       *)
LEMMA DeviceNameFacts == \A d \in Device : DeviceName(d) \in Text
<1> SUFFICES ASSUME NEW d \in Device PROVE DeviceName(d) \in Text OBVIOUS
<1>1. d.name \in Text /\ d.byUser \in Text \cup {None} BY DEF Device, Optional
<1> QED BY <1>1 DEF DeviceName

(* An entity whose name does not begin with its device's is reported, or   *)
(* its device is, where both naming rules see the room alike and the       *)
(* device rule wants it in title case (rules/entity_naming.py, the         *)
(* exemption of devices that break the rule themselves); and not both      *)
(* where device and room have names in that case.                          *)
THEOREM RoomPrefixIsBlamed == Spec => []RoomPrefixBlamedOnce
<1>1. IInv => RoomPrefixBlamedOnce
  <2> SUFFICES ASSUME IInv,
        NEW r \in Range(server.engine), r.policy.type = "naming_convention", OwnId(r.policy),
        NEW n \in Range(server.engine), n.policy.type = "entity_naming_convention", OwnId(n.policy),
        NEW de \in Range(DeviceRows(server)), NEW en \in Range(EntityRows(server)),
        en.item.device = de.item.id,
        en.item.area # None, en.item.area = de.item.area, en.item.area \in DOMAIN server.areas,
        de.item.areaName = server.areas[de.item.area],
        WantsRoomTitle(r, de.item.area), WantsRoomTitle(n, en.item.area),
        <<"device", de.item.id, r.policy.id>> \notin Range(server.exceptions),
        <<"entity", en.item.id, n.policy.id>> \notin Range(server.exceptions),
        en.item.name # None, Accepts(InEffect(n, en.item.area).pattern, en.item.name),
        ~StartsWith(en.item.name, DeviceName(de.item)),
        EntityIdMessages(n, en.item, EntityContext(server)) = << >>
      PROVE
        /\ BlamedBy(r, de) \/ BlamedBy(n, en)
        /\ Accepts(TitleCase, DeviceName(de.item)) /\ Accepts(TitleCase, server.areas[de.item.area]) =>
             ~(BlamedBy(r, de) /\ BlamedBy(n, en))
    BY DEF RoomPrefixBlamedOnce
  <2> DEFINE dc == DeviceContext(server)
             ec == EntityContext(server)
  <2>1. PICK i \in DOMAIN server.devices : de = DeviceRows(server)[i]
    BY DeviceRowFacts DEF Range
  <2>2. PICK j \in DOMAIN server.entities : en = EntityRows(server)[j]
    BY EntityRowFacts DEF Range
  <2> DEFINE d == de.item
             e == en.item
             room == server.areas[d.area]
             name == DeviceName(d)
  <2>3. /\ d = Hydrated(server)[i] /\ de.issues = Evaluate(server.engine, d, dc)
        /\ d \in Device /\ d.kind = "device"
        /\ d.id = server.devices[i].id /\ d.area = server.devices[i].area
        /\ d.areaName = server.devices[i].areaName
        /\ name = DeviceName(server.devices[i])
        /\ server.devices[i] \in Device
    <3>1. d = Hydrated(server)[i] /\ de.issues = Evaluate(server.engine, d, dc)
      BY <2>1, DeviceRowFacts
    <3> HIDE DEF d
    <3>2. /\ d \in Device /\ d.kind = "device"
          /\ d.id = server.devices[i].id /\ d.area = server.devices[i].area
          /\ d.areaName = server.devices[i].areaName
          /\ d.name = server.devices[i].name /\ d.byUser = server.devices[i].byUser
          /\ server.devices[i] \in Device
      BY <3>1, HydratedFacts
    <3>3. DeviceName(d) = DeviceName(server.devices[i]) BY <3>2 DEF DeviceName
    <3> QED BY <3>1, <3>2, <3>3
  <2>4. /\ e \in Entity /\ en.issues = Evaluate(server.engine, e, ec) /\ e.kind = "entity"
    BY <2>2, EntityRowFacts, EntityFields
  <2>5. dc.exceptions = Range(server.exceptions) /\ ec.exceptions = Range(server.exceptions)
        /\ ec.names = server.areas /\ ec.devices = ById(server.devices)
    BY DEF DeviceContext, EntityContext
  <2> HIDE DEF dc, ec
  <2>6. room \in Text /\ d.areaName = room
    <3>1. NamedApart(server.areas) BY DEF IInv, ServerOK
    <3> QED BY <3>1 DEF NamedApart, Range
  <2>7. name \in Text /\ name # None BY <2>3, DeviceNameFacts, NoneAssumption
  <2>8. room # None BY <2>6, NoneAssumption
  <2>9. Owner(e, ec) = server.devices[i] /\ server.devices[i] # None
    <3>1. e.device = server.devices[i].id BY <2>3
    <3>2. /\ server.devices[i].id \in DOMAIN ById(server.devices)
          /\ ById(server.devices)[server.devices[i].id] = server.devices[i]
      BY ByIdFacts DEF IInv, ServerOK
    <3>3. server.devices[i] # None BY <2>3, DeviceFields
    <3> QED BY <2>5, <3>1, <3>2, <3>3 DEF Owner, Get
  <2>10. Get(ec.names, e.area) = room BY <2>5 DEF Get
  <2>11. BlamedBy(r, de) <=> ~(Accepts(TitleCase, name) /\ StartsWith(name, room))
    <3>1. BlamedBy(r, de) <=> Reports(r, d, dc)
      BY <2>3, OwnRule DEF BlamedBy, Blamed
    <3>2. r.policy.scope = "device" BY OwnRule DEF ValidPolicy
    <3>3. Messages(r, d, dc) = NamingMessages(r, d) BY Zenon DEF Messages
    <3>4. Reports(r, d, dc) <=> NamingMessages(r, d) # << >>
      BY <2>3, <2>5, <3>2, <3>3 DEF Reports, WantsRoomTitle
    <3>5. NamingMessages(r, d) # << >> <=> ~(Accepts(TitleCase, name) /\ StartsWith(name, room))
      BY <2>6, <2>8, NamingFacts
    <3> QED BY <3>1, <3>4, <3>5
  <2>12. BlamedBy(n, en) <=> StartsWith(Lower(name), Lower(room))
    <3>1. BlamedBy(n, en) <=> Reports(n, e, ec)
      BY <2>4, OwnRule DEF BlamedBy, Blamed
    <3>2. n.policy.scope = "entity" BY OwnRule DEF ValidPolicy
    <3>3. Messages(n, e, ec) = EntityIdMessages(n, e, ec) \o EntityNameMessages(n, e, ec)
      BY Zenon DEF Messages
    <3>4. /\ EntityNameMessages(n, e, ec) \in Seq({"not its device"})
          /\ EntityNameMessages(n, e, ec) # << >> <=> ~LeftToDevice(server.devices[i], room)
      BY <2>3, <2>7, <2>9, <2>10, EntityNamingFacts
    <3>5. Messages(n, e, ec) # << >> <=> EntityNameMessages(n, e, ec) # << >>
      <4> DEFINE m == EntityNameMessages(n, e, ec)
      <4>1. m \in Seq({"not its device"}) BY <3>4
      <4>2. Messages(n, e, ec) = << >> \o m BY <3>3 DEF ec
      <4> HIDE DEF m
      <4>3. << >> \o m = m BY <4>1, ConcatEmptySeq
      <4> QED BY <4>2, <4>3 DEF m
    <3>6. Reports(n, e, ec) <=> EntityNameMessages(n, e, ec) # << >>
      BY <2>4, <2>5, <3>2, <3>5 DEF Reports, WantsRoomTitle
    <3>7. LeftToDevice(server.devices[i], room) <=> ~StartsWith(Lower(name), Lower(room))
      BY <2>3, <2>8 DEF LeftToDevice
    <3> QED BY <3>1, <3>4, <3>6, <3>7
  <2>13. Accepts(TitleCase, name) => name.style = "title"
    BY TitleFacts DEF TitleCase
  <2>14. Accepts(TitleCase, room) => room.style = "title"
    BY TitleFacts DEF TitleCase
  <2> HIDE DEF name, room
  <2>15. name.style = "title" /\ StartsWith(name, room) => StartsWith(Lower(name), Lower(room))
    BY <2>6, <2>7, LowerFacts DEF StartsWith
  <2>16. name.style = "title" /\ room.style = "title" /\ StartsWith(Lower(name), Lower(room)) =>
           StartsWith(name, room)
    BY <2>6, <2>7, LowerFacts DEF StartsWith
  <2> QED BY <2>11, <2>12, <2>13, <2>14, <2>15, <2>16 DEF name, room
<1> QED BY <1>1, Invariance, PTL

---------------------------------------------------------------------------
(* Pages, and the lists filtered by a room. *)

(* The lesser of two numbers.                                              *)
LEMMA MinFacts ==
  ASSUME NEW a \in Int, NEW b \in Int PROVE Min({a, b}) = IF a <= b THEN a ELSE b
<1>1. Min({a, b}) = CHOOSE x \in {a, b} : \A y \in {a, b} : x <= y BY DEF Min
<1>2. \A x \in {a, b} : (\A y \in {a, b} : x <= y) <=> x = IF a <= b THEN a ELSE b OBVIOUS
<1> QED BY <1>1, <1>2

(* A list that fits is on the first page.                                  *)
LEMMA WholePage ==
  ASSUME NEW T, NEW rows \in Seq(T), NEW q, q.page = 1, q.size \in Nat, Len(rows) <= q.size
  PROVE  Page(rows, q) = rows
<1>1. Min({q.page * q.size, Len(rows)}) = Len(rows) BY MinFacts
<1>2. (q.page - 1) * q.size + 1 = 1 OBVIOUS
<1>3. SubSeq(rows, 1, Len(rows)) = rows BY Len(rows) \in Nat
<1> QED BY <1>1, <1>2, <1>3 DEF Page

(* The query for rooms asks for nothing else.                              *)
LEMMA RoomQuery ==
  ASSUME NEW rooms
  PROVE  LET q == InRoom(rooms) IN
         /\ q.text = None /\ q.rooms = rooms /\ q.types = {} /\ q.integrations = {} /\ q.domains = {}
         /\ ~q.withIssues /\ q.showDisabled /\ q.showHidden /\ q.sortBy = None
         /\ q.page = 1 /\ q.size = 500
BY DEF InRoom, Everything

(* Unsorted and short, a list is shown as it is kept.                      *)
LEMMA ShortPage ==
  ASSUME NEW all, all \in Seq(Range(all)), Len(all) <= 500, NEW I \in SUBSET DOMAIN all, NEW rooms
  PROVE  Page(Sorted(server, Keep(all, I), InRoom(rooms)), InRoom(rooms)) = Keep(all, I)
<1>1. /\ Keep(all, I) \in Seq(Range(all)) /\ Len(Keep(all, I)) = Cardinality(I)
      /\ Cardinality(I) <= Len(all)
  <2> DEFINE n == Len(all)
  <2>1. n \in Nat /\ DOMAIN all = 1..n OBVIOUS
  <2> HIDE DEF n
  <2>2. IsFiniteSet(1..n) /\ Cardinality(1..n) = n BY <2>1, FS_Interval
  <2>3. Cardinality(I) <= n BY <2>1, <2>2, FS_Subset
  <2> QED BY <2>3, KeepFacts DEF n
<1>2. Sorted(server, Keep(all, I), InRoom(rooms)) = Keep(all, I) BY RoomQuery DEF Sorted
<1>3. Len(Keep(all, I)) <= InRoom(rooms).size BY <1>1, RoomQuery
<1> QED BY <1>1, <1>2, <1>3, RoomQuery, WholePage

(* The entities shown of some rooms are those in them.                     *)
LEMMA EntityShown ==
  ASSUME IInv, Fits, NEW rooms
  PROVE  Shown(EntityAnswer(server, EntityRows(server), InRoom(rooms))) =
           {server.entities[i].id : i \in {j \in DOMAIN server.entities : RoomMatch(server.entities[j], rooms)}}
<1> DEFINE q   == InRoom(rooms)
           all == EntityRows(server)
           I   == {n \in DOMAIN all : EntityWanted(all[n], q)}
<1>1. EntityAnswer(server, all, q).rows = Page(Sorted(server, Keep(all, I), q), q) BY DEF EntityAnswer
<1>2. /\ all \in Seq(Range(all)) /\ DOMAIN all = DOMAIN server.entities
      /\ \A n \in DOMAIN server.entities : all[n].item = server.entities[n]
  BY EntityRowFacts
<1>3. Len(all) <= 500
  <2>1. server.entities \in Seq(Entity) /\ Len(server.entities) <= 500
    BY DEF IInv, ServerOK, Fits, Everything
  <2> HIDE DEF all
  <2> QED BY <2>1, <1>2
<1>4. \A row : EntityWanted(row, q) <=> RoomMatch(row.item, rooms)
  <2> SUFFICES ASSUME NEW row PROVE EntityWanted(row, q) <=> RoomMatch(row.item, rooms) OBVIOUS
  <2>1. Gated(row.item, q) /\ IssueWanted(row.issues, q) BY RoomQuery DEF Gated, IssueWanted
  <2>2. q.text = None /\ q.domains = {} /\ q.integrations = {} /\ q.rooms = rooms BY RoomQuery
  <2>3. MatchesQuery(row.item.id.object, q.text) BY <2>2 DEF MatchesQuery
  <2>4. OneOf(row.item.id.domain, q.domains) /\ OneOf(row.item.platform, q.integrations)
    BY <2>2 DEF OneOf
  <2> HIDE DEF q
  <2> QED BY <2>1, <2>2, <2>3, <2>4 DEF EntityWanted
<1> HIDE DEF all, q
<1>5. EntityAnswer(server, all, q).rows = Keep(all, I) BY <1>1, <1>2, <1>3, ShortPage DEF q
<1>6. Range(Keep(all, I)) = {all[i] : i \in I} BY <1>2, KeepFacts
<1>7. Shown(EntityAnswer(server, all, q)) = {all[i].item.id : i \in I} BY <1>5, <1>6 DEF Shown
<1>8. I = {n \in DOMAIN server.entities : RoomMatch(server.entities[n], rooms)} BY <1>2, <1>4
<1> HIDE DEF I
<1> QED BY <1>2, <1>7, <1>8 DEF all, q

(* So are the devices.                                                     *)
LEMMA DeviceShown ==
  ASSUME IInv, Fits, NEW rooms, rooms # {}
  PROVE  Shown(DeviceAnswer(server, DeviceRows(server), InRoom(rooms))) =
           {server.devices[i].id : i \in {j \in DOMAIN server.devices : InRooms(server.devices[j].areaName, rooms)}}
<1> DEFINE q   == InRoom(rooms)
           all == DeviceRows(server)
           I   == {n \in DOMAIN all : DeviceWanted(all[n], q)}
<1>1. DeviceAnswer(server, all, q).rows = Page(Sorted(server, Keep(all, I), q), q) BY DEF DeviceAnswer
<1>2. /\ all \in Seq(Range(all)) /\ DOMAIN all = DOMAIN server.devices
      /\ \A n \in DOMAIN server.devices : /\ all[n].item.id = server.devices[n].id
                                          /\ all[n].item.areaName = server.devices[n].areaName
  BY DeviceRowFacts, HydratedFacts
<1>3. Len(all) <= 500
  <2>1. server.devices \in Seq(Device) /\ Len(server.devices) <= 500
    BY DEF IInv, ServerOK, Fits, Everything
  <2> HIDE DEF all
  <2> QED BY <2>1, <1>2
<1>4. \A row : DeviceWanted(row, q) <=> InRooms(row.item.areaName, rooms)
  <2> SUFFICES ASSUME NEW row PROVE DeviceWanted(row, q) <=> InRooms(row.item.areaName, rooms) OBVIOUS
  <2>1. IssueWanted(row.issues, q) BY RoomQuery DEF IssueWanted
  <2>2. q.text = None /\ q.integrations = {} /\ q.rooms = rooms BY RoomQuery
  <2>3. MatchesQuery(row.item.name, q.text) BY <2>2 DEF MatchesQuery
  <2>4. OneOf(row.item.integration, q.integrations) BY <2>2 DEF OneOf
  <2> HIDE DEF q
  <2> QED BY <2>1, <2>2, <2>3, <2>4 DEF DeviceWanted
<1> HIDE DEF all, q
<1>5. DeviceAnswer(server, all, q).rows = Keep(all, I) BY <1>1, <1>2, <1>3, ShortPage DEF q
<1>6. Range(Keep(all, I)) = {all[i] : i \in I} BY <1>2, KeepFacts
<1>7. Shown(DeviceAnswer(server, all, q)) = {all[i].item.id : i \in I} BY <1>5, <1>6 DEF Shown
<1>8. I = {n \in DOMAIN server.devices : InRooms(server.devices[n].areaName, rooms)} BY <1>2, <1>4
<1> HIDE DEF I
<1> QED BY <1>2, <1>7, <1>8 DEF all, q

(* In a coherent cache an entity has the name of the area it counts for. *)
LEMMA CoherentFacts ==
  ASSUME IInv, Coherent, NEW i \in DOMAIN server.entities
  PROVE  LET e    == server.entities[i]
             area == EffectiveArea(server, e)
         IN  /\ area \in DOMAIN server.areas \cup {None}
             /\ e.areaName = Get(server.areas, area)
             /\ \A p : p.requireOwnArea = FALSE =>
                  (LacksArea(p, e, EntityContext(server)) <=> area = None)
<1> DEFINE e    == server.entities[i]
           area == EffectiveArea(server, e)
           byId == ById(server.devices)
           d    == Get(byId, e.device)
<1>1. area = IF e.area # None THEN e.area ELSE IF d = None THEN None ELSE d.area
  BY DEF EffectiveArea
<1>2. server.devices \in Seq(Device) /\ Distinct(server.devices) /\ Housed(server.devices, server.areas)
  BY DEF IInv, ServerOK, Coherent, DevicesCurrent
<1>3. ASSUME e.device \in DOMAIN byId
      PROVE  /\ d = byId[e.device] /\ d # None /\ d.area \in DOMAIN server.areas \cup {None}
  <2>1. PICK j \in DOMAIN server.devices : server.devices[j].id = e.device
    BY <1>3 DEF ById, Range
  <2>2. byId[e.device] = server.devices[j] BY <1>2, <2>1, ByIdFacts
  <2>3. server.devices[j] \in Range(server.devices) BY DEF Range
  <2>4. server.devices[j] # None /\ server.devices[j].area \in DOMAIN server.areas \cup {None}
    BY <1>2, <2>3, DeviceFields DEF Housed
  <2> HIDE DEF byId
  <2> QED BY <1>3, <2>2, <2>4 DEF Get
<1>4. e.device \notin DOMAIN byId => d = None BY DEF Get
<1>5. e.area \in DOMAIN server.areas \cup {None} BY DEF Coherent, Housed, Range
<1>6. e.areaName = Get(server.areas, IF e.area = None /\ e.device \in DOMAIN byId
                                       THEN byId[e.device].area ELSE e.area)
  <2> DEFINE entities == server.entities
             own(x) == IF x.area = None /\ x.device \in DOMAIN byId
                         THEN byId[x.device].area ELSE x.area
  <2>1. entities = [n \in DOMAIN entities |->
                      [entities[n] EXCEPT !.areaName = Get(server.areas, own(entities[n]))]]
    BY DEF Coherent, EntityCopies
  <2>2. e = [e EXCEPT !.areaName = Get(server.areas, own(e))]
    <3> HIDE DEF own, entities
    <3> QED BY <2>1 DEF entities
  <2>3. e \in Entity BY EntityRowFacts
  <2>4. "areaName" \in DOMAIN e BY <2>3 DEF Entity
  <2> HIDE DEF own, e
  <2>5. e.areaName = Get(server.areas, own(e)) BY <2>2, <2>4
  <2> QED BY <2>5 DEF own
<1> HIDE DEF area, byId, d, e
<1>7. area \in DOMAIN server.areas \cup {None} BY <1>1, <1>3, <1>4, <1>5
<1>8. e.areaName = Get(server.areas, area) BY <1>1, <1>3, <1>4, <1>6
<1>9. \A p : p.requireOwnArea = FALSE => (LacksArea(p, e, EntityContext(server)) <=> area = None)
  <2>1. Owner(e, EntityContext(server)) = d BY DEF Owner, EntityContext, DeviceContext, d, byId
  <2> QED BY <1>1, <2>1 DEF LacksArea
<1> QED BY <1>7, <1>8, <1>9 DEF area, e

(* Lower case tells the areas apart. *)
LEMMA RoomFacts ==
  ASSUME NEW areas, NamedApart(areas), NEW a \in DOMAIN areas,
         NEW b \in DOMAIN areas \cup {None}
  PROVE  /\ areas[a] # NoArea /\ areas[a] # None /\ a # None
         /\ Get(areas, b) = None <=> b = None
         /\ InRooms(Get(areas, b), {areas[a]}) <=> b = a
<1>1. DOMAIN areas \subseteq Text /\ \A x \in DOMAIN areas : areas[x] \in Text
  BY DEF NamedApart, Range
<1>2. areas[a] # NoArea /\ areas[a] # None /\ None \notin DOMAIN areas BY <1>1, NoneAssumption
<1>3. Get(areas, b) = None <=> b = None BY <1>1, <1>2, NoneAssumption DEF Get
<1>4. CASE b = None BY <1>2, <1>3, <1>4 DEF InRooms
<1>5. CASE b # None
  <2>1. Get(areas, b) = areas[b] /\ b \in DOMAIN areas BY <1>5 DEF Get
  <2>2. Lower(areas[b]) = Lower(areas[a]) <=> b = a BY <2>1 DEF NamedApart
  <2> QED BY <1>2, <1>3, <1>5, <2>1, <2>2 DEF InRooms
<1> QED BY <1>4, <1>5

(* While the copies in the entity cache are of one state of the areas, the *)
(* entity list filtered by a room, the exception list filtered by its area *)
(* and the lenient rule for missing areas agree on what is in the room,    *)
(* and so do the two device lists (api/listing.py, api/exceptions.py,      *)
(* rules/missing_area.py): for any areas, names and devices, on pages that *)
(* hold them all.                                                          *)
THEOREM RoomsAgree == Spec => []RoomViewsAgree
<1>1. IInv => RoomViewsAgree
  <2> SUFFICES ASSUME IInv, Coherent, Fits
               PROVE  /\ \A a \in DOMAIN server.areas :
                           LET there == TargetsIn(server, {a})
                               room  == InRoom({server.areas[a]})
                           IN  /\ Shown(EntityAnswer(server, EntityRows(server), room)) = there.entity
                               /\ Shown(DeviceAnswer(server, DeviceRows(server), room)) = there.device
                      /\ Shown(EntityAnswer(server, EntityRows(server), InRoom({NoArea}))) =
                           {e.id : e \in {x \in Range(server.entities) :
                                            LacksArea([requireOwnArea |-> FALSE], x, EntityContext(server))}}
    BY DEF RoomViewsAgree
  <2>1. NamedApart(server.areas) BY DEF IInv, ServerOK
  <2>2. ASSUME NEW a \in DOMAIN server.areas
        PROVE  Shown(EntityAnswer(server, EntityRows(server), InRoom({server.areas[a]}))) =
                 TargetsIn(server, {a}).entity
    <3> DEFINE room == {server.areas[a]}
    <3>1. ASSUME NEW i \in DOMAIN server.entities
          PROVE  RoomMatch(server.entities[i], room) <=>
                   EffectiveArea(server, server.entities[i]) \in {a}
      <4> DEFINE e    == server.entities[i]
                 area == EffectiveArea(server, e)
      <4>1. area \in DOMAIN server.areas \cup {None} /\ e.areaName = Get(server.areas, area)
        BY CoherentFacts
      <4> HIDE DEF e, area
      <4>2. /\ server.areas[a] # NoArea /\ a # None /\ (e.areaName = None <=> area = None)
            /\ InRooms(e.areaName, room) <=> area = a
        BY <4>1, <2>1, RoomFacts
      <4>3. room # {} /\ NoArea \notin room /\ room \ {NoArea} = room BY <4>2
      <4> HIDE DEF room
      <4>4. RoomMatch(e, room) <=> area = a BY <4>2, <4>3 DEF RoomMatch
      <4> QED BY <4>4 DEF area, e
    <3>2. TargetsIn(server, {a}).entity =
            {server.entities[i].id : i \in {j \in DOMAIN server.entities :
               EffectiveArea(server, server.entities[j]) \in {a}}}
      BY DEF TargetsIn, Range
    <3> HIDE DEF room
    <3>3. {j \in DOMAIN server.entities : RoomMatch(server.entities[j], room)} =
          {j \in DOMAIN server.entities : EffectiveArea(server, server.entities[j]) \in {a}}
      BY <3>1
    <3> QED BY <3>2, <3>3, EntityShown DEF room
  <2>3. ASSUME NEW a \in DOMAIN server.areas
        PROVE  Shown(DeviceAnswer(server, DeviceRows(server), InRoom({server.areas[a]}))) =
                 TargetsIn(server, {a}).device
    <3> DEFINE room == {server.areas[a]}
    <3>1. ASSUME NEW i \in DOMAIN server.devices
          PROVE  InRooms(server.devices[i].areaName, room) <=> server.devices[i].area \in {a}
      <4>1. /\ server.devices[i].areaName = Get(server.areas, server.devices[i].area)
            /\ server.devices[i].area \in DOMAIN server.areas \cup {None}
        BY CurrentFacts DEF Coherent, Range
      <4> QED BY <4>1, <2>1, RoomFacts
    <3>2. TargetsIn(server, {a}).device =
            {server.devices[i].id : i \in {j \in DOMAIN server.devices : server.devices[j].area \in {a}}}
      BY DEF TargetsIn, Range
    <3>3. room # {} OBVIOUS
    <3> HIDE DEF room
    <3>4. {j \in DOMAIN server.devices : InRooms(server.devices[j].areaName, room)} =
          {j \in DOMAIN server.devices : server.devices[j].area \in {a}}
      BY <3>1
    <3> QED BY <3>2, <3>3, <3>4, DeviceShown DEF room
  <2>4. Shown(EntityAnswer(server, EntityRows(server), InRoom({NoArea}))) =
          {e.id : e \in {x \in Range(server.entities) :
                           LacksArea([requireOwnArea |-> FALSE], x, EntityContext(server))}}
    <3> DEFINE lenient == [requireOwnArea |-> FALSE]
               ctx == EntityContext(server)
    <3>1. ASSUME NEW i \in DOMAIN server.entities
          PROVE  RoomMatch(server.entities[i], {NoArea}) <=> LacksArea(lenient, server.entities[i], ctx)
      <4> DEFINE e    == server.entities[i]
                 area == EffectiveArea(server, e)
      <4>1. /\ area \in DOMAIN server.areas \cup {None} /\ e.areaName = Get(server.areas, area)
            /\ LacksArea(lenient, e, ctx) <=> area = None
        BY CoherentFacts
      <4> HIDE DEF e, area
      <4>2. e.areaName = None <=> area = None
        <5>1. \A b \in DOMAIN server.areas : server.areas[b] # None /\ b # None
          BY <2>1, RoomFacts
        <5> QED BY <4>1, <5>1 DEF Get
      <4>3. RoomMatch(e, {NoArea}) <=> e.areaName = None BY DEF RoomMatch, InRooms
      <4> QED BY <4>1, <4>2, <4>3 DEF e
    <3>2. {e.id : e \in {x \in Range(server.entities) : LacksArea(lenient, x, ctx)}} =
          {server.entities[i].id : i \in {j \in DOMAIN server.entities : LacksArea(lenient, server.entities[j], ctx)}}
      BY DEF Range
    <3> HIDE DEF lenient, ctx
    <3>3. {j \in DOMAIN server.entities : RoomMatch(server.entities[j], {NoArea})} =
          {j \in DOMAIN server.entities : LacksArea(lenient, server.entities[j], ctx)}
      BY <3>1
    <3> QED BY <3>2, <3>3, EntityShown DEF lenient, ctx
  <2> QED BY <2>2, <2>3, <2>4
<1> QED BY <1>1, Invariance, PTL

---------------------------------------------------------------------------
(* Counts. *)

(* A function of a finite domain takes finitely many values.               *)
LEMMA ImageFinite ==
  ASSUME NEW f, IsFiniteSet(DOMAIN f) PROVE IsFiniteSet(Range(f))
<1> DEFINE g == [x \in DOMAIN f |-> f[x]]
<1>1. g \in Surjection(DOMAIN f, Range(f)) BY DEF Surjection, Range
<1> HIDE DEF g
<1> QED BY <1>1, FS_Surjection

(* The issues of an item are finitely many.                                *)
LEMMA IssuesFinite ==
  ASSUME IInv, NEW x, NEW ctx PROVE IsFiniteSet(Evaluate(server.engine, x, ctx))
<1> DEFINE E == {s \in Range(server.engine) : Reports(s, x, ctx)}
           issue(r) == [policy |-> r.policy.id, type |-> r.policy.type,
                        severity |-> r.policy.severity, message |-> Head(Messages(r, x, ctx))]
           f == [r \in E |-> issue(r)]
<1>1. IsFiniteSet(DOMAIN server.engine)
  <2>1. DOMAIN server.engine = DOMAIN Policies BY EngineFacts
  <2>2. DOMAIN Policies = 1..Len(Policies) /\ Len(Policies) \in Nat BY PoliciesAssumption
  <2> QED BY <2>1, <2>2, FS_Interval
<1>2. IsFiniteSet(E) BY <1>1, ImageFinite, FS_Subset
<1>3. Evaluate(server.engine, x, ctx) = {issue(r) : r \in E} BY DEF Evaluate
<1> HIDE DEF E, issue
<1>4. DOMAIN f = E /\ Range(f) = {issue(r) : r \in E} BY DEF Range
<1> HIDE DEF f
<1> QED BY <1>2, <1>3, <1>4, ImageFinite

(* As many of the kept are in a set as there are positions of such. *)
LEMMA KeepCount ==
  ASSUME NEW T, NEW s \in Seq(T), NEW I \in SUBSET DOMAIN s, NEW V
  PROVE  LET kept == Keep(s, I) IN
         Cardinality({n \in DOMAIN kept : kept[n] \in V}) = Cardinality({i \in I : s[i] \in V})
<1> DEFINE kept == Keep(s, I)
           o == Arranged(I, Earlier(I))
           A == {n \in DOMAIN kept : kept[n] \in V}
           B == {i \in I : s[i] \in V}
           f == [n \in A |-> o[n]]
<1>1. IsFiniteSet(I) /\ Cardinality(I) \in Nat
  <2>1. IsFiniteSet(1..Len(s)) BY FS_Interval
  <2> QED BY <2>1, FS_Subset, FS_CardinalityType
<1>2. o \in Bijection(1..Cardinality(I), I)
  <2>1. StrictTotal(I, Earlier(I)) BY DEF StrictTotal, Earlier
  <2> QED BY <1>1, <2>1, Arrangement
<1> HIDE DEF o
<1>3. /\ o \in [1..Cardinality(I) -> I]
      /\ \A i \in I : \E n \in 1..Cardinality(I) : o[n] = i
      /\ \A m, n \in 1..Cardinality(I) : o[m] = o[n] => m = n
  BY <1>2 DEF Bijection, Injection, Surjection, IsInjective
<1>4. kept = [n \in 1..Cardinality(I) |-> s[o[n]]] BY <1>3 DEF Keep, o
<1>5. A = {n \in 1..Cardinality(I) : s[o[n]] \in V} BY <1>4
<1> HIDE DEF A
<1>6. f \in Bijection(A, B)
  <2>1. f \in [A -> B] BY <1>3, <1>5
  <2>2. \A m, n \in A : f[m] = f[n] => m = n BY <1>3, <1>5
  <2>3. \A i \in B : \E n \in A : f[n] = i BY <1>3, <1>5
  <2> HIDE DEF f, B
  <2> QED BY <2>1, <2>2, <2>3 DEF Bijection, Injection, Surjection, IsInjective
<1>7. IsFiniteSet(A)
  <2>1. IsFiniteSet(1..Cardinality(I)) BY <1>1, FS_Interval
  <2> QED BY <2>1, <1>5, FS_Subset
<1>8. Cardinality(B) = Cardinality(A)
  <2>1. ExistsBijection(A, B) BY <1>6 DEF ExistsBijection
  <2> HIDE DEF B
  <2> QED BY <1>7, <2>1, FS_Bijection
<1> QED BY <1>8 DEF A

(* What an answer says of the rows a query leaves.                         *)
LEMMA DeviceAnswerFacts ==
  ASSUME IInv, NEW q
  PROVE  LET all == DeviceRows(server)
             I   == {n \in DOMAIN all : DeviceWanted(all[n], q)}
             answer == DeviceAnswer(server, all, q)
         IN  /\ IsFiniteSet(I) /\ answer.total = Cardinality(I)
             /\ DOMAIN answer.rooms = AreaNames(server)
             /\ \A r \in AreaNames(server) :
                  answer.rooms[r] = Cardinality({n \in I : all[n].item.areaName = r})
             /\ DOMAIN answer.integrations = Range(Integrations(all)) \ {None}
             /\ \A i \in Range(Integrations(all)) \ {None} :
                  answer.integrations[i] = Cardinality({n \in I : all[n].item.integration = i})
             /\ \A t \in DOMAIN answer.types :
                  answer.types[t] = 0 <=> \A n \in I : \A i \in all[n].issues : i.type # t
<1> DEFINE all  == DeviceRows(server)
           I    == {n \in DOMAIN all : DeviceWanted(all[n], q)}
           rows == Keep(all, I)
           answer == DeviceAnswer(server, all, q)
<1>1. /\ answer.total = Len(rows)
      /\ answer.types = IssueCounts(rows, RuleTypes(server, {"device", "entity"}))
      /\ answer.rooms = CountOf(Areas(rows), AreaNames(server))
      /\ answer.integrations = CountOf(Integrations(rows), Range(Integrations(all)) \ {None})
  BY DEF DeviceAnswer
<1>2. all \in Seq(Range(all)) BY DeviceRowFacts
<1>3. \A n \in DOMAIN all : IsFiniteSet(all[n].issues)
  BY DeviceRowFacts, IssuesFinite
<1> HIDE DEF all, answer
<1>4. I \in SUBSET DOMAIN all OBVIOUS
<1> HIDE DEF I
<1>5. /\ IsFiniteSet(I) /\ rows \in Seq(Range(all)) /\ Len(rows) = Cardinality(I)
      /\ Range(rows) = {all[i] : i \in I}
  BY <1>2, <1>4, KeepFacts
<1>6. \A V : Cardinality({n \in DOMAIN rows : rows[n] \in V}) = Cardinality({n \in I : all[n] \in V})
  BY <1>2, <1>4, KeepCount
<1> HIDE DEF rows
<1>7. \A n \in DOMAIN rows : rows[n] \in Range(all) BY <1>5
<1>8. DOMAIN answer.rooms = AreaNames(server) BY <1>1 DEF CountOf
<1>9. ASSUME NEW r \in AreaNames(server)
      PROVE  answer.rooms[r] = Cardinality({n \in I : all[n].item.areaName = r})
  <2> DEFINE V == {row \in Range(all) : row.item.areaName = r}
  <2>1. answer.rooms[r] = Cardinality({n \in DOMAIN rows : rows[n].item.areaName = r})
    BY <1>1 DEF CountOf, Quantify, Areas
  <2>2. {n \in DOMAIN rows : rows[n] \in V} = {n \in DOMAIN rows : rows[n].item.areaName = r} BY <1>7
  <2>3. {n \in I : all[n] \in V} = {n \in I : all[n].item.areaName = r} BY <1>4 DEF Range
  <2> HIDE DEF V
  <2> QED BY <2>1, <2>2, <2>3, <1>6
<1>12. DOMAIN answer.integrations = Range(Integrations(all)) \ {None} BY <1>1 DEF CountOf
<1>10. ASSUME NEW i \in Range(Integrations(all)) \ {None}
       PROVE  answer.integrations[i] = Cardinality({n \in I : all[n].item.integration = i})
  <2> DEFINE V == {row \in Range(all) : row.item.integration = i}
  <2>1. answer.integrations[i] = Cardinality({n \in DOMAIN rows : rows[n].item.integration = i})
    BY <1>1 DEF CountOf, Quantify, Integrations
  <2>2. {n \in DOMAIN rows : rows[n] \in V} = {n \in DOMAIN rows : rows[n].item.integration = i} BY <1>7
  <2>3. {n \in I : all[n] \in V} = {n \in I : all[n].item.integration = i} BY <1>4 DEF Range
  <2> HIDE DEF V
  <2> QED BY <2>1, <2>2, <2>3, <1>6
<1>11. ASSUME NEW t \in DOMAIN answer.types
       PROVE  answer.types[t] = 0 <=> \A n \in I : \A i \in all[n].issues : i.type # t
  <2> DEFINE per(n) == {<<n, i>> : i \in {j \in rows[n].issues : j.type = t}}
             sets == {per(n) : n \in DOMAIN rows}
             f == [n \in DOMAIN rows |-> per(n)]
  <2>1. answer.types[t] = Cardinality(UNION sets) BY <1>1 DEF IssueCounts
  <2>2. ASSUME NEW n \in DOMAIN rows PROVE IsFiniteSet(per(n))
    <3> DEFINE J == {j \in rows[n].issues : j.type = t}
               g == [i \in J |-> <<n, i>>]
    <3>1. \E m \in DOMAIN all : rows[n] = all[m] BY <1>7 DEF Range
    <3>2. IsFiniteSet(rows[n].issues) BY <3>1, <1>3
    <3>3. IsFiniteSet(J) BY <3>2, FS_Subset
    <3>4. DOMAIN g = J /\ Range(g) = per(n) BY DEF Range
    <3> HIDE DEF g, J, per
    <3> QED BY <3>3, <3>4, ImageFinite
  <2>3. IsFiniteSet(DOMAIN rows)
    <3>1. DOMAIN rows = 1..Len(rows) /\ Len(rows) \in Nat BY <1>5
    <3> QED BY <3>1, FS_Interval
  <2>4. DOMAIN f = DOMAIN rows /\ Range(f) = sets BY DEF Range
  <2>5. IsFiniteSet(sets)
    <3> HIDE DEF f, sets
    <3> QED BY <2>3, <2>4, ImageFinite
  <2>6. IsFiniteSet(UNION sets)
    <3>1. \A S \in sets : IsFiniteSet(S)
      <4> HIDE DEF per
      <4> QED BY <2>2
    <3> HIDE DEF sets
    <3> QED BY <2>5, <3>1, FS_UNION
  <2>7. answer.types[t] = 0 <=> UNION sets = {}
    <3> HIDE DEF sets
    <3> QED BY <2>1, <2>6, FS_EmptySet
  <2>8. UNION sets = {} <=> \A n \in DOMAIN rows : \A i \in rows[n].issues : i.type # t
    <3>1. \A n \in DOMAIN rows : per(n) = {} <=> \A i \in rows[n].issues : i.type # t OBVIOUS
    <3> HIDE DEF per
    <3>2. UNION sets = {} <=> \A n \in DOMAIN rows : per(n) = {} OBVIOUS
    <3> QED BY <3>1, <3>2
  <2>9. (\A n \in DOMAIN rows : \A i \in rows[n].issues : i.type # t) <=>
        (\A n \in I : \A i \in all[n].issues : i.type # t)
    <3>1. \A n \in DOMAIN rows : \E m \in I : rows[n] = all[m] BY <1>5 DEF Range
    <3>2. \A m \in I : \E n \in DOMAIN rows : rows[n] = all[m] BY <1>5 DEF Range
    <3> QED BY <3>1, <3>2
  <2> QED BY <2>7, <2>8, <2>9
<1> HIDE DEF rows
<1> QED BY <1>1, <1>5, <1>8, <1>9, <1>10, <1>11, <1>12 DEF I, all, answer

(* The number beside a room or an integration is what choosing it would    *)
(* show, and a rule type at zero is one that would show nothing            *)
(* (api/devices.py, list_devices, which counts what the other filters      *)
(* leave): for any devices, rules and page.                                *)
THEOREM CountsPredict == Spec => []CountsPredictFilters
<1>1. IInv => CountsPredictFilters
  <2> DEFINE all == DeviceRows(server)
             I(q) == {n \in DOMAIN all : DeviceWanted(all[n], q)}
             A(q) == DeviceAnswer(server, all, q)
             Predict(q) ==
               LET now == A(q) IN
               /\ DevicesCurrent => \A r \in DOMAIN now.rooms : now.rooms[r] = A([q EXCEPT !.rooms = {r}]).total
               /\ \A i \in DOMAIN now.integrations :
                    now.integrations[i] = A([q EXCEPT !.integrations = {i}]).total
               /\ \A t \in DOMAIN now.types :
                    now.types[t] = 0 <=> A([q EXCEPT !.types = {t}]).total = 0
  <2> SUFFICES ASSUME IInv, NEW b \in BOOLEAN
               PROVE  Predict([Everything EXCEPT !.withIssues = b, !.size = 1])
    <3>1. (\A b \in BOOLEAN : Predict([Everything EXCEPT !.withIssues = b, !.size = 1]))
            => CountsPredictFilters
      <4>1. CountsPredictFilters <=>
              \A q \in {[Everything EXCEPT !.withIssues = b, !.size = 1] : b \in BOOLEAN} : Predict(q)
        BY DEF CountsPredictFilters
      <4> HIDE DEF Predict
      <4> QED BY <4>1
    <3> HIDE DEF Predict
    <3> QED BY <3>1
  <2> DEFINE q == [Everything EXCEPT !.withIssues = b, !.size = 1]
  <2>1. \A v : LET p == [q EXCEPT !.rooms = v] IN
               /\ p.text = None /\ p.rooms = v /\ p.types = {} /\ p.integrations = {} /\ p.withIssues = b
    BY DEF Everything
  <2>2. \A v : LET p == [q EXCEPT !.integrations = v] IN
               /\ p.text = None /\ p.rooms = {} /\ p.types = {} /\ p.integrations = v /\ p.withIssues = b
    BY DEF Everything
  <2>3. \A v : LET p == [q EXCEPT !.types = v] IN
               /\ p.text = None /\ p.rooms = {} /\ p.types = v /\ p.integrations = {} /\ p.withIssues = b
    BY DEF Everything
  <2>4. q.text = None /\ q.rooms = {} /\ q.types = {} /\ q.integrations = {} /\ q.withIssues = b
    BY DEF Everything
  <2> HIDE DEF q, all
  <2>5. \A row : DeviceWanted(row, q) <=> (b => row.issues # {})
    BY <2>4 DEF DeviceWanted, MatchesQuery, OneOf, IssueWanted
  <2>6. /\ DOMAIN A(q).rooms = AreaNames(server)
        /\ \A r \in AreaNames(server) :
             A(q).rooms[r] = Cardinality({n \in I(q) : all[n].item.areaName = r})
        /\ \A i \in DOMAIN A(q).integrations :
             A(q).integrations[i] = Cardinality({n \in I(q) : all[n].item.integration = i})
        /\ \A t \in DOMAIN A(q).types :
             A(q).types[t] = 0 <=> \A n \in I(q) : \A i \in all[n].issues : i.type # t
    <3>1. DOMAIN A(q).rooms = AreaNames(server) BY DeviceAnswerFacts DEF all
    <3>2. \A r \in AreaNames(server) :
             A(q).rooms[r] = Cardinality({n \in I(q) : all[n].item.areaName = r})
      BY DeviceAnswerFacts DEF all
    <3>3. \A i \in DOMAIN A(q).integrations :
             A(q).integrations[i] = Cardinality({n \in I(q) : all[n].item.integration = i})
      <4>1. DOMAIN A(q).integrations = Range(Integrations(all)) \ {None} BY DeviceAnswerFacts DEF all
      <4>2. \A i \in Range(Integrations(all)) \ {None} :
              A(q).integrations[i] = Cardinality({n \in I(q) : all[n].item.integration = i})
        BY DeviceAnswerFacts DEF all
      <4> QED BY <4>1, <4>2
    <3>4. \A t \in DOMAIN A(q).types :
             A(q).types[t] = 0 <=> \A n \in I(q) : \A i \in all[n].issues : i.type # t
      BY DeviceAnswerFacts DEF all
    <3> QED BY <3>1, <3>2, <3>3, <3>4
  <2>7. \A p : IsFiniteSet(I(p)) /\ A(p).total = Cardinality(I(p)) BY DeviceAnswerFacts DEF all
  <2>8. ASSUME DevicesCurrent, NEW r \in DOMAIN A(q).rooms
        PROVE  A(q).rooms[r] = A([q EXCEPT !.rooms = {r}]).total
    <3> DEFINE p == [q EXCEPT !.rooms = {r}]
    <3>1. p.text = None /\ p.rooms = {r} /\ p.types = {} /\ p.integrations = {} /\ p.withIssues = b
      BY <2>1
    <3> HIDE DEF p
    <3>2. \A row : DeviceWanted(row, p) <=> InRooms(row.item.areaName, {r}) /\ (b => row.issues # {})
      BY <3>1 DEF DeviceWanted, MatchesQuery, OneOf, IssueWanted
    <3>3. \A n \in DOMAIN all : InRooms(all[n].item.areaName, {r}) <=> all[n].item.areaName = r
      <4> SUFFICES ASSUME NEW n \in DOMAIN all
                   PROVE  InRooms(all[n].item.areaName, {r}) <=> all[n].item.areaName = r
        OBVIOUS
      <4>1. /\ n \in DOMAIN server.devices
            /\ all[n].item.areaName = server.devices[n].areaName
        BY DeviceRowFacts, HydratedFacts DEF all
      <4>2. /\ server.devices[n].areaName = Get(server.areas, server.devices[n].area)
            /\ server.devices[n].area \in DOMAIN server.areas \cup {None}
            /\ NamedApart(server.areas)
        BY <4>1, <2>8, CurrentFacts DEF IInv, ServerOK, Range
      <4>3. PICK a \in DOMAIN server.areas : r = server.areas[a] BY <2>6 DEF AreaNames
      <4> DEFINE c == server.devices[n].area
      <4>4. /\ InRooms(Get(server.areas, c), {r}) <=> c = a
            /\ Get(server.areas, c) = None <=> c = None
            /\ r # None /\ a # None
        BY <4>2, <4>3, RoomFacts
      <4>5. Get(server.areas, c) = r <=> c = a
        <5>1. CASE c = None BY <5>1, <4>4
        <5>2. CASE c # None
          <6>1. c \in DOMAIN server.areas /\ Get(server.areas, c) = server.areas[c]
            BY <5>2, <4>2 DEF Get
          <6>2. server.areas[c] = server.areas[a] => c = a BY <6>1, <4>2 DEF NamedApart
          <6> QED BY <6>1, <6>2, <4>3
        <5> QED BY <5>1, <5>2
      <4> QED BY <4>1, <4>2, <4>4, <4>5
    <3>4. I(p) = {n \in I(q) : all[n].item.areaName = r} BY <2>5, <3>2, <3>3
    <3> QED BY <2>6, <2>7, <3>4 DEF p
  <2>9. ASSUME NEW i \in DOMAIN A(q).integrations
        PROVE  A(q).integrations[i] = A([q EXCEPT !.integrations = {i}]).total
    <3> DEFINE p == [q EXCEPT !.integrations = {i}]
    <3>1. p.text = None /\ p.rooms = {} /\ p.types = {} /\ p.integrations = {i} /\ p.withIssues = b
      BY <2>2
    <3> HIDE DEF p
    <3>2. \A row : DeviceWanted(row, p) <=> row.item.integration = i /\ (b => row.issues # {})
      BY <3>1 DEF DeviceWanted, MatchesQuery, OneOf, IssueWanted
    <3>3. I(p) = {n \in I(q) : all[n].item.integration = i} BY <2>5, <3>2
    <3> QED BY <2>6, <2>7, <3>3 DEF p
  <2>10. ASSUME NEW t \in DOMAIN A(q).types
         PROVE  A(q).types[t] = 0 <=> A([q EXCEPT !.types = {t}]).total = 0
    <3> DEFINE p == [q EXCEPT !.types = {t}]
    <3>1. p.text = None /\ p.rooms = {} /\ p.types = {t} /\ p.integrations = {} /\ p.withIssues = b
      BY <2>3
    <3> HIDE DEF p
    <3>2. \A row : DeviceWanted(row, p) <=> (\E i \in row.issues : i.type = t) /\ (b => row.issues # {})
      BY <3>1 DEF DeviceWanted, MatchesQuery, OneOf, IssueWanted
    <3>3. I(p) = {n \in I(q) : \E i \in all[n].issues : i.type = t} BY <2>5, <3>2
    <3>4. A(p).total = 0 <=> I(p) = {} BY <2>7, FS_EmptySet
    <3>5. I(p) = {} <=> \A n \in I(q) : \A i \in all[n].issues : i.type # t BY <3>3
    <3> QED BY <2>6, <3>4, <3>5 DEF p
  <2> QED BY <2>8, <2>9, <2>10 DEF q, all
<1> QED BY <1>1, Invariance, PTL

---------------------------------------------------------------------------
(* Pages put together. *)

(* The order of the natural numbers as a relation.                         *)
LEMMA LessThan == OpToRel(<, Nat) = {p \in Nat \X Nat : p[1] < p[2]}
BY SMT DEF OpToRel

(* Induction, said of a set: what has 0 and every successor has all.       *)
LEMMA Successors ==
  ASSUME NEW T \in SUBSET Nat, 0 \in T, \A n \in T : n + 1 \in T PROVE T = Nat
<1> DEFINE R == {p \in Nat \X Nat : p[1] < p[2]}
<1>1. IsWellFoundedOn(R, Nat) BY NatLessThanWellFounded, LessThan
<1>2. SUFFICES ASSUME Nat \ T # {} PROVE FALSE OBVIOUS
<1>3. PICK x \in Nat \ T : \A y \in Nat \ T : <<y, x>> \notin R
  <2> HIDE DEF R
  <2> QED BY <1>1, <1>2, WFMin
<1>4. x # 0 /\ x - 1 \in Nat /\ (x - 1) + 1 = x BY <1>3
<1>5. <<x - 1, x>> \in R BY <1>4
<1>6. x - 1 \in T BY <1>3, <1>4, <1>5
<1> QED BY <1>3, <1>4, <1>6

(* Flattening is what its recursion says, once something satisfies that.   *)
Joins(g, p, K) == g = [i \in 1..K |-> IF i = 1 THEN p[i] ELSE g[i - 1] \o p[i]]

(* It is what its recursion says.                                          *)
LEMMA FlattenFacts ==
  ASSUME NEW K, K \in Nat, K # 0, NEW p, DOMAIN p = 1..K, Len(p) = K, NEW g, Joins(g, p, K)
  PROVE  FlattenSeq(p) = g[K]
<1> DEFINE f == CHOOSE h : Joins(h, p, K)
<1>1. FlattenSeq(p) = f[K] BY DEF FlattenSeq, Joins
<1>2. Joins(f, p, K) OBVIOUS
<1> HIDE DEF f
<1>3. \A i \in 1..K : f[i] = IF i = 1 THEN p[i] ELSE f[i - 1] \o p[i] BY <1>2 DEF Joins
<1>4. \A i \in 1..K : g[i] = IF i = 1 THEN p[i] ELSE g[i - 1] \o p[i] BY DEF Joins
<1> DEFINE T == {n \in Nat : n + 1 \in 1..K => f[n + 1] = g[n + 1]}
<1>5. 0 \in T BY <1>3, <1>4
<1>6. ASSUME NEW n \in T PROVE n + 1 \in T
  <2> SUFFICES ASSUME (n + 1) + 1 \in 1..K PROVE f[(n + 1) + 1] = g[(n + 1) + 1] OBVIOUS
  <2> DEFINE k == (n + 1) + 1
  <2>1. n + 1 \in 1..K /\ k # 1 /\ k - 1 = n + 1 /\ k \in 1..K OBVIOUS
  <2>2. f[n + 1] = g[n + 1] BY <2>1
  <2> HIDE DEF k
  <2>3. f[k] = f[k - 1] \o p[k] BY <1>3, <2>1
  <2>4. g[k] = g[k - 1] \o p[k] BY <1>4, <2>1
  <2>5. f[k] = g[k] BY <2>1, <2>2, <2>3, <2>4
  <2> QED BY <2>5 DEF k
<1>7. T = Nat
  <2>1. T \in SUBSET Nat OBVIOUS
  <2> HIDE DEF T
  <2> QED BY <1>5, <1>6, <2>1, Successors
<1>8. f[K] = g[K]
  <2> DEFINE n == K - 1
  <2>1. n \in Nat /\ n + 1 = K /\ n + 1 \in 1..K OBVIOUS
  <2> HIDE DEF n
  <2>2. f[n + 1] = g[n + 1] BY <1>7, <2>1
  <2> QED BY <2>1, <2>2
<1> QED BY <1>1, <1>8

(* A sequence cut up, put together again.                                  *)
LEMMA FlattenCut ==
  ASSUME NEW T, NEW s \in Seq(T), NEW K \in Nat \ {0}, NEW cut \in [0..K -> 0..Len(s)],
         cut[0] = 0, cut[K] = Len(s), \A i \in 1..K : cut[i - 1] <= cut[i]
  PROVE  FlattenSeq([n \in 1..K |-> SubSeq(s, cut[n - 1] + 1, cut[n])]) = s
<1> DEFINE p == [n \in 1..K |-> SubSeq(s, cut[n - 1] + 1, cut[n])]
           g == [n \in 1..K |-> SubSeq(s, 1, cut[n])]
<1>1. DOMAIN p = 1..K /\ Len(p) = K OBVIOUS
<1>2. g[1] = p[1] OBVIOUS
<1>3. ASSUME NEW i \in 1..K, i # 1 PROVE g[i] = g[i - 1] \o p[i]
  <2> DEFINE m == cut[i - 1]
             n == cut[i]
  <2>1. i - 1 \in 1..K BY <1>3
  <2>2. m \in 0..Len(s) /\ n \in 0..Len(s) /\ m <= n /\ Len(s) \in Nat BY <2>1
  <2>3. g[i] = SubSeq(s, 1, n) /\ g[i - 1] = SubSeq(s, 1, m) /\ p[i] = SubSeq(s, m + 1, n) BY <2>1
  <2> HIDE DEF m, n, g, p
  <2>4. SubSeq(s, 1, n) = SubSeq(s, 1, m) \o SubSeq(s, m + 1, n)
    <3>1. 1 \in 1..(Len(s) + 1) /\ m \in (1 - 1)..Len(s) /\ n \in m..Len(s) BY <2>2
    <3> QED BY <3>1, ConcatAdjacentSubSeq
  <2> QED BY <2>3, <2>4
<1>4. Joins(g, p, K)
  <2>1. g = [i \in 1..K |-> g[i]] OBVIOUS
  <2> HIDE DEF g, p
  <2> QED BY <1>2, <1>3, <2>1 DEF Joins
<1>5. g[K] = s OBVIOUS
<1> HIDE DEF g, p
<1>6. FlattenSeq(p) = g[K] BY <1>1, <1>4, FlattenFacts
<1> QED BY <1>5, <1>6 DEF p

(* Pages of one or two rows, all of them.                                  *)
LEMMA PagesFacts ==
  ASSUME NEW T, NEW s \in Seq(T), NEW size \in 1..2
  PROVE  FlattenSeq([n \in 1..(Len(s) \div size + 1) |->
            SubSeq(s, (n - 1) * size + 1, Min({n * size, Len(s)}))]) = s
<1> DEFINE K == Len(s) \div size + 1
           cut == [i \in 0..K |-> IF i * size <= Len(s) THEN i * size ELSE Len(s)]
<1>1. Len(s) \in Nat OBVIOUS
<1>2. K \in Nat \ {0} /\ (K - 1) * size <= Len(s) /\ Len(s) <= K * size
  <2>1. CASE size = 1 BY <1>1, <2>1
  <2>2. CASE size = 2 BY <1>1, <2>2
  <2> QED BY <2>1, <2>2
<1>3. \A i \in 0..K : i * size \in Nat /\ (i < K => i * size <= Len(s))
  <2>1. CASE size = 1 BY <1>1, <1>2, <2>1
  <2>2. CASE size = 2 BY <1>1, <1>2, <2>2
  <2> QED BY <2>1, <2>2
<1>4. \A i \in 1..K : i - 1 \in 0..K /\ (i - 1) * size <= i * size
  <2>1. CASE size = 1 BY <1>2, <2>1
  <2>2. CASE size = 2 BY <1>2, <2>2
  <2> QED BY <2>1, <2>2
<1>5. 0 * size = 0 OBVIOUS
<1> HIDE DEF K
<1>6. cut \in [0..K -> 0..Len(s)] BY <1>1, <1>2, <1>3
<1>7. cut[0] = 0 /\ cut[K] = Len(s) BY <1>1, <1>2, <1>3, <1>5
<1>8. \A i \in 1..K : cut[i - 1] <= cut[i] BY <1>1, <1>2, <1>3, <1>4
<1>9. \A i \in 1..K : cut[i - 1] = (i - 1) * size /\ cut[i] = Min({i * size, Len(s)})
  <2> SUFFICES ASSUME NEW i \in 1..K
               PROVE  cut[i - 1] = (i - 1) * size /\ cut[i] = Min({i * size, Len(s)})
    OBVIOUS
  <2>1. i \in 0..K /\ i - 1 \in 0..K /\ i - 1 < K BY <1>2
  <2>2. i * size \in Int /\ Len(s) \in Int BY <1>1, <1>3, <2>1
  <2>3. Min({i * size, Len(s)}) = IF i * size <= Len(s) THEN i * size ELSE Len(s)
    BY <2>2, MinFacts
  <2> QED BY <1>3, <2>1, <2>3
<1> HIDE DEF cut
<1>10. FlattenSeq([n \in 1..K |-> SubSeq(s, cut[n - 1] + 1, cut[n])]) = s
  BY <1>2, <1>6, <1>7, <1>8, FlattenCut
<1>11. [n \in 1..K |-> SubSeq(s, cut[n - 1] + 1, cut[n])] =
       [n \in 1..K |-> SubSeq(s, (n - 1) * size + 1, Min({n * size, Len(s)}))]
  BY <1>9
<1> QED BY <1>10, <1>11 DEF K

(* All pages of an area's exceptions, put together, are the exceptions of  *)
(* what is in the area, newest first, and total counts them                *)
(* (storage/exceptions_repo.py, list_paginated, which pages after the filter):  *)
(* for lists of any length.                                                *)
THEOREM ExceptionPagesWhole == Spec => []ExceptionPages
<1>1. IInv => ExceptionPages
  <2> SUFFICES ASSUME IInv, NEW a \in DOMAIN server.areas, NEW size \in 1..2
               PROVE  LET answer(n) == ListExceptions(server, [NoFilter EXCEPT !.areas = {a}, !.page = n, !.size = size])
                          there     == TargetsIn(server, {a})
                          keys      == server.exceptions
                          wanted    == Keep(keys, {n \in DOMAIN keys : keys[n][2] \in there[keys[n][1]]})
                      IN  answer(1).total = Len(wanted) /\ Pages(answer, size, Len(wanted)) = wanted
    BY DEF ExceptionPages
  <2> DEFINE f(n) == [NoFilter EXCEPT !.areas = {a}, !.page = n, !.size = size]
             keys == server.exceptions
             there == TargetsIn(server, {a})
             I == {n \in DOMAIN keys : keys[n][2] \in there[keys[n][1]]}
             wanted == Keep(keys, I)
  <2>1. \A n : /\ f(n).policies = {} /\ f(n).devices = {} /\ f(n).entities = {} /\ f(n).text = None
               /\ f(n).areas = {a} /\ f(n).page = n /\ f(n).size = size
    BY DEF NoFilter
  <2> HIDE DEF f, there
  <2>2. \A key, n : ExceptionWanted(server, key, f(n)) <=> key[2] \in there[key[1]]
    BY <2>1 DEF ExceptionWanted, OneOf, SearchFinds, there
  <2>3. \A n : Wanted(server, keys, f(n)) = wanted BY <2>2 DEF Wanted
  <2>4. wanted \in Seq(Range(keys))
    <3>1. keys \in Seq(Range(keys)) BY DEF IInv, KeysOK
    <3>2. I \in SUBSET DOMAIN keys OBVIOUS
    <3> HIDE DEF keys, I
    <3> QED BY <3>1, <3>2, KeepFacts
  <2> HIDE DEF wanted
  <2>5. \A n : /\ ListExceptions(server, f(n)).total = Len(wanted)
               /\ ListExceptions(server, f(n)).rows =
                    SubSeq(wanted, (n - 1) * size + 1, Min({n * size, Len(wanted)}))
    BY <2>1, <2>3 DEF ListExceptions, Page
  <2>6. FlattenSeq([n \in 1..(Len(wanted) \div size + 1) |-> ListExceptions(server, f(n)).rows]) = wanted
    BY <2>4, <2>5, PagesFacts
  <2> QED BY <2>5, <2>6 DEF Pages, f, wanted, there
<1> QED BY <1>1, Invariance, PTL

---------------------------------------------------------------------------
(***************************************************************************)
(* Sorting: Less is the lexicographic order, decided at the first position *)
(* where two keys differ.                                                  *)
(***************************************************************************)

(* k comes before l at position n: at the first where they differ.         *)
Decides(k, l, n) ==
  /\ n \in 1..Len(l) /\ n <= Len(k) + 1
  /\ \A m \in 1..(n - 1) : k[m] = l[m]
  /\ n = Len(k) + 1 \/ (n <= Len(k) /\ k[n] < l[n])

(* Prefixes are the same when their elements are.                          *)
LEMMA SamePrefix ==
  ASSUME NEW k \in Seq(Nat), NEW l \in Seq(Nat), NEW n \in Nat, n <= Len(k), n <= Len(l)
  PROVE  SubSeq(k, 1, n) = SubSeq(l, 1, n) <=> \A m \in 1..n : k[m] = l[m]
<1> DEFINE a == SubSeq(k, 1, n)
           b == SubSeq(l, 1, n)
<1>1. a \in Seq(Nat) /\ Len(a) = n /\ \A m \in 1..n : a[m] = k[m] OBVIOUS
<1>2. b \in Seq(Nat) /\ Len(b) = n /\ \A m \in 1..n : b[m] = l[m] OBVIOUS
<1> HIDE DEF a, b
<1>3. a = b <=> \A m \in 1..n : k[m] = l[m] BY <1>1, <1>2
<1> QED BY <1>3 DEF a, b

(* Less says that some position decides.                                   *)
LEMMA LessDecides ==
  ASSUME NEW k \in Seq(Nat), NEW l \in Seq(Nat)
  PROVE  Less(k, l) <=> \E n : Decides(k, l, n)
<1>1. Len(k) \in Nat /\ Len(l) \in Nat /\ DOMAIN k = 1..Len(k) /\ DOMAIN l = 1..Len(l) OBVIOUS
<1>2. ASSUME IsStrictPrefix(k, l) PROVE Decides(k, l, Len(k) + 1)
  <2>1. /\ Len(k) <= Len(l) /\ SubSeq(k, 1, Len(k)) = SubSeq(l, 1, Len(k)) /\ k # l
    BY <1>2 DEF IsStrictPrefix, IsPrefix
  <2>2. \A m \in 1..Len(k) : k[m] = l[m] BY <1>1, <2>1, SamePrefix
  <2>3. Len(k) # Len(l) BY <2>1, <2>2
  <2>4. Len(k) + 1 \in 1..Len(l) /\ (Len(k) + 1) - 1 = Len(k)
    <3> DEFINE a == Len(k)
               b == Len(l)
    <3>1. a \in Nat /\ b \in Nat /\ a <= b /\ a # b BY <1>1, <2>1, <2>3
    <3> HIDE DEF a, b
    <3>2. a + 1 \in 1..b /\ (a + 1) - 1 = a BY <3>1
    <3> QED BY <3>2 DEF a, b
  <2> QED BY <1>1, <2>2, <2>4 DEF Decides
<1>3. ASSUME NEW n \in DOMAIN k \cap DOMAIN l, k[n] < l[n],
             SubSeq(k, 1, n - 1) = SubSeq(l, 1, n - 1)
      PROVE  Decides(k, l, n)
  <2>1. n \in 1..Len(k) /\ n \in 1..Len(l) /\ n - 1 \in Nat /\ n - 1 <= Len(k) /\ n - 1 <= Len(l)
    BY <1>1
  <2>2. \A m \in 1..(n - 1) : k[m] = l[m] BY <1>3, <2>1, SamePrefix
  <2> QED BY <1>1, <1>3, <2>1, <2>2 DEF Decides
<1>4. ASSUME NEW n, Decides(k, l, n) PROVE Less(k, l)
  <2>1. /\ n \in 1..Len(l) /\ n <= Len(k) + 1 /\ \A m \in 1..(n - 1) : k[m] = l[m]
        /\ n = Len(k) + 1 \/ (n <= Len(k) /\ k[n] < l[n])
    BY <1>4 DEF Decides
  <2>2. n - 1 \in Nat /\ n - 1 <= Len(k) /\ n - 1 <= Len(l) BY <1>1, <2>1
  <2>3. SubSeq(k, 1, n - 1) = SubSeq(l, 1, n - 1) BY <2>1, <2>2, SamePrefix
  <2>4. CASE n = Len(k) + 1
    <3>1. Len(k) < Len(l) /\ n - 1 = Len(k) BY <1>1, <2>1, <2>4
    <3>2. k # l BY <3>1
    <3>3. IsStrictPrefix(k, l) BY <1>1, <2>3, <3>1, <3>2 DEF IsStrictPrefix, IsPrefix
    <3> QED BY <3>3 DEF Less
  <2>5. CASE n <= Len(k) /\ k[n] < l[n]
    <3>1. n \in DOMAIN k \cap DOMAIN l BY <1>1, <2>1, <2>5
    <3> QED BY <2>3, <2>5, <3>1 DEF Less
  <2> QED BY <2>1, <2>4, <2>5
<1> QED BY <1>2, <1>3, <1>4 DEF Less

(* None decides between a key and itself.                                  *)
LEMMA DecidesNot ==
  ASSUME NEW k \in Seq(Nat), NEW n PROVE ~Decides(k, k, n)
<1> SUFFICES ASSUME Decides(k, k, n) PROVE FALSE OBVIOUS
<1>1. n \in 1..Len(k) /\ Len(k) \in Nat /\ k[n] \in Nat BY DEF Decides
<1> QED BY <1>1 DEF Decides

(* Of two deciding positions the earlier one decides.                      *)
LEMMA DecidesTrans ==
  ASSUME NEW j \in Seq(Nat), NEW k \in Seq(Nat), NEW l \in Seq(Nat),
         NEW m, Decides(j, k, m), NEW n, Decides(k, l, n)
  PROVE  \E o : Decides(j, l, o)
<1>1. Len(j) \in Nat /\ Len(k) \in Nat /\ Len(l) \in Nat OBVIOUS
<1>2. /\ m \in 1..Len(k) /\ m <= Len(j) + 1 /\ \A i \in 1..(m - 1) : j[i] = k[i]
      /\ m = Len(j) + 1 \/ (m <= Len(j) /\ j[m] < k[m])
  BY DEF Decides
<1>3. /\ n \in 1..Len(l) /\ n <= Len(k) + 1 /\ \A i \in 1..(n - 1) : k[i] = l[i]
      /\ n = Len(k) + 1 \/ (n <= Len(k) /\ k[n] < l[n])
  BY DEF Decides
<1>4. CASE m < n
  <2>1. m \in 1..Len(l) /\ m \in 1..(n - 1) BY <1>1, <1>2, <1>3, <1>4
  <2>2. k[m] = l[m] BY <1>3, <2>1
  <2>3. \A i \in 1..(m - 1) : i \in 1..(n - 1) BY <1>2, <1>3, <1>4
  <2>4. \A i \in 1..(m - 1) : j[i] = l[i] BY <1>2, <1>3, <2>3
  <2>5. Decides(j, l, m) BY <1>2, <2>1, <2>2, <2>4 DEF Decides
  <2> QED BY <2>5
<1>5. CASE m = n
  <2>1. n <= Len(k) /\ k[n] < l[n] BY <1>1, <1>2, <1>3, <1>5
  <2>2. \A i \in 1..(m - 1) : j[i] = l[i] BY <1>2, <1>3, <1>5
  <2>3. m <= Len(j) /\ j[m] < k[m] => j[m] < l[m]
    <3>1. k[n] \in Nat /\ l[n] \in Nat BY <1>2, <1>3, <1>5
    <3>2. m <= Len(j) => j[m] \in Nat BY <1>1, <1>2
    <3> QED BY <1>5, <2>1, <3>1, <3>2
  <2>4. Decides(j, l, m) BY <1>2, <1>3, <1>5, <2>2, <2>3 DEF Decides
  <2> QED BY <2>4
<1>6. CASE m > n
  <2>1. n \in 1..(m - 1) /\ n <= Len(k) /\ n <= Len(j) BY <1>1, <1>2, <1>3, <1>6
  <2>2. j[n] = k[n] /\ k[n] < l[n] BY <1>1, <1>2, <1>3, <2>1
  <2>3. \A i \in 1..(n - 1) : i \in 1..(m - 1) BY <1>2, <1>3, <1>6
  <2>4. \A i \in 1..(n - 1) : j[i] = l[i] BY <1>2, <1>3, <2>3
  <2>5. Decides(j, l, n) BY <1>1, <1>3, <2>1, <2>2, <2>4 DEF Decides
  <2> QED BY <2>5
<1> QED BY <1>1, <1>2, <1>3, <1>4, <1>5, <1>6

(* Of two keys that differ, some position decides.                         *)
LEMMA DecidesTotal ==
  ASSUME NEW k \in Seq(Nat), NEW l \in Seq(Nat), k # l
  PROVE  \E n : Decides(k, l, n) \/ Decides(l, k, n)
<1> DEFINE Agree(n) == n <= Len(k) /\ n <= Len(l) /\ \A m \in 1..n : k[m] = l[m]
           T == {n \in Nat : Agree(n)}
<1>1. Len(k) \in Nat /\ Len(l) \in Nat OBVIOUS
<1>2. 0 \in T BY <1>1
<1>3. PICK n \in T : n + 1 \notin T
  <2>1. T # Nat
    <3>1. Len(k) + 1 \in Nat /\ ~(Len(k) + 1 <= Len(k)) BY <1>1
    <3>2. Len(k) + 1 \notin T BY <3>1
    <3> HIDE DEF T
    <3> QED BY <3>1, <3>2
  <2>2. T \in SUBSET Nat OBVIOUS
  <2> HIDE DEF T
  <2> QED BY <1>2, <2>1, <2>2, Successors
<1>4. n \in Nat /\ n <= Len(k) /\ n <= Len(l) /\ \A m \in 1..n : k[m] = l[m] OBVIOUS
<1>5. ~(n + 1 <= Len(k) /\ n + 1 <= Len(l) /\ k[n + 1] = l[n + 1])
  <2> SUFFICES ASSUME n + 1 <= Len(k), n + 1 <= Len(l), k[n + 1] = l[n + 1] PROVE FALSE OBVIOUS
  <2>1. \A m \in 1..(n + 1) : m \in 1..n \/ m = n + 1 BY <1>4
  <2>2. \A m \in 1..(n + 1) : k[m] = l[m] BY <1>4, <2>1
  <2> QED BY <1>3, <1>4, <2>2
<1> DEFINE p == n + 1
<1>6. p - 1 = n /\ p \in Nat /\ p >= 1 BY <1>4
<1> HIDE DEF T, p
<1>7. CASE n = Len(k)
  <2>1. n # Len(l) BY <1>1, <1>4, <1>7
  <2>2. Decides(k, l, p) BY <1>1, <1>4, <1>6, <1>7, <2>1 DEF Decides, p
  <2> QED BY <2>2
<1>8. CASE n = Len(l) /\ n # Len(k)
  <2>1. Decides(l, k, p) BY <1>1, <1>4, <1>6, <1>8 DEF Decides, p
  <2> QED BY <2>1
<1>9. CASE n # Len(k) /\ n # Len(l)
  <2>1. p \in 1..Len(k) /\ p \in 1..Len(l) /\ k[p] # l[p] BY <1>1, <1>4, <1>5, <1>9 DEF p
  <2>2. k[p] \in Nat /\ l[p] \in Nat BY <2>1
  <2>3. CASE k[p] < l[p]
    <3>1. Decides(k, l, p) BY <1>1, <1>4, <1>6, <2>1, <2>3 DEF Decides
    <3> QED BY <3>1
  <2>4. CASE l[p] < k[p]
    <3>1. Decides(l, k, p) BY <1>1, <1>4, <1>6, <2>1, <2>4 DEF Decides
    <3> QED BY <3>1
  <2> QED BY <2>1, <2>2, <2>3, <2>4
<1> QED BY <1>7, <1>8, <1>9

(* Less is a strict total order of the keys.                               *)
LEMMA LessOrders ==
  /\ \A k \in Seq(Nat) : ~Less(k, k)
  /\ \A k, l \in Seq(Nat) : k # l => Less(k, l) \/ Less(l, k)
  /\ \A j, k, l \in Seq(Nat) : Less(j, k) /\ Less(k, l) => Less(j, l)
<1>1. ASSUME NEW k \in Seq(Nat) PROVE ~Less(k, k) BY LessDecides, DecidesNot
<1>2. ASSUME NEW k \in Seq(Nat), NEW l \in Seq(Nat), k # l PROVE Less(k, l) \/ Less(l, k)
  BY <1>2, LessDecides, DecidesTotal
<1>3. ASSUME NEW j \in Seq(Nat), NEW k \in Seq(Nat), NEW l \in Seq(Nat), Less(j, k), Less(k, l)
      PROVE  Less(j, l)
  BY <1>3, LessDecides, DecidesTrans
<1> QED BY <1>1, <1>2, <1>3

(* The first number of a lesser key is no greater. *)
LEMMA LessHead ==
  ASSUME NEW k \in Seq(Nat), NEW l \in Seq(Nat), k # << >>, l # << >>, Less(k, l) \/ k = l
  PROVE  k[1] \in Nat /\ l[1] \in Nat /\ k[1] <= l[1]
<1>1. Len(k) \in Nat /\ Len(l) \in Nat /\ Len(k) >= 1 /\ Len(l) >= 1 OBVIOUS
<1>2. k[1] \in Nat /\ l[1] \in Nat BY <1>1
<1>3. CASE k = l BY <1>2, <1>3
<1>4. CASE Less(k, l)
  <2>1. PICK n : Decides(k, l, n) BY <1>4, LessDecides
  <2>2. /\ n \in 1..Len(l) /\ \A m \in 1..(n - 1) : k[m] = l[m]
        /\ n = Len(k) + 1 \/ (n <= Len(k) /\ k[n] < l[n])
    BY <2>1 DEF Decides
  <2>3. CASE n = 1 BY <1>1, <1>2, <2>2, <2>3
  <2>4. CASE n # 1
    <3>1. 1 \in 1..(n - 1) BY <1>1, <2>2, <2>4
    <3> QED BY <1>2, <2>2, <3>1
  <2> QED BY <2>3, <2>4
<1> QED BY <1>2, <1>3, <1>4

(* The keys of a list, by position.                                        *)
KeysOf(s, rows, by) == [i \in DOMAIN rows |-> Key(s, rows[i], by)]

(* The list read is the list rows in the order of the keys, or the other way. *)
OrderedBy(read, rows, key, desc) ==
  /\ Len(read) = Len(rows) /\ Range(read) = Range(rows)
  /\ \E order \in [1..Len(rows) -> 1..Len(rows)] :
       /\ \A n \in 1..Len(rows) : read[n] = rows[order[n]]
       /\ \A m, n \in 1..Len(rows) : m < n =>
            \/ key[order[m]] = key[order[n]]
            \/ desc /\ Less(key[order[n]], key[order[m]])
            \/ ~desc /\ Less(key[order[m]], key[order[n]])

(* A sorted list has the rows it sorts, in the order of their keys. *)
LEMMA SortedFacts ==
  ASSUME NEW T, NEW rows \in Seq(T), NEW s, NEW q, q.sortBy # None, NEW key,
         key = KeysOf(s, rows, q.sortBy),
         \A i \in DOMAIN rows : key[i] \in Seq(Nat)
  PROVE  Sorted(s, rows, q) \in Seq(T) /\ OrderedBy(Sorted(s, rows, q), rows, key, q.desc)
<1> USE DEF KeysOf
<1> DEFINE N == Len(rows)
           at == DOMAIN rows
           before(i, j) == IF key[i] = key[j] THEN i < j
                           ELSE IF q.desc THEN Less(key[j], key[i]) ELSE Less(key[i], key[j])
           rel == {p \in at \X at : before(p[1], p[2])}
           order == Arranged(at, rel)
           new == Sorted(s, rows, q)
<1>1. N \in Nat /\ at = 1..N OBVIOUS
<1>2. new = [n \in at |-> rows[order[n]]] BY DEF Sorted
<1> HIDE DEF at, N, new
<1>3. \A i, j \in at : <<i, j>> \in rel <=> before(i, j) OBVIOUS
<1> HIDE DEF rel
<1>4. StrictTotal(at, rel)
  <2>1. ASSUME NEW i \in at PROVE ~before(i, i) BY <1>1
  <2>2. ASSUME NEW i \in at, NEW j \in at, i # j PROVE before(i, j) \/ before(j, i)
    <3>1. CASE key[i] = key[j] BY <1>1, <2>2, <3>1
    <3>2. CASE key[i] # key[j]
      <4>1. Less(key[i], key[j]) \/ Less(key[j], key[i]) BY <3>2, LessOrders DEF at
      <4> QED BY <3>2, <4>1
    <3> QED BY <3>1, <3>2
  <2>3. ASSUME NEW i \in at, NEW j \in at, NEW k \in at, before(i, j), before(j, k)
        PROVE  before(i, k)
    <3>1. key[i] \in Seq(Nat) /\ key[j] \in Seq(Nat) /\ key[k] \in Seq(Nat) BY DEF at
    <3>2. CASE key[i] = key[j] /\ key[j] = key[k] BY <1>1, <2>3, <3>2
    <3>3. CASE key[i] = key[j] /\ key[j] # key[k] BY <2>3, <3>3
    <3>4. CASE key[i] # key[j] /\ key[j] = key[k] BY <2>3, <3>4
    <3>5. CASE key[i] # key[j] /\ key[j] # key[k]
      <4>1. CASE q.desc
        <5>1. Less(key[j], key[i]) /\ Less(key[k], key[j]) BY <2>3, <3>5, <4>1
        <5>2. Less(key[k], key[i]) BY <3>1, <5>1, LessOrders
        <5>3. key[i] # key[k] BY <3>1, <5>2, LessOrders
        <5> QED BY <4>1, <5>2, <5>3
      <4>2. CASE ~q.desc
        <5>1. Less(key[i], key[j]) /\ Less(key[j], key[k]) BY <2>3, <3>5, <4>2
        <5>2. Less(key[i], key[k]) BY <3>1, <5>1, LessOrders
        <5>3. key[i] # key[k] BY <3>1, <5>2, LessOrders
        <5> QED BY <4>2, <5>2, <5>3
      <4> QED BY <4>1, <4>2
    <3> QED BY <3>2, <3>3, <3>4, <3>5
  <2> HIDE DEF before
  <2> QED BY <1>3, <2>1, <2>2, <2>3 DEF StrictTotal
<1>5. IsFiniteSet(at) /\ Cardinality(at) = N BY <1>1, FS_Interval
<1>6. /\ order \in Bijection(1..N, at)
      /\ \A m, n \in 1..N : m < n => <<order[m], order[n]>> \in rel
  BY <1>4, <1>5, Arrangement
<1> HIDE DEF order
<1>7. /\ order \in [1..N -> 1..N]
      /\ \A i \in 1..N : \E n \in 1..N : order[n] = i
  BY <1>1, <1>6 DEF Bijection, Injection, Surjection
<1>8. \A m, n \in 1..N : m < n => before(order[m], order[n]) BY <1>1, <1>3, <1>6, <1>7
<1>9. \A m, n \in 1..N : m < n =>
        \/ key[order[m]] = key[order[n]]
        \/ q.desc /\ Less(key[order[n]], key[order[m]])
        \/ ~q.desc /\ Less(key[order[m]], key[order[n]])
  BY <1>8
<1> HIDE DEF before
<1>10. new = [n \in 1..N |-> rows[order[n]]] BY <1>1, <1>2
<1>11. \A n \in 1..N : rows[order[n]] \in T BY <1>1, <1>7 DEF at
<1>12. new \in Seq(T) /\ Len(new) = N BY <1>1, <1>10, <1>11
<1>13. Range(new) = Range(rows)
  <2>1. Range(new) = {rows[order[n]] : n \in 1..N} BY <1>10 DEF Range
  <2>2. Range(rows) = {rows[i] : i \in 1..N} BY <1>1 DEF Range, at
  <2>3. {rows[order[n]] : n \in 1..N} \subseteq {rows[i] : i \in 1..N} BY <1>7
  <2>4. ASSUME NEW i \in 1..N PROVE rows[i] \in {rows[order[n]] : n \in 1..N}
    <3>1. PICK n \in 1..N : order[n] = i BY <1>7
    <3> QED BY <3>1
  <2> QED BY <2>1, <2>2, <2>3, <2>4
<1>14. \A n \in 1..N : new[n] = rows[order[n]] BY <1>10
<1> QED BY <1>7, <1>9, <1>12, <1>13, <1>14 DEF N, new, OrderedBy

(* Severities are ranked by numbers.                                       *)
LEMMA RankOfIssues ==
  ASSUME IInv, NEW x, NEW ctx
  PROVE  HighestRank(Evaluate(server.engine, x, ctx)) \in Nat
<1> DEFINE issues == Evaluate(server.engine, x, ctx)
           S == {0} \cup {Rank[i.severity] : i \in issues}
<1>1. \A r \in Range(server.engine) : r.policy.severity \in {"info", "warning", "error"}
  <2>1. PICK names : /\ DOMAIN server.engine = DOMAIN Policies
                     /\ \A i \in DOMAIN Policies : /\ ValidPolicy(Policies[i])
                                                   /\ server.engine[i].policy = Policies[i]
    BY EngineFacts
  <2>2. \A i \in DOMAIN Policies : Policies[i].severity \in {"info", "warning", "error"}
    BY <2>1 DEF ValidPolicy
  <2> QED BY <2>1, <2>2 DEF Range
<1>2. \A i \in issues : i.severity \in {"info", "warning", "error"} BY <1>1 DEF Evaluate
<1> HIDE DEF issues
<1>3. S \subseteq 0..3 /\ 0 \in S BY <1>2 DEF Rank
<1> HIDE DEF S
<1>4. \E m \in S : \A y \in S : m >= y
  <2>1. CASE 3 \in S BY <1>3, <2>1
  <2>2. CASE 3 \notin S /\ 2 \in S BY <1>3, <2>2
  <2>3. CASE 3 \notin S /\ 2 \notin S /\ 1 \in S BY <1>3, <2>3
  <2>4. CASE 3 \notin S /\ 2 \notin S /\ 1 \notin S BY <1>3, <2>4
  <2> QED BY <2>1, <2>2, <2>3, <2>4
<1>5. Max(S) \in S BY <1>4 DEF Max
<1>6. HighestRank(issues) = Max(S) BY DEF HighestRank, S
<1>7. HighestRank(issues) \in Nat
  <2> DEFINE m == Max(S)
  <2>1. m \in 0..3 BY <1>3, <1>5
  <2> HIDE DEF m
  <2>2. m \in Nat BY <2>1
  <2> QED BY <1>6, <2>2 DEF m
<1> QED BY <1>7 DEF issues

(* The two columns the property sorts by.                                  *)
LEMMA KeyCases ==
  /\ \A s, row : Key(s, row, "room") = MissingLast(row.item.areaName)
  /\ \A s, row : Key(s, row, "severity") = SeverityKey(row.issues) \o DisplayName(row.item).words
BY Zenon DEF Key

(* Every entity is called something.                                       *)
LEMMA EntityNameText == \A e \in Entity : EntityName(e).words \in Seq(Nat)
<1> SUFFICES ASSUME NEW e \in Entity PROVE EntityName(e).words \in Seq(Nat) OBVIOUS
<1>1. /\ e.name \in Text \cup {None} /\ e.original \in Text \cup {None}
      /\ e.id \in [domain : Text, object : Text]
  BY DEF Entity, Optional
<1>2. e.id.object \in Text BY <1>1
<1>3. \A t \in Text : t.words \in Seq(Nat) BY DEF Text
<1>4. EntityName(e) = IF e.name # None THEN e.name
                      ELSE IF e.original # None THEN e.original
                      ELSE [words |-> e.id.object.words, style |-> "dotted"]
  BY DEF EntityName
<1>5. CASE e.name # None BY <1>1, <1>3, <1>4, <1>5
<1>6. CASE e.name = None /\ e.original # None BY <1>1, <1>3, <1>4, <1>6
<1>7. CASE e.name = None /\ e.original = None BY <1>2, <1>3, <1>4, <1>7
<1> QED BY <1>5, <1>6, <1>7

(* Their keys are sequences of numbers, led by what the column shows.      *)
LEMMA KeyFacts ==
  ASSUME IInv, NEW row \in Range(EntityRows(server)), NEW s
  PROVE  /\ /\ Key(s, row, "room") \in Seq(Nat) /\ Key(s, row, "room") # << >>
            /\ Key(s, row, "room")[1] = IF row.item.areaName = None THEN 1 ELSE 0
         /\ /\ Key(s, row, "severity") \in Seq(Nat) /\ Key(s, row, "severity") # << >>
            /\ Key(s, row, "severity")[1] = HighestRank(row.issues)
<1>1. PICK i \in DOMAIN server.entities :
        /\ row.item = server.entities[i] /\ server.entities[i] \in Entity
        /\ row.issues = Evaluate(server.engine, server.entities[i], EntityContext(server))
  BY EntityRowFacts DEF Range
<1> DEFINE e == row.item
           k == MissingLast(e.areaName)
           l == SeverityKey(row.issues) \o DisplayName(e).words
<1>2. e \in Entity BY <1>1
<1> HIDE DEF e
<1>3. k \in Seq(Nat) /\ k # << >> /\ k[1] = IF e.areaName = None THEN 1 ELSE 0
  <2>1. CASE e.areaName = None
    <3>1. k = <<1>> BY <2>1 DEF MissingLast
    <3> HIDE DEF k
    <3> QED BY <2>1, <3>1
  <2>2. CASE e.areaName # None
    <3> DEFINE w == e.areaName.words
    <3>1. k = <<0>> \o w BY <2>2 DEF MissingLast
    <3>2. w \in Seq(Nat) BY <1>2, <2>2 DEF Entity, Optional, Text
    <3> HIDE DEF k, w
    <3> QED BY <2>2, <3>1, <3>2
  <2> QED BY <2>1, <2>2
<1>4. l \in Seq(Nat) /\ l # << >> /\ l[1] = HighestRank(row.issues)
  <2> DEFINE w == DisplayName(e).words
             h == HighestRank(row.issues)
             c == Cardinality(row.issues)
  <2>1. w \in Seq(Nat) BY <1>2, EntityNameText, EntityFields DEF DisplayName
  <2>2. h \in Nat BY <1>1, RankOfIssues
  <2>3. c \in Nat BY <1>1, IssuesFinite, FS_CardinalityType
  <2>4. l = <<h, c>> \o w BY DEF SeverityKey
  <2> HIDE DEF l, w, h, c
  <2>5. <<h, c>> \in Seq(Nat) /\ Len(<<h, c>>) = 2 /\ <<h, c>>[1] = h BY <2>2, <2>3
  <2>6. l \in Seq(Nat) /\ Len(l) = 2 + Len(w) /\ l[1] = h BY <2>1, <2>4, <2>5, ConcatProperties
  <2>7. Len(w) \in Nat BY <2>1
  <2>8. l # << >> BY <2>6, <2>7
  <2> QED BY <2>6, <2>8 DEF h
<1> QED BY <1>3, <1>4, KeyCases DEF e

(* Reading the entity list page by page, sorted by room or by severity in  *)
(* either direction, shows every row the filters leave once, in the order  *)
(* of the column, with rows without a value last when ascending            *)
(* (api/entities.py, list_entities: sort before slice): for lists of any   *)
(* length, one row or two to a page.                                       *)
THEOREM PagesAreComplete == Spec => []PagesComplete
<1>1. IInv => PagesComplete
  <2> SUFFICES ASSUME IInv, NEW by \in {"room", "severity"}, NEW desc \in BOOLEAN, NEW size \in 1..2
               PROVE
                 LET all       == EntityRows(server)
                     q         == [Everything EXCEPT !.sortBy = by, !.desc = desc, !.size = size, !.showDisabled = FALSE]
                     answer(n) == EntityAnswer(server, all, [q EXCEPT !.page = n])
                     read      == Pages(answer, size, answer(1).total)
                     wanted    == Keep(all, {n \in DOMAIN all : ~all[n].item.disabled})
                     later(r, s) == IF by = "severity" THEN HighestRank(r.issues) > HighestRank(s.issues)
                                    ELSE r.item.areaName = None /\ s.item.areaName # None
                 IN  /\ Len(read) = Len(wanted) /\ Range(read) = Range(wanted)
                     /\ \A i, j \in DOMAIN read : i < j =>
                          ~(IF desc THEN later(read[j], read[i]) ELSE later(read[i], read[j]))
    BY DEF PagesComplete, InOrder
  <2> DEFINE all    == EntityRows(server)
             q(n)   == [[Everything EXCEPT !.sortBy = by, !.desc = desc, !.size = size,
                                           !.showDisabled = FALSE] EXCEPT !.page = n]
             I      == {n \in DOMAIN all : ~all[n].item.disabled}
             wanted == Keep(all, I)
             read   == Sorted(server, wanted, q(1))
             key    == KeysOf(server, wanted, by)
             later(r, s) == IF by = "severity" THEN HighestRank(r.issues) > HighestRank(s.issues)
                            ELSE r.item.areaName = None /\ s.item.areaName # None
  <2>1. \A n : /\ q(n).text = None /\ q(n).rooms = {} /\ q(n).types = {} /\ q(n).integrations = {}
               /\ q(n).domains = {} /\ ~q(n).withIssues /\ ~q(n).showDisabled /\ q(n).showHidden
               /\ q(n).sortBy = by /\ q(n).desc = desc /\ q(n).page = n /\ q(n).size = size
    BY DEF Everything
  <2>2. by # None BY NoneAssumption DEF Column
  <2> HIDE DEF q
  <2>3. /\ all \in Seq(Range(all)) /\ DOMAIN all = DOMAIN server.entities BY EntityRowFacts
  <2>4. \A row, n : EntityWanted(row, q(n)) <=> ~row.item.disabled
    <3> SUFFICES ASSUME NEW row, NEW n PROVE EntityWanted(row, q(n)) <=> ~row.item.disabled OBVIOUS
    <3> DEFINE p == q(n)
    <3>1. /\ p.text = None /\ p.rooms = {} /\ p.types = {} /\ p.integrations = {}
          /\ p.domains = {} /\ ~p.withIssues /\ ~p.showDisabled /\ p.showHidden
      BY <2>1
    <3> HIDE DEF p
    <3>2. /\ MatchesQuery(row.item.id.object, p.text) /\ OneOf(row.item.id.domain, p.domains)
          /\ OneOf(row.item.platform, p.integrations) /\ IssueWanted(row.issues, p)
          /\ RoomMatch(row.item, p.rooms)
      BY <3>1 DEF MatchesQuery, OneOf, IssueWanted, RoomMatch
    <3>3. Gated(row.item, p) <=> ~row.item.disabled BY <3>1 DEF Gated
    <3>4. EntityWanted(row, p) <=> ~row.item.disabled BY <3>2, <3>3 DEF EntityWanted
    <3> QED BY <3>4 DEF p
  <2> HIDE DEF all
  <2>5. wanted \in Seq(Range(all)) /\ Range(wanted) \subseteq Range(all)
    <3>1. wanted \in Seq(Range(all)) BY <2>3, KeepFacts
    <3> HIDE DEF wanted
    <3> QED BY <3>1, OwnRange
  <2>6. \A n : Keep(all, {m \in DOMAIN all : EntityWanted(all[m], q(n))}) = wanted BY <2>4
  <2> HIDE DEF wanted
  <2>7. \A n : Sorted(server, wanted, q(n)) = read
    <3> SUFFICES ASSUME NEW n PROVE Sorted(server, wanted, q(n)) = Sorted(server, wanted, q(1)) OBVIOUS
    <3> DEFINE at == DOMAIN wanted
               cmp(i, j) == IF key[i] = key[j] THEN i < j
                            ELSE IF desc THEN Less(key[j], key[i]) ELSE Less(key[i], key[j])
               order == Arranged(at, {p \in at \X at : cmp(p[1], p[2])})
               list == IF by = None THEN wanted ELSE [m \in at |-> wanted[order[m]]]
    <3>1. ASSUME NEW p, p.sortBy = by, p.desc = desc PROVE Sorted(server, wanted, p) = list
      BY <3>1 DEF Sorted, KeysOf
    <3> HIDE DEF list
    <3> QED BY <3>1, <2>1
  <2>8. \A n : /\ EntityAnswer(server, all, q(n)).total = Len(wanted)
               /\ EntityAnswer(server, all, q(n)).rows = Page(read, q(n))
    BY <2>6, <2>7 DEF EntityAnswer
  <2> HIDE DEF read
  <2>9. \A n : EntityAnswer(server, all, q(n)).rows =
                 SubSeq(read, (n - 1) * size + 1, Min({n * size, Len(read)}))
    BY <2>1, <2>8 DEF Page
  <2>10. \A i \in DOMAIN wanted :
           /\ wanted[i] \in Range(EntityRows(server)) /\ key[i] = Key(server, wanted[i], by)
           /\ key[i] \in Seq(Nat) /\ key[i] # << >>
           /\ by = "room" => key[i][1] = IF wanted[i].item.areaName = None THEN 1 ELSE 0
           /\ by = "severity" => key[i][1] = HighestRank(wanted[i].issues)
    <3> SUFFICES ASSUME NEW i \in DOMAIN wanted
                 PROVE  /\ wanted[i] \in Range(EntityRows(server)) /\ key[i] = Key(server, wanted[i], by)
                        /\ key[i] \in Seq(Nat) /\ key[i] # << >>
                        /\ by = "room" => key[i][1] = IF wanted[i].item.areaName = None THEN 1 ELSE 0
                        /\ by = "severity" => key[i][1] = HighestRank(wanted[i].issues)
      OBVIOUS
    <3>1. key[i] = Key(server, wanted[i], by) BY DEF KeysOf
    <3>2. wanted[i] \in Range(EntityRows(server)) BY <2>5 DEF Range, all
    <3> HIDE DEF key
    <3> QED BY <3>1, <3>2, KeyFacts
  <2>11. /\ read \in Seq(Range(all)) /\ Len(read) = Len(wanted) /\ Range(read) = Range(wanted)
         /\ \E order \in [1..Len(wanted) -> 1..Len(wanted)] :
              /\ \A n \in 1..Len(wanted) : read[n] = wanted[order[n]]
              /\ \A m, n \in 1..Len(wanted) : m < n =>
                   \/ key[order[m]] = key[order[n]]
                   \/ desc /\ Less(key[order[n]], key[order[m]])
                   \/ ~desc /\ Less(key[order[m]], key[order[n]])
    <3> DEFINE p == q(1)
    <3>1. p.sortBy = by /\ p.desc = desc /\ read = Sorted(server, wanted, p) BY <2>1 DEF read
    <3>2. key = KeysOf(server, wanted, p.sortBy) BY <3>1
    <3>3. \A i \in DOMAIN wanted : key[i] \in Seq(Nat) BY <2>10
    <3> HIDE DEF p, key
    <3>4. p.sortBy # None BY <2>2, <3>1
    <3>5. Sorted(server, wanted, p) \in Seq(Range(all)) /\ OrderedBy(Sorted(server, wanted, p), wanted, key, p.desc)
      BY <2>5, <3>2, <3>3, <3>4, SortedFacts
    <3>6. read \in Seq(Range(all)) /\ OrderedBy(read, wanted, key, desc) BY <3>1, <3>5
    <3> HIDE DEF read, wanted
    <3> QED BY <3>6 DEF OrderedBy
  <2>12. FlattenSeq([n \in 1..(Len(wanted) \div size + 1) |-> EntityAnswer(server, all, q(n)).rows]) = read
    <3> DEFINE K == Len(read) \div size + 1
    <3>1. FlattenSeq([n \in 1..K |-> SubSeq(read, (n - 1) * size + 1, Min({n * size, Len(read)}))]) = read
      BY <2>11, PagesFacts
    <3>2. Len(read) = Len(wanted) BY <2>11
    <3> HIDE DEF K
    <3>3. [n \in 1..K |-> EntityAnswer(server, all, q(n)).rows]
            = [n \in 1..K |-> SubSeq(read, (n - 1) * size + 1, Min({n * size, Len(read)}))]
      BY <2>9
    <3> QED BY <3>1, <3>2, <3>3 DEF K
  <2>13. \A i, j \in DOMAIN read : i < j =>
           ~(IF desc THEN later(read[j], read[i]) ELSE later(read[i], read[j]))
    <3> SUFFICES ASSUME NEW i \in DOMAIN read, NEW j \in DOMAIN read, i < j
                 PROVE  ~(IF desc THEN later(read[j], read[i]) ELSE later(read[i], read[j]))
      OBVIOUS
    <3>1. PICK order \in [1..Len(wanted) -> 1..Len(wanted)] :
            /\ \A n \in 1..Len(wanted) : read[n] = wanted[order[n]]
            /\ \A m, n \in 1..Len(wanted) : m < n =>
                 \/ key[order[m]] = key[order[n]]
                 \/ desc /\ Less(key[order[n]], key[order[m]])
                 \/ ~desc /\ Less(key[order[m]], key[order[n]])
      BY <2>11
    <3>2. i \in 1..Len(wanted) /\ j \in 1..Len(wanted) BY <2>11
    <3> DEFINE x == order[i]
               y == order[j]
    <3>3. x \in DOMAIN wanted /\ y \in DOMAIN wanted BY <2>5, <3>2
    <3>4. /\ read[i] = wanted[x] /\ read[j] = wanted[y]
          /\ \/ key[x] = key[y]
             \/ desc /\ Less(key[y], key[x])
             \/ ~desc /\ Less(key[x], key[y])
      BY <3>1, <3>2
    <3> HIDE DEF x, y, key
    <3>5. /\ key[x] \in Seq(Nat) /\ key[x] # << >> /\ key[y] \in Seq(Nat) /\ key[y] # << >>
          /\ by = "room" => /\ key[x][1] = IF wanted[x].item.areaName = None THEN 1 ELSE 0
                            /\ key[y][1] = IF wanted[y].item.areaName = None THEN 1 ELSE 0
          /\ by = "severity" => /\ key[x][1] = HighestRank(wanted[x].issues)
                                /\ key[y][1] = HighestRank(wanted[y].issues)
      BY <2>10, <3>3
    <3>6. CASE desc
      <4>1. /\ key[y][1] \in Nat /\ key[x][1] \in Nat /\ key[y][1] <= key[x][1]
        BY <3>4, <3>5, <3>6, LessHead
      <4> QED BY <3>4, <3>5, <3>6, <4>1
    <3>7. CASE ~desc
      <4>1. /\ key[y][1] \in Nat /\ key[x][1] \in Nat /\ key[x][1] <= key[y][1]
        BY <3>4, <3>5, <3>7, LessHead
      <4> QED BY <3>4, <3>5, <3>7, <4>1
    <3> QED BY <3>6, <3>7
  <2> HIDE DEF later
  <2> DEFINE answer(n) == EntityAnswer(server, all, q(n))
  <2>14. Pages(answer, size, answer(1).total) = read BY <2>8, <2>12 DEF Pages
  <2>15. Len(Pages(answer, size, answer(1).total)) = Len(wanted)
         /\ Range(Pages(answer, size, answer(1).total)) = Range(wanted)
    BY <2>11, <2>14
  <2>16. LET pages == Pages(answer, size, answer(1).total) IN
         \A i, j \in DOMAIN pages : i < j =>
           ~(IF desc THEN later(pages[j], pages[i]) ELSE later(pages[i], pages[j]))
    BY <2>13, <2>14
  <2> HIDE DEF answer
  <2>17. \A n : answer(n) = EntityAnswer(server, all,
           [[Everything EXCEPT !.sortBy = by, !.desc = desc, !.size = size, !.showDisabled = FALSE]
              EXCEPT !.page = n])
    BY DEF answer, q
  <2> QED BY <2>15, <2>16 DEF answer, q, all, wanted, later
<1> QED BY <1>1, Invariance, PTL
=============================================================================
