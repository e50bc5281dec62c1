----------------------- MODULE DeletionTrackerProofs -----------------------
(***************************************************************************)
(* Theorems about DeletionTracker, for any ids, identities and mishaps.    *)
(***************************************************************************)
EXTENDS DeletionTracker, TLAPS

(* What an id of kind k can stand for; only devices lack identifiers. *)
Value(k) == IdentOf[k] \cup {Absent} \cup (IF k = "device" THEN {NoIdent} ELSE {})

OfKind(c, k) == c \in [Id -> Value(k)]

(* No two ids have one identity. *)
Unique(c) == \A i, j \in Id : c[i] = c[j] /\ c[i] \in Ident => i = j

Sound(c, k) == OfKind(c, k) /\ Unique(c)

Contained ==
  \A k \in Kind : Sound(reg[k], k) /\ Sound(cache[k], k) /\ Sound(snap[k], k) /\ OfKind(owner[k], k)

(* What Home Assistant has at an id is what it gave that id. *)
Owned == \A k \in Kind : \A id \in Id : reg[k][id] \in {Absent, owner[k][id]}

(* What a cache or snapshot has at an id is still there, or has left it;   *)
(* and so has what only the snapshot has. *)
Behind(c, k) ==
  \A id \in Id : /\ c[id] \in {Absent, reg[k][id]} \cup departed[k]
                 /\ c[id] = Absent => snap[k][id] \in {Absent} \cup departed[k]

Left ==
  \A k \in Kind : /\ \A id \in Id : snap[k][id] \in {Absent, reg[k][id]} \cup departed[k]
                  /\ Behind(cache[k], k)

RowsLeft == \A r \in db : \E k \in Kind : r.hash \in departed[k]

(* Where c and the snapshot both have something at an id, it is the same.  *)
Agrees(c, k) == \A id \in Id : snap[k][id] # Absent /\ c[id] # Absent => snap[k][id] = c[id]

OwnedDevices(c) == \A id \in Id : c[id] \in {Absent, owner["device"][id]}

Steady ==
  /\ \A k \in Kind : Agrees(reg[k], k) /\ Agrees(cache[k], k)
  /\ snap["entity"] = cache["entity"]
  /\ OwnedDevices(cache["device"]) /\ OwnedDevices(snap["device"])

(* The table knows every identity a diff found gone, the flags say what    *)
(* the table says, and what was found gone and is there is flagged. *)
Known(k) ==
  /\ \A h \in observed[k] : IsReappearance(db, h)
  /\ \A h \in seen[k] \ Held(snap[k]) : IsReappearance(db, h)
  /\ flags[k] \subseteq Restored(snap[k])
  /\ \A id \in Restored(snap[k]) \ flags[k] : snap[k][id] \in Shared
  /\ \A id \in Id : snap[k][id] \in observed[k] => id \in flags[k]

Ledger == Healthy => Steady /\ \A k \in Kind : Known(k)

IInv == TypeOK /\ Contained /\ Owned /\ Left /\ RowsLeft /\ Ledger

---------------------------------------------------------------------------
(* What rows say of an identity. *)
Stamped(rows, h) == \E r \in rows : r.reappeared /\ r.hash = h

LEMMA Idents ==
  \A k \in Kind : /\ IdentOf[k] \subseteq Ident
                  /\ Value(k) \subseteq Ident \cup {Absent, NoIdent}
                  /\ \A h \in Value(k) : h \notin {Absent, NoIdent} <=> h \in IdentOf[k]
                  /\ \A j \in Kind \ {k} : IdentOf[j] \cap IdentOf[k] \subseteq Shared
BY IdentAssumption DEF Kind, IdentOf, Ident, Value, Shared

LEMMA HeldAt ==
  ASSUME NEW k \in Kind, NEW c, OfKind(c, k)
  PROVE  /\ Held(c) \subseteq IdentOf[k]
         /\ \A h : h \in Held(c) <=> \E id \in Id : c[id] = h /\ h \in IdentOf[k]
BY Idents DEF OfKind, Held, Range

LEMMA RecordedRows ==
  ASSUME NEW k, NEW c, NEW rows
  PROVE  \A h : IsReappearance(Recorded(rows, k, c), h)
                 <=> IsReappearance(rows, h) \/ h \in Deleted(k, c)
<1> DEFINE mid == Recorded(rows, k, c)
<1>1. \A r : r \in mid <=> r \in rows \/ \E g \in Deleted(k, c) : r = [hash |-> g, reappeared |-> FALSE]
  BY DEF Recorded
<1>2. \A g : [hash |-> g, reappeared |-> FALSE].hash = g
  OBVIOUS
<1> HIDE DEF mid
<1> SUFFICES ASSUME NEW h
             PROVE  IsReappearance(mid, h) <=> IsReappearance(rows, h) \/ h \in Deleted(k, c)
  BY DEF mid
<1>3. ASSUME IsReappearance(mid, h) PROVE IsReappearance(rows, h) \/ h \in Deleted(k, c)
  BY <1>1, <1>2, <1>3 DEF IsReappearance
<1>4. ASSUME h \in Deleted(k, c) PROVE IsReappearance(mid, h)
  <2>1. [hash |-> h, reappeared |-> FALSE] \in mid
    BY <1>1, <1>4
  <2> QED BY <2>1, <1>2 DEF IsReappearance
<1>5. ASSUME IsReappearance(rows, h) PROVE IsReappearance(mid, h)
  BY <1>1, <1>5 DEF IsReappearance
<1> QED BY <1>3, <1>4, <1>5

(* One diff (handle_diff_from_cache): the rows it leaves. *)
LEMMA DiffRows ==
  ASSUME NEW k \in Kind, NEW c, OfKind(c, k), OfKind(snap[k], k), NEW rows \in SUBSET Row
  PROVE  /\ Deleted(k, c) \subseteq IdentOf[k]
         /\ AfterDiff(rows, k, c) \subseteq Row
         /\ Returned(rows, k, c) \subseteq {id \in Id : c[id] \in IdentOf[k] /\ snap[k][id] = Absent}
         /\ \A h : IsReappearance(AfterDiff(rows, k, c), h)
                     <=> IsReappearance(rows, h) \/ h \in Deleted(k, c)
         /\ \A h : Stamped(AfterDiff(rows, k, c), h)
                     <=> Stamped(rows, h) \/ h \in {c[id] : id \in Returned(rows, k, c)}
<1> DEFINE hashes == {c[id] : id \in Returned(rows, k, c)}
           mid == Recorded(rows, k, c)
<1>1. Deleted(k, c) \subseteq IdentOf[k] /\ Deleted(k, c) \subseteq Ident
  BY Idents DEF Deleted, OfKind
<1>2. Returned(rows, k, c) \subseteq {id \in Id : c[id] \in IdentOf[k] /\ snap[k][id] = Absent}
  BY Idents DEF Returned, Appeared, OfKind
<1>3. mid \subseteq Row
  <2>1. \A h \in Deleted(k, c) : [hash |-> h, reappeared |-> FALSE] \in Row
    BY <1>1 DEF Row
  <2> QED BY <2>1 DEF Recorded
<1>4. \A h : IsReappearance(mid, h) <=> IsReappearance(rows, h) \/ h \in Deleted(k, c)
  BY RecordedRows
<1>5. \A h : Stamped(mid, h) <=> Stamped(rows, h)
  BY DEF Recorded, Stamped
<1>6. \A h \in hashes : IsReappearance(mid, h)
  BY DEF Returned
<1>7. /\ AfterDiff(rows, k, c) \subseteq Row
      /\ \A h : IsReappearance(AfterDiff(rows, k, c), h) <=> IsReappearance(mid, h)
      /\ \A h : Stamped(AfterDiff(rows, k, c), h) <=> Stamped(mid, h) \/ h \in hashes
  <2> DEFINE stamp(r) == [hash |-> r.hash, reappeared |-> r.reappeared \/ r.hash \in hashes]
  <2>1. \A r \in mid : [r EXCEPT !.reappeared = @ \/ r.hash \in hashes] = stamp(r)
    BY <1>3 DEF Row
  <2>2. AfterDiff(rows, k, c) = {stamp(r) : r \in mid}
    <3>1. AfterDiff(rows, k, c) = {[r EXCEPT !.reappeared = @ \/ r.hash \in hashes] : r \in mid}
      BY DEF AfterDiff, Marked
    <3> HIDE DEF mid, hashes, stamp
    <3> QED BY <2>1, <3>1
  <2>3. \A r : stamp(r).hash = r.hash /\ (stamp(r).reappeared <=> r.reappeared \/ r.hash \in hashes)
    OBVIOUS
  <2>4. \A r \in mid : stamp(r) \in Row
    BY <1>3 DEF Row
  <2> HIDE DEF hashes, mid, stamp
  <2>5. AfterDiff(rows, k, c) \subseteq Row
    BY <2>2, <2>4
  <2>6. \A h : IsReappearance(AfterDiff(rows, k, c), h) <=> IsReappearance(mid, h)
    BY <2>2, <2>3 DEF IsReappearance
  <2>7. \A h : Stamped(AfterDiff(rows, k, c), h) <=> Stamped(mid, h) \/ h \in hashes
    BY <2>2, <2>3, <1>6 DEF Stamped, IsReappearance
  <2> QED BY <2>5, <2>6, <2>7
<1> QED BY <1>1, <1>2, <1>4, <1>5, <1>7

(* ... and the flags, which stay what the rows say of the new snapshot.  g *)
(* are flags and s a snapshot. *)
FlagsFit(g, s, rows) ==
  /\ g \subseteq {id \in Id : Stamped(rows, s[id])}
  /\ \A id \in Id : Stamped(rows, s[id]) /\ s[id] \notin Shared => id \in g

LEMMA DiffFlags ==
  ASSUME NEW k \in Kind, NEW c, Sound(c, k), OfKind(snap[k], k), NEW rows \in SUBSET Row,
         Agrees(c, k), FlagsFit(flags[k], snap[k], rows)
  PROVE  FlagsFit(Flagged(rows, k, c), c, AfterDiff(rows, k, c))
<1> DEFINE rows2 == AfterDiff(rows, k, c)
<1>1. \A h : Stamped(rows, h) => h \in Ident /\ h \notin {Absent, NoIdent}
  BY IdentAssumption DEF Stamped, Row, Ident
<1>2. \A h : Stamped(rows2, h) <=> Stamped(rows, h) \/ \E i \in Returned(rows, k, c) : c[i] = h
  BY DiffRows DEF Sound
<1>3. Returned(rows, k, c) \subseteq {i \in Id : c[i] \in IdentOf[k] /\ snap[k][i] = Absent}
  BY DiffRows DEF Sound
<1>4. ASSUME NEW id \in Id, id \in Flagged(rows, k, c) PROVE Stamped(rows2, c[id])
  BY <1>1, <1>2, <1>4 DEF Flagged, Agrees, FlagsFit
<1>5. ASSUME NEW id \in Id, Stamped(rows2, c[id]), c[id] \notin Shared PROVE id \in Flagged(rows, k, c)
  <2>1. CASE \E i \in Returned(rows, k, c) : c[i] = c[id]
    <3>1. PICK i \in Returned(rows, k, c) : c[i] = c[id]
      BY <2>1
    <3>2. i \in Id /\ c[i] \in Ident /\ c[i] # Absent
      BY <1>3, Idents, IdentAssumption DEF Ident
    <3>3. i = id
      BY <3>1, <3>2 DEF Sound, Unique
    <3> QED BY <3>1, <3>2, <3>3 DEF Flagged
  <2>2. CASE Stamped(rows, c[id])
    <3>1. c[id] \notin {Absent, NoIdent}
      BY <2>2, <1>1
    <3>2. CASE snap[k][id] = Absent
      <4>1. IsReappearance(Recorded(rows, k, c), c[id])
        BY <2>2 DEF Stamped, IsReappearance, Recorded
      <4> QED BY <3>1, <3>2, <4>1 DEF Flagged, Returned, Appeared
    <3>3. CASE snap[k][id] # Absent
      BY <1>5, <2>2, <3>1, <3>3 DEF Flagged, Agrees, FlagsFit
    <3> QED BY <3>2, <3>3
  <2> QED BY <1>2, <1>5, <2>1, <2>2
<1>6. Flagged(rows, k, c) \subseteq Id
  BY <1>3 DEF Flagged, FlagsFit
<1> QED BY <1>4, <1>5, <1>6 DEF FlagsFit

(* The flags go by the stamps of the hashes of their kind; other stamps    *)
(* may come on hashes of both kinds. *)
LEMMA FlagsFitOn ==
  ASSUME NEW k \in Kind, NEW g, NEW s, OfKind(s, k), NEW rows, NEW rows2, FlagsFit(g, s, rows),
         \A h \in Value(k) : /\ Stamped(rows, h) => Stamped(rows2, h)
                             /\ h \notin Shared /\ Stamped(rows2, h) => Stamped(rows, h)
  PROVE  FlagsFit(g, s, rows2)
BY DEF FlagsFit, OfKind

(* A diff of one kind says nothing about the other's own hashes. *)
LEMMA DiffOther ==
  ASSUME NEW k \in Kind, NEW j \in Kind, j # k, NEW c, OfKind(c, k), OfKind(snap[k], k),
         NEW rows \in SUBSET Row, NEW h \in Value(j)
  PROVE  /\ Stamped(rows, h) => Stamped(AfterDiff(rows, k, c), h)
         /\ h \notin Shared /\ Stamped(AfterDiff(rows, k, c), h) => Stamped(rows, h)
<1>1. Stamped(AfterDiff(rows, k, c), h) <=> Stamped(rows, h) \/ \E i \in Returned(rows, k, c) : c[i] = h
  BY DiffRows
<1>2. \A i \in Returned(rows, k, c) : c[i] \in IdentOf[k]
  BY DiffRows
<1> QED BY <1>1, <1>2, Idents, IdentAssumption DEF Value, Kind, Shared, IdentOf

---------------------------------------------------------------------------
(* The program starts within the inductive invariant. *)
LEMMA InitIInv == Init => IInv
<1> SUFFICES ASSUME Init PROVE IInv
  OBVIOUS
<1>1. \A k \in Kind : /\ reg[k] = [id \in Id |-> Absent] /\ owner[k] = reg[k]
                       /\ cache[k] = reg[k] /\ snap[k] = reg[k]
                       /\ flags[k] = {} /\ departed[k] = {} /\ seen[k] = {} /\ observed[k] = {}
  BY DEF Init, Empty, None
<1>2. TypeOK
  BY DEF Init, TypeOK, Contents, Empty, None
<1>3. Contained
  BY <1>1, IdentAssumption DEF Contained, Sound, OfKind, Unique, Value, Ident
<1>4. Owned /\ Left /\ RowsLeft
  BY <1>1 DEF Init, Owned, Left, Behind, RowsLeft
<1>5. Steady
  BY <1>1 DEF Steady, Agrees, OwnedDevices, Kind
<1>6. \A k \in Kind : Known(k)
  BY <1>1 DEF Init, Known, Restored
<1> QED BY <1>2, <1>3, <1>4, <1>5, <1>6 DEF IInv, Ledger

(* What Home Assistant does leaves the tracker and its table alone.  A     *)
(* registry changes at the ids in which it differs, by identities leaving  *)
(* them and by identities that are nowhere else. *)
LEMMA Elsewhere ==
  ASSUME IInv, Unchanged, TypeOK',
         \A k \in Kind : Sound(reg[k], k)' /\ OfKind(owner[k], k)',
         Owned',
         \A k \in Kind : /\ departed[k] \subseteq departed'[k]
                         /\ \A id \in Id : reg[k][id] \in {Absent, reg'[k][id]} \cup departed'[k],
         Healthy' => /\ Healthy
                     /\ \A k \in Kind : Agrees(reg[k], k)'
                     /\ \A id \in Id : owner["device"][id] \in {Absent, owner'["device"][id]}
  PROVE  IInv'
<1>1. Contained'
  BY DEF IInv, Contained, Unchanged
<1>2. Left'
  BY DEF IInv, Left, Behind, Unchanged
<1>3. RowsLeft'
  BY DEF IInv, RowsLeft, Unchanged
<1>4. ASSUME Healthy' PROVE Steady' /\ \A k \in Kind : Known(k)'
  <2>1. Steady /\ \A k \in Kind : Known(k)
    BY <1>4 DEF IInv, Ledger
  <2>2. Steady'
    BY <1>4, <2>1 DEF Steady, Agrees, OwnedDevices, Unchanged, Kind
  <2>3. \A k \in Kind : Known(k)'
    BY <2>1 DEF Known, Unchanged, Restored
  <2> QED BY <2>2, <2>3
<1> QED BY <1>1, <1>2, <1>3, <1>4 DEF IInv, Ledger

LEMMA HomeAssistantSteps ==
  ASSUME IInv,
         \/ \E k \in Kind, id \in Id :
              \/ \E h \in Ident \cup {NoIdent} : Register(k, id, h)
              \/ Remove(k, id)
         \/ \E id, new \in Id : Rename(id, new)
         \/ \E id \in Id, h \in DeviceIdent : Rekey(id, h)
  PROVE  IInv'
<1> USE DEF IInv
<1>1. ASSUME NEW k \in Kind, NEW id \in Id, NEW h \in Ident \cup {NoIdent}, Register(k, id, h) PROVE IInv'
  <2>1. h \in Value(k) /\ h # Absent /\ (h \in Ident => h \notin Held(reg[k]))
    BY <1>1, IdentAssumption, Idents DEF Register, Value, Ident, IdentOf, Kind
  <2>2. /\ reg' = [reg EXCEPT ![k][id] = h] /\ owner' = [owner EXCEPT ![k][id] = h]
        /\ rekeyed' = (rekeyed \/ InPlace(k, id, h)) /\ departed' = departed /\ removed' = removed /\ Unchanged
        /\ reg[k][id] = Absent /\ Owns(k, id, h)
    BY <1>1 DEF Register
  <2>3. TypeOK'
    BY <2>2 DEF TypeOK, Contents, Unchanged, InPlace
  <2>4. \A j \in Kind : Sound(reg[j], j)' /\ OfKind(owner[j], j)'
    <3>1. \A i \in Id : reg[k][i] # h \/ h \notin Ident
      <4>1. h \in Ident => h \in IdentOf[k]
        BY <2>1, Idents, IdentAssumption DEF Ident
      <4>2. OfKind(reg[k], k)
        BY DEF Contained, Sound
      <4> QED BY <2>1, <4>1, <4>2, HeldAt
    <3>2. \A j \in Kind : OfKind(reg[j], j)' /\ OfKind(owner[j], j)'
      BY <2>1, <2>2 DEF Contained, Sound, OfKind, TypeOK, Contents
    <3>3. \A j \in Kind : Unique(reg[j])'
      BY <2>2, <3>1 DEF Contained, Sound, OfKind, Unique, TypeOK, Contents
    <3> QED BY <3>2, <3>3 DEF Sound
  <2>5. Owned'
    BY <2>2 DEF Owned, TypeOK, Contents
  <2>6. \A j \in Kind : /\ departed[j] \subseteq departed'[j]
                         /\ \A i \in Id : reg[j][i] \in {Absent, reg'[j][i]} \cup departed'[j]
    BY <2>2 DEF TypeOK, Contents
  <2>7. ASSUME Healthy' PROVE /\ Healthy
                              /\ \A j \in Kind : Agrees(reg[j], j)'
                              /\ \A i \in Id : owner["device"][i] \in {Absent, owner'["device"][i]}
    <3>1. Healthy /\ ~InPlace(k, id, h)
      BY <2>2, <2>7 DEF Healthy, Unchanged
    <3>2. \A j \in Kind : Agrees(reg[j], j)'
      BY <2>2, <3>1 DEF Ledger, Steady, Agrees, InPlace, Unchanged, TypeOK, Contents
    <3>3. \A i \in Id : owner["device"][i] \in {Absent, owner'["device"][i]}
      BY <2>2 DEF Owns, TypeOK, Contents, Kind
    <3> QED BY <3>1, <3>2, <3>3
  <2> HIDE DEF IInv
  <2> QED BY <2>2, <2>3, <2>4, <2>5, <2>6, <2>7, Elsewhere
<1>2. ASSUME NEW k \in Kind, NEW id \in Id, Remove(k, id) PROVE IInv'
  <2>1. /\ reg' = [reg EXCEPT ![k][id] = Absent] /\ owner' = owner /\ rekeyed' = rekeyed
        /\ departed' = [departed EXCEPT ![k] = @ \cup {reg[k][id]}]
        /\ removed' = [removed EXCEPT ![k] = @ \cup {reg[k][id]}] /\ Unchanged /\ reg[k][id] # Absent
    BY <1>2 DEF Remove
  <2>2. TypeOK'
    BY <2>1 DEF TypeOK, Contents, Unchanged
  <2>3. \A j \in Kind : Sound(reg[j], j)' /\ OfKind(owner[j], j)'
    BY <2>1, IdentAssumption DEF Contained, Sound, OfKind, Unique, Value, TypeOK, Contents, Ident
  <2>4. Owned'
    BY <2>1 DEF Owned, TypeOK, Contents
  <2>5. \A j \in Kind : /\ departed[j] \subseteq departed'[j]
                         /\ \A i \in Id : reg[j][i] \in {Absent, reg'[j][i]} \cup departed'[j]
    BY <2>1 DEF TypeOK, Contents
  <2>6. Healthy' => /\ Healthy
                    /\ \A j \in Kind : Agrees(reg[j], j)'
                    /\ \A i \in Id : owner["device"][i] \in {Absent, owner'["device"][i]}
    BY <2>1 DEF Healthy, Ledger, Steady, Agrees, Unchanged, TypeOK, Contents
  <2> HIDE DEF IInv
  <2> QED BY <2>1, <2>2, <2>3, <2>4, <2>5, <2>6, Elsewhere
<1>3. ASSUME NEW id \in Id, NEW new \in Id, Rename(id, new) PROVE IInv'
  <2> DEFINE h == reg["entity"][id]
  <2>1. /\ reg' = [reg EXCEPT !["entity"] = [@ EXCEPT ![id] = Absent, ![new] = h]]
        /\ owner' = [owner EXCEPT !["entity"][new] = h]
        /\ rekeyed' = (rekeyed \/ InPlace("entity", new, h)) /\ Unchanged
        /\ departed' = [departed EXCEPT !["entity"] = @ \cup {h}] /\ removed' = removed
        /\ h # Absent /\ reg["entity"][new] = Absent
    BY <1>3 DEF Rename, TypeOK, Contents
  <2>2. h \in IdentOf["entity"] /\ "entity" \in Kind /\ h \in Ident
    BY <2>1, Idents DEF Contained, Sound, OfKind, Value, Kind
  <2> HIDE DEF h
  <2>3. TypeOK'
    BY <2>1, <2>2 DEF TypeOK, Contents, Unchanged, InPlace
  <2>4. \A j \in Kind : Sound(reg[j], j)' /\ OfKind(owner[j], j)'
    <3>1. \A j \in Kind : OfKind(reg[j], j)' /\ OfKind(owner[j], j)'
      BY <2>1, <2>2 DEF Contained, Sound, OfKind, TypeOK, Contents, Value
    <3>2. \A j \in Kind : Unique(reg[j])'
      BY <2>1, <2>2, IdentAssumption DEF Contained, Sound, OfKind, Unique, TypeOK, Contents, Ident, h
    <3> QED BY <3>1, <3>2 DEF Sound
  <2>5. /\ \A i \in Id : /\ reg'["entity"][i] = IF i = new THEN h ELSE IF i = id THEN Absent ELSE reg["entity"][i]
                         /\ owner'["entity"][i] = IF i = new THEN h ELSE owner["entity"][i]
        /\ \A j \in Kind : j # "entity" => reg'[j] = reg[j] /\ owner'[j] = owner[j] /\ departed'[j] = departed[j]
        /\ departed'["entity"] = departed["entity"] \cup {h}
    BY <2>1 DEF TypeOK, Contents, Kind
  <2>6. Owned'
    BY <2>5 DEF Owned
  <2>7. \A j \in Kind : /\ departed[j] \subseteq departed'[j]
                         /\ \A i \in Id : reg[j][i] \in {Absent, reg'[j][i]} \cup departed'[j]
    BY <2>1, <2>5 DEF h
  <2>8. ASSUME Healthy' PROVE /\ Healthy
                              /\ \A j \in Kind : Agrees(reg[j], j)'
                              /\ \A i \in Id : owner["device"][i] \in {Absent, owner'["device"][i]}
    <3>1. Healthy /\ ~InPlace("entity", new, h)
      BY <2>1, <2>8 DEF Healthy, Unchanged
    <3>2. \A j \in Kind : Agrees(reg[j], j)
      BY <3>1 DEF Ledger, Steady
    <3>3. \A j \in Kind : Agrees(reg[j], j)'
      BY <2>1, <2>5, <3>1, <3>2 DEF Agrees, InPlace, Unchanged
    <3>4. \A i \in Id : owner["device"][i] \in {Absent, owner'["device"][i]}
      BY <2>5 DEF Kind
    <3> QED BY <3>1, <3>3, <3>4
  <2> HIDE DEF IInv
  <2> QED BY <2>1, <2>3, <2>4, <2>6, <2>7, <2>8, Elsewhere
<1>4. ASSUME NEW id \in Id, NEW h \in DeviceIdent, Rekey(id, h) PROVE IInv'
  <2>1. /\ reg' = [reg EXCEPT !["device"][id] = h] /\ owner' = [owner EXCEPT !["device"][id] = h]
        /\ rekeyed' /\ rekeyed' \in BOOLEAN
        /\ departed' = [departed EXCEPT !["device"] = @ \cup {reg["device"][id]}]
        /\ removed' = [removed EXCEPT !["device"] = @ \cup {reg["device"][id]}]
        /\ Unchanged /\ h \notin Held(reg["device"]) /\ reg["device"][id] # Absent
    BY <1>4 DEF Rekey
  <2>2. "device" \in Kind /\ h \in Value("device") /\ h \in Ident /\ h \in IdentOf["device"] /\ h # Absent
    BY IdentAssumption DEF Kind, Value, IdentOf, Ident
  <2>3. TypeOK'
    BY <2>1, <2>2 DEF TypeOK, Contents, Unchanged
  <2>4. \A j \in Kind : Sound(reg[j], j)' /\ OfKind(owner[j], j)'
    <3>1. \A i \in Id : reg["device"][i] # h
      BY <2>1, <2>2, HeldAt DEF Contained, Sound
    <3>2. \A j \in Kind : OfKind(reg[j], j)' /\ OfKind(owner[j], j)'
      BY <2>1, <2>2 DEF Contained, Sound, OfKind, TypeOK, Contents
    <3>3. \A j \in Kind : Unique(reg[j])'
      BY <2>1, <2>2, <3>1 DEF Contained, Sound, OfKind, Unique, TypeOK, Contents
    <3> QED BY <3>2, <3>3 DEF Sound
  <2>5. Owned'
    BY <2>1, <2>2 DEF Owned, TypeOK, Contents
  <2>6. \A j \in Kind : /\ departed[j] \subseteq departed'[j]
                         /\ \A i \in Id : reg[j][i] \in {Absent, reg'[j][i]} \cup departed'[j]
    BY <2>1 DEF TypeOK, Contents
  <2>7. ~Healthy'
    BY <2>1 DEF Healthy
  <2> HIDE DEF IInv
  <2> QED BY <2>1, <2>3, <2>4, <2>5, <2>6, <2>7, Elsewhere
<1> QED BY <1>1, <1>2, <1>3, <1>4

---------------------------------------------------------------------------
(* The tracker diffs the kinds K over the caches, of which the entities    *)
(* are as Home Assistant has just listed them. *)
Reloaded(K) ==
  /\ \A k \in Kind : Sound(cache[k], k)' /\ Behind(cache'[k], k)
  /\ Healthy => /\ \A k \in Kind : Agrees(cache'[k], k)
                /\ OwnedDevices(cache'["device"])
                /\ IF "entity" \in K THEN cache'["entity"] = reg["entity"]
                                     ELSE cache'["entity"] = cache["entity"]
  /\ cache' \in Contents /\ resyncing' \in BOOLEAN
  /\ UNCHANGED <<reg, owner, departed, removed, rekeyed>>

Handled == {{"device"}, {"entity"}, Kind}

(* For the hashes of kind k, rows2 has the stamps of rows; others only on  *)
(* hashes of both kinds. *)
Adds(k, rows, rows2) ==
  \A h \in Value(k) : /\ Stamped(rows, h) => Stamped(rows2, h)
                      /\ h \notin Shared /\ Stamped(rows2, h) => Stamped(rows, h)

(* The rows after the diffs of K, kind by kind. *)
LEMMA RowsOfBoth ==
  ASSUME IInv, NEW K \in SUBSET Kind, Reloaded(K)
  PROVE  /\ RowsAfter(K, cache') \subseteq Row
         /\ \A k \in Kind :
              /\ RowsAfter(Earlier(K, k), cache') \subseteq Row
              /\ \A h : IsReappearance(db, h) => IsReappearance(RowsAfter(Earlier(K, k), cache'), h)
         /\ \A h : IsReappearance(RowsAfter(K, cache'), h)
                     <=> IsReappearance(db, h) \/ \E k \in K : h \in Deleted(k, cache'[k])
         /\ \A k \in K :
              /\ Adds(k, db, RowsAfter(Earlier(K, k), cache'))
              /\ Adds(k, AfterDiff(RowsAfter(Earlier(K, k), cache'), k, cache'[k]), RowsAfter(K, cache'))
         /\ \A k \in Kind \ K : Adds(k, db, RowsAfter(K, cache'))
<1> DEFINE rows == IF "device" \in K THEN AfterDiff(db, "device", cache'["device"]) ELSE db
           last == IF "entity" \in K THEN AfterDiff(rows, "entity", cache'["entity"]) ELSE rows
<1>1. /\ RowsAfter(K, cache') = last
      /\ RowsAfter(Earlier(K, "device"), cache') = db
      /\ RowsAfter(Earlier(K, "entity"), cache') = rows
  BY DEF RowsAfter, Earlier
<1>2. /\ "device" \in Kind /\ "entity" \in Kind /\ \A k \in Kind : k = "device" \/ k = "entity"
      /\ \A k \in Kind : OfKind(cache'[k], k) /\ OfKind(snap[k], k)
      /\ db \in SUBSET Row
  BY DEF Kind, Reloaded, Sound, IInv, Contained, TypeOK
<1>3. /\ rows \in SUBSET Row
      /\ \A h : IsReappearance(rows, h)
                  <=> IsReappearance(db, h) \/ ("device" \in K /\ h \in Deleted("device", cache'["device"]))
      /\ Adds("entity", db, rows)
  BY <1>2, DiffRows, DiffOther DEF Adds
<1> HIDE DEF rows
<1>4. /\ last \subseteq Row
      /\ \A h : IsReappearance(last, h)
                  <=> IsReappearance(rows, h) \/ ("entity" \in K /\ h \in Deleted("entity", cache'["entity"]))
      /\ Adds("device", rows, last)
  BY <1>2, <1>3, DiffRows, DiffOther DEF Adds
<1>5. /\ "device" \in K => rows = AfterDiff(db, "device", cache'["device"])
      /\ "device" \notin K => rows = db
      /\ "entity" \in K => last = AfterDiff(rows, "entity", cache'["entity"])
      /\ "entity" \notin K => last = rows
  BY DEF rows
<1> HIDE DEF last
<1>6. /\ RowsAfter(K, cache') \subseteq Row
      /\ \A k \in Kind :
           /\ RowsAfter(Earlier(K, k), cache') \subseteq Row
           /\ \A h : IsReappearance(db, h) => IsReappearance(RowsAfter(Earlier(K, k), cache'), h)
  BY <1>1, <1>2, <1>3, <1>4
<1>7. \A h : IsReappearance(RowsAfter(K, cache'), h)
              <=> IsReappearance(db, h) \/ \E k \in K : h \in Deleted(k, cache'[k])
  BY <1>1, <1>2, <1>3, <1>4
<1>8. ASSUME NEW k \in K
      PROVE  /\ Adds(k, db, RowsAfter(Earlier(K, k), cache'))
             /\ Adds(k, AfterDiff(RowsAfter(Earlier(K, k), cache'), k, cache'[k]), RowsAfter(K, cache'))
  <2>1. CASE k = "device"
    BY <1>1, <1>4, <1>5, <2>1 DEF Adds
  <2>2. CASE k = "entity"
    BY <1>1, <1>3, <1>5, <2>2 DEF Adds
  <2> QED BY <1>2, <2>1, <2>2
<1>9. ASSUME NEW k \in Kind \ K PROVE Adds(k, db, RowsAfter(K, cache'))
  <2>1. CASE k = "device"
    BY <1>1, <1>4, <1>5, <2>1
  <2>2. CASE k = "entity"
    BY <1>1, <1>3, <1>5, <2>2
  <2> QED BY <1>2, <2>1, <2>2
<1> QED BY <1>6, <1>7, <1>8, <1>9

(* Which kinds' diffs finish, and the table that is left, do not matter to *)
(* what holds of sick processes too. *)
LEMMA FinishSteps ==
  ASSUME IInv, NEW K \in SUBSET Kind, NEW done \in SUBSET K, Reloaded(K),
         Finish(done, cache'), db' \in {db, RowsAfter(K, cache')}, session' \in {"ok", "broken"}
  PROVE  TypeOK' /\ Contained' /\ Owned' /\ Left' /\ RowsLeft'
<1> USE DEF IInv
<1>1. \A k \in Kind :
        /\ snap'[k] = IF k \in done THEN cache'[k] ELSE snap[k]
        /\ flags'[k] = IF k \in done THEN Flagged(RowsAfter(Earlier(done, k), cache'), k, cache'[k]) ELSE flags[k]
        /\ observed'[k] = IF k \in done THEN observed[k] \cup Deleted(k, cache'[k]) ELSE observed[k]
        /\ seen'[k] = IF k \in done THEN seen[k] \cup Held(cache'[k]) ELSE seen[k]
  BY DEF Finish
<1>2. \A k \in Kind : Deleted(k, cache'[k]) \subseteq IdentOf[k] /\ Held(cache'[k]) \subseteq Ident
  BY DiffRows, HeldAt, Idents DEF Reloaded, Sound, Contained, TypeOK
<1>3. db' \subseteq Row
  BY RowsOfBoth DEF TypeOK
<1>4. TypeOK'
  <2>1. snap' \in Contents
    BY <1>1 DEF Finish, Contents, Reloaded, TypeOK
  <2>2. flags' \in [Kind -> SUBSET Id]
    <3>1. \A k \in Kind : flags'[k] \subseteq Id
      BY <1>1 DEF Flagged, Returned, Appeared, TypeOK
    <3> QED BY <3>1 DEF Finish
  <2>3. observed' \in [Kind -> SUBSET Ident] /\ seen' \in [Kind -> SUBSET Ident]
    <3>1. ASSUME NEW k \in Kind PROVE observed'[k] \subseteq Ident /\ seen'[k] \subseteq Ident
      <4>1. observed[k] \subseteq Ident /\ seen[k] \subseteq Ident
        BY DEF TypeOK
      <4>2. Deleted(k, cache'[k]) \subseteq Ident /\ Held(cache'[k]) \subseteq Ident
        BY <1>2, Idents
      <4> QED BY <1>1, <4>1, <4>2
    <3> QED BY <3>1 DEF Finish
  <2> QED BY <1>3, <2>1, <2>2, <2>3 DEF TypeOK, Reloaded
<1>5. Contained'
  <2>1. ASSUME NEW k \in Kind PROVE Sound(snap[k], k)'
    <3>1. CASE k \in done
      BY <1>1, <3>1 DEF Reloaded, Sound, OfKind, Unique
    <3>2. CASE k \notin done
      BY <1>1, <3>2 DEF Contained, Sound, OfKind, Unique
    <3> QED BY <3>1, <3>2
  <2>2. \A k \in Kind : Sound(reg[k], k)' /\ Sound(cache[k], k)' /\ OfKind(owner[k], k)'
    BY DEF Contained, Reloaded, Sound, OfKind, Unique
  <2> QED BY <2>1, <2>2 DEF Contained
<1>6. Owned'
  BY DEF Owned, Reloaded
<1>7. Left'
  BY <1>1 DEF Left, Behind, Reloaded
<1>8. RowsLeft'
  <2>1. \A r \in db' : IsReappearance(db, r.hash) \/ \E k \in Kind : r.hash \in Deleted(k, cache'[k])
    BY RowsOfBoth DEF IsReappearance
  <2>2. \A k \in Kind : Deleted(k, cache'[k]) \subseteq departed[k]
    BY DEF Deleted, Reloaded, Behind
  <2>3. \A h : IsReappearance(db, h) => \E k \in Kind : h \in departed[k]
    BY DEF IsReappearance, RowsLeft
  <2> QED BY <2>1, <2>2, <2>3 DEF RowsLeft, Reloaded
<1> QED BY <1>4, <1>5, <1>6, <1>7, <1>8

(* A commit that succeeds keeps what the flags and the table promise. *)
LEMMA CommitSteps ==
  ASSUME IInv, NEW K \in Handled, Reloaded(K), Commits(K, cache')
  PROVE  IInv'
<1> USE DEF IInv
<1>1. K \in SUBSET Kind /\ K # {}
  BY DEF Handled, Kind
<1>2. /\ Finish(K, cache') /\ db' = RowsAfter(K, cache') /\ session = "ok" /\ session' = "ok"
  BY DEF Commits
<1>3. TypeOK' /\ Contained' /\ Owned' /\ Left' /\ RowsLeft'
  <2> HIDE DEF IInv
  <2> QED BY <1>1, <1>2, FinishSteps
<1>4. ASSUME Healthy' PROVE Steady' /\ \A k \in Kind : Known(k)'
  <2>1. Healthy
    BY <1>2, <1>4 DEF Healthy, Reloaded
  <2>2. Steady /\ \A k \in Kind : Known(k)
    BY <2>1 DEF Ledger
  <2>3. \A k \in Kind :
          /\ snap'[k] = IF k \in K THEN cache'[k] ELSE snap[k]
          /\ flags'[k] = IF k \in K THEN Flagged(RowsAfter(Earlier(K, k), cache'), k, cache'[k]) ELSE flags[k]
          /\ observed'[k] = IF k \in K THEN observed[k] \cup Deleted(k, cache'[k]) ELSE observed[k]
          /\ seen'[k] = IF k \in K THEN seen[k] \cup Held(cache'[k]) ELSE seen[k]
    BY <1>2 DEF Finish
  <2>4. Steady'
    <3>1. snap'["entity"] = cache'["entity"]
      BY <2>1, <2>2, <2>3 DEF Reloaded, Steady, Kind
    <3>2. OwnedDevices(cache["device"])' /\ OwnedDevices(snap["device"])'
      BY <2>1, <2>2, <2>3 DEF Reloaded, Steady, OwnedDevices, Kind
    <3>3. \A k \in Kind : Agrees(cache[k], k)'
      BY <2>1, <2>3 DEF Reloaded, Agrees
    <3>4. Agrees(reg["device"], "device")'
      BY <1>3, <3>2 DEF Owned, OwnedDevices, Agrees, Kind
    <3>5. Agrees(reg["entity"], "entity")'
      BY <2>1, <2>2, <2>3 DEF Reloaded, Agrees, Steady, Kind
    <3> QED BY <3>1, <3>2, <3>3, <3>4, <3>5 DEF Steady, Kind
  <2>5. ASSUME NEW k \in Kind PROVE Known(k)'
    <3>1. /\ OfKind(snap[k], k) /\ Sound(cache'[k], k) /\ OfKind(cache'[k], k) /\ Unique(snap[k])
          /\ Known(k) /\ Agrees(cache'[k], k)
      BY <2>1, <2>2 DEF Contained, Sound, Reloaded
    <3>2. \A h : IsReappearance(db', h)
                  <=> IsReappearance(db, h) \/ \E j \in K : h \in Deleted(j, cache'[j])
      <4> HIDE DEF IInv
      <4> QED BY <1>1, <1>2, RowsOfBoth
    <3>3. FlagsFit(flags'[k], snap'[k], db')
      <4>1. FlagsFit(flags[k], snap[k], db)
        BY <3>1 DEF Known, Restored, Stamped, FlagsFit
      <4>2. CASE k \notin K
        <5>1. Adds(k, db, db')
          <6> HIDE DEF IInv
          <6> QED BY <1>1, <1>2, <4>2, RowsOfBoth
        <5> QED BY <2>3, <3>1, <4>1, <4>2, <5>1, FlagsFitOn DEF Adds
      <4>3. CASE k \in K
        <5> DEFINE rows == RowsAfter(Earlier(K, k), cache')
        <5>1. rows \in SUBSET Row /\ Adds(k, db, rows) /\ Adds(k, AfterDiff(rows, k, cache'[k]), db')
          <6> HIDE DEF IInv
          <6> QED BY <1>1, <1>2, <4>3, RowsOfBoth
        <5> HIDE DEF rows
        <5>2. FlagsFit(flags[k], snap[k], rows)
          BY <3>1, <4>1, <5>1, FlagsFitOn DEF Adds
        <5>3. FlagsFit(Flagged(rows, k, cache'[k]), cache'[k], AfterDiff(rows, k, cache'[k]))
          BY <3>1, <5>1, <5>2, DiffFlags
        <5>4. FlagsFit(Flagged(rows, k, cache'[k]), cache'[k], db')
          BY <3>1, <5>1, <5>3, FlagsFitOn DEF Adds
        <5>5. flags'[k] = Flagged(rows, k, cache'[k]) /\ snap'[k] = cache'[k]
          BY <2>3, <4>3 DEF rows
        <5> QED BY <5>4, <5>5
      <4> QED BY <4>2, <4>3
    <3>4. \A h \in observed'[k] : IsReappearance(db', h)
      BY <2>3, <3>1, <3>2 DEF Known
    <3>5. \A h \in seen'[k] \ Held(snap'[k]) : IsReappearance(db', h)
      <4>1. CASE k \notin K
        BY <2>3, <3>1, <3>2, <4>1 DEF Known
      <4>2. CASE k \in K
        <5>1. \A h \in Held(snap[k]) : h \in Held(cache'[k]) \/ h \in Deleted(k, cache'[k])
          BY <3>1, HeldAt, Idents, IdentAssumption DEF Agrees, Deleted, Ident
        <5> QED BY <2>3, <3>1, <3>2, <4>2, <5>1 DEF Known
      <4> QED BY <4>1, <4>2
    <3>6. ASSUME NEW id \in Id, snap'[k][id] \in observed'[k] PROVE id \in flags'[k]
      <4>1. CASE k \notin K
        BY <2>3, <3>1, <3>6, <4>1 DEF Known
      <4>2. CASE k \in K
        <5> DEFINE h == cache'[k][id]
        <5>1. h \in observed[k] \cup Deleted(k, cache'[k]) /\ snap'[k][id] = h
          BY <2>3, <3>6, <4>2
        <5>2. h \in Ident /\ h \notin {Absent, NoIdent}
          <6>1. observed[k] \subseteq Ident /\ Deleted(k, cache'[k]) \subseteq IdentOf[k]
            BY <3>1, DiffRows DEF TypeOK
          <6> QED BY <5>1, <6>1, Idents, IdentAssumption DEF Ident
        <5>3. CASE snap[k][id] = Absent
          <6>1. IsReappearance(Recorded(RowsAfter(Earlier(K, k), cache'), k, cache'[k]), h)
            <7>1. IsReappearance(db, h) => IsReappearance(RowsAfter(Earlier(K, k), cache'), h)
              <8> HIDE DEF IInv, h
              <8> QED BY <1>1, RowsOfBoth
            <7>2. h \in observed[k] => IsReappearance(db, h)
              BY <3>1 DEF Known
            <7> HIDE DEF h
            <7> QED BY <5>1, <7>1, <7>2, RecordedRows
          <6>2. id \in Flagged(RowsAfter(Earlier(K, k), cache'), k, cache'[k])
            BY <5>2, <5>3, <6>1 DEF Flagged, Returned, Appeared
          <6> QED BY <2>3, <4>2, <6>2
        <5>4. CASE snap[k][id] # Absent
          <6>1. snap[k][id] = h
            BY <3>1, <5>2, <5>4 DEF Agrees
          <6>2. h \notin Deleted(k, cache'[k])
            BY <3>1, <5>2, <6>1 DEF Deleted, Unique
          <6>3. id \in flags[k]
            BY <3>1, <5>1, <6>1, <6>2 DEF Known
          <6> QED BY <2>3, <4>2, <5>2, <6>3 DEF Flagged
        <5> QED BY <5>3, <5>4
      <4> QED BY <4>1, <4>2
    <3> QED BY <3>3, <3>4, <3>5, <3>6 DEF Known, Restored, Stamped, FlagsFit
  <2> QED BY <2>4, <2>5
<1> QED BY <1>3, <1>4 DEF Ledger

(* A handler that fails leaves an unhealthy process. *)
LEMMA HandleSteps ==
  ASSUME IInv, NEW K \in Handled, Reloaded(K), Handle(K, cache')
  PROVE  IInv'
<1>1. K \in SUBSET Kind
  BY DEF Handled, Kind
<1>2. CASE Commits(K, cache')
  BY <1>2, CommitSteps
<1>3. CASE Faults(K, cache')
  <2>1. PICK done \in SUBSET K : Finish(done, cache')
    BY <1>3 DEF Faults, Earlier
  <2>2. session' = "broken" /\ db' = db
    BY <1>3 DEF Faults
  <2>3. TypeOK' /\ Contained' /\ Owned' /\ Left' /\ RowsLeft'
    BY <1>1, <2>1, <2>2, FinishSteps
  <2> QED BY <2>2, <2>3 DEF IInv, Ledger, Healthy
<1>4. CASE Raises(K, cache')
  <2>1. PICK done \in SUBSET K : Finish(done, cache')
    BY <1>4 DEF Raises
  <2>2. session' = "broken" /\ db' = db
    BY <1>4 DEF Raises
  <2>3. TypeOK' /\ Contained' /\ Owned' /\ Left' /\ RowsLeft'
    BY <1>1, <2>1, <2>2, FinishSteps
  <2> QED BY <2>2, <2>3 DEF IInv, Ledger, Healthy
<1> QED BY <1>2, <1>3, <1>4 DEF Handle

(* Reloading a cache brings it level with its registry. *)
LEMMA ReloadLevel ==
  ASSUME IInv, NEW k \in Kind, Reload(k)
  PROVE  /\ cache' \in Contents
         /\ \A j \in Kind : cache'[j] = IF j = k THEN reg[j] ELSE cache[j]
         /\ \A j \in Kind : Sound(cache'[j], j) /\ Behind(cache'[j], j)
         /\ Healthy => (\A j \in Kind : Agrees(cache'[j], j)) /\ OwnedDevices(cache'["device"])
<1> USE DEF IInv
<1>1. cache' \in Contents /\ \A j \in Kind : cache'[j] = IF j = k THEN reg[j] ELSE cache[j]
  BY DEF Reload, TypeOK, Contents
<1>2. ASSUME NEW j \in Kind PROVE Sound(cache'[j], j)
  BY <1>1 DEF Contained
<1>3. ASSUME NEW j \in Kind PROVE Behind(cache'[j], j)
  <2>1. Behind(reg[j], j) /\ Behind(cache[j], j)
    BY DEF Left, Behind
  <2> QED BY <1>1, <2>1
<1>4. ASSUME Healthy
      PROVE  (\A j \in Kind : Agrees(cache'[j], j)) /\ OwnedDevices(cache'["device"])
  <2>1. Steady
    BY <1>4 DEF Ledger
  <2>2. \A j \in Kind : Agrees(cache'[j], j)
    BY <1>1, <2>1 DEF Steady
  <2>3. OwnedDevices(reg["device"]) /\ OwnedDevices(cache["device"]) /\ "device" \in Kind
    BY <2>1 DEF Steady, Owned, OwnedDevices, Kind
  <2> QED BY <1>1, <2>2, <2>3
<1> QED BY <1>1, <1>2, <1>3, <1>4

LEMMA PrimedSound ==
  ASSUME \A j \in Kind : Sound(cache'[j], j)
  PROVE  \A j \in Kind : Sound(cache[j], j)'
BY DEF Sound, OfKind, Unique

LEMMA TrackerSteps ==
  ASSUME IInv,
         \/ \E k \in Kind : Refresh(k)
         \/ ResyncDevices \/ ResyncEntities \/ ResyncFails \/ Restart
  PROVE  IInv'
<1>1. ASSUME NEW k \in Kind, Refresh(k) PROVE IInv'
  <2>1. Reload(k) /\ Handle({k}, cache') /\ {k} \in Handled
    BY <1>1 DEF Refresh, Handled, Kind
  <2>2. Reloaded({k})
    <3>1. resyncing' \in BOOLEAN /\ UNCHANGED <<reg, owner, departed, removed, rekeyed>>
      BY <1>1 DEF Refresh, IInv, TypeOK
    <3>2. IF "entity" \in {k} THEN cache'["entity"] = reg["entity"] ELSE cache'["entity"] = cache["entity"]
      BY <2>1, ReloadLevel DEF Kind
    <3> QED BY <2>1, <3>1, <3>2, ReloadLevel, PrimedSound DEF Reloaded
  <2> QED BY <2>1, <2>2, HandleSteps
<1>2. CASE ResyncDevices
  <2>1. /\ Reload("device") /\ "device" \in Kind /\ resyncing' = TRUE
        /\ UNCHANGED <<reg, owner, snap, flags, db, session, departed, removed, seen, observed, rekeyed>>
    BY <1>2 DEF ResyncDevices, history, Kind
  <2>2. /\ cache' \in Contents
        /\ \A j \in Kind : Sound(cache'[j], j) /\ Behind(cache'[j], j)
        /\ Healthy => (\A j \in Kind : Agrees(cache'[j], j)) /\ OwnedDevices(cache'["device"])
        /\ cache'["entity"] = cache["entity"]
    BY <2>1, ReloadLevel DEF Kind
  <2>3. TypeOK'
    BY <2>1, <2>2 DEF IInv, TypeOK, Contents
  <2>4. Contained'
    <3>1. \A j \in Kind : Sound(cache[j], j)'
      BY <2>2, PrimedSound
    <3>2. \A j \in Kind : Sound(reg[j], j)' /\ Sound(snap[j], j)' /\ OfKind(owner[j], j)'
      BY <2>1 DEF IInv, Contained, Sound, OfKind, Unique
    <3> QED BY <3>1, <3>2 DEF Contained
  <2>5. Owned' /\ Left' /\ RowsLeft'
    BY <2>1, <2>2 DEF IInv, Owned, Left, Behind, RowsLeft
  <2>6. Ledger'
    <3> SUFFICES ASSUME Healthy' PROVE Steady' /\ \A k \in Kind : Known(k)'
      BY DEF Ledger
    <3>1. Healthy /\ Steady /\ \A k \in Kind : Known(k)
      BY <2>1 DEF Healthy, IInv, Ledger
    <3>2. Steady'
      BY <2>1, <2>2, <3>1 DEF Steady, Agrees, OwnedDevices
    <3>3. \A k \in Kind : Known(k)'
      BY <2>1, <3>1 DEF Known, Restored
    <3> QED BY <3>2, <3>3
  <2> QED BY <2>3, <2>4, <2>5, <2>6 DEF IInv
<1>3. CASE ResyncEntities
  <2>1. Reload("entity") /\ Handle(Kind, cache') /\ Kind \in Handled /\ "entity" \in Kind
    BY <1>3 DEF ResyncEntities, Handled, Kind
  <2>2. Reloaded(Kind)
    <3>1. resyncing' \in BOOLEAN /\ UNCHANGED <<reg, owner, departed, removed, rekeyed>>
      BY <1>3 DEF ResyncEntities
    <3>2. cache'["entity"] = reg["entity"]
      BY <2>1, ReloadLevel
    <3> QED BY <2>1, <3>1, <3>2, ReloadLevel, PrimedSound DEF Reloaded
  <2> QED BY <2>1, <2>2, HandleSteps
<1>4. CASE ResyncFails
  <2>1. resyncing' = FALSE /\ UNCHANGED <<reg, owner, cache, snap, flags, db, session, departed, removed, seen, observed, rekeyed>>
    BY <1>4 DEF ResyncFails, history
  <2>2. TypeOK' /\ Contained' /\ Owned' /\ Left' /\ RowsLeft'
    BY <2>1 DEF IInv, TypeOK, Contents, Contained, Sound, OfKind, Unique, Owned, Left, Behind, RowsLeft
  <2>3. Ledger'
    BY <2>1 DEF IInv, Ledger, Healthy, Steady, Agrees, OwnedDevices, Known, Restored
  <2> QED BY <2>2, <2>3 DEF IInv
<1>5. CASE Restart
  <2> USE DEF IInv
  <2>1. /\ cache' = reg /\ snap' = reg /\ session' = "ok" /\ resyncing' = FALSE /\ rekeyed' = FALSE
        /\ UNCHANGED <<reg, owner, db, departed, removed>>
        /\ flags' = [k \in Kind |-> Restored(reg[k])]
        /\ seen' = [k \in Kind |-> Held(reg[k])]
        /\ observed' = [k \in Kind |-> IF Healthy THEN observed[k] \ (Held(reg[k]) \ Held(snap[k])) ELSE {}]
    BY <1>5 DEF Restart
  <2>2. TypeOK'
    <3>1. \A k \in Kind : Held(reg[k]) \subseteq Ident
      BY HeldAt, Idents DEF Contained, Sound
    <3> QED BY <2>1, <3>1 DEF TypeOK, Restored
  <2>3. Contained' /\ Owned' /\ Left' /\ RowsLeft'
    BY <2>1 DEF Contained, Sound, OfKind, Unique, Owned, Left, Behind, RowsLeft
  <2>4. Steady'
    BY <2>1 DEF Steady, Agrees, OwnedDevices, Owned, Kind
  <2>5. ASSUME NEW k \in Kind PROVE Known(k)'
    <3>1. \A h \in observed'[k] : Healthy /\ h \in observed[k] /\ (h \in Held(reg[k]) => h \in Held(snap[k]))
      BY <2>1
    <3>2. Healthy => Known(k)
      BY DEF Ledger
    <3>3. \A h \in observed'[k] : IsReappearance(db', h)
      BY <2>1, <3>1, <3>2 DEF Known
    <3>4. flags'[k] = Restored(snap[k])' /\ flags'[k] = Restored(reg[k]) /\ seen'[k] \ Held(snap[k])' = {}
      BY <2>1 DEF Restored, Held
    <3>5. ASSUME NEW id \in Id, snap'[k][id] \in observed'[k] PROVE id \in flags'[k]
      <4> DEFINE h == reg[k][id]
      <4>1. Healthy /\ h \in observed[k] /\ (h \in Held(reg[k]) => h \in Held(snap[k]))
        BY <2>1, <3>1, <3>5
      <4>2. OfKind(reg[k], k) /\ OfKind(snap[k], k) /\ h \in IdentOf[k]
        <5>1. OfKind(reg[k], k) /\ OfKind(snap[k], k)
          BY DEF Contained, Sound
        <5>2. h \in Value(k) /\ h \in Ident
          BY <4>1, <5>1 DEF OfKind, TypeOK
        <5> HIDE DEF h
        <5> QED BY <5>1, <5>2, Idents, IdentAssumption DEF Ident
      <4>3. PICK j \in Id : snap[k][j] = h
        BY <4>1, <4>2, HeldAt
      <4>4. j \in Restored(snap[k])
        BY <3>2, <4>1, <4>3 DEF Known
      <4> QED BY <3>4, <4>3, <4>4 DEF Restored
    <3> QED BY <3>3, <3>4, <3>5 DEF Known
  <2> QED BY <2>2, <2>3, <2>4, <2>5 DEF Ledger
<1> QED BY <1>1, <1>2, <1>3, <1>4, <1>5

(* The inductive invariant holds in every reachable state. *)
THEOREM Invariance == Spec => []IInv
<1>1. Init => IInv
  BY InitIInv
<1>2. IInv /\ [Next]_vars => IInv'
  <2> SUFFICES ASSUME IInv, [Next]_vars PROVE IInv'
    OBVIOUS
  <2>1. CASE UNCHANGED vars
    <3>1. UNCHANGED <<reg, owner, cache, snap, flags, db, session, resyncing, departed, removed, seen, observed, rekeyed>>
      BY <2>1 DEF vars, history
    <3>2. TypeOK' /\ Contained' /\ Owned' /\ Left' /\ RowsLeft'
      BY <3>1 DEF IInv, TypeOK, Contents, Contained, Sound, OfKind, Unique, Owned, Left, Behind, RowsLeft
    <3>3. Ledger'
      BY <3>1 DEF IInv, Ledger, Healthy, Steady, Agrees, OwnedDevices, Known, Restored
    <3> QED BY <3>2, <3>3 DEF IInv
  <2>2. CASE Next
    BY <2>2, HomeAssistantSteps, TrackerSteps DEF Next
  <2> QED BY <2>1, <2>2
<1> QED BY <1>1, <1>2, PTL DEF Spec

---------------------------------------------------------------------------
(* Every variable keeps its type (deletion_tracker.py). *)
THEOREM TypeCorrect == Spec => []TypeOK
<1>1. IInv => TypeOK
  BY DEF IInv
<1> QED BY <1>1, Invariance, PTL

(* The flags in memory are always those that the table would give after a  *)
(* restart (handle_diff_from_cache, _restore_reappeared_state). *)
THEOREM FlagsAlwaysMatchRows == Spec => []FlagsMatchRows
<1>1. IInv => FlagsMatchRows
  BY DEF IInv, Ledger, Known, FlagsMatchRows
<1> QED BY <1>1, Invariance, PTL

(* What a diff found gone and found back is flagged, and stays flagged     *)
(* across restarts (is_reappearance, mark_reappeared). *)
THEOREM ObservedReturnsAlwaysFlagged == Spec => []ObservedReturnsFlagged
<1>1. IInv => ObservedReturnsFlagged
  BY DEF IInv, Ledger, Known, ObservedReturnsFlagged
<1> QED BY <1>1, Invariance, PTL

(* No deletion is dropped, whatever resyncs fail (record_deletion). *)
THEOREM DeletionsAlwaysRecorded == Spec => []DeletionsRecorded
<1>1. IInv => DeletionsRecorded
  BY DEF IInv, Ledger, Known, DeletionsRecorded, Quiet
<1> QED BY <1>1, Invariance, PTL

(* Nothing is flagged unless its hash has left an id                       *)
(* (handle_diff_from_cache). *)
THEOREM OnlyDepartedEverFlagged == Spec => []OnlyDepartedFlagged
<1>1. IInv => OnlyDepartedFlagged
  <2> SUFFICES ASSUME IInv, Healthy, NEW k \in Kind, NEW id \in flags[k]
               PROVE  \E j \in Kind : snap[k][id] \in departed[j]
    BY DEF OnlyDepartedFlagged
  <2>1. id \in Restored(snap[k])
    BY DEF IInv, Ledger, Known
  <2> QED BY <2>1 DEF Restored, IInv, RowsLeft
<1> QED BY <1>1, Invariance, PTL
============================================================================
