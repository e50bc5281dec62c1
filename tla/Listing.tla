------------------------------ MODULE Listing ------------------------------
(***************************************************************************)
(* What the read endpoints answer: the device and the entity list          *)
(* (api/devices.py, api/entities.py, api/listing.py), the exception list   *)
(* (api/exceptions.py, storage/exceptions_repo.py) and the simulator of    *)
(* the custom rules (api/policies.py).                                     *)
(*                                                                         *)
(* Each is a function of the state of the server, a record s:              *)
(*   devices, entities  the caches, in registry order                      *)
(*   areas              the names of the cached areas, by area_id          *)
(*   engine             the compiled rules                                 *)
(*   flags              the ids the tracker flags, for each kind          *)
(*   exceptions         the acknowledged keys, newest first                *)
(* Texts are compared by their words: the columns created and modified     *)
(* sort as integration does and are left out, and so is how a row is       *)
(* rendered.                                                               *)
(***************************************************************************)
EXTENDS RuleEngine

CONSTANTS
  NoArea,     \* NO_AREA_SENTINEL, the room of what has none
  Unreadable  \* a search that RE2 does not compile

(* A request that filters nothing. *)
Everything == [text |-> None, rooms |-> {}, types |-> {}, integrations |-> {}, domains |-> {},
               withIssues |-> FALSE, showDisabled |-> TRUE, showHidden |-> TRUE,
               sortBy |-> None, desc |-> FALSE, page |-> 1, size |-> 500]

---------------------------------------------------------------------------
(***************************************************************************)
(* A finite set in the order given by a set of pairs, and what a sequence  *)
(* has at some of its positions: SelectSeq and SortSeq, defined by ranks   *)
(* so that something can be proved of them.                                *)
(***************************************************************************)

Arranged(S, before) ==
  [n \in 1..Cardinality(S) |->
     CHOOSE x \in S : Cardinality({y \in S : <<y, x>> \in before}) = n - 1]

Earlier(S) == {p \in S \X S : p[1] < p[2]}

Keep(seq, positions) ==
  LET order == Arranged(positions, Earlier(positions))
  IN  [n \in DOMAIN order |-> seq[order[n]]]

---------------------------------------------------------------------------
(***************************************************************************)
(* Rows: an item of a cache and the issues the engine reports of it.       *)
(***************************************************************************)

ById(items) ==
  [id \in {x.id : x \in Range(items)} |-> CHOOSE x \in Range(items) : x.id = id]

DeviceContext(s) ==
  [names |-> s.areas, exceptions |-> Range(s.exceptions), devices |-> << >>]

EntityContext(s) == [DeviceContext(s) EXCEPT !.devices = ById(s.devices)]

(* A device is given what the tracker knows of it. *)
M_Hydrated(s) == s.devices
Hydrated(s) ==
  [i \in DOMAIN s.devices |-> [s.devices[i] EXCEPT !.reappeared = @ \/ s.devices[i].id \in s.flags.device]]

Evaluated(items, engine, ctx) ==
  [i \in DOMAIN items |-> [item |-> items[i], issues |-> Evaluate(engine, items[i], ctx)]]

DeviceRows(s) == Evaluated(Hydrated(s), s.engine, DeviceContext(s))

EntityRows(s) == Evaluated(s.entities, s.engine, EntityContext(s))

---------------------------------------------------------------------------
(***************************************************************************)
(* Filters.                                                                *)
(***************************************************************************)

MatchesQuery(t, q) == q = None \/ (q # Unreadable /\ q \in Range(t.words))

OneOf(value, wanted) == wanted = {} \/ value \in wanted

InRooms(areaName, rooms) == areaName # None /\ Lower(areaName) \in {Lower(r) : r \in rooms}

IssueWanted(issues, q) ==
  /\ q.types # {} => \E i \in issues : i.type \in q.types
  /\ q.withIssues => issues # {}

DeviceWanted(row, q) ==
  LET d == row.item IN
  /\ MatchesQuery(d.name, q.text)
  /\ q.rooms # {} => InRooms(d.areaName, q.rooms)
  /\ OneOf(d.integration, q.integrations)
  /\ IssueWanted(row.issues, q)

Gated(e, q) ==
  /\ q.showDisabled \/ ~e.disabled
  /\ q.showHidden \/ ~e.hidden

M_RoomMatch(e, rooms) ==
  rooms # {} => InRooms(e.areaName, rooms \ {NoArea}) \/ (e.area = None /\ NoArea \in rooms)
RoomMatch(e, rooms) ==
  rooms # {} => IF e.areaName = None THEN NoArea \in rooms ELSE InRooms(e.areaName, rooms \ {NoArea})

EntityWanted(row, q) ==
  LET e == row.item IN
  /\ Gated(e, q)
  /\ \E t \in {e.id.domain, e.id.object, EntityName(e)} : MatchesQuery(t, q.text)
  /\ OneOf(e.id.domain, q.domains)
  /\ RoomMatch(e, q.rooms)
  /\ OneOf(e.platform, q.integrations)
  /\ IssueWanted(row.issues, q)

---------------------------------------------------------------------------
(***************************************************************************)
(* Sorting and paging.  A sort key is a sequence of numbers.               *)
(***************************************************************************)

Rank == [info |-> 1, warning |-> 2, error |-> 3]

HighestRank(issues) == Max({0} \cup {Rank[i.severity] : i \in issues})

Column == {"name", "room", "severity", "integration", "entity_id", "domain", "device"}

SeverityKey(issues) == <<HighestRank(issues), Cardinality(issues)>>

M_MissingLast(t) == IF t = None THEN << >> ELSE t.words
MissingLast(t) == IF t = None THEN <<1>> ELSE <<0>> \o t.words

Key(s, row, by) ==
  LET x == row.item IN
  CASE by = "name"        -> DisplayName(x).words
    [] by = "room"        -> MissingLast(x.areaName)
    [] by = "severity"    -> SeverityKey(row.issues) \o DisplayName(x).words
    [] by = "integration" -> MissingLast(IF x.kind = "device" THEN x.integration ELSE x.platform)
    [] by = "entity_id"   -> x.id.domain.words \o x.id.object.words
    [] by = "domain"      -> x.id.domain.words
    [] by = "device"      -> LET d == Get(ById(s.devices), x.device) IN
                             MissingLast(IF d = None THEN None ELSE DeviceName(d))

Less(k, l) ==
  \/ IsStrictPrefix(k, l)
  \/ \E n \in DOMAIN k \cap DOMAIN l :
       k[n] < l[n] /\ SubSeq(k, 1, n - 1) = SubSeq(l, 1, n - 1)

(* Sorting is stable in both directions. *)
Sorted(s, rows, q) ==
  LET at    == DOMAIN rows
      key   == [i \in at |-> Key(s, rows[i], q.sortBy)]
      before(i, j) == IF key[i] = key[j] THEN i < j
                      ELSE IF q.desc THEN Less(key[j], key[i]) ELSE Less(key[i], key[j])
      order == Arranged(at, {p \in at \X at : before(p[1], p[2])})
  IN  IF q.sortBy = None THEN rows ELSE [n \in at |-> rows[order[n]]]

Page(rows, q) == SubSeq(rows, (q.page - 1) * q.size + 1, Min({q.page * q.size, Len(rows)}))

---------------------------------------------------------------------------
(***************************************************************************)
(* The two lists.  The counts are taken of what the filters leave, for     *)
(* each option there is: an issue type counts issues, the others rows.     *)
(***************************************************************************)

CountOf(values, options) ==
  [o \in options |-> Quantify(DOMAIN values, LAMBDA n : values[n] = o)]

IssueCounts(rows, types) ==
  [t \in types |-> Cardinality(UNION {{<<n, i>> : i \in {j \in rows[n].issues : j.type = t}} : n \in DOMAIN rows})]

AreaNames(s) == {s.areas[a] : a \in DOMAIN s.areas}

RuleTypes(s, scopes) == {r.policy.type : r \in {c \in Range(s.engine) : c.policy.scope \in scopes}}

Areas(rows) == [n \in DOMAIN rows |-> rows[n].item.areaName]

Integrations(rows) == [n \in DOMAIN rows |-> rows[n].item.integration]

M_DeviceAnswer(s, all, q) ==
  LET rows  == Keep(all, {n \in DOMAIN all : DeviceWanted(all[n], q)})
      paged == Page(rows, q) IN
  [rows |-> Page(Sorted(s, rows, q), q), total |-> Len(rows),
   types |-> IssueCounts(paged, RuleTypes(s, {"device", "entity"})),
   rooms |-> CountOf(Areas(paged), AreaNames(s)),
   integrations |-> CountOf(Integrations(paged), Range(Integrations(all)) \ {None})]

DeviceAnswer(s, all, q) ==
  LET rows == Keep(all, {n \in DOMAIN all : DeviceWanted(all[n], q)}) IN
  [rows |-> Page(Sorted(s, rows, q), q), total |-> Len(rows),
   types |-> IssueCounts(rows, RuleTypes(s, {"device", "entity"})),
   rooms |-> CountOf(Areas(rows), AreaNames(s)),
   integrations |-> CountOf(Integrations(rows), Range(Integrations(all)) \ {None})]

EntityAnswer(s, all, q) ==
  LET rows   == Keep(all, {n \in DOMAIN all : EntityWanted(all[n], q)})
      gated  == Keep(all, {n \in DOMAIN all : Gated(all[n].item, q)})
      domain(seq)   == [n \in DOMAIN seq |-> seq[n].item.id.domain]
      platform(seq) == [n \in DOMAIN seq |-> seq[n].item.platform]
  IN
  [rows |-> Page(Sorted(s, rows, q), q), total |-> Len(rows),
   types |-> IssueCounts(rows, RuleTypes(s, {"entity"})),
   rooms |-> CountOf(Areas(rows), AreaNames(s)),
   domains |-> CountOf(domain(rows), Range(domain(gated))),
   integrations |-> CountOf(platform(rows), Range(platform(gated)))]

---------------------------------------------------------------------------
(***************************************************************************)
(* The exception list.  A key is <<kind, id, policy>>.                     *)
(***************************************************************************)

(* The area an entity belongs to: its own, or else its device's. *)
EffectiveArea(s, e) ==
  LET d == Get(ById(s.devices), e.device) IN
  IF e.area # None THEN e.area ELSE IF d = None THEN None ELSE d.area

TargetsIn(s, wanted) ==
  [device |-> {d.id : d \in {x \in Range(s.devices) : x.area \in wanted}},
   entity |-> {e.id : e \in {x \in Range(s.entities) : EffectiveArea(s, x) \in wanted}}]

(* A search looks into the ids; notes are left out, and a device_id holds  *)
(* no words.                                                               *)
SearchFinds(key, text) ==
  text = None \/ (key[1] = "entity" /\ text \in Range(key[2].domain.words \o key[2].object.words))

NoFilter == [policies |-> {}, devices |-> {}, entities |-> {}, areas |-> {}, text |-> None,
             page |-> 1, size |-> 50]

ExceptionWanted(s, key, f) ==
  /\ OneOf(key[3], f.policies)
  /\ f.devices # {} => key[1] = "device" /\ key[2] \in f.devices
  /\ f.entities # {} => key[1] = "entity" /\ key[2] \in f.entities
  /\ f.areas # {} => key[2] \in TargetsIn(s, f.areas)[key[1]]
  /\ SearchFinds(key, f.text)

Wanted(s, keys, f) == Keep(keys, {n \in DOMAIN keys : ExceptionWanted(s, keys[n], f)})

M_ListExceptions(s, f) ==
  LET before == Wanted(s, s.exceptions, [f EXCEPT !.areas = {}])
  IN  [rows |-> Wanted(s, Page(before, f), f), total |-> Len(before)]

ListExceptions(s, f) ==
  LET wanted == Wanted(s, s.exceptions, f)
  IN  [rows |-> Page(wanted, f), total |-> Len(wanted)]

---------------------------------------------------------------------------
(***************************************************************************)
(* The simulator tries one custom rule, saved or not, on every item of its *)
(* scope: no exceptions, and disabled rules too.                           *)
(***************************************************************************)

M_SimulationContext(s, scope) == [names |-> s.areas, devices |-> << >>, exceptions |-> {}]
SimulationContext(s, scope) ==
  [names |-> IF scope = "entity" THEN s.areas ELSE << >>,
   devices |-> IF scope = "entity" THEN ById(s.devices) ELSE << >>,
   exceptions |-> {}]

Simulate(s, p) ==
  LET items == Range(IF p.scope = "entity" THEN s.entities ELSE Hydrated(s))
      ids(o) == {x.id : x \in {y \in items : Outcome(p, y, SimulationContext(s, p.scope)) = o}}
  IN  [passing |-> ids("passing"), failing |-> ids("failing"), errored |-> ids("errored")]
=============================================================================
