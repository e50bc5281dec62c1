----------------------------- MODULE Catalogue -----------------------------
(***************************************************************************)
(* What the lists show while Home Assistant's registries, the caches the   *)
(* lists are made from, the compiled rules, the tracker's flags and the    *)
(* exceptions change one after the other.                                  *)
(*                                                                         *)
(* RegistrySync has the tasks and locks of the refreshes and               *)
(* DeletionTracker the table behind the flags: here a refresh is a step    *)
(* for each reply it takes, and the tracker remembers what it saw go.      *)
(***************************************************************************)
EXTENDS Listing

CONSTANTS
  Homes,       \* what Home Assistant may hold when the program starts
  Unidentified, \* devices that have no identifiers
  NewAreas,    \* areas that may be created, by area_id
  NewNames,    \* names that a user may give a device, an entity or an area
  NewIds,      \* object parts that an entity_id may be changed to
  Policies,    \* the policies of the file
  Kept,        \* exception lists an earlier run may have left
  MaxChanges   \* bound on what Home Assistant and the user change

VARIABLES
  ha,          \* Home Assistant's registries: areas, devices and entities
  gone,        \* what was removed from them and may come back, per kind
  server,      \* the server's state, as Listing reads it
  deleted,     \* identities the tracker saw go, per kind
  changes

vars == <<ha, gone, server, deleted, changes>>

Kind == {"device", "entity"}
List == [device |-> "devices", entity |-> "entities"]

(* A device keeps its id; an entity is known by its unique_id. *)
Identity(x) == IF x.kind = "device" THEN x.id ELSE x.uid

(* The tracker passes over a device that has no identifiers.               *)
Identified(x) == x.kind = "device" => x.id \notin Unidentified

Ids(items) == {x.id : x \in Range(items)}

---------------------------------------------------------------------------
(***************************************************************************)
(* What the constants may be.  Home Assistant lets no two areas have one   *)
(* name, no two items one id, and nothing be in an area it does not have.  *)
(***************************************************************************)

DeviceId == UNION {Ids(h.devices) : h \in Homes}

Optional == Text \cup {None}

Device ==
  [kind : {"device"}, id : DeviceId, name : Text, byUser : Optional, area : Optional,
   areaName : Optional, integration : Optional, reappeared : BOOLEAN]

Entity ==
  [kind : {"entity"}, uid : UNION {{e.uid : e \in Range(h.entities)} : h \in Homes},
   id : [domain : Text, object : Text], name : Optional, original : Optional,
   device : DeviceId \cup {None}, area : Optional, areaName : Optional, platform : Text,
   disabled : BOOLEAN, hidden : BOOLEAN, reappeared : BOOLEAN]

NamedApart(areas) ==
  /\ DOMAIN areas \subseteq Text /\ Range(areas) \subseteq Text
  /\ \A a, b \in DOMAIN areas : Lower(areas[a]) = Lower(areas[b]) => a = b

Housed(items, areas) == \A x \in Range(items) : x.area \in DOMAIN areas \cup {None}

Distinct(items) ==
  \A i, j \in DOMAIN items :
    items[i].id = items[j].id \/ Identity(items[i]) = Identity(items[j]) => i = j

IsHome(h) ==
  /\ DOMAIN h = {"areas", "devices", "entities"}
  /\ NamedApart(h.areas)
  /\ h.devices \in Seq(Device) /\ Distinct(h.devices) /\ Housed(h.devices, h.areas)
  /\ h.entities \in Seq(Entity) /\ Distinct(h.entities) /\ Housed(h.entities, h.areas)

ASSUME NoneAssumption == NoArea \notin Text /\ None \notin Text \cup Device \cup Column

ASSUME HomesAssumption == \A h \in Homes : IsHome(h)

ASSUME NewAssumption ==
  /\ DOMAIN NewAreas \subseteq Text /\ Range(NewAreas) \subseteq Text
  /\ NewNames \subseteq Text /\ NewIds \subseteq Text

ASSUME PoliciesAssumption ==
  /\ Policies \in Seq(Range(Policies))
  /\ \A p \in Range(Policies) : ValidPolicy(p)

ASSUME KeptAssumption ==
  \A keys \in Kept : /\ keys \in Seq(Range(keys))
                     /\ \A key \in Range(keys) : key = <<key[1], key[2], key[3]>>

---------------------------------------------------------------------------
(* The caches copy area names: a device that of its area, an entity that   *)
(* of its own area or else of its cached device's.                         *)
DeviceCopies(raw, areas) ==
  [i \in DOMAIN raw |-> [raw[i] EXCEPT !.areaName = Get(areas, raw[i].area)]]

EntityCopies(raw, devices, areas) ==
  LET area(e) == IF e.area = None /\ e.device \in DOMAIN devices
                   THEN devices[e.device].area ELSE e.area
  IN  [i \in DOMAIN raw |-> [raw[i] EXCEPT !.areaName = Get(areas, area(raw[i]))]]

Init ==
  /\ ha \in Homes
  /\ gone = [k \in Kind |-> {}]
  /\ LET devices == DeviceCopies(ha.devices, ha.areas) IN
     \E kept \in Kept :
       server = [devices |-> devices, areas |-> ha.areas,
                 entities |-> EntityCopies(ha.entities, ById(devices), ha.areas),
                 engine |-> Compile(Policies, ha.areas),
                 flags |-> [k \in Kind |-> {}], exceptions |-> kept]
  /\ deleted = [k \in Kind |-> {}]
  /\ changes = 0

---------------------------------------------------------------------------
(***************************************************************************)
(* Home Assistant.                                                         *)
(***************************************************************************)

Change ==
  /\ changes < MaxChanges
  /\ changes' = changes + 1
  /\ UNCHANGED deleted

DeviceEdited ==
  /\ Change
  /\ \E i \in DOMAIN ha.devices :
       \/ \E a \in DOMAIN ha.areas \cup {None} : ha' = [ha EXCEPT !.devices[i].area = a]
       \/ \E n \in NewNames : ha' = [ha EXCEPT !.devices[i].byUser = n]
  /\ UNCHANGED <<gone, server>>

EntityEdited ==
  /\ Change
  /\ \E i \in DOMAIN ha.entities :
       \/ \E a \in DOMAIN ha.areas \cup {None} : ha' = [ha EXCEPT !.entities[i].area = a]
       \/ \E n \in NewNames : ha' = [ha EXCEPT !.entities[i].name = n]
       \/ \E o \in NewIds : /\ \A x \in Range(ha.entities) : x.id.object # o
                            /\ ha' = [ha EXCEPT !.entities[i].id.object = o]
       \/ ha' = [ha EXCEPT !.entities[i].disabled = ~@]
  /\ UNCHANGED <<gone, server>>

Free(name, area) == \A b \in DOMAIN ha.areas \ {area} : Lower(ha.areas[b]) # Lower(name)

AreaCreated ==
  /\ Change
  /\ \E a \in DOMAIN NewAreas \ DOMAIN ha.areas :
       /\ Free(NewAreas[a], a)
       /\ ha' = [ha EXCEPT !.areas = [b \in DOMAIN @ \cup {a} |-> IF b = a THEN NewAreas[a] ELSE @[b]]]
  /\ UNCHANGED <<gone, server>>

AreaRenamed ==
  /\ Change
  /\ \E a \in DOMAIN ha.areas, n \in NewNames :
       Free(n, a) /\ ha' = [ha EXCEPT !.areas[a] = n]
  /\ UNCHANGED <<gone, server>>

(* What was in the area, or would come back to it, is then in none.        *)
Moved(x, a) == [x EXCEPT !.area = IF @ = a THEN None ELSE @]

AreaRemoved ==
  /\ Change
  /\ \E a \in DOMAIN ha.areas :
       LET out(items) == [i \in DOMAIN items |-> Moved(items[i], a)] IN
       /\ ha' = [areas    |-> [b \in DOMAIN ha.areas \ {a} |-> ha.areas[b]],
                 devices  |-> out(ha.devices),
                 entities |-> out(ha.entities)]
       /\ gone' = [k \in Kind |-> {Moved(x, a) : x \in gone[k]}]
  /\ UNCHANGED server

Removed(k) ==
  /\ Change
  /\ \E i \in DOMAIN ha[List[k]] :
       /\ gone' = [gone EXCEPT ![k] = @ \cup {ha[List[k]][i]}]
       /\ ha' = [ha EXCEPT ![List[k]] = RemoveAt(@, i)]
  /\ UNCHANGED server

(* What comes back goes to the end of the registry. *)
CameBack(k) ==
  /\ Change
  /\ \E x \in gone[k] :
       /\ \A y \in Range(ha[List[k]]) : y.id # x.id /\ Identity(y) # Identity(x)
       /\ ha' = [ha EXCEPT ![List[k]] = Append(@, x)]
  /\ UNCHANGED <<gone, server>>

---------------------------------------------------------------------------
(***************************************************************************)
(* The server.                                                             *)
(***************************************************************************)

(* A diff compares ids.  What went is remembered before what came is       *)
(* looked up, so an entity that changes its id is taken for a return; it   *)
(* is found so at every further change, and need not be kept as deleted.   *)
Went(old, new) == {Identity(x) : x \in {y \in Range(old) : Identified(y) /\ y.id \notin Ids(new)}}

Back(k, old, new) ==
  {x.id : x \in {y \in Range(new) :
     /\ Identified(y) /\ y.id \notin Ids(old)
     /\ Identity(y) \in deleted[k] \cup Went(old, new)}}

Deleted(old, new) == Went(old, new) \ {Identity(x) : x \in Range(new)}

Flagged(k, new) == (server.flags[k] \cup Back(k, server[List[k]], new)) \cap Ids(new)

(* A device or area event, or a resync, asks for the areas and then for    *)
(* the devices, which get the names of the areas that were cached first.   *)
(* (Devices that arrive without these areas before them are those of a     *)
(* refresh whose areas were read when the one before it ended.)            *)
RefreshAreas ==
  /\ server' = [server EXCEPT !.areas = ha.areas]
  /\ UNCHANGED <<ha, gone, deleted, changes>>

RefreshDevices ==
  /\ LET devices == DeviceCopies(ha.devices, server.areas) IN
     /\ server' = [server EXCEPT !.devices = devices, !.flags.device = Flagged("device", devices)]
     /\ deleted' = [deleted EXCEPT !.device = @ \cup Deleted(server.devices, devices)]
  /\ UNCHANGED <<ha, gone, changes>>

(* An area event compiles the rules again, its refresh done or refused.    *)
Recompile ==
  /\ server' = [server EXCEPT !.engine = Compile(Policies, server.areas)]
  /\ UNCHANGED <<ha, gone, deleted, changes>>

RefreshEntities ==
  LET entities == EntityCopies(ha.entities, ById(server.devices), server.areas) IN
  /\ server' = [server EXCEPT !.entities = entities, !.flags.entity = Flagged("entity", entities)]
  /\ deleted' = [deleted EXCEPT !.entity = @ \cup Deleted(server.entities, entities)]
  /\ UNCHANGED <<ha, gone, changes>>

Without(keys, key) == Keep(keys, {n \in DOMAIN keys : keys[n] # key})

(* Any reported issue can be acknowledged; again, it becomes the newest.   *)
Acknowledge ==
  /\ Change
  /\ \E row \in Range(DeviceRows(server) \o EntityRows(server)) : \E issue \in row.issues :
       LET key == <<row.item.kind, row.item.id, issue.policy>> IN
       server' = [server EXCEPT !.exceptions = <<key>> \o Without(@, key)]
  /\ UNCHANGED <<ha, gone>>

Clear ==
  /\ Change
  /\ \E key \in Range(server.exceptions) :
       server' = [server EXCEPT !.exceptions = Without(@, key)]
  /\ UNCHANGED <<ha, gone>>

Next ==
  \/ DeviceEdited \/ EntityEdited \/ AreaCreated \/ AreaRenamed \/ AreaRemoved
  \/ \E k \in Kind : Removed(k) \/ CameBack(k)
  \/ RefreshAreas \/ RefreshDevices \/ Recompile \/ RefreshEntities
  \/ Acknowledge \/ Clear

Spec == Init /\ [][Next]_vars

---------------------------------------------------------------------------
(***************************************************************************)
(* Properties.                                                             *)
(***************************************************************************)

Shown(answer) == {row.item.id : row \in Range(answer.rows)}

(* The caches hold the area names that a reload would copy now, and know   *)
(* of no other area.  Between a refresh's areas and its devices they may   *)
(* not (registry_cache/cache.py:74), for good if the devices are refused.  *)
DevicesCurrent ==
  /\ server.devices = DeviceCopies(server.devices, server.areas)
  /\ Housed(server.devices, server.areas)

Coherent ==
  /\ DevicesCurrent
  /\ server.entities = EntityCopies(server.entities, ById(server.devices), server.areas)
  /\ Housed(server.entities, server.areas)

InRoom(rooms) == [Everything EXCEPT !.rooms = rooms]

Fits == Len(server.devices) <= Everything.size /\ Len(server.entities) <= Everything.size

(* The entity list filtered by a room, the exception list filtered by its  *)
(* area and the lenient rule for missing areas mean the same by "in an     *)
(* area" (api/exceptions.py:116, api/listing.py:7), whether an entity has  *)
(* an area of its own or its device's; so do the two device lists (shown   *)
(* on a page of the largest size).                                         *)
RoomViewsAgree ==
  LET entities == EntityRows(server)
      devices  == DeviceRows(server)
      lenient  == [requireOwnArea |-> FALSE]
  IN
  Coherent /\ Fits =>
    /\ \A a \in DOMAIN server.areas :
         LET there == TargetsIn(server, {a})
             room  == InRoom({server.areas[a]})
         IN  /\ Shown(EntityAnswer(server, entities, room)) = there.entity
             /\ Shown(DeviceAnswer(server, devices, room)) = there.device
    /\ Shown(EntityAnswer(server, entities, InRoom({NoArea}))) =
         {e.id : e \in {x \in Range(server.entities) : LacksArea(lenient, x, EntityContext(server))}}

(* Reading a sorted list page by page shows every row the filters leave    *)
(* once, in the order of the column, with what has no value at the end     *)
(* when ascending; total says how many there are.                          *)
Pages(answer(_), size, total) ==
  FlattenSeq([n \in 1..(total \div size + 1) |-> answer(n).rows])

InOrder(rows, before(_, _)) ==
  \A i, j \in DOMAIN rows : i < j => ~before(rows[j], rows[i])

PagesComplete ==
  LET all == EntityRows(server) IN
  \A by \in {"room", "severity"}, desc \in BOOLEAN, size \in 1..2 :
    LET q         == [Everything EXCEPT !.sortBy = by, !.desc = desc, !.size = size, !.showDisabled = FALSE]
        answer(n) == EntityAnswer(server, all, [q EXCEPT !.page = n])
        read      == Pages(answer, size, answer(1).total)
        wanted    == Keep(all, {n \in DOMAIN all : ~all[n].item.disabled})
        later(r, s) == IF by = "severity" THEN HighestRank(r.issues) > HighestRank(s.issues)
                       ELSE r.item.areaName = None /\ s.item.areaName # None
    IN  /\ Len(read) = Len(wanted) /\ Range(read) = Range(wanted)
        /\ InOrder(read, LAMBDA r, s : IF desc THEN later(r, s) ELSE later(s, r))

(* The exceptions of an area are found whatever page they are on           *)
(* (storage/exceptions_repo.py:225): all pages of a filtered list together *)
(* are the exceptions in the area, newest first, and total counts them.    *)
ExceptionPages ==
  \A a \in DOMAIN server.areas, size \in 1..2 :
    LET answer(n) == ListExceptions(server, [NoFilter EXCEPT !.areas = {a}, !.page = n, !.size = size])
        there     == TargetsIn(server, {a})
        keys      == server.exceptions
        wanted    == Keep(keys, {n \in DOMAIN keys : keys[n][2] \in there[keys[n][1]]})
    IN  answer(1).total = Len(wanted) /\ Pages(answer, size, Len(wanted)) = wanted

(* The number beside an option of a filter is what choosing it would show, *)
(* the other filters and the page being what they are; a rule type at zero *)
(* would show nothing, and any other something.  Rooms are counted by name *)
(* and filtered whatever the case, so a new case of a room's name makes    *)
(* the two differ until the devices are copied with it.                    *)
CountsPredictFilters ==
  LET all == DeviceRows(server) IN
  \A q \in {[Everything EXCEPT !.withIssues = b, !.size = 1] : b \in BOOLEAN} :
    LET now == DeviceAnswer(server, all, q) IN
    /\ DevicesCurrent => \A r \in DOMAIN now.rooms : now.rooms[r] = DeviceAnswer(server, all, [q EXCEPT !.rooms = {r}]).total
    /\ \A i \in DOMAIN now.integrations :
         now.integrations[i] = DeviceAnswer(server, all, [q EXCEPT !.integrations = {i}]).total
    /\ \A t \in DOMAIN now.types :
         now.types[t] = 0 <=> DeviceAnswer(server, all, [q EXCEPT !.types = {t}]).total = 0

(* What the simulator calls failing is what the lists report of the rule   *)
(* once it is enabled and its exceptions are taken off: the two cannot     *)
(* drift apart (rules/custom_cel.py:65) - unless another policy has the    *)
(* rule's id, which the schema allows.                                     *)
OwnId(p) == \A x \in Range(Policies) : x.id = p.id => x = p

SimulatorAgrees ==
  \A p \in {x \in Range(Policies) : x.type = "custom" /\ ~Broken(x, server.areas) /\ OwnId(x)} :
    LET alone   == Compile(<<[p EXCEPT !.enabled = TRUE]>>, server.areas)
        rows(e) == IF p.scope = "device" THEN Evaluated(Hydrated(server), e, DeviceContext(server))
                   ELSE Evaluated(server.entities, e, EntityContext(server))
        blamed(e) == {r.item.id : r \in {x \in Range(rows(e)) : \E i \in x.issues : i.policy = p.id}}
        acknowledged == {k[2] : k \in {x \in Range(server.exceptions) : x[1] = p.scope /\ x[3] = p.id}}
    IN  /\ blamed(alone) = Simulate(server, p).failing \ acknowledged
        /\ blamed(server.engine) = IF p.enabled THEN blamed(alone) ELSE {}

(* A name that does not begin with its device's is reported: of the        *)
(* entity, or of the device when that is what breaks the rule              *)
(* (rules/entity_naming.py:203) - as long as both rules see the room alike *)
(* and the device rule wants the room in title case.  They do not between  *)
(* a new name of the room and the devices copied with it: then the device  *)
(* rule judges by the old name and the entity rule by the new one.  It is  *)
(* reported once only where device and room have names in that case.       *)
BlamedBy(r, row) == \E i \in row.issues : i.policy = r.policy.id

TitleCase == [preset |-> "title-case"]

WantsRoomTitle(r, area) ==
  LET use == InEffect(r, area) IN
  /\ ~r.broken /\ r.policy.enabled /\ ~OptedOut(r.rooms, area)
  /\ use.startsWithRoom /\ use.pattern.preset = "title-case"

RoomPrefixBlamedOnce ==
  \A r \in {x \in Range(server.engine) : x.policy.type = "naming_convention" /\ OwnId(x.policy)},
     n \in {x \in Range(server.engine) : x.policy.type = "entity_naming_convention" /\ OwnId(x.policy)},
     de \in Range(DeviceRows(server)) :
    \A en \in {x \in Range(EntityRows(server)) : x.item.device = de.item.id} :
      LET e == en.item
          d == de.item
      IN  /\ e.area # None /\ e.area = d.area /\ e.area \in DOMAIN server.areas
          /\ d.areaName = server.areas[d.area]
          /\ WantsRoomTitle(r, d.area) /\ WantsRoomTitle(n, e.area)
          /\ <<"device", d.id, r.policy.id>> \notin Range(server.exceptions)
          /\ <<"entity", e.id, n.policy.id>> \notin Range(server.exceptions)
          /\ e.name # None /\ Accepts(InEffect(n, e.area).pattern, e.name)
          /\ ~StartsWith(e.name, DeviceName(d))
          /\ EntityIdMessages(n, e, EntityContext(server)) = << >>
          => /\ BlamedBy(r, de) \/ BlamedBy(n, en)
             /\ Accepts(TitleCase, DeviceName(d)) /\ Accepts(TitleCase, server.areas[d.area]) =>
                  ~(BlamedBy(r, de) /\ BlamedBy(n, en))

(* A device or an entity that a refresh found gone and a later one found   *)
(* back is reported, as long as it stays, unless that is acknowledged.     *)
(* This says nothing of a device without identifiers: the tracker cannot   *)
(* tell its return from a new device (deletion_tracker.py:123, :136).      *)
ReturnsReported(k, rows) ==
  \A r \in {x \in Range(server.engine) : x.policy.type = "reappeared_after_delete"} :
  \A row \in {x \in Range(rows) : Identity(x.item) \in deleted[k]} :
    r.policy.scope = k /\ r.policy.enabled =>
      \/ \E i \in row.issues : i.policy = r.policy.id
      \/ <<k, row.item.id, r.policy.id>> \in Range(server.exceptions)

DeviceReturnsReported == ReturnsReported("device", DeviceRows(server))

(***************************************************************************)
(* A claim of the documentation, which the code does not keep.             *)
(***************************************************************************)

(* "Flags a device or entity that was deleted and has since returned"      *)
(* (docs/policies.md): with scope entities too.                            *)
EntityReturnsReported == ReturnsReported("entity", EntityRows(server))
=============================================================================
