-------------------------- MODULE DeletionTracker --------------------------
(***************************************************************************)
(* How Home Curator notices that a device or entity was deleted from Home  *)
(* Assistant and has come back: the tracker's snapshots and reappeared     *)
(* flags (deletion_tracker.py), the deletion_events table                  *)
(* (storage/deletion_repo.py) and the handlers that drive them (main.py,   *)
(* api/cache.py).                                                          *)
(*                                                                         *)
(* A registry is a map from ids to identities; the identity stands for the *)
(* hash of a device's identifiers or of an entity's (platform, unique_id). *)
(* A row of deletion_events is the hash and whether reappeared_at is set:  *)
(* the lookups compare the hash only, and treat all rows of a hash alike.  *)
(*                                                                         *)
(* A handler reloads its cache and then diffs and commits without another  *)
(* await, so it is one action; a resync awaits the entity registry between *)
(* its two reloads, so it is two.  A reply that was already old when it    *)
(* arrived is the same as one read just before the change.  The lifespan   *)
(* loads, restores and subscribes in one step, Restart: what changes while *)
(* it runs is a change the next reload sees.                               *)
(*                                                                         *)
(* Definitions named M_... are plausible bugs, paired with the property    *)
(* they break in PROJECT.json.                                             *)
(***************************************************************************)
EXTENDS Naturals, FiniteSets, Functions

CONSTANTS
  Id,           \* registry ids, of devices and of entities alike
  DeviceIdent,  \* hashes of device identifiers
  EntityIdent,  \* hashes of entity identities
  NoIdent,      \* a device without identifiers
  Absent,       \* not registered
  Mishaps       \* what may go wrong besides deletions and returns

ASSUME MishapsAssumption == Mishaps \subseteq {"rename", "rekey", "restart", "fault"}
ASSUME IdentAssumption ==
  /\ NoIdent \notin DeviceIdent \cup EntityIdent
  /\ Absent \notin DeviceIdent \cup EntityIdent \cup {NoIdent}

VARIABLES
  reg,       \* Home Assistant's registries
  cache,     \* the contents of the two registry caches
  snap,      \* _last_known_identifiers and _last_known_entity_identity
  flags,     \* ids whose state says reappeared
  db,        \* the committed rows of deletion_events
  session,   \* the tracker's database session: ok, or broken by a failed flush
  resyncing, \* a resync has reloaded the devices and awaits the entities
  owner,     \* the identity each id stands for in Home Assistant
  departed,  \* identities that ever left their id in Home Assistant (history)
  removed,   \* those that did other than by a rename (history)
  seen,      \* identities the tracker knew since the start (history)
  observed,  \* identities a diff found gone, less those back at a restart,
             \* since the last restart of a process that was not healthy (history)
  rekeyed    \* an identity was changed in place since the start (history)

history == <<departed, removed, seen, observed, rekeyed>>
vars == <<reg, owner, cache, snap, flags, db, session, resyncing, history>>

Kind == {"device", "entity"}
Ident == DeviceIdent \cup EntityIdent
IdentOf == [device |-> DeviceIdent, entity |-> EntityIdent]
Row == [hash : Ident, reappeared : BOOLEAN]

(* The identities a registry, cache or snapshot holds. *)
Held(c) == Range(c) \ {Absent, NoIdent}

Empty == [k \in Kind |-> [id \in Id |-> Absent]]
None  == [k \in Kind |-> {}]

(* First start, on an empty database, before anything is registered. *)
Init ==
  /\ reg = Empty /\ owner = Empty /\ cache = Empty /\ snap = Empty
  /\ flags = None
  /\ db = {}
  /\ session = "ok"
  /\ resyncing = FALSE
  /\ departed = None /\ removed = None /\ seen = None /\ observed = None
  /\ rekeyed = FALSE

---------------------------------------------------------------------------
(***************************************************************************)
(* Home Assistant (external).  Identities are unique within a registry,    *)
(* and an id keeps the identity it was given, so that what returns has its *)
(* old id or a fresh one; only an entity_id can be taken by another entity *)
(* ("rekey", like a device that is given other identifiers).               *)
(***************************************************************************)

Unchanged == UNCHANGED <<cache, snap, flags, db, session, resyncing, seen, observed>>

Owns(k, id, h) ==
  owner[k][id] \in {Absent, h} \/ (k = "entity" /\ "rekey" \in Mishaps)

(* The next diff will find another identity in place of the one it knew. *)
InPlace(k, id, h) == snap[k][id] \notin {Absent, h}

Register(k, id, h) ==
  /\ reg[k][id] = Absent
  /\ Owns(k, id, h)
  /\ (h = NoIdent /\ k = "device") \/ h \in IdentOf[k] \ Held(reg[k])
  /\ reg' = [reg EXCEPT ![k][id] = h]
  /\ owner' = [owner EXCEPT ![k][id] = h]
  /\ rekeyed' = (rekeyed \/ InPlace(k, id, h))
  /\ UNCHANGED <<departed, removed>>
  /\ Unchanged

Remove(k, id) ==
  /\ reg[k][id] # Absent
  /\ reg' = [reg EXCEPT ![k][id] = Absent]
  /\ departed' = [departed EXCEPT ![k] = @ \cup {reg[k][id]}]
  /\ removed' = [removed EXCEPT ![k] = @ \cup {reg[k][id]}]
  /\ UNCHANGED <<owner, rekeyed>>
  /\ Unchanged

(* An entity is given another entity_id; its identity stays. *)
Rename(id, new) ==
  /\ "rename" \in Mishaps
  /\ reg["entity"][id] # Absent /\ reg["entity"][new] = Absent
  /\ Owns("entity", new, reg["entity"][id])
  /\ reg' = [reg EXCEPT !["entity"][id] = Absent, !["entity"][new] = reg["entity"][id]]
  /\ owner' = [owner EXCEPT !["entity"][new] = reg["entity"][id]]
  /\ departed' = [departed EXCEPT !["entity"] = @ \cup {reg["entity"][id]}]
  /\ rekeyed' = (rekeyed \/ InPlace("entity", new, reg["entity"][id]))
  /\ UNCHANGED removed
  /\ Unchanged

(* An integration gives a device other identifiers; its id stays. *)
Rekey(id, h) ==
  /\ "rekey" \in Mishaps
  /\ reg["device"][id] # Absent
  /\ h \in DeviceIdent \ Held(reg["device"])
  /\ reg' = [reg EXCEPT !["device"][id] = h]
  /\ owner' = [owner EXCEPT !["device"][id] = h]
  /\ rekeyed' = TRUE
  /\ departed' = [departed EXCEPT !["device"] = @ \cup {reg["device"][id]}]
  /\ removed' = [removed EXCEPT !["device"] = @ \cup {reg["device"][id]}]
  /\ Unchanged

---------------------------------------------------------------------------
(***************************************************************************)
(* One diff of the tracker: cache contents c against the snapshot of kind  *)
(* k, over the rows the session sees.  Deletions are recorded first, so an *)
(* identity that left one id and came back under another is found.         *)
(***************************************************************************)

M_Deleted(k, c) == {snap[k][id] : id \in {i \in Id : snap[k][i] # Absent /\ c[i] = Absent}}
Deleted(k, c) ==
  {snap[k][id] : id \in {i \in Id : snap[k][i] # Absent /\ c[i] = Absent}} \ {NoIdent}

Appeared(k, c) == {id \in Id : snap[k][id] = Absent /\ c[id] \notin {Absent, NoIdent}}

Recorded(rows, k, c) ==
  rows \cup {[hash |-> h, reappeared |-> FALSE] : h \in Deleted(k, c)}

M_IsReappearance(rows, h) == \E r \in rows : TRUE
M_IsReappearance_once(rows, h) ==
  \E r \in rows : r.hash = h /\ \A q \in rows : q.hash = h => ~q.reappeared
IsReappearance(rows, h) == \E r \in rows : r.hash = h

Returned(rows, k, c) ==
  {id \in Appeared(k, c) : IsReappearance(Recorded(rows, k, c), c[id])}

(* mark_reappeared stamps every row of the hash that has no stamp yet. *)
Marked(rows, hashes) ==
  {[r EXCEPT !.reappeared = @ \/ r.hash \in hashes] : r \in rows}

AfterDiff(rows, k, c) ==
  Marked(Recorded(rows, k, c), {c[id] : id \in Returned(rows, k, c)})

(* New flags are added, then all are pruned to the ids still cached. *)
Flagged(rows, k, c) == {id \in flags[k] \cup Returned(rows, k, c) : c[id] # Absent}

---------------------------------------------------------------------------
(***************************************************************************)
(* A handler diffs the kinds K over cache contents c, devices first, and   *)
(* commits.                                                                *)
(***************************************************************************)

Earlier(K, k) == IF k = "entity" THEN K \ {"entity"} ELSE {}

(* The rows the session sees after the diffs of K. *)
RowsAfter(K, c) ==
  LET rows == IF "device" \in K THEN AfterDiff(db, "device", c["device"]) ELSE db
  IN  IF "entity" \in K THEN AfterDiff(rows, "entity", c["entity"]) ELSE rows

(* The diffs of the kinds in done finish: snapshot and flags are replaced. *)
Finish(done, c) ==
  LET new(old, k, f) == IF k \in done THEN f ELSE old[k] IN
    /\ snap' = [k \in Kind |-> new(snap, k, c[k])]
    /\ flags' = [k \in Kind |-> new(flags, k, Flagged(RowsAfter(Earlier(done, k), c), k, c[k]))]
    /\ observed' = [k \in Kind |-> new(observed, k, observed[k] \cup Deleted(k, c[k]))]
    /\ seen' = [k \in Kind |-> new(seen, k, seen[k] \cup Held(c[k]))]

Commits(K, c) ==
  /\ session = "ok"
  /\ Finish(K, c)
  /\ db' = RowsAfter(K, c)
  /\ UNCHANGED session

(* SQLite refuses a write: the commit's, or the flush that the lookup of   *)
(* the first appeared identity brings about.  The latter leaves that diff  *)
(* before it replaces the snapshot.  Nobody rolls the session back.        *)
Unflushed(K, k, c) == RowsAfter(Earlier(K, k), c) # db \/ Deleted(k, c[k]) # {}

M_Faults(K, c) ==
  /\ "fault" \in Mishaps
  /\ session = "ok"
  /\ RowsAfter(K, c) # db /\ Finish(K, c)
  /\ UNCHANGED <<db, session>>

Faults(K, c) ==
  /\ "fault" \in Mishaps
  /\ session = "ok"
  /\ \/ RowsAfter(K, c) # db /\ Finish(K, c)
     \/ \E k \in K : /\ Appeared(k, c[k]) # {}
                     /\ Unflushed(K, k, c)
                     /\ Finish(Earlier(K, k), c)
  /\ session' = "broken"
  /\ UNCHANGED db

(* On the broken session every lookup and every commit raises: only a diff *)
(* that looks nothing up finishes.                                         *)
Raises(K, c) ==
  /\ session = "broken"
  /\ Finish({k \in K : \A j \in {k} \cup Earlier(K, k) : Appeared(j, c[j]) = {}}, c)
  /\ UNCHANGED <<db, session>>

Handle(K, c) == Commits(K, c) \/ Faults(K, c) \/ Raises(K, c)

(* Kind k's cache is replaced with what Home Assistant lists. *)
Reload(k) == cache' = [cache EXCEPT ![k] = reg[k]]

(* A registry event's task: reload the cache, diff it, commit. *)
Refresh(k) ==
  /\ Reload(k)
  /\ Handle({k}, cache')
  /\ UNCHANGED <<reg, owner, resyncing, departed, removed, rekeyed>>

(* A resync reloads the devices and, without a diff, awaits the entities. *)
M_ResyncDevices ==
  /\ ~resyncing
  /\ resyncing' = TRUE
  /\ Reload("device")
  /\ snap' = cache'
  /\ UNCHANGED <<reg, owner, flags, db, session, history>>

ResyncDevices ==
  /\ ~resyncing
  /\ resyncing' = TRUE
  /\ Reload("device")
  /\ UNCHANGED <<reg, owner, snap, flags, db, session, history>>

(* The entities have arrived: diff both caches and commit once. *)
ResyncEntities ==
  /\ resyncing
  /\ resyncing' = FALSE
  /\ Reload("entity")
  /\ Handle(Kind, cache')
  /\ UNCHANGED <<reg, owner, departed, removed, rekeyed>>

(* Home Assistant refuses the entity list: the new devices stay cached and *)
(* wait for the next diff.                                                 *)
ResyncFails ==
  /\ resyncing
  /\ resyncing' = FALSE
  /\ UNCHANGED <<reg, owner, cache, snap, flags, db, session, history>>

(* Since the start no write has failed and no identity changed in place.   *)
Healthy == session = "ok" /\ ~rekeyed

(* The process restarts: whatever ran is gone, the caches and snapshots    *)
(* are what Home Assistant has now, and the flags come from the table.     *)
Restored(c) == {id \in Id : \E r \in db : r.reappeared /\ r.hash = c[id]}

Restart ==
  /\ "restart" \in Mishaps
  /\ cache' = reg
  /\ snap' = reg
  /\ flags' = [k \in Kind |-> Restored(reg[k])]
  /\ session' = "ok"
  /\ resyncing' = FALSE
  /\ seen' = [k \in Kind |-> Held(reg[k])]
  /\ observed' = [k \in Kind |-> IF Healthy THEN observed[k] \ (Held(reg[k]) \ Held(snap[k])) ELSE {}]
  /\ rekeyed' = FALSE
  /\ UNCHANGED <<reg, owner, db, departed, removed>>

Next ==
  \/ \E k \in Kind, id \in Id :
       \/ \E h \in Ident \cup {NoIdent} : Register(k, id, h)
       \/ Remove(k, id)
  \/ \E id, new \in Id : Rename(id, new)
  \/ \E id \in Id, h \in DeviceIdent : Rekey(id, h)
  \/ \E k \in Kind : Refresh(k)
  \/ ResyncDevices \/ ResyncEntities \/ ResyncFails
  \/ Restart

Spec == Init /\ [][Next]_vars

(***************************************************************************)
(* Fairness: the safety resync loop comes round every five minutes, and    *)
(* Home Assistant does not refuse the entity list every time.              *)
(***************************************************************************)
Fairness == WF_vars(ResyncDevices) /\ SF_vars(ResyncEntities)

FairSpec == Spec /\ Fairness

---------------------------------------------------------------------------
(***************************************************************************)
(* Properties.                                                             *)
(***************************************************************************)

Contents == [Kind -> [Id -> Ident \cup {Absent, NoIdent}]]

(* Every variable holds a value of its type. *)
TypeOK ==
  /\ reg \in Contents /\ owner \in Contents /\ cache \in Contents /\ snap \in Contents
  /\ flags \in [Kind -> SUBSET Id]
  /\ db \subseteq Row
  /\ session \in {"ok", "broken"}
  /\ resyncing \in BOOLEAN
  /\ departed \in [Kind -> SUBSET (Ident \cup {NoIdent})]
  /\ removed \in [Kind -> SUBSET (Ident \cup {NoIdent})]
  /\ seen \in [Kind -> SUBSET Ident]
  /\ observed \in [Kind -> SUBSET Ident]
  /\ rekeyed \in BOOLEAN

(* Every load has been diffed, and nothing has changed since. *)
Quiet == ~resyncing /\ cache = reg /\ snap = reg

(* A device and an entity whose identities are spelt alike have one hash.  *)
Shared == DeviceIdent \cap EntityIdent

(* The flags in memory are exactly those a restart would restore from the  *)
(* table, after any interleaving of events, resyncs, failed resyncs and    *)
(* restarts (_restore_reappeared_state against handle_diff_from_cache): a  *)
(* write that fails, or an identity that changes in place, costs only the  *)
(* process it happens to.  A hash of both kinds can be stamped for one of  *)
(* them; the restart then flags the other, too.                            *)
FlagsMatchRows ==
  Healthy => \A k \in Kind : /\ flags[k] \subseteq Restored(snap[k])
                             /\ \A id \in Restored(snap[k]) \ flags[k] : snap[k][id] \in Shared

(* What a diff found gone and a later diff finds back is flagged, stays    *)
(* flagged while it is there, and is flagged again after a restart; only a *)
(* return while the process was down goes unnoticed.                       *)
ObservedReturnsFlagged ==
  Healthy => \A k \in Kind : \A id \in Id : snap[k][id] \in observed[k] => id \in flags[k]

(* Once everything is loaded and diffed, each identity the tracker knew    *)
(* since the start is still registered or has a row: a deletion seen first *)
(* by a resync that then failed is not lost.                               *)
DeletionsRecorded ==
  Healthy /\ Quiet => \A k \in Kind : \A h \in seen[k] \ Held(reg[k]) : IsReappearance(db, h)

(* Only what really left its id in Home Assistant is ever flagged - was    *)
(* removed or, if an entity, renamed: RenamesNotFlagged is what the        *)
(* documentation says of that - or what has the hash of something of the   *)
(* other kind that did.                                                    *)
OnlyDepartedFlagged ==
  Healthy => \A k \in Kind : \A id \in flags[k] : \E j \in Kind : snap[k][id] \in departed[j]

(***************************************************************************)
(* Claims of the documentation, which the code does not keep.              *)
(***************************************************************************)

(* Failures are logged and swallowed; the loop never dies                  *)
(* (docs/architecture/live-updates.md): what disappears after a failed     *)
(* write is recorded by a later round.                                     *)
LoopNeverDies ==
  \A k \in Kind : \A h \in IdentOf[k] :
    session = "broken" /\ h \in Held(snap[k]) \ Held(reg[k])
      ~> IsReappearance(db, h) \/ h \in Held(reg[k])

(* Identity is tracked "so that renaming an entity does not look like a    *)
(* new one" (docs/policies.md), "a user-renamed entity keeps its identity" *)
(* (docs/architecture/data-model.md): one that was never removed, only     *)
(* renamed, is not flagged as returned.                                    *)
RenamesNotFlagged ==
  Healthy => \A id \in flags["entity"] : \E j \in Kind : snap["entity"][id] \in removed[j]
=============================================================================
