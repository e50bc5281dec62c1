--------------------------- MODULE RegistrySync ---------------------------
(***************************************************************************)
(* How Home Curator keeps its two registry caches in step with Home        *)
(* Assistant: the caches and their asyncio locks (registry_cache/), the    *)
(* tasks the event handler schedules, the safety resync loop and the       *)
(* resync endpoint (main.py, api/cache.py), the rule engine compiled       *)
(* against the area registry, and the notices sent to the browser.         *)
(*                                                                         *)
(* Registry contents are abstracted to revisions: Home Assistant counts    *)
(* the changes of each registry, a reply carries the revision it lists,    *)
(* and a cache holds the revisions it was built from.  What the caches     *)
(* denormalise is kept: a device carries the area names of the area cache  *)
(* of its load, an entity those of the area and device caches of its load. *)
(* Two contents are equal when their revisions are, so every area change   *)
(* stands for one that shows in a device's or an entity's area name.       *)
(*                                                                         *)
(* A definition named M_... is a plausible bug in the definition of that   *)
(* name that follows it; PROJECT.json pairs it with the property it must   *)
(* break.                                                                  *)
(*                                                                         *)
(* Everything runs on one event loop: a task runs without interruption     *)
(* between two awaits that really suspend, which are the waits for a lock  *)
(* and for a reply.  Each action is one such stretch.                      *)
(***************************************************************************)
EXTENDS Naturals, FiniteSets

CONSTANTS
  Task,        \* slots for concurrent asyncio tasks
  NoTask,      \* the owner of a free lock
  MaxResyncs,  \* bound on resyncs running at once
  MaxChanges,  \* bound on registry changes in Home Assistant
  MaxFaults,   \* bound on requests Home Assistant refuses
  MaxDrops     \* bound on connection losses

ASSUME NoTaskAssumption == NoTask \notin Task
ASSUME BoundsAssumption ==
  MaxResyncs \in Nat /\ MaxChanges \in Nat /\ MaxFaults \in Nat /\ MaxDrops \in Nat

VARIABLES
  ha,          \* revision of each registry in Home Assistant
  connected,   \* the WebSocket is up, subscribed and read by the read loop
  handshaking, \* a reconnection authenticates and subscribes, reading by itself
  notices,     \* registry events sent and not yet dispatched, per registry
  phase,       \* of the process: booting, serving or exited
  areas,       \* RegistryCache._areas
  devices,     \* RegistryCache._devices
  entities,    \* EntityRegistryCache._entities
  devLock,     \* RegistryCache._lock
  entLock,     \* EntityRegistryCache._lock
  engine,      \* area revision the rule engine was compiled against
  snap,        \* revisions of the tracker's last-known snapshots
  tasks,       \* the tasks and how far each one is
  unannounced, \* the device listing changed since its last notice (history)
  lost,        \* newest revisions whose notice or refresh failed (history)
  faults, drops

haVars    == <<ha, connected, handshaking, notices>>
cacheVars == <<areas, devices, entities>>
lockVars  == <<devLock, entLock>>
readers   == <<engine, snap, unannounced>>
bounds    == <<faults, drops>>
vars      == <<haVars, phase, cacheVars, lockVars, readers, tasks, lost, bounds>>

Registry == {"area", "device", "entity"}
Consumer == Registry \cup {"engine"}
Kind     == {"none", "device", "area", "entity", "resync", "boot"}

(* Where a task can be suspended. *)
Waiting   == {"lockDevices", "lockEntities"}
Asked     == {"askAreas", "askDevices", "askEntities"}
Answered  == {"gotAreas", "gotDevices", "gotEntities"}
Unheard   == {"unheardAreas"}
InDevices == {"askAreas", "gotAreas", "askDevices", "gotDevices"} \cup Unheard
InEntities == {"askEntities", "gotEntities"}
Step      == {"idle"} \cup Waiting \cup Asked \cup Answered \cup Unheard

Idle == [kind |-> "none", pc |-> "idle", reply |-> 0, changed |-> FALSE]

TaskState == [kind : Kind, pc : Step, reply : Nat, changed : BOOLEAN]

(***************************************************************************)
(* The process starts with empty caches (revision 0) and one task, the     *)
(* lifespan, already asking for the areas with the client subscribed.      *)
(***************************************************************************)
Init ==
  /\ ha = [r \in Registry |-> 1]
  /\ connected = TRUE
  /\ handshaking = FALSE
  /\ notices = [r \in Registry |-> 0]
  /\ phase = "booting"
  /\ areas = 0
  /\ devices = [own |-> 0, areas |-> 0]
  /\ entities = [own |-> 0, devices |-> 0, areas |-> 0]
  /\ entLock = NoTask
  /\ engine = 0
  /\ snap = [device |-> 0, entity |-> 0]
  /\ unannounced = FALSE
  /\ lost = [c \in Consumer |-> 0]
  /\ faults = 0
  /\ drops = 0
  /\ \E t \in Task :
       /\ devLock = t
       /\ tasks = [u \in Task |->
            IF u = t THEN [Idle EXCEPT !.kind = "boot", !.pc = "askAreas"]
                     ELSE Idle]

---------------------------------------------------------------------------
(***************************************************************************)
(* Home Assistant and the connection (external).                           *)
(***************************************************************************)

(* A registry changes.  Subscribed clients are sent one event; a change    *)
(* made while the connection is down sends none, and what the reconnect    *)
(* will not make up for is an area change the engine has not seen.         *)
HAChange(r) ==
  /\ ha["area"] + ha["device"] + ha["entity"] < 3 + MaxChanges
  /\ ha' = [ha EXCEPT ![r] = @ + 1]
  /\ notices' = IF connected THEN [notices EXCEPT ![r] = @ + 1] ELSE notices
  /\ lost' = IF connected \/ r # "area" THEN lost
             ELSE [lost EXCEPT !["engine"] = ha["area"] + 1]
  /\ UNCHANGED <<connected, handshaking, phase, cacheVars, lockVars, readers, tasks, bounds>>

(* The connection drops, or an attempt at a new one fails in its           *)
(* handshake: the events on it never arrive. *)
Disconnect ==
  /\ connected \/ handshaking
  /\ phase # "exited"
  /\ drops < MaxDrops
  /\ drops' = drops + 1
  /\ connected' = FALSE
  /\ handshaking' = FALSE
  /\ notices' = [r \in Registry |-> 0]
  /\ lost' = IF notices["area"] = 0 THEN lost
             ELSE [lost EXCEPT !["engine"] = ha["area"]]
  /\ UNCHANGED <<ha, phase, cacheVars, lockVars, readers, tasks, faults>>

(* After the backoff the client connects again.  The backoff is at least a *)
(* second, in which whatever ran has ended: its request failed. *)
BeginHandshake ==
  /\ ~connected /\ ~handshaking
  /\ phase = "serving"
  /\ \A t \in Task : tasks[t] = Idle
  /\ handshaking' = TRUE
  /\ UNCHANGED <<ha, connected, notices, phase, cacheVars, lockVars, readers, tasks, lost, bounds>>

(* The handshake discards the answer to a request made meanwhile, which    *)
(* nobody will get: that of a resync, for the areas, since nothing else    *)
(* starts without an event. *)
Discard(t) ==
  /\ handshaking
  /\ tasks[t].pc = "askAreas"
  /\ tasks' = [tasks EXCEPT ![t].pc = "unheardAreas"]
  /\ UNCHANGED <<haVars, phase, cacheVars, lockVars, readers, lost, bounds>>

(* Home Assistant answers a list request with what it holds now. *)
Listed == [askAreas |-> "area", askDevices |-> "device", askEntities |-> "entity"]

GotStep ==
  [askAreas |-> "gotAreas", askDevices |-> "gotDevices", askEntities |-> "gotEntities"]

Answer(t) ==
  /\ connected
  /\ tasks[t].pc \in Asked
  /\ tasks' = [tasks EXCEPT ![t] =
       [@ EXCEPT !.pc = GotStep[tasks[t].pc], !.reply = ha[Listed[tasks[t].pc]]]]
  /\ UNCHANGED <<haVars, phase, cacheVars, lockVars, readers, lost, bounds>>

---------------------------------------------------------------------------
(***************************************************************************)
(* Scheduling of the tasks.                                                *)
(***************************************************************************)

(* A task first waits for the lock of the cache it refreshes. *)
Fresh(k) ==
  [Idle EXCEPT !.kind = k,
               !.pc = IF k = "entity" THEN "lockEntities" ELSE "lockDevices"]

M_Pending(r) == TRUE
Pending(r) == notices[r] > 0

(* The read loop hands an event to on_event, which schedules one task for  *)
(* it.  Until the lifespan has subscribed there is no handler to call.     *)
Dispatch(r) ==
  /\ Pending(r)
  /\ phase # "exited"
  /\ notices' = [notices EXCEPT ![r] = @ - 1]
  /\ \/ /\ phase = "serving"
        /\ \E t \in Task : /\ tasks[t] = Idle
                           /\ tasks' = [tasks EXCEPT ![t] = Fresh(r)]
        /\ UNCHANGED lost
     \/ /\ phase = "booting"
        /\ lost' = [c \in Consumer |->
             CASE c = r                        -> ha[r]
               [] c = "engine" /\ r = "area"   -> ha["area"]
               [] OTHER                        -> lost[c]]
        /\ UNCHANGED tasks
  /\ UNCHANGED <<ha, connected, handshaking, phase, cacheVars, lockVars, readers, bounds>>

(* The refreshes a ReconnectedEvent schedules. *)
M_OnReconnected_noDevices == <<"entity", "entity">>
M_OnReconnected_noEntities == <<"device", "device">>
OnReconnected == <<"device", "entity">>

(* The supervisor has reconnected and dispatches ReconnectedEvent: one     *)
(* device task and one entity task.                                        *)
Reconnect ==
  /\ handshaking
  /\ handshaking' = FALSE
  /\ connected' = TRUE
  /\ \E t, u \in Task :
       /\ t # u
       /\ tasks[t] = Idle /\ tasks[u] = Idle
       /\ tasks' = [tasks EXCEPT ![t] = Fresh(OnReconnected[1]),
                                   ![u] = Fresh(OnReconnected[2])]
  /\ UNCHANGED <<ha, notices, phase, cacheVars, lockVars, readers, lost, bounds>>

(* The resync loop wakes up, or the resync endpoint is called. *)
StartResync(t) ==
  /\ phase = "serving"
  /\ tasks[t] = Idle
  /\ Cardinality({u \in Task : tasks[u].kind = "resync"}) < MaxResyncs
  /\ tasks' = [tasks EXCEPT ![t] = Fresh("resync")]
  /\ UNCHANGED <<haVars, phase, cacheVars, lockVars, readers, lost, bounds>>

---------------------------------------------------------------------------
(***************************************************************************)
(* Refreshing the device cache: areas, then devices, under its lock.       *)
(***************************************************************************)

M_Free(lock) == TRUE
Free(lock) == lock = NoTask

LockDevices(t) ==
  /\ tasks[t].pc = "lockDevices"
  /\ Free(devLock)
  /\ devLock' = t
  /\ tasks' = [tasks EXCEPT ![t].pc = "askAreas"]
  /\ UNCHANGED <<haVars, phase, cacheVars, entLock, readers, lost, bounds>>

(* The device listing names the areas of the area cache of its own load.   *)
DeviceListing(own) == [own |-> own, areas |-> areas]

(* A lookup of the entity's device and area in the caches of the moment.   *)
M_EntityListing(own) == [own |-> own, devices |-> entities.devices, areas |-> areas]
EntityListing(own) == [own |-> own, devices |-> devices.own, areas |-> areas]

(* The areas are replaced as soon as they arrive, before the devices are   *)
(* asked for.                                                              *)
ReceiveAreas(t) ==
  /\ tasks[t].pc = "gotAreas"
  /\ areas' = tasks[t].reply
  /\ tasks' = [tasks EXCEPT ![t].pc = "askDevices"]
  /\ UNCHANGED <<haVars, phase, devices, entities, lockVars, readers, lost, bounds>>

(* _recompile_engine runs in the area task only. *)
M_Recompiled(k) == IF k = "device" THEN areas ELSE engine
Recompiled(k) == IF k = "area" THEN areas ELSE engine

(* What a device or area task does once the device cache is loaded: the    *)
(* tracker's diff, the notice, and for an area change the recompilation.   *)
FinishDevices(t, loaded) ==
  /\ snap' = [snap EXCEPT !.device = loaded.own]
  /\ unannounced' = FALSE
  /\ engine' = Recompiled(tasks[t].kind)
  /\ tasks' = [tasks EXCEPT ![t] = Idle]
  /\ UNCHANGED entLock

(* A resync, and the lifespan, go on to the entity cache; its lock is      *)
(* taken at once when it is free.                                          *)
GoOnToEntities(t, diff) ==
  /\ tasks' = [tasks EXCEPT ![t] =
       [@ EXCEPT !.pc = IF Free(entLock) THEN "askEntities" ELSE "lockEntities",
                 !.changed = diff]]
  /\ entLock' = IF Free(entLock) THEN t ELSE entLock
  /\ unannounced' = (unannounced \/ (diff /\ phase = "serving"))
  /\ UNCHANGED <<engine, snap>>

ReceiveDevices(t) ==
  /\ tasks[t].pc = "gotDevices"
  /\ devLock' = NoTask
  /\ LET loaded == DeviceListing(tasks[t].reply) IN
       /\ devices' = loaded
       /\ \/ /\ tasks[t].kind \in {"device", "area"}
             /\ FinishDevices(t, loaded)
          \/ /\ tasks[t].kind \in {"resync", "boot"}
             /\ GoOnToEntities(t, loaded # devices)
  /\ UNCHANGED <<haVars, phase, areas, entities, lost, bounds>>

---------------------------------------------------------------------------
(***************************************************************************)
(* Refreshing the entity cache, under its own lock.                        *)
(***************************************************************************)

LockEntities(t) ==
  /\ tasks[t].pc = "lockEntities"
  /\ Free(entLock)
  /\ entLock' = t
  /\ tasks' = [tasks EXCEPT ![t].pc = "askEntities"]
  /\ UNCHANGED <<haVars, phase, cacheVars, devLock, readers, lost, bounds>>

(* A resync runs both diffs, commits, and sends a notice for each cache    *)
(* its own refresh changed.                                                *)
M_FinishResync_noEntityDiff(t, loaded) ==
  /\ snap' = [snap EXCEPT !.device = devices.own]
  /\ unannounced' = (unannounced /\ ~tasks[t].changed)
  /\ UNCHANGED <<engine, phase>>

M_FinishResync_silent(t, loaded) ==
  /\ snap' = [device |-> devices.own, entity |-> loaded.own]
  /\ UNCHANGED <<engine, phase, unannounced>>

FinishResync(t, loaded) ==
  /\ snap' = [device |-> devices.own, entity |-> loaded.own]
  /\ unannounced' = (unannounced /\ ~tasks[t].changed)
  /\ UNCHANGED <<engine, phase>>

FinishEntities(loaded) ==
  /\ snap' = [snap EXCEPT !.entity = loaded.own]
  /\ UNCHANGED <<engine, phase, unannounced>>

(* The lifespan builds the tracker from both caches, compiles the engine   *)
(* and only then subscribes to events.                                     *)
FinishBoot(loaded) ==
  /\ snap' = [device |-> devices.own, entity |-> loaded.own]
  /\ engine' = areas
  /\ phase' = "serving"
  /\ UNCHANGED unannounced

ReceiveEntities(t) ==
  /\ tasks[t].pc = "gotEntities"
  /\ entLock' = NoTask
  /\ tasks' = [tasks EXCEPT ![t] = Idle]
  /\ LET loaded == EntityListing(tasks[t].reply) IN
       /\ entities' = loaded
       /\ \/ tasks[t].kind = "resync" /\ FinishResync(t, loaded)
          \/ tasks[t].kind = "entity" /\ FinishEntities(loaded)
          \/ tasks[t].kind = "boot"   /\ FinishBoot(loaded)
  /\ UNCHANGED <<haVars, areas, devices, devLock, lost, bounds>>

---------------------------------------------------------------------------
(***************************************************************************)
(* A request fails: Home Assistant refused it or the connection is gone.   *)
(* One whose answer was discarded fails with the connection only, and as   *)
(* long as the handshake lasts nobody reads a refusal.                     *)
(***************************************************************************)

(* A failed device or area task still sends devices_changed; a failed      *)
(* resync sends nothing.                                                   *)
Announces(k) == k \in {"device", "area"}

(* What the failed refresh will not deliver.  A reconnect refreshes both   *)
(* caches, so on a dropped connection only the engine's share is lost.     *)
NotDelivered(t) ==
  (IF ~connected THEN {}
   ELSE IF tasks[t].pc \in InEntities THEN {"entity"}
   ELSE IF tasks[t].kind = "resync" THEN Registry
   ELSE {"area", "device"})
  \cup (IF tasks[t].kind = "area" THEN {"engine"} ELSE {})

(* async with releases the lock on the way out of an exception too. *)
M_Released(lock, t) == lock
Released(lock, t) == IF lock = t THEN NoTask ELSE lock

Fail(t) ==
  /\ tasks[t].pc \in Asked \cup Answered \cup Unheard
  /\ ~handshaking
  /\ connected => faults < MaxFaults /\ tasks[t].pc \notin Unheard
  /\ faults' = IF connected THEN faults + 1 ELSE faults
  /\ devLock' = Released(devLock, t)
  /\ entLock' = Released(entLock, t)
  /\ phase' = IF tasks[t].kind = "boot" THEN "exited" ELSE phase
  /\ unannounced' = (unannounced /\ ~Announces(tasks[t].kind))
  /\ engine' = Recompiled(tasks[t].kind)
  /\ lost' = [c \in Consumer |->
       IF c \in NotDelivered(t)
       THEN IF c = "engine" THEN ha["area"] ELSE ha[c]
       ELSE lost[c]]
  /\ tasks' = [tasks EXCEPT ![t] = Idle]
  /\ UNCHANGED <<haVars, cacheVars, snap, drops>>

---------------------------------------------------------------------------
TaskStep(t) ==
  \/ LockDevices(t) \/ ReceiveAreas(t) \/ ReceiveDevices(t)
  \/ LockEntities(t) \/ ReceiveEntities(t)

Next ==
  \/ \E r \in Registry : HAChange(r) \/ Dispatch(r)
  \/ Disconnect \/ BeginHandshake \/ Reconnect
  \/ \E t \in Task : Discard(t) \/ Answer(t) \/ StartResync(t) \/ TaskStep(t) \/ Fail(t)

Spec == Init /\ [][Next]_vars

(***************************************************************************)
(* Fairness.  The event loop runs every ready task, Home Assistant answers *)
(* what it is asked over a live connection - but nobody need get the       *)
(* answer, see Discard -, requests over a dead one fail, the supervisor's  *)
(* backoff and handshake are bounded, and the resync loop's sleep ends.    *)
(* asyncio.Lock wakes its waiters first come, first served, so a waiter    *)
(* gets the lock however often others take it; a reconnect waits for a     *)
(* task slot only because slots are bounded here.  Nothing forces a        *)
(* registry change, a refusal, a disconnection or a discarded answer.      *)
(***************************************************************************)
FailDisconnected(t) == ~connected /\ Fail(t)

Proceeds(t) ==
  \/ Answer(t) \/ FailDisconnected(t)
  \/ ReceiveAreas(t) \/ ReceiveDevices(t) \/ ReceiveEntities(t)

Fairness ==
  /\ \A t \in Task : /\ WF_vars(Proceeds(t))
                    /\ SF_vars(LockDevices(t) \/ LockEntities(t))
  /\ SF_vars(BeginHandshake)
  /\ SF_vars(Reconnect)
  /\ WF_vars(\E t \in Task : StartResync(t))

FairSpec == Spec /\ Fairness

---------------------------------------------------------------------------
(***************************************************************************)
(* Properties.                                                             *)
(***************************************************************************)

(* Every variable holds a value of its type. *)
TypeOK ==
  /\ ha \in [Registry -> Nat]
  /\ connected \in BOOLEAN
  /\ handshaking \in BOOLEAN
  /\ notices \in [Registry -> Nat]
  /\ phase \in {"booting", "serving", "exited"}
  /\ areas \in Nat
  /\ devices \in [own : Nat, areas : Nat]
  /\ entities \in [own : Nat, devices : Nat, areas : Nat]
  /\ devLock \in Task \cup {NoTask}
  /\ entLock \in Task \cup {NoTask}
  /\ engine \in Nat
  /\ snap \in [device : Nat, entity : Nat]
  /\ tasks \in [Task -> TaskState]
  /\ unannounced \in BOOLEAN
  /\ lost \in [Consumer -> Nat]
  /\ faults \in Nat
  /\ drops \in Nat

(* A refresh is under way exactly while its task owns that cache's lock:   *)
(* two refreshes of one cache never overlap, and no outcome, a failed      *)
(* request in either half included, leaves a lock behind that would block  *)
(* every later refresh (async with in RegistryCache and                    *)
(* EntityRegistryCache).                                                   *)
LockInv ==
  \A t \in Task : /\ devLock = t <=> tasks[t].pc \in InDevices
                  /\ entLock = t <=> tasks[t].pc \in InEntities

(* Nothing is under way: no event in flight, no task running. *)
Quiet ==
  /\ connected
  /\ phase = "serving"
  /\ \A r \in Registry : notices[r] = 0
  /\ \A t \in Task : tasks[t] = Idle

UpToDate(r, held) == held = ha[r] \/ lost[r] = ha[r]

(* Events alone keep the device cache current: at rest it lists the        *)
(* registry's devices under the registry's area names, across any          *)
(* interleaving of refreshes, resyncs and reconnections, unless the notice *)
(* of the newest change came before the lifespan subscribed or its refresh *)
(* was refused.                                                            *)
DevicesSettle ==
  Quiet => /\ UpToDate("area", areas)
           /\ UpToDate("area", devices.areas)
           /\ UpToDate("device", devices.own)

(* The same for the entity cache's own listing. *)
EntitiesSettle == Quiet => UpToDate("entity", entities.own)

(* At rest the rule engine was compiled against the current areas, unless  *)
(* an area event was lost with the connection, came before the lifespan    *)
(* subscribed, or the refresh it scheduled failed.                         *)
EngineSettle == Quiet => engine = ha["area"] \/ lost["engine"] = ha["area"]

(* No cache ever goes back to an older listing, and the engine never to    *)
(* older areas: a slow reply cannot overwrite what a later refresh loaded. *)
NoRegress ==
  [][/\ areas <= areas'
     /\ devices.own <= devices.own' /\ devices.areas <= devices.areas'
     /\ entities.own <= entities.own'
     /\ engine <= engine']_vars

(* As long as no request is refused, the browser has been told of every    *)
(* change of the device listing once the system is at rest, a resync that  *)
(* a disconnection cut in half included.                                   *)
AnnouncedSettle == Quiet /\ faults = 0 => ~unannounced

(* Likewise the tracker has compared its snapshots with what the caches    *)
(* hold: no load goes without its deletion diff.                           *)
TrackerSettle ==
  Quiet /\ faults = 0 => snap = [device |-> devices.own, entity |-> entities.own]

Coherent ==
  /\ areas = ha["area"]
  /\ devices = [own |-> ha["device"], areas |-> ha["area"]]
  /\ entities = [own |-> ha["entity"], devices |-> ha["device"], areas |-> ha["area"]]
  /\ snap = [device |-> ha["device"], entity |-> ha["entity"]]

(* A refresh waits for an answer that a reconnection's handshake has       *)
(* discarded, holding the lock of its cache.                               *)
Hung == \E t \in Task : tasks[t].pc \in Unheard

(* The safety resync heals everything else: once Home Assistant stops      *)
(* changing and failing, both caches, the names they denormalise and the   *)
(* tracker's snapshots agree with it for good, whatever was lost before -  *)
(* unless a refresh is left hanging for good, when no disconnection comes  *)
(* to fail it.                                                             *)
EventuallyCoherent == <>[](Coherent \/ Hung \/ phase = "exited")
=============================================================================
