------------------------ MODULE RegistrySyncProofs ------------------------
(***************************************************************************)
(* Theorems about RegistrySync, for any number of task slots and any       *)
(* number of changes, refusals and disconnections.                         *)
(***************************************************************************)
EXTENDS RegistrySync, TLAPS

(* A cache is never ahead of what it is computed from. *)
CachesOrdered ==
  /\ areas <= ha["area"]
  /\ devices.own <= ha["device"]
  /\ devices.areas <= areas
  /\ entities.own <= ha["entity"]
  /\ engine <= areas

(* A reply on its way to a cache is never behind what it will replace. *)
ReplyOrdered(t) ==
  /\ tasks[t].pc = "gotAreas" =>
       areas <= tasks[t].reply /\ tasks[t].reply <= ha["area"]
  /\ tasks[t].pc = "gotDevices" =>
       devices.own <= tasks[t].reply /\ tasks[t].reply <= ha["device"]
  /\ tasks[t].pc = "gotEntities" =>
       entities.own <= tasks[t].reply /\ tasks[t].reply <= ha["entity"]

Ordered == CachesOrdered /\ \A t \in Task : ReplyOrdered(t)

(* Task t will read the current revision of the areas. *)
WillReadAreas(t) ==
  \/ tasks[t].pc \in {"lockDevices", "askAreas"} \cup Unheard
  \/ tasks[t].pc = "gotAreas" /\ tasks[t].reply = ha["area"]

(* Task t will load the device cache with the current area names. *)
WillNameDevices(t) ==
  \/ WillReadAreas(t)
  \/ tasks[t].pc \in {"askDevices", "gotDevices"} /\ areas = ha["area"]

(* Task t will load the current devices. *)
WillReadDevices(t) ==
  \/ tasks[t].pc \in {"lockDevices", "askAreas", "gotAreas", "askDevices"} \cup Unheard
  \/ tasks[t].pc = "gotDevices" /\ tasks[t].reply = ha["device"]

(* Task t will load the current entities. *)
WillReadEntities(t) ==
  \/ tasks[t].pc \in {"lockEntities", "askEntities"}
  \/ tasks[t].pc = "gotEntities" /\ tasks[t].reply = ha["entity"]
  \/ /\ tasks[t].kind \in {"resync", "boot"}
     /\ tasks[t].pc \in {"lockDevices"} \cup InDevices

(* Task t will compile the engine against the current areas. *)
WillCompile(t) ==
  \/ tasks[t].kind \in {"area", "boot"} /\ WillNameDevices(t)
  \/ /\ tasks[t].kind = "boot"
     /\ tasks[t].pc \in {"lockEntities"} \cup InEntities
     /\ areas = ha["area"]

(* No update is forgotten: whatever is behind Home Assistant has an event  *)
(* in flight or a task that will catch it up.                              *)
AreasTracked ==
  \/ areas = ha["area"] \/ lost["area"] = ha["area"]
  \/ ~connected \/ notices["area"] > 0
  \/ \E t \in Task : WillReadAreas(t)

NamesTracked ==
  \/ devices.areas = ha["area"] \/ lost["area"] = ha["area"]
  \/ ~connected \/ notices["area"] > 0
  \/ \E t \in Task : WillNameDevices(t)

DevicesTracked ==
  \/ devices.own = ha["device"] \/ lost["device"] = ha["device"]
  \/ ~connected \/ notices["device"] > 0
  \/ \E t \in Task : WillReadDevices(t)

EntitiesTracked ==
  \/ entities.own = ha["entity"] \/ lost["entity"] = ha["entity"]
  \/ ~connected \/ notices["entity"] > 0
  \/ \E t \in Task : WillReadEntities(t)

EngineTracked ==
  \/ engine = ha["area"] \/ lost["engine"] = ha["area"]
  \/ notices["area"] > 0
  \/ \E t \in Task : WillCompile(t)

AllTracked ==
  AreasTracked /\ NamesTracked /\ DevicesTracked /\ EntitiesTracked /\ EngineTracked

Tracked == phase # "exited" => AllTracked

(* The lifespan runs once, and only while the process boots. *)
BootAlone ==
  \A t \in Task : tasks[t].kind = "boot" =>
    phase = "booting" /\ \A u \in Task : u # t => tasks[u].kind # "boot"

IInv == TypeOK /\ LockInv /\ Ordered /\ BootAlone /\ Tracked

---------------------------------------------------------------------------
(* An idle or freshly scheduled task is a task state. *)
LEMMA TaskStates == Idle \in TaskState /\ \A k \in Kind : Fresh(k) \in TaskState
  BY DEF Idle, Fresh, TaskState, Kind, Step, Unheard, Waiting, Asked, Answered

(* Every variable keeps its type. *)
THEOREM TypeCorrect == Spec => []TypeOK
<1>1. Init => TypeOK
  <2> SUFFICES ASSUME Init PROVE TypeOK
    OBVIOUS
  <2>1. tasks \in [Task -> TaskState] /\ devLock \in Task
    <3>1. [Idle EXCEPT !.kind = "boot", !.pc = "askAreas"] \in TaskState
      BY DEF Idle, TaskState, Kind, Step, Unheard, Waiting, Asked, Answered
    <3>2. QED
      BY TaskStates, <3>1 DEF Init
  <2>2. connected \in BOOLEAN /\ handshaking \in BOOLEAN /\ unannounced \in BOOLEAN
    BY Zenon DEF Init
  <2>3. QED
    BY <2>1, <2>2 DEF Init, TypeOK
<1>2. TypeOK /\ [Next]_vars => TypeOK'
  <2> SUFFICES ASSUME TypeOK, [Next]_vars PROVE TypeOK'
    OBVIOUS
  <2> USE DEF TypeOK
  <2>1. ASSUME NEW r \in Registry, HAChange(r) PROVE TypeOK'
    BY <2>1 DEF HAChange, Registry, Consumer, cacheVars, lockVars, readers, bounds
  <2>2. ASSUME NEW r \in Registry, Dispatch(r) PROVE TypeOK'
    <3>1. tasks' \in [Task -> TaskState]
      BY <2>2, TaskStates DEF Dispatch, Registry, Kind
    <3>2. notices' \in [Registry -> Nat] /\ lost' \in [Consumer -> Nat]
      BY <2>2 DEF Dispatch, Pending, Registry, Consumer
    <3>3. QED
      BY <2>2, <3>1, <3>2 DEF Dispatch, cacheVars, lockVars, readers, bounds
  <2>3. CASE Disconnect
    <3>1. connected' \in BOOLEAN /\ handshaking' \in BOOLEAN
      BY <2>3, Zenon DEF Disconnect
    <3>2. lost' \in [Consumer -> Nat]
      BY <2>3 DEF Disconnect, Registry, Consumer
    <3>3. QED
      BY <2>3, <3>1, <3>2 DEF Disconnect, cacheVars, lockVars, readers
  <2>4. CASE Reconnect
    <3>1. tasks' \in [Task -> TaskState]
      BY <2>4, TaskStates DEF Reconnect, OnReconnected, Kind
    <3>2. connected' \in BOOLEAN /\ handshaking' \in BOOLEAN
      BY <2>4, Zenon DEF Reconnect
    <3>3. QED
      BY <2>4, <3>1, <3>2 DEF Reconnect, cacheVars, lockVars, readers, bounds
  <2>5. ASSUME NEW t \in Task, Answer(t) PROVE TypeOK'
    <3>1. tasks' \in [Task -> TaskState]
      <4>1. GotStep[tasks[t].pc] \in Step /\ Listed[tasks[t].pc] \in Registry
        BY <2>5 DEF Answer, Asked, GotStep, Listed, Step, Unheard, Answered, Registry
      <4>2. ha[Listed[tasks[t].pc]] \in Nat
        BY <4>1
      <4>3. QED
        BY <2>5, <4>1, <4>2 DEF Answer, TaskState
    <3>2. QED
      BY <2>5, <3>1 DEF Answer, haVars, cacheVars, lockVars, readers, bounds
  <2>6. ASSUME NEW t \in Task, StartResync(t) PROVE TypeOK'
    BY <2>6, TaskStates DEF StartResync, Kind, haVars, cacheVars, lockVars, readers, bounds
  <2>7. ASSUME NEW t \in Task, LockDevices(t) PROVE TypeOK'
    BY <2>7 DEF LockDevices, TaskState, Step, Unheard, Asked, haVars, cacheVars, readers, bounds
  <2>8. ASSUME NEW t \in Task, ReceiveAreas(t) PROVE TypeOK'
    BY <2>8 DEF ReceiveAreas, TaskState, Step, Unheard, Asked, haVars, lockVars, readers, bounds
  <2>9. ASSUME NEW t \in Task, ReceiveDevices(t) PROVE TypeOK'
    <3>1. devices' \in [own : Nat, areas : Nat]
      BY <2>9 DEF ReceiveDevices, DeviceListing, TaskState
    <3>2. CASE FinishDevices(t, DeviceListing(tasks[t].reply))
      <4>1. snap' \in [device : Nat, entity : Nat]
        BY <2>9, <3>2 DEF FinishDevices, DeviceListing, TaskState
      <4>2. unannounced' \in BOOLEAN
        BY <3>2, Zenon DEF FinishDevices
      <4>3. tasks' \in [Task -> TaskState]
        BY <3>2, TaskStates DEF FinishDevices
      <4>4. QED
        BY <2>9, <3>1, <3>2, <4>1, <4>2, <4>3
           DEF ReceiveDevices, FinishDevices, Recompiled, haVars, bounds
    <3>3. CASE GoOnToEntities(t, DeviceListing(tasks[t].reply) # devices)
      <4>1. unannounced' \in BOOLEAN
        BY <3>3, Zenon DEF GoOnToEntities
      <4>2. tasks' \in [Task -> TaskState]
        <5> DEFINE diff == DeviceListing(tasks[t].reply) # devices
        <5>1. diff \in BOOLEAN
          BY Zenon
        <5> HIDE DEF diff
        <5>2. GoOnToEntities(t, diff)
          BY <3>3 DEF diff
        <5>3. QED
          BY <5>1, <5>2 DEF GoOnToEntities, TaskState, Step, Unheard, Waiting, Asked
      <4>3. QED
        BY <2>9, <3>1, <3>3, <4>1, <4>2 DEF ReceiveDevices, GoOnToEntities, haVars, bounds
    <3>4. QED
      BY <2>9, <3>2, <3>3 DEF ReceiveDevices
  <2>10. ASSUME NEW t \in Task, LockEntities(t) PROVE TypeOK'
    BY <2>10 DEF LockEntities, TaskState, Step, Unheard, Asked, haVars, cacheVars, readers, bounds
  <2>11. ASSUME NEW t \in Task, ReceiveEntities(t) PROVE TypeOK'
    <3>1. tasks' \in [Task -> TaskState]
      BY <2>11, TaskStates DEF ReceiveEntities
    <3>2. entities' \in [own : Nat, devices : Nat, areas : Nat]
      BY <2>11 DEF ReceiveEntities, EntityListing, TaskState
    <3>3. snap' \in [device : Nat, entity : Nat] /\ engine' \in Nat
          /\ phase' \in {"booting", "serving", "exited"}
      BY <2>11 DEF ReceiveEntities, EntityListing, TaskState, FinishResync, FinishEntities,
         FinishBoot
    <3>4. unannounced' \in BOOLEAN
      BY <2>11, Zenon DEF ReceiveEntities, FinishResync, FinishEntities, FinishBoot
    <3>5. QED
      BY <2>11, <3>1, <3>2, <3>3, <3>4 DEF ReceiveEntities, haVars, bounds
  <2>12. ASSUME NEW t \in Task, Fail(t) PROVE TypeOK'
    <3>1. tasks' \in [Task -> TaskState]
      BY <2>12, TaskStates DEF Fail
    <3>2. lost' \in [Consumer -> Nat]
      BY <2>12 DEF Fail, Consumer, Registry
    <3>3. unannounced' \in BOOLEAN
      BY <2>12, Zenon DEF Fail
    <3>4. QED
      BY <2>12, <3>1, <3>2, <3>3 DEF Fail, Released, Recompiled, haVars, cacheVars
  <2>13. CASE UNCHANGED vars
    BY <2>13 DEF vars, haVars, cacheVars, lockVars, readers, bounds
  <2>14. CASE BeginHandshake
    BY <2>14 DEF BeginHandshake, cacheVars, lockVars, readers, bounds
  <2>15. ASSUME NEW t \in Task, Discard(t) PROVE TypeOK'
    BY <2>15 DEF Discard, TaskState, Step, Unheard, haVars, cacheVars, lockVars, readers, bounds
  <2>16. QED
    BY <2>1, <2>2, <2>3, <2>4, <2>5, <2>6, <2>7, <2>8, <2>9, <2>10, <2>11, <2>12, <2>13,
       <2>14, <2>15
       DEF Next, TaskStep
<1>3. QED
  BY <1>1, <1>2, PTL DEF Spec
---------------------------------------------------------------------------
(* LockInv for one task. *)
Inside(t) == /\ devLock = t <=> tasks[t].pc \in InDevices
             /\ entLock = t <=> tasks[t].pc \in InEntities

(* A task that is idle or only waits for a lock is not inside a refresh. *)
LEMMA OutsideStates ==
  /\ Idle.pc \notin InDevices \cup InEntities
  /\ \A k \in Kind : Fresh(k).pc \notin InDevices \cup InEntities
  BY DEF Idle, Fresh, InDevices, Unheard, InEntities

(* A cache's lock is held exactly by the task refreshing it.               *)
THEOREM LockSafety == Spec => []LockInv
<1>1. Init => LockInv
  <2> SUFFICES ASSUME Init, NEW u \in Task
               PROVE  /\ devLock = u <=> tasks[u].pc \in InDevices
                      /\ entLock = u <=> tasks[u].pc \in InEntities
    BY DEF LockInv
  <2>1. PICK t \in Task : /\ devLock = t
                          /\ tasks = [v \in Task |->
                               IF v = t THEN [Idle EXCEPT !.kind = "boot", !.pc = "askAreas"]
                                        ELSE Idle]
    BY DEF Init
  <2>2. CASE u = t
    BY <2>1, <2>2, NoTaskAssumption DEF Init, InDevices, Unheard, InEntities, Idle
  <2>3. CASE u # t
    BY <2>1, <2>3, NoTaskAssumption DEF Init, InDevices, Unheard, InEntities, Idle
  <2>4. QED
    BY <2>2, <2>3
<1>2. TypeOK /\ LockInv /\ [Next]_vars => LockInv'
  <2> SUFFICES ASSUME TypeOK, LockInv, [Next]_vars, NEW u \in Task PROVE Inside(u)'
    BY DEF LockInv, Inside
  <2>0. Inside(u) /\ tasks \in [Task -> TaskState] /\ u # NoTask
    <3>1. Inside(u)
      BY DEF LockInv, Inside
    <3>2. tasks \in [Task -> TaskState]
      BY DEF TypeOK
    <3>3. QED
      BY <3>1, <3>2, NoTaskAssumption
  <2> USE DEF Inside, InDevices, Unheard, InEntities, TaskState
  <2>1. CASE UNCHANGED <<lockVars, tasks>>
    BY <2>0, <2>1 DEF lockVars
  <2>2. ASSUME NEW r \in Registry, Dispatch(r) PROVE Inside(u)'
    <3>1. CASE UNCHANGED tasks
      BY <2>0, <2>2, <3>1 DEF Dispatch, lockVars
    <3>2. ASSUME NEW t \in Task, tasks[t] = Idle, tasks' = [tasks EXCEPT ![t] = Fresh(r)]
          PROVE  Inside(u)'
      BY <2>0, <2>2, <3>2, OutsideStates DEF Dispatch, Registry, Kind, lockVars
    <3>3. QED
      BY <2>2, <3>1, <3>2 DEF Dispatch
  <2>3. CASE Reconnect
    <3>1. PICK t \in Task, v \in Task :
            /\ tasks[t] = Idle /\ tasks[v] = Idle
            /\ tasks' = [tasks EXCEPT ![t] = Fresh("device"), ![v] = Fresh("entity")]
      BY <2>3 DEF Reconnect, OnReconnected
    <3>2. QED
      BY <2>0, <2>3, <3>1, OutsideStates DEF Reconnect, Kind, lockVars
  <2>4. ASSUME NEW t \in Task, Answer(t) PROVE Inside(u)'
    <3>1. /\ tasks'[u].pc \in InDevices <=> tasks[u].pc \in InDevices
          /\ tasks'[u].pc \in InEntities <=> tasks[u].pc \in InEntities
      BY <2>0, <2>4 DEF Answer, Asked, GotStep
    <3>2. QED
      BY <2>0, <2>4, <3>1 DEF Answer, lockVars
  <2>5. ASSUME NEW t \in Task, StartResync(t) PROVE Inside(u)'
    BY <2>0, <2>5 DEF StartResync, Fresh, Idle, lockVars
  <2>6. ASSUME NEW t \in Task, LockDevices(t) PROVE Inside(u)'
    BY <2>0, <2>6, NoTaskAssumption DEF LockDevices, Free, LockInv
  <2>7. ASSUME NEW t \in Task, ReceiveAreas(t) PROVE Inside(u)'
    BY <2>0, <2>7 DEF ReceiveAreas, lockVars
  <2>8. ASSUME NEW t \in Task, ReceiveDevices(t) PROVE Inside(u)'
    <3>1. devLock = t /\ devLock' = NoTask /\ t # NoTask
      <4>1. tasks[t].pc = "gotDevices" /\ devLock' = NoTask
        BY <2>8 DEF ReceiveDevices
      <4>2. QED
        BY <4>1, NoTaskAssumption DEF LockInv
    <3>2. CASE FinishDevices(t, DeviceListing(tasks[t].reply))
      BY <2>0, <3>1, <3>2, <2>8 DEF ReceiveDevices, FinishDevices, Idle, LockInv
    <3>3. CASE GoOnToEntities(t, DeviceListing(tasks[t].reply) # devices)
      BY <2>0, <3>1, <3>3, <2>8 DEF ReceiveDevices, GoOnToEntities, Free, LockInv
    <3>4. QED
      BY <2>8, <3>2, <3>3 DEF ReceiveDevices
  <2>9. ASSUME NEW t \in Task, LockEntities(t) PROVE Inside(u)'
    BY <2>0, <2>9, NoTaskAssumption DEF LockEntities, Free, LockInv
  <2>10. ASSUME NEW t \in Task, ReceiveEntities(t) PROVE Inside(u)'
    BY <2>0, <2>10, NoTaskAssumption DEF ReceiveEntities, Idle, LockInv
  <2>11. ASSUME NEW t \in Task, Fail(t) PROVE Inside(u)'
    BY <2>0, <2>11, NoTaskAssumption DEF Fail, Released, Idle, LockInv
  <2>12. ASSUME NEW t \in Task, Discard(t) PROVE Inside(u)'
    BY <2>0, <2>12 DEF Discard, Unheard, lockVars
  <2>13. QED
    BY <2>1, <2>2, <2>3, <2>4, <2>5, <2>6, <2>7, <2>8, <2>9, <2>10, <2>11, <2>12
       DEF Next, TaskStep, HAChange, Disconnect, BeginHandshake, vars
<1>3. QED
  BY <1>1, <1>2, TypeCorrect, PTL DEF Spec
---------------------------------------------------------------------------
(* The part of the types that the orderings rest on. *)
Numbers ==
  /\ ha \in [Registry -> Nat]
  /\ areas \in Nat /\ engine \in Nat
  /\ devices \in [own : Nat, areas : Nat]
  /\ entities \in [own : Nat, devices : Nat, areas : Nat]
  /\ tasks \in [Task -> TaskState]

(* The orderings compare numbers. *)
LEMMA NumbersFromTypes == TypeOK => Numbers
  BY DEF TypeOK, Numbers

(* A task that has no answer yet has no reply to compare. *)
LEMMA NoReply ==
  /\ Idle.pc \notin Answered
  /\ \A k \in Kind : Fresh(k).pc \notin Answered
  BY DEF Idle, Fresh, Answered

(* Two tasks are never inside the same cache's refresh. *)
LEMMA Exclusive ==
  ASSUME LockInv, NEW t \in Task, NEW u \in Task, t # u
  PROVE  /\ tasks[t].pc \in InDevices => tasks[u].pc \notin InDevices
         /\ tasks[t].pc \in InEntities => tasks[u].pc \notin InEntities
  BY DEF LockInv

(* The orderings hold initially, *)
LEMMA OrderedInit == Init => Ordered
<1> SUFFICES ASSUME Init PROVE Ordered
  OBVIOUS
<1>1. CachesOrdered
  BY DEF Init, CachesOrdered, Registry
<1>2. ASSUME NEW t \in Task PROVE ReplyOrdered(t)
  <2>1. tasks[t].pc \in {"idle", "askAreas"}
    BY DEF Init, Idle
  <2>2. QED
    BY <2>1 DEF ReplyOrdered
<1>3. QED
  BY <1>1, <1>2 DEF Ordered

(* every step keeps them, *)
LEMMA OrderedStep ==
  ASSUME TypeOK, LockInv, Ordered, [Next]_vars
  PROVE  Ordered'
<1>0. Numbers /\ CachesOrdered /\ \A t \in Task : ReplyOrdered(t)
  BY NumbersFromTypes DEF Ordered
<1> SUFFICES CachesOrdered' /\ \A u \in Task : ReplyOrdered(u)'
  BY DEF Ordered
<1> USE DEF Numbers, TaskState
<1>1. ASSUME NEW r \in Registry, HAChange(r)
      PROVE  CachesOrdered' /\ \A u \in Task : ReplyOrdered(u)'
  <2>1. /\ UNCHANGED <<areas, devices, entities, engine, tasks>>
        /\ ha' = [ha EXCEPT ![r] = @ + 1]
    BY <1>1 DEF HAChange, cacheVars, readers
  <2>2. \A q \in Registry : ha[q] \in Nat /\ ha'[q] \in Nat /\ ha[q] <= ha'[q]
    BY <1>0, <2>1
  <2>3. CachesOrdered'
    BY <1>0, <2>1, <2>2 DEF CachesOrdered, Registry
  <2>4. ASSUME NEW u \in Task PROVE ReplyOrdered(u)'
    BY <1>0, <2>1, <2>2 DEF ReplyOrdered, Registry
  <2>5. QED
    BY <2>3, <2>4
<1>2. CASE UNCHANGED <<ha, areas, devices, entities, engine, tasks>>
  BY <1>0, <1>2 DEF CachesOrdered, ReplyOrdered
<1>3. ASSUME UNCHANGED <<ha, areas, devices, entities, engine>>,
             \A u \in Task : tasks'[u] = tasks[u] \/ tasks'[u].pc \notin Answered
      PROVE  CachesOrdered' /\ \A u \in Task : ReplyOrdered(u)'
  BY <1>0, <1>3 DEF CachesOrdered, ReplyOrdered, Answered
<1>4. ASSUME NEW r \in Registry, Dispatch(r)
      PROVE  CachesOrdered' /\ \A u \in Task : ReplyOrdered(u)'
  BY <1>0, <1>3, <1>4, NoReply DEF Dispatch, Registry, Kind, cacheVars, readers
<1>5. CASE Reconnect
  <2>1. PICK t \in Task, v \in Task :
          tasks' = [tasks EXCEPT ![t] = Fresh("device"), ![v] = Fresh("entity")]
    BY <1>5 DEF Reconnect, OnReconnected
  <2>2. \A u \in Task : tasks'[u] = tasks[u] \/ tasks'[u].pc \notin Answered
    BY <1>0, <2>1, NoReply DEF Kind
  <2>3. QED
    BY <1>3, <1>5, <2>2 DEF Reconnect, cacheVars, readers
<1>6. ASSUME NEW t \in Task, Answer(t)
      PROVE  CachesOrdered' /\ \A u \in Task : ReplyOrdered(u)'
  <2>1. CachesOrdered'
    BY <1>0, <1>6 DEF Answer, CachesOrdered, haVars, cacheVars, readers
  <2>2. ASSUME NEW u \in Task PROVE ReplyOrdered(u)'
    <3>1. UNCHANGED <<ha, areas, devices, entities>>
      BY <1>6 DEF Answer, haVars, cacheVars
    <3>2. CASE u # t
      BY <1>0, <1>6, <3>1, <3>2 DEF Answer, ReplyOrdered
    <3>3. CASE u = t
      <4>1. /\ tasks[t].pc \in Asked
            /\ tasks'[t].pc = GotStep[tasks[t].pc]
            /\ tasks'[t].reply = ha[Listed[tasks[t].pc]]
        BY <1>0, <1>6 DEF Answer
      <4>2. \/ tasks'[t].pc = "gotAreas" /\ tasks'[t].reply = ha["area"]
            \/ tasks'[t].pc = "gotDevices" /\ tasks'[t].reply = ha["device"]
            \/ tasks'[t].pc = "gotEntities" /\ tasks'[t].reply = ha["entity"]
        BY <4>1 DEF Asked, GotStep, Listed
      <4>3. ha["area"] \in Nat /\ ha["device"] \in Nat /\ ha["entity"] \in Nat
        BY <1>0 DEF Registry
      <4>4. areas <= ha["area"] /\ devices.own <= ha["device"] /\ entities.own <= ha["entity"]
        BY <1>0 DEF CachesOrdered
      <4>5. QED
        BY <3>1, <3>3, <4>2, <4>3, <4>4 DEF ReplyOrdered
    <3>4. QED
      BY <3>2, <3>3
  <2>3. QED
    BY <2>1, <2>2
<1>7. ASSUME NEW t \in Task, StartResync(t) \/ LockDevices(t) \/ LockEntities(t) \/ Discard(t)
      PROVE  CachesOrdered' /\ \A u \in Task : ReplyOrdered(u)'
  <2>1. \A u \in Task : tasks'[u] = tasks[u] \/ tasks'[u].pc \notin Answered
    BY <1>0, <1>7, NoReply DEF StartResync, LockDevices, LockEntities, Discard, Kind, Answered
  <2>2. QED
    BY <1>3, <1>7, <2>1
       DEF StartResync, LockDevices, LockEntities, Discard, haVars, cacheVars, readers
<1>8. ASSUME NEW t \in Task, ReceiveAreas(t)
      PROVE  CachesOrdered' /\ \A u \in Task : ReplyOrdered(u)'
  <2>1. tasks[t].pc = "gotAreas" /\ areas' = tasks[t].reply
        /\ areas <= areas' /\ areas' <= ha["area"]
    BY <1>0, <1>8 DEF ReceiveAreas, ReplyOrdered
  <2>2. UNCHANGED <<ha, devices, entities, engine>> /\ ha["area"] \in Nat
    BY <1>0, <1>8 DEF ReceiveAreas, haVars, readers, Registry
  <2>3. CachesOrdered'
    BY <1>0, <2>1, <2>2 DEF CachesOrdered
  <2>4. ASSUME NEW u \in Task PROVE ReplyOrdered(u)'
    <3>1. CASE u = t
      BY <1>0, <1>8, <3>1 DEF ReceiveAreas, ReplyOrdered
    <3>2. CASE u # t
      <4>1. tasks[u].pc \notin InDevices /\ tasks'[u] = tasks[u]
        BY <1>0, <1>8, <2>1, <3>2, Exclusive DEF ReceiveAreas, InDevices, Unheard
      <4>2. QED
        BY <1>0, <2>2, <4>1 DEF ReplyOrdered, InDevices, Unheard
    <3>3. QED
      BY <3>1, <3>2
  <2>5. QED
    BY <2>3, <2>4
<1>9. ASSUME NEW t \in Task, ReceiveDevices(t)
      PROVE  CachesOrdered' /\ \A u \in Task : ReplyOrdered(u)'
  <2>1. /\ tasks[t].pc = "gotDevices"
        /\ devices' = [own |-> tasks[t].reply, areas |-> areas]
        /\ devices.own <= tasks[t].reply /\ tasks[t].reply <= ha["device"]
    BY <1>0, <1>9 DEF ReceiveDevices, DeviceListing, ReplyOrdered
  <2>2. UNCHANGED <<ha, areas, entities>> /\ engine' \in {engine, areas}
    BY <1>9 DEF ReceiveDevices, FinishDevices, GoOnToEntities, Recompiled, haVars
  <2>3. tasks'[t].pc \notin Answered
    <3>1. CASE FinishDevices(t, DeviceListing(tasks[t].reply))
      BY <1>0, <3>1, NoReply DEF FinishDevices
    <3>2. CASE GoOnToEntities(t, DeviceListing(tasks[t].reply) # devices)
      BY <1>0, <3>2 DEF GoOnToEntities, Answered
    <3>3. QED
      BY <1>9, <3>1, <3>2 DEF ReceiveDevices
  <2>4. CachesOrdered'
    BY <1>0, <2>1, <2>2 DEF CachesOrdered
  <2>5. ASSUME NEW u \in Task PROVE ReplyOrdered(u)'
    <3>1. CASE u = t
      BY <2>3, <3>1 DEF ReplyOrdered, Answered
    <3>2. CASE u # t
      <4>1. tasks[u].pc \notin InDevices
        BY <2>1, <3>2, Exclusive DEF InDevices, Unheard
      <4>2. tasks'[u] = tasks[u]
        BY <1>0, <1>9, <3>2 DEF ReceiveDevices, FinishDevices, GoOnToEntities
      <4>3. QED
        BY <1>0, <2>2, <4>1, <4>2 DEF ReplyOrdered, InDevices, Unheard
    <3>3. QED
      BY <3>1, <3>2
  <2>6. QED
    BY <2>4, <2>5
<1>10. ASSUME NEW t \in Task, ReceiveEntities(t)
       PROVE  CachesOrdered' /\ \A u \in Task : ReplyOrdered(u)'
  <2>1. /\ tasks[t].pc = "gotEntities"
        /\ entities' = [own |-> tasks[t].reply, devices |-> devices.own, areas |-> areas]
        /\ entities.own <= tasks[t].reply /\ tasks[t].reply <= ha["entity"]
        /\ tasks' = [tasks EXCEPT ![t] = Idle]
    BY <1>0, <1>10 DEF ReceiveEntities, EntityListing, ReplyOrdered
  <2>2. UNCHANGED <<ha, areas, devices>> /\ engine' \in {engine, areas}
    BY <1>10 DEF ReceiveEntities, FinishResync, FinishEntities, FinishBoot, haVars
  <2>3. CachesOrdered'
    BY <1>0, <2>1, <2>2 DEF CachesOrdered
  <2>4. ASSUME NEW u \in Task PROVE ReplyOrdered(u)'
    <3>1. CASE u = t
      BY <1>0, <2>1, <3>1 DEF ReplyOrdered, Idle
    <3>2. CASE u # t
      <4>1. tasks[u].pc \notin InEntities /\ tasks'[u] = tasks[u]
        BY <1>0, <2>1, <3>2, Exclusive DEF InEntities
      <4>2. QED
        BY <1>0, <2>2, <4>1 DEF ReplyOrdered, InEntities
    <3>3. QED
      BY <3>1, <3>2
  <2>5. QED
    BY <2>3, <2>4
<1>11. ASSUME NEW t \in Task, Fail(t)
       PROVE  CachesOrdered' /\ \A u \in Task : ReplyOrdered(u)'
  <2>1. /\ UNCHANGED <<ha, areas, devices, entities>> /\ engine' \in {engine, areas}
        /\ tasks' = [tasks EXCEPT ![t] = Idle]
    BY <1>11 DEF Fail, Recompiled, haVars, cacheVars
  <2>2. CachesOrdered'
    BY <1>0, <2>1 DEF CachesOrdered
  <2>3. ASSUME NEW u \in Task PROVE ReplyOrdered(u)'
    BY <1>0, <2>1, NoReply DEF ReplyOrdered, Answered
  <2>4. QED
    BY <2>2, <2>3
<1>12. QED
  BY <1>1, <1>2, <1>4, <1>5, <1>6, <1>7, <1>8, <1>9, <1>10, <1>11
     DEF Next, TaskStep, Disconnect, BeginHandshake, vars, haVars, cacheVars, readers

(* so that no cache, engine or reply is ever ahead of what it was read     *)
(* from, nor behind what was loaded when it was asked for.                 *)
THEOREM OrderSafety == Spec => []Ordered
  BY OrderedInit, OrderedStep, TypeCorrect, LockSafety, PTL DEF Spec

(* No cache and no compiled engine ever goes back to an older listing.     *)
THEOREM CachesNeverRegress == Spec => NoRegress
<1>1. ASSUME TypeOK, Ordered, [Next]_vars
      PROVE  [/\ areas <= areas'
              /\ devices.own <= devices.own' /\ devices.areas <= devices.areas'
              /\ entities.own <= entities.own'
              /\ engine <= engine']_vars
  <2>0. Numbers /\ CachesOrdered /\ \A t \in Task : ReplyOrdered(t)
    BY <1>1, NumbersFromTypes DEF Ordered
  <2> DEFINE Forward == /\ areas <= areas'
                        /\ devices.own <= devices.own' /\ devices.areas <= devices.areas'
                        /\ entities.own <= entities.own'
                        /\ engine <= engine'
  <2> SUFFICES [Forward]_vars
    OBVIOUS
  <2> USE DEF Numbers, TaskState
  <2>1. CASE UNCHANGED <<areas, devices, entities, engine>>
    BY <2>0, <2>1
  <2>2. ASSUME NEW t \in Task, ReceiveAreas(t) PROVE Forward
    BY <2>0, <2>2 DEF ReceiveAreas, ReplyOrdered, readers
  <2>3. ASSUME NEW t \in Task, ReceiveDevices(t) PROVE Forward
    <3>1. /\ UNCHANGED <<areas, entities>> /\ engine' \in {engine, areas}
          /\ devices' = [own |-> tasks[t].reply, areas |-> areas]
          /\ devices.own <= tasks[t].reply
      BY <2>0, <2>3 DEF ReceiveDevices, FinishDevices, GoOnToEntities, Recompiled,
         DeviceListing, ReplyOrdered
    <3>2. QED
      BY <2>0, <3>1 DEF CachesOrdered
  <2>4. ASSUME NEW t \in Task, ReceiveEntities(t) PROVE Forward
    <3>1. /\ UNCHANGED <<areas, devices>> /\ engine' \in {engine, areas}
          /\ entities' = [own |-> tasks[t].reply, devices |-> devices.own, areas |-> areas]
          /\ entities.own <= tasks[t].reply
      BY <2>0, <2>4 DEF ReceiveEntities, FinishResync, FinishEntities, FinishBoot,
         EntityListing, ReplyOrdered
    <3>2. QED
      BY <2>0, <3>1 DEF CachesOrdered
  <2>5. ASSUME NEW t \in Task, Fail(t) PROVE Forward
    <3>1. UNCHANGED <<areas, devices, entities>> /\ engine' \in {engine, areas}
      BY <2>5 DEF Fail, Recompiled, cacheVars
    <3>2. QED
      BY <2>0, <3>1 DEF CachesOrdered
  <2>6. QED
    BY <1>1, <2>1, <2>2, <2>3, <2>4, <2>5
       DEF Next, TaskStep, HAChange, Dispatch, Disconnect, BeginHandshake, Reconnect, Discard,
           Answer, StartResync, LockDevices, LockEntities, vars, cacheVars, readers
<1>2. QED
  BY <1>1, TypeCorrect, OrderSafety, PTL DEF Spec, NoRegress
---------------------------------------------------------------------------
(* A promise of an undisturbed task stands while the registries stand and  *)
(* the area cache does not lose the current areas.                         *)
LEMMA Promised ==
  ASSUME NEW u \in Task, tasks'[u] = tasks[u], ha' = ha,
         areas = ha["area"] => areas' = ha["area"]
  PROVE  /\ WillReadAreas(u) => WillReadAreas(u)'
         /\ WillNameDevices(u) => WillNameDevices(u)'
         /\ WillReadDevices(u) => WillReadDevices(u)'
         /\ WillReadEntities(u) => WillReadEntities(u)'
         /\ WillCompile(u) => WillCompile(u)'
  BY DEF WillReadAreas, Unheard, WillNameDevices, WillReadDevices, WillReadEntities, WillCompile

(* An idle task promises nothing. *)
LEMMA IdlePromisesNothing ==
  ASSUME NEW u \in Task, tasks[u] = Idle
  PROVE  ~WillReadAreas(u) /\ ~WillNameDevices(u) /\ ~WillReadDevices(u)
         /\ ~WillReadEntities(u) /\ ~WillCompile(u)
  BY DEF Idle, InDevices, Unheard, InEntities, WillReadAreas, WillNameDevices, WillReadDevices,
     WillReadEntities, WillCompile

(* A step that only wakes idle tasks, or moves one without changing what   *)
(* it promises, forgets nothing.                                           *)
LEMMA NothingForgotten ==
  ASSUME AllTracked,
         UNCHANGED <<haVars, cacheVars, engine, lost>>,
         NEW t \in Task,
         \A u \in Task : u # t => tasks'[u] = tasks[u],
         /\ WillReadAreas(t) => WillReadAreas(t)'
         /\ WillNameDevices(t) => WillNameDevices(t)'
         /\ WillReadDevices(t) => WillReadDevices(t)'
         /\ WillReadEntities(t) => WillReadEntities(t)'
         /\ WillCompile(t) => WillCompile(t)'
  PROVE  AllTracked'
<1>1. UNCHANGED <<ha, connected, handshaking, notices, areas, devices, entities, engine, lost>>
  BY DEF haVars, cacheVars
<1>2. \A u \in Task :
        /\ WillReadAreas(u) => WillReadAreas(u)'
        /\ WillNameDevices(u) => WillNameDevices(u)'
        /\ WillReadDevices(u) => WillReadDevices(u)'
        /\ WillReadEntities(u) => WillReadEntities(u)'
        /\ WillCompile(u) => WillCompile(u)'
  <2> SUFFICES ASSUME NEW u \in Task, u # t
               PROVE  /\ WillReadAreas(u) => WillReadAreas(u)'
                      /\ WillNameDevices(u) => WillNameDevices(u)'
                      /\ WillReadDevices(u) => WillReadDevices(u)'
                      /\ WillReadEntities(u) => WillReadEntities(u)'
                      /\ WillCompile(u) => WillCompile(u)'
    OBVIOUS
  <2>1. tasks'[u] = tasks[u] /\ ha' = ha /\ areas' = areas
    BY <1>1
  <2>2. QED
    BY <2>1, Promised
<1>3. AreasTracked'
  BY <1>1, <1>2 DEF AllTracked, AreasTracked
<1>4. NamesTracked'
  BY <1>1, <1>2 DEF AllTracked, NamesTracked
<1>5. DevicesTracked'
  BY <1>1, <1>2 DEF AllTracked, DevicesTracked
<1>6. EntitiesTracked'
  BY <1>1, <1>2 DEF AllTracked, EntitiesTracked
<1>7. EngineTracked'
  BY <1>1, <1>2 DEF AllTracked, EngineTracked
<1>8. QED
  BY <1>3, <1>4, <1>5, <1>6, <1>7 DEF AllTracked

(* At the start the lifespan promises everything. *)
LEMMA TrackedInit == Init => Tracked
<1> SUFFICES ASSUME Init PROVE AllTracked
  BY DEF Tracked
<1>1. PICK t \in Task : tasks[t].kind = "boot" /\ tasks[t].pc = "askAreas"
  BY DEF Init, Idle
<1>2. WillReadAreas(t) /\ WillNameDevices(t) /\ WillReadDevices(t)
      /\ WillReadEntities(t) /\ WillCompile(t)
  BY <1>1 DEF InDevices, Unheard, WillReadAreas, WillNameDevices, WillReadDevices,
     WillReadEntities, WillCompile
<1>3. QED
  BY <1>2 DEF AllTracked, AreasTracked, NamesTracked, DevicesTracked, EntitiesTracked,
     EngineTracked
---------------------------------------------------------------------------
(* Only the lifespan's task runs until the process serves: initially, *)
LEMMA BootAloneInit == Init => BootAlone
  BY DEF Init, BootAlone, Idle

(* A task's kind is the one it was scheduled with. *)
LEMMA Kinds == Idle.kind = "none" /\ \A k \in Kind : Fresh(k).kind = k
  BY DEF Idle, Fresh

(* and after every step, since events and resyncs wait for the lifespan.   *)
LEMMA BootAloneStep ==
  ASSUME TypeOK, BootAlone, [Next]_vars
  PROVE  BootAlone'
<1>0. tasks \in [Task -> TaskState]
  BY DEF TypeOK
<1>1. ASSUME \A u \in Task : tasks'[u].kind = "boot" => tasks[u].kind = "boot",
             phase' = phase \/ \A u \in Task : tasks'[u].kind # "boot"
      PROVE  BootAlone'
  BY <1>1 DEF BootAlone
<1> USE DEF TaskState
<1>2. ASSUME NEW r \in Registry, HAChange(r) \/ Disconnect \/ BeginHandshake \/ Dispatch(r)
      PROVE  BootAlone'
  <2>1. CASE UNCHANGED <<phase, tasks>>
    BY <1>1, <2>1
  <2>2. CASE Dispatch(r)
    <3>1. phase' = phase /\ r \in Kind /\ r # "boot"
      BY <2>2 DEF Dispatch, Registry, Kind
    <3>2. tasks' = tasks \/ \E t \in Task : tasks' = [tasks EXCEPT ![t] = Fresh(r)]
      BY <2>2 DEF Dispatch
    <3>3. \A u \in Task : tasks'[u].kind = "boot" => tasks[u].kind = "boot"
      BY <1>0, <3>1, <3>2, Kinds
    <3>4. QED
      BY <1>1, <3>1, <3>3
  <2>3. QED
    BY <1>2, <2>1, <2>2 DEF HAChange, Disconnect, BeginHandshake
<1>3. CASE Reconnect
  <2>1. PICK t \in Task, v \in Task :
          tasks' = [tasks EXCEPT ![t] = Fresh("device"), ![v] = Fresh("entity")]
    BY <1>3 DEF Reconnect, OnReconnected
  <2>2. QED
    BY <1>0, <1>1, <1>3, <2>1 DEF Reconnect, Fresh, Idle
<1>4. ASSUME NEW t \in Task, Answer(t) \/ StartResync(t) PROVE BootAlone'
  <2>1. tasks'[t].kind \in {tasks[t].kind, "resync"}
        /\ \A u \in Task : u # t => tasks'[u] = tasks[u]
    BY <1>0, <1>4, Kinds DEF Answer, StartResync, Kind
  <2>2. QED
    BY <1>1, <1>4, <2>1 DEF Answer, StartResync
<1>5. ASSUME NEW t \in Task, LockDevices(t) \/ ReceiveAreas(t) \/ LockEntities(t) \/ Discard(t)
      PROVE  BootAlone'
  BY <1>0, <1>1, <1>5 DEF LockDevices, ReceiveAreas, LockEntities, Discard
<1>6. ASSUME NEW t \in Task, ReceiveDevices(t) PROVE BootAlone'
  <2>1. tasks'[t].kind \in {tasks[t].kind, "none"}
        /\ \A u \in Task : u # t => tasks'[u] = tasks[u]
    <3>1. CASE FinishDevices(t, DeviceListing(tasks[t].reply))
      BY <1>0, <3>1, Kinds DEF FinishDevices
    <3>2. CASE GoOnToEntities(t, DeviceListing(tasks[t].reply) # devices)
      BY <1>0, <3>2 DEF GoOnToEntities
    <3>3. QED
      BY <1>6, <3>1, <3>2 DEF ReceiveDevices
  <2>2. QED
    BY <1>1, <1>6, <2>1 DEF ReceiveDevices
<1>7. ASSUME NEW t \in Task, ReceiveEntities(t) PROVE BootAlone'
  BY <1>0, <1>1, <1>7
     DEF ReceiveEntities, FinishResync, FinishEntities, FinishBoot, Idle, BootAlone
<1>8. ASSUME NEW t \in Task, Fail(t) PROVE BootAlone'
  BY <1>0, <1>1, <1>8 DEF Fail, Idle, BootAlone
<1>9. CASE UNCHANGED vars
  BY <1>1, <1>9 DEF vars
<1>10. QED
  BY <1>2, <1>3, <1>4, <1>5, <1>6, <1>7, <1>8, <1>9 DEF Next, TaskStep, Registry

(* The promises are kept by every step that does not end a task. *)
LEMMA TrackedQuietStep ==
  ASSUME Numbers, AllTracked, NEW t \in Task,
         Answer(t) \/ StartResync(t) \/ LockDevices(t) \/ LockEntities(t) \/ Discard(t)
  PROVE  AllTracked'
<1>0. tasks \in [Task -> TaskState]
  BY DEF Numbers
<1>1. UNCHANGED <<haVars, cacheVars, engine, lost>>
  BY DEF Answer, StartResync, LockDevices, LockEntities, Discard, cacheVars, haVars, readers
<1>2. \A u \in Task : u # t => tasks'[u] = tasks[u]
  BY <1>0 DEF Answer, StartResync, LockDevices, LockEntities, Discard
<1>3. ha' = ha /\ areas' = areas
  BY <1>1 DEF haVars, cacheVars
<1>4. /\ WillReadAreas(t) => WillReadAreas(t)'
      /\ WillNameDevices(t) => WillNameDevices(t)'
      /\ WillReadDevices(t) => WillReadDevices(t)'
      /\ WillReadEntities(t) => WillReadEntities(t)'
      /\ WillCompile(t) => WillCompile(t)'
  <2> USE DEF WillReadAreas, WillNameDevices, WillReadDevices, WillReadEntities, WillCompile,
              InDevices, Unheard, InEntities
  <2>1. CASE Answer(t)
    <3>1. /\ tasks[t].pc \in Asked
          /\ tasks'[t].pc = GotStep[tasks[t].pc]
          /\ tasks'[t].reply = ha[Listed[tasks[t].pc]]
          /\ tasks'[t].kind = tasks[t].kind
      BY <1>0, <2>1 DEF Answer, TaskState
    <3>2. \/ tasks[t].pc = "askAreas" /\ tasks'[t].pc = "gotAreas"
                                     /\ tasks'[t].reply = ha["area"]
          \/ tasks[t].pc = "askDevices" /\ tasks'[t].pc = "gotDevices"
                                       /\ tasks'[t].reply = ha["device"]
          \/ tasks[t].pc = "askEntities" /\ tasks'[t].pc = "gotEntities"
                                        /\ tasks'[t].reply = ha["entity"]
      BY <3>1 DEF Asked, GotStep, Listed
    <3>3. QED
      BY <1>3, <3>1, <3>2
  <2>2. CASE StartResync(t)
    BY <2>2, IdlePromisesNothing DEF StartResync
  <2>3. CASE LockDevices(t)
    BY <1>0, <1>3, <2>3 DEF LockDevices, TaskState
  <2>4. CASE LockEntities(t)
    BY <1>0, <1>3, <2>4 DEF LockEntities, TaskState
  <2>5. CASE Discard(t)
    BY <1>0, <1>3, <2>5 DEF Discard, TaskState
  <2>6. QED
    BY <2>1, <2>2, <2>3, <2>4, <2>5
<1>5. QED
  BY <1>1, <1>2, <1>4, NothingForgotten

(* What the connection does is made up for by the events it delivers, by   *)
(* the refreshes of a reconnection, or counted as lost.                    *)
LEMMA TrackedConnection ==
  ASSUME Numbers, AllTracked, notices \in [Registry -> Nat], lost \in [Consumer -> Nat],
         Disconnect \/ \E r \in Registry : HAChange(r)
  PROVE  AllTracked'
<1>1. UNCHANGED <<areas, devices, entities, engine, tasks>>
  BY DEF Disconnect, HAChange, cacheVars, readers
<1> USE DEF AllTracked, AreasTracked, NamesTracked, DevicesTracked, EntitiesTracked,
            EngineTracked
<1>2. CASE Disconnect
  <2>1. ~connected' /\ ha' = ha /\ areas' = areas
    BY <1>1, <1>2 DEF Disconnect
  <2>2. EngineTracked'
    <3>1. CASE notices["area"] = 0
      <4>1. lost' = lost
        BY <1>2, <3>1 DEF Disconnect
      <4>2. \A u \in Task : WillCompile(u) => WillCompile(u)'
        BY <1>1, <2>1, Promised
      <4>3. QED
        BY <1>1, <2>1, <3>1, <4>1, <4>2
    <3>2. CASE notices["area"] # 0
      <4>1. lost'["engine"] = ha'["area"]
        BY <1>2, <2>1, <3>2 DEF Disconnect, Consumer
      <4>2. QED
        BY <4>1
    <3>3. QED
      BY <3>1, <3>2
  <2>3. QED
    BY <2>1, <2>2
<1>3. ASSUME NEW r \in Registry, HAChange(r) PROVE AllTracked'
  <2>1. /\ \A q \in Registry : q # r => ha'[q] = ha[q]
        /\ connected' = connected
        /\ \A c \in Consumer : r # "area" => lost'[c] = lost[c]
        /\ \A c \in Registry : lost'[c] = lost[c]
    BY <1>3 DEF HAChange, Numbers, Consumer, Registry
  <2>2. \A q \in Registry : notices[q] > 0 => notices'[q] > 0
    BY <1>3 DEF HAChange
  <2>3. connected => notices'[r] > 0
    BY <1>3 DEF HAChange
  <2>4. AreasTracked'
    BY <1>1, <2>1, <2>2, <2>3 DEF WillReadAreas, Unheard, Registry
  <2>5. NamesTracked'
    BY <1>1, <2>1, <2>2, <2>3 DEF WillReadAreas, Unheard, WillNameDevices, Registry
  <2>6. DevicesTracked'
    BY <1>1, <2>1, <2>2, <2>3 DEF WillReadDevices, Unheard, Registry
  <2>7. EntitiesTracked'
    BY <1>1, <2>1, <2>2, <2>3 DEF WillReadEntities, Registry
  <2>8. EngineTracked'
    <3>1. CASE r # "area"
      BY <1>1, <2>1, <2>2, <3>1
         DEF WillReadAreas, Unheard, WillNameDevices, WillCompile, Registry, Consumer
    <3>2. CASE r = "area" /\ connected
      BY <2>3, <3>2
    <3>3. CASE r = "area" /\ ~connected
      <4>1. lost'["engine"] = ha["area"] + 1 /\ ha'["area"] = ha["area"] + 1
        BY <1>3, <3>3 DEF HAChange, Numbers, Consumer
      <4>2. QED
        BY <4>1
    <3>4. QED
      BY <3>1, <3>2, <3>3
  <2>9. QED
    BY <2>4, <2>5, <2>6, <2>7, <2>8
<1>4. QED
  BY <1>2, <1>3

(* The promise of a notice passes to the task it schedules, or is counted  *)
(* as lost when nobody has subscribed yet.                                 *)
LEMMA TrackedDispatch ==
  ASSUME Numbers, AllTracked, notices \in [Registry -> Nat], lost \in [Consumer -> Nat],
         NEW r \in Registry, Dispatch(r)
  PROVE  AllTracked'
<1>1. UNCHANGED <<ha, connected, areas, devices, entities, engine>>
  BY DEF Dispatch, cacheVars, readers
<1>2. \A q \in Registry : q # r => notices'[q] = notices[q]
  BY DEF Dispatch
<1> USE DEF AllTracked, AreasTracked, NamesTracked, DevicesTracked, EntitiesTracked,
            EngineTracked
<1>3. ASSUME NEW t \in Task, tasks[t] = Idle, tasks' = [tasks EXCEPT ![t] = Fresh(r)],
             lost' = lost
      PROVE  AllTracked'
  <2>1. \A u \in Task :
          /\ WillReadAreas(u) => WillReadAreas(u)'
          /\ WillNameDevices(u) => WillNameDevices(u)'
          /\ WillReadDevices(u) => WillReadDevices(u)'
          /\ WillReadEntities(u) => WillReadEntities(u)'
          /\ WillCompile(u) => WillCompile(u)'
    <3>1. \A u \in Task : u # t => tasks'[u] = tasks[u]
      BY <1>3 DEF Numbers
    <3>2. QED
      BY <1>1, <1>3, <3>1, Promised, IdlePromisesNothing
  <2>2. tasks'[t] = Fresh(r)
    BY <1>3 DEF Numbers
  <2>3. /\ r = "area" => WillReadAreas(t)' /\ WillNameDevices(t)' /\ WillCompile(t)'
        /\ r = "device" => WillReadDevices(t)'
        /\ r = "entity" => WillReadEntities(t)'
    BY <2>2 DEF Fresh, Idle, WillReadAreas, Unheard, WillNameDevices, WillReadDevices, WillReadEntities, WillCompile
  <2>4. AreasTracked'
    BY <1>1, <1>2, <1>3, <2>1, <2>3 DEF Registry
  <2>5. NamesTracked'
    BY <1>1, <1>2, <1>3, <2>1, <2>3 DEF Registry
  <2>6. DevicesTracked'
    BY <1>1, <1>2, <1>3, <2>1, <2>3 DEF Registry
  <2>7. EntitiesTracked'
    BY <1>1, <1>2, <1>3, <2>1, <2>3 DEF Registry
  <2>8. EngineTracked'
    BY <1>1, <1>2, <1>3, <2>1, <2>3 DEF Registry
  <2>9. QED
    BY <2>4, <2>5, <2>6, <2>7, <2>8
<1>4. ASSUME UNCHANGED tasks,
             lost' = [c \in Consumer |->
               CASE c = r                        -> ha[r]
                 [] c = "engine" /\ r = "area"   -> ha["area"]
                 [] OTHER                        -> lost[c]]
      PROVE  AllTracked'
  <2>1. /\ lost'[r] = ha[r]
        /\ r = "area" => lost'["engine"] = ha["area"]
        /\ \A c \in Registry : c # r => lost'[c] = lost[c]
        /\ r # "area" => lost'["engine"] = lost["engine"]
    BY <1>4 DEF Consumer, Registry
  <2>2. \A u \in Task :
          /\ WillReadAreas(u) => WillReadAreas(u)'
          /\ WillNameDevices(u) => WillNameDevices(u)'
          /\ WillReadDevices(u) => WillReadDevices(u)'
          /\ WillReadEntities(u) => WillReadEntities(u)'
          /\ WillCompile(u) => WillCompile(u)'
    BY <1>1, <1>4, Promised
  <2>3. AreasTracked'
    BY <1>1, <1>2, <2>1, <2>2 DEF Registry
  <2>4. NamesTracked'
    BY <1>1, <1>2, <2>1, <2>2 DEF Registry
  <2>5. DevicesTracked'
    BY <1>1, <1>2, <2>1, <2>2 DEF Registry
  <2>6. EntitiesTracked'
    BY <1>1, <1>2, <2>1, <2>2 DEF Registry
  <2>7. EngineTracked'
    BY <1>1, <1>2, <2>1, <2>2 DEF Registry
  <2>8. QED
    BY <2>3, <2>4, <2>5, <2>6, <2>7
<1>5. QED
  BY <1>3, <1>4 DEF Dispatch

(* The refreshes of a reconnection promise the current registries.         *)
LEMMA TrackedReconnect ==
  ASSUME Numbers, AllTracked, Reconnect
  PROVE  AllTracked'
<1>1. UNCHANGED <<ha, notices, areas, devices, entities, engine, lost>>
  BY DEF Reconnect, cacheVars, readers
<1>2. PICK t \in Task, v \in Task :
        /\ t # v /\ tasks[t] = Idle /\ tasks[v] = Idle
        /\ tasks' = [tasks EXCEPT ![t] = Fresh("device"), ![v] = Fresh("entity")]
  BY DEF Reconnect, OnReconnected
<1>3. tasks'[t] = Fresh("device") /\ tasks'[v] = Fresh("entity")
  BY <1>2 DEF Numbers
<1>4. WillReadAreas(t)' /\ WillNameDevices(t)' /\ WillReadDevices(t)'
      /\ WillReadEntities(v)'
  BY <1>3 DEF Fresh, Idle, WillReadAreas, Unheard, WillNameDevices, WillReadDevices, WillReadEntities, WillCompile
<1>5. \A u \in Task : WillCompile(u) => WillCompile(u)'
  <2>1. \A u \in Task \ {t, v} : tasks'[u] = tasks[u]
    BY <1>2 DEF Numbers
  <2>2. QED
    BY <1>1, <1>2, <2>1, Promised, IdlePromisesNothing
<1>6. EngineTracked'
  BY <1>1, <1>5 DEF AllTracked, EngineTracked
<1>7. QED
  BY <1>4, <1>6 DEF AllTracked, AreasTracked, NamesTracked, DevicesTracked, EntitiesTracked

(* A task that has received the areas still promises what it did, or the   *)
(* area cache has kept the promise.                                        *)
LEMMA TrackedReceiveAreas ==
  ASSUME Numbers, Ordered, AllTracked, NEW t \in Task, ReceiveAreas(t)
  PROVE  AllTracked'
<1>1. UNCHANGED <<ha, connected, handshaking, notices, devices, entities, engine, lost>>
  BY DEF ReceiveAreas, haVars, readers
<1>2. /\ tasks[t].pc = "gotAreas" /\ tasks'[t].pc = "askDevices"
      /\ tasks'[t].kind = tasks[t].kind
      /\ areas' = tasks[t].reply
      /\ \A u \in Task : u # t => tasks'[u] = tasks[u]
  BY DEF ReceiveAreas, Numbers, TaskState
<1>3. areas = ha["area"] => areas' = ha["area"]
  <2>1. areas <= areas' /\ areas' <= ha["area"]
    BY <1>2 DEF Ordered, ReplyOrdered
  <2>2. areas \in Nat /\ areas' \in Nat /\ ha["area"] \in Nat
    BY <1>2 DEF Numbers, TaskState, Registry
  <2>3. QED
    BY <2>1, <2>2
<1>4. \A u \in Task : u # t =>
        /\ WillReadAreas(u) => WillReadAreas(u)'
        /\ WillNameDevices(u) => WillNameDevices(u)'
        /\ WillReadDevices(u) => WillReadDevices(u)'
        /\ WillReadEntities(u) => WillReadEntities(u)'
        /\ WillCompile(u) => WillCompile(u)'
  BY <1>1, <1>2, <1>3, Promised
<1>5. /\ WillReadAreas(t) => areas' = ha["area"]
      /\ WillNameDevices(t) => WillNameDevices(t)'
      /\ WillReadDevices(t) => WillReadDevices(t)'
      /\ WillReadEntities(t) => WillReadEntities(t)'
      /\ WillCompile(t) => WillCompile(t)'
  BY <1>1, <1>2 DEF InDevices, Unheard, InEntities, WillReadAreas, WillNameDevices, WillReadDevices, WillReadEntities, WillCompile
<1> USE DEF AllTracked
<1>6. AreasTracked'
  BY <1>1, <1>3, <1>4, <1>5 DEF AreasTracked
<1>7. NamesTracked'
  BY <1>1, <1>4, <1>5 DEF NamesTracked
<1>8. DevicesTracked'
  BY <1>1, <1>4, <1>5 DEF DevicesTracked
<1>9. EntitiesTracked'
  BY <1>1, <1>4, <1>5 DEF EntitiesTracked
<1>10. EngineTracked'
  BY <1>1, <1>4, <1>5 DEF EngineTracked
<1>11. QED
  BY <1>6, <1>7, <1>8, <1>9, <1>10

(* What a device load promised is in the device cache, and in the engine   *)
(* when an area event asked for it; a resync's promise of entities stands. *)
LEMMA TrackedReceiveDevices ==
  ASSUME Numbers, Ordered, AllTracked, NEW t \in Task, ReceiveDevices(t)
  PROVE  AllTracked'
<1>1. UNCHANGED <<ha, connected, handshaking, notices, areas, entities, lost>>
  BY DEF ReceiveDevices, haVars
<1>2. /\ tasks[t].pc = "gotDevices"
      /\ devices' = [own |-> tasks[t].reply, areas |-> areas]
      /\ \A u \in Task : u # t => tasks'[u] = tasks[u]
  BY DEF ReceiveDevices, FinishDevices, GoOnToEntities, DeviceListing, Numbers
<1>3. \/ tasks[t].kind = "device" /\ engine' = engine
      \/ tasks[t].kind = "area" /\ engine' = areas
      \/ /\ tasks[t].kind \in {"resync", "boot"} /\ engine' = engine
         /\ tasks'[t].kind = tasks[t].kind
         /\ tasks'[t].pc \in {"askEntities", "lockEntities"}
  <2>1. CASE tasks[t].kind \in {"device", "area"} /\ FinishDevices(t, DeviceListing(tasks[t].reply))
    BY <2>1 DEF FinishDevices, Recompiled
  <2>2. CASE /\ tasks[t].kind \in {"resync", "boot"}
             /\ GoOnToEntities(t, DeviceListing(tasks[t].reply) # devices)
    <3>1. tasks \in [Task -> TaskState]
      BY DEF Numbers
    <3>2. QED
      BY <2>2, <3>1 DEF GoOnToEntities, TaskState
  <2>3. QED
    BY <2>1, <2>2 DEF ReceiveDevices
<1>4. /\ areas \in Nat /\ ha["area"] \in Nat /\ ha["device"] \in Nat
      /\ engine \in Nat /\ devices.own \in Nat /\ devices.areas \in Nat
      /\ tasks[t].reply \in Nat
  BY DEF Numbers, TaskState, Registry
<1>5. /\ areas <= ha["area"] /\ devices.areas <= areas /\ engine <= areas
      /\ devices.own <= tasks[t].reply /\ tasks[t].reply <= ha["device"]
  BY <1>2 DEF Ordered, CachesOrdered, ReplyOrdered
<1>6. \A u \in Task : u # t =>
        /\ WillReadAreas(u) => WillReadAreas(u)'
        /\ WillNameDevices(u) => WillNameDevices(u)'
        /\ WillReadDevices(u) => WillReadDevices(u)'
        /\ WillReadEntities(u) => WillReadEntities(u)'
        /\ WillCompile(u) => WillCompile(u)'
  BY <1>1, <1>2, Promised
<1> USE DEF AllTracked
<1>7. AreasTracked'
  BY <1>1, <1>2, <1>6 DEF AreasTracked, WillReadAreas, Unheard
<1>8. NamesTracked'
  <2>1. devices.areas = ha["area"] \/ WillNameDevices(t) => areas = ha["area"]
    BY <1>2, <1>4, <1>5 DEF WillReadAreas, Unheard, WillNameDevices
  <2>2. devices'.areas = areas
    BY <1>2
  <2>3. QED
    BY <1>1, <1>6, <2>1, <2>2 DEF NamesTracked
<1>9. DevicesTracked'
  <2>1. devices.own = ha["device"] \/ WillReadDevices(t) => tasks[t].reply = ha["device"]
    BY <1>2, <1>4, <1>5 DEF WillReadDevices, Unheard
  <2>2. devices'.own = tasks[t].reply
    BY <1>2
  <2>3. QED
    BY <1>1, <1>6, <2>1, <2>2 DEF DevicesTracked
<1>10. EntitiesTracked'
  <2>1. WillReadEntities(t) => WillReadEntities(t)'
    BY <1>2, <1>3 DEF WillReadEntities
  <2>2. QED
    BY <1>1, <1>6, <2>1 DEF EntitiesTracked
<1>11. EngineTracked'
  <2>1. engine = ha["area"] => engine' = ha["area"]
    BY <1>3, <1>4, <1>5
  <2>2. WillCompile(t) => WillCompile(t)' \/ engine' = ha["area"]
    BY <1>1, <1>2, <1>3 DEF WillCompile, WillNameDevices, WillReadAreas, Unheard, InEntities
  <2>3. QED
    BY <1>1, <1>6, <2>1, <2>2 DEF EngineTracked
<1>12. QED
  BY <1>7, <1>8, <1>9, <1>10, <1>11

(* What an entity load promised is in the entity cache.                    *)
LEMMA TrackedReceiveEntities ==
  ASSUME Numbers, Ordered, AllTracked, NEW t \in Task, ReceiveEntities(t)
  PROVE  AllTracked'
<1>1. UNCHANGED <<ha, connected, handshaking, notices, areas, devices, lost>>
  BY DEF ReceiveEntities, haVars
<1>2. /\ tasks[t].pc = "gotEntities"
      /\ entities'.own = tasks[t].reply
      /\ \A u \in Task : u # t => tasks'[u] = tasks[u]
  BY DEF ReceiveEntities, EntityListing, Numbers
<1>3. \/ tasks[t].kind = "boot" /\ engine' = areas
      \/ tasks[t].kind \in {"resync", "entity"} /\ engine' = engine
  BY DEF ReceiveEntities, FinishResync, FinishEntities, FinishBoot
<1>4. /\ areas \in Nat /\ ha["area"] \in Nat /\ ha["entity"] \in Nat
      /\ engine \in Nat /\ entities.own \in Nat /\ tasks[t].reply \in Nat
  BY DEF Numbers, TaskState, Registry
<1>5. /\ areas <= ha["area"] /\ engine <= areas
      /\ entities.own <= tasks[t].reply /\ tasks[t].reply <= ha["entity"]
  BY <1>2 DEF Ordered, CachesOrdered, ReplyOrdered
<1>6. \A u \in Task : u # t =>
        /\ WillReadAreas(u) => WillReadAreas(u)'
        /\ WillNameDevices(u) => WillNameDevices(u)'
        /\ WillReadDevices(u) => WillReadDevices(u)'
        /\ WillReadEntities(u) => WillReadEntities(u)'
        /\ WillCompile(u) => WillCompile(u)'
  BY <1>1, <1>2, Promised
<1>7. ~WillReadAreas(t) /\ ~WillNameDevices(t) /\ ~WillReadDevices(t)
  BY <1>2 DEF WillReadAreas, Unheard, WillNameDevices, WillReadDevices
<1> USE DEF AllTracked
<1>8. AreasTracked'
  BY <1>1, <1>6, <1>7 DEF AreasTracked
<1>9. NamesTracked'
  BY <1>1, <1>6, <1>7 DEF NamesTracked
<1>10. DevicesTracked'
  BY <1>1, <1>6, <1>7 DEF DevicesTracked
<1>11. EntitiesTracked'
  <2>1. entities.own = ha["entity"] \/ WillReadEntities(t) => tasks[t].reply = ha["entity"]
    BY <1>2, <1>4, <1>5 DEF WillReadEntities, InDevices, Unheard
  <2>2. QED
    BY <1>1, <1>2, <1>6, <2>1 DEF EntitiesTracked
<1>12. EngineTracked'
  <2>1. engine = ha["area"] => engine' = ha["area"]
    BY <1>3, <1>4, <1>5
  <2>2. WillCompile(t) => engine' = ha["area"]
    BY <1>2, <1>3, <1>7 DEF WillCompile
  <2>3. QED
    BY <1>1, <1>6, <2>1, <2>2 DEF EngineTracked
<1>13. QED
  BY <1>8, <1>9, <1>10, <1>11, <1>12

(* What a failed refresh promised is counted as lost, or a reconnection is  *)
(* going to promise it again.                                              *)
LEMMA TrackedFail ==
  ASSUME Numbers, Ordered, AllTracked, lost \in [Consumer -> Nat],
         NEW t \in Task, Fail(t), tasks[t].kind # "boot"
  PROVE  AllTracked'
<1>1. UNCHANGED <<ha, connected, handshaking, notices, areas, devices, entities>>
  BY DEF Fail, haVars, cacheVars
<1>2. /\ tasks[t].pc \in Asked \cup Answered \cup Unheard
      /\ connected => tasks[t].pc \notin Unheard
      /\ \A u \in Task : u # t => tasks'[u] = tasks[u]
      /\ engine' = IF tasks[t].kind = "area" THEN areas ELSE engine
  BY DEF Fail, Recompiled, Numbers
<1>3. /\ \A c \in Registry : c \in NotDelivered(t) => lost'[c] = ha[c]
      /\ "engine" \in NotDelivered(t) => lost'["engine"] = ha["area"]
      /\ \A c \in Consumer : c \notin NotDelivered(t) => lost'[c] = lost[c]
      /\ \A c \in Registry : lost[c] = ha[c] => lost'[c] = ha[c]
      /\ lost["engine"] = ha["area"] => lost'["engine"] = ha["area"]
  BY DEF Fail, Consumer, Registry
<1>4. \A u \in Task : u # t =>
        /\ WillReadAreas(u) => WillReadAreas(u)'
        /\ WillNameDevices(u) => WillNameDevices(u)'
        /\ WillReadDevices(u) => WillReadDevices(u)'
        /\ WillReadEntities(u) => WillReadEntities(u)'
        /\ WillCompile(u) => WillCompile(u)'
  BY <1>1, <1>2, Promised
<1>5. connected => /\ WillReadAreas(t) => "area" \in NotDelivered(t)
                   /\ WillNameDevices(t) => "area" \in NotDelivered(t)
                   /\ WillReadDevices(t) => "device" \in NotDelivered(t)
                   /\ WillReadEntities(t) => "entity" \in NotDelivered(t)
  BY <1>2 DEF NotDelivered, InDevices, Unheard, InEntities, Asked, Answered, Registry,
     WillReadAreas, WillNameDevices, WillReadDevices, WillReadEntities
<1>6. WillCompile(t) => "engine" \in NotDelivered(t)
  BY DEF WillCompile, NotDelivered
<1> USE DEF AllTracked, Registry
<1>7. AreasTracked'
  BY <1>1, <1>3, <1>4, <1>5 DEF AreasTracked
<1>8. NamesTracked'
  BY <1>1, <1>3, <1>4, <1>5 DEF NamesTracked
<1>9. DevicesTracked'
  BY <1>1, <1>3, <1>4, <1>5 DEF DevicesTracked
<1>10. EntitiesTracked'
  BY <1>1, <1>3, <1>4, <1>5 DEF EntitiesTracked
<1>11. EngineTracked'
  <2>1. engine = ha["area"] => engine' = ha["area"]
    <3>1. engine <= areas /\ areas <= ha["area"]
      BY DEF Ordered, CachesOrdered
    <3>2. engine \in Nat /\ areas \in Nat /\ ha["area"] \in Nat
      BY DEF Numbers
    <3>3. QED
      BY <1>2, <3>1, <3>2
  <2>2. QED
    BY <1>1, <1>3, <1>4, <1>6, <2>1 DEF EngineTracked
<1>12. QED
  BY <1>7, <1>8, <1>9, <1>10, <1>11

---------------------------------------------------------------------------
(* Every step keeps the promises of a process that has not exited.         *)
LEMMA TrackedStep ==
  ASSUME TypeOK, Ordered, BootAlone, Tracked, [Next]_vars
  PROVE  Tracked'
<1> SUFFICES ASSUME phase' # "exited" PROVE AllTracked'
  BY DEF Tracked
<1>1. phase # "exited" /\ \A t \in Task : Fail(t) => tasks[t].kind # "boot"
  <2>1. ASSUME NEW t \in Task, Fail(t) PROVE phase' = phase /\ tasks[t].kind # "boot"
    BY <2>1 DEF Fail
  <2>2. ASSUME NEW t \in Task, ReceiveEntities(t) PROVE phase # "exited"
    BY <2>2 DEF ReceiveEntities, FinishResync, FinishEntities, FinishBoot, BootAlone
  <2>3. QED
    BY <2>1, <2>2 DEF Next, TaskStep, HAChange, Dispatch, Disconnect, BeginHandshake, Reconnect,
       Discard, Answer, StartResync, LockDevices, ReceiveAreas, ReceiveDevices, LockEntities, vars
<1>2. Numbers /\ AllTracked
  BY <1>1, NumbersFromTypes DEF Tracked
<1>3. notices \in [Registry -> Nat] /\ lost \in [Consumer -> Nat]
  BY DEF TypeOK
<1>4. ASSUME NEW r \in Registry, HAChange(r) \/ Disconnect PROVE AllTracked'
  BY <1>2, <1>3, <1>4, TrackedConnection
<1>5. ASSUME NEW r \in Registry, Dispatch(r) PROVE AllTracked'
  BY <1>2, <1>3, <1>5, TrackedDispatch
<1>6. CASE Reconnect
  BY <1>2, <1>6, TrackedReconnect
<1>7. ASSUME NEW t \in Task,
             Answer(t) \/ StartResync(t) \/ LockDevices(t) \/ LockEntities(t) \/ Discard(t)
      PROVE  AllTracked'
  BY <1>2, <1>7, TrackedQuietStep
<1>8. ASSUME NEW t \in Task, ReceiveAreas(t) PROVE AllTracked'
  BY <1>2, <1>8, TrackedReceiveAreas
<1>9. ASSUME NEW t \in Task, ReceiveDevices(t) PROVE AllTracked'
  BY <1>2, <1>9, TrackedReceiveDevices
<1>10. ASSUME NEW t \in Task, ReceiveEntities(t) PROVE AllTracked'
  BY <1>2, <1>10, TrackedReceiveEntities
<1>11. ASSUME NEW t \in Task, Fail(t) PROVE AllTracked'
  BY <1>1, <1>2, <1>3, <1>11, TrackedFail
<1>12. CASE UNCHANGED vars \/ BeginHandshake
  <2>1. UNCHANGED <<ha, connected, notices, areas, devices, entities, engine, lost, tasks>>
    BY <1>12 DEF BeginHandshake, vars, haVars, cacheVars, readers
  <2>2. QED
    BY <1>2, <2>1 DEF AllTracked, AreasTracked, NamesTracked, DevicesTracked, EntitiesTracked,
       EngineTracked, InDevices, Unheard, InEntities, WillReadAreas, WillNameDevices, WillReadDevices, WillReadEntities, WillCompile
<1>13. QED
  BY <1>4, <1>5, <1>6, <1>7, <1>8, <1>9, <1>10, <1>11, <1>12 DEF Next, TaskStep, Registry

(* Every change is in the caches, promised by a notice, a task or the next *)
(* reconnection, or counted as lost.                                       *)
THEOREM TrackedSafety == Spec => [](BootAlone /\ Tracked)
  BY BootAloneInit, BootAloneStep, TrackedInit, TrackedStep, TypeCorrect, OrderSafety,
     PTL DEF Spec

(* At rest no task is left to promise anything.                            *)
LEMMA NoPromiseAtRest ==
  ASSUME Tracked, Quiet
  PROVE  /\ areas = ha["area"] \/ lost["area"] = ha["area"]
         /\ devices.areas = ha["area"] \/ lost["area"] = ha["area"]
         /\ devices.own = ha["device"] \/ lost["device"] = ha["device"]
         /\ entities.own = ha["entity"] \/ lost["entity"] = ha["entity"]
         /\ engine = ha["area"] \/ lost["engine"] = ha["area"]
<1>1. AllTracked /\ connected /\ \A r \in Registry : notices[r] = 0
  BY DEF Quiet, Tracked
<1>2. \A u \in Task : ~WillReadAreas(u) /\ ~WillNameDevices(u) /\ ~WillReadDevices(u)
                      /\ ~WillReadEntities(u) /\ ~WillCompile(u)
  BY IdlePromisesNothing DEF Quiet
<1>3. QED
  BY <1>1, <1>2 DEF AllTracked, AreasTracked, NamesTracked, DevicesTracked, EntitiesTracked,
     EngineTracked, Registry

(* Events alone keep the device cache current.                             *)
THEOREM DevicesSettleAlways == Spec => []DevicesSettle
<1>1. Tracked => DevicesSettle
  BY NoPromiseAtRest DEF DevicesSettle, UpToDate
<1>2. QED
  BY <1>1, TrackedSafety, PTL

(* Events alone keep the entity cache's own listing current.               *)
THEOREM EntitiesSettleAlways == Spec => []EntitiesSettle
<1>1. Tracked => EntitiesSettle
  BY NoPromiseAtRest DEF EntitiesSettle, UpToDate
<1>2. QED
  BY <1>1, TrackedSafety, PTL

(* The engine is behind the areas only when an area event or its refresh   *)
(* was lost.                                                               *)
THEOREM EngineSettlesAlways == Spec => []EngineSettle
<1>1. Tracked => EngineSettle
  BY NoPromiseAtRest DEF EngineSettle
<1>2. QED
  BY <1>1, TrackedSafety, PTL
---------------------------------------------------------------------------
(* A task that will diff the device cache when it ends, and one that will  *)
(* tell the browser of what the device cache has changed.                  *)
WillDiff(t) == tasks[t].kind \in {"device", "area", "resync", "boot"}

WillAnnounce(t) ==
  \/ tasks[t].kind \in {"device", "area"}
  \/ /\ tasks[t].kind = "resync" /\ tasks[t].changed
     /\ tasks[t].pc \in {"lockEntities", "askEntities", "gotEntities"}

(* Without refusals a load is diffed and announced, or a task will do it,  *)
(* or the one a reconnection starts will.                                  *)
Owing ==
  /\ snap.entity = entities.own
  /\ faults = 0 /\ phase # "exited" =>
       /\ unannounced => ~connected \/ \E t \in Task : WillAnnounce(t)
       /\ snap.device = devices.own \/ ~connected \/ \E t \in Task : WillDiff(t)

(* A step of tasks that leaves the caches and their readers as they are.   *)
LEMMA OwingKept ==
  ASSUME Owing, UNCHANGED <<entities, devices, snap, phase, faults>>,
         connected' => connected, unannounced' => unannounced,
         \A t \in Task : WillAnnounce(t) => WillAnnounce(t)' \/ ~unannounced',
         \A t \in Task : WillDiff(t) => WillDiff(t)'
  PROVE  Owing'
BY DEF Owing

(* An idle task promises nothing, so its slot can be taken. *)
LEMMA IdleOwesNothing ==
  ASSUME NEW t \in Task, tasks[t] = Idle PROVE ~WillAnnounce(t) /\ ~WillDiff(t)
BY DEF WillAnnounce, WillDiff, Idle

LEMMA SlotTaken ==
  ASSUME Numbers, NEW t \in Task, tasks[t] = Idle, NEW k \in Kind,
         tasks' = [tasks EXCEPT ![t] = Fresh(k)]
  PROVE  \A u \in Task : /\ WillAnnounce(u) => WillAnnounce(u)'
                         /\ WillDiff(u) => WillDiff(u)'
<1>1. \A u \in Task : u # t => tasks'[u] = tasks[u]
  OBVIOUS
<1> QED BY <1>1, IdleOwesNothing DEF WillAnnounce, WillDiff

LEMMA OwingStep ==
  ASSUME TypeOK, BootAlone, Owing, [Next]_vars
  PROVE  Owing'
<1>0. Numbers /\ tasks \in [Task -> TaskState] /\ faults \in Nat
      /\ snap \in [device : Nat, entity : Nat]
  BY NumbersFromTypes DEF TypeOK
<1>1. ASSUME NEW r \in Registry, HAChange(r) PROVE Owing'
  BY <1>1, OwingKept DEF HAChange, WillAnnounce, WillDiff, cacheVars, readers, bounds
<1>2. ASSUME NEW r \in Registry, Dispatch(r) PROVE Owing'
  <2>1. \A u \in Task : (WillAnnounce(u) => WillAnnounce(u)') /\ (WillDiff(u) => WillDiff(u)')
    <3>1. CASE UNCHANGED tasks
      BY <3>1 DEF WillAnnounce, WillDiff
    <3>2. CASE \E t \in Task : tasks[t] = Idle /\ tasks' = [tasks EXCEPT ![t] = Fresh(r)]
      BY <1>0, <3>2, SlotTaken DEF Registry, Kind
    <3> QED BY <1>2, <3>1, <3>2 DEF Dispatch
  <2> QED BY <1>2, <2>1, OwingKept DEF Dispatch, cacheVars, readers, bounds
<1>3. CASE Disconnect
  <2>1. ~connected' /\ UNCHANGED <<entities, snap>>
    BY <1>3 DEF Disconnect, cacheVars, readers
  <2> QED BY <2>1 DEF Owing
<1>4. CASE Reconnect
  <2>1. UNCHANGED <<entities, snap>>
    BY <1>4 DEF Reconnect, cacheVars, readers
  <2>2. PICK t \in Task, u \in Task :
          t # u /\ tasks' = [tasks EXCEPT ![t] = Fresh("device"), ![u] = Fresh("entity")]
    BY <1>4 DEF Reconnect, OnReconnected
  <2>3. tasks'[t] = Fresh("device")
    BY <1>0, <2>2
  <2>4. WillAnnounce(t)' /\ WillDiff(t)'
    BY <2>3 DEF WillAnnounce, WillDiff, Fresh, Idle
  <2> QED BY <2>1, <2>4 DEF Owing
<1>5. ASSUME NEW t \in Task, Answer(t) PROVE Owing'
  <2>1. /\ tasks'[t].kind = tasks[t].kind /\ tasks'[t].changed = tasks[t].changed
        /\ tasks[t].pc \in Asked /\ tasks'[t].pc = GotStep[tasks[t].pc]
        /\ \A u \in Task : u # t => tasks'[u] = tasks[u]
    BY <1>0, <1>5 DEF Answer, TaskState
  <2>2. tasks[t].pc = "askEntities" => tasks'[t].pc = "gotEntities"
    BY <2>1 DEF GotStep
  <2>3. \A u \in Task : (WillAnnounce(u) => WillAnnounce(u)') /\ (WillDiff(u) => WillDiff(u)')
    BY <2>1, <2>2 DEF WillAnnounce, WillDiff, Asked
  <2> QED BY <1>5, <2>3, OwingKept DEF Answer, haVars, cacheVars, readers, bounds
<1>6. ASSUME NEW t \in Task, StartResync(t) PROVE Owing'
  <2>1. \A u \in Task : (WillAnnounce(u) => WillAnnounce(u)') /\ (WillDiff(u) => WillDiff(u)')
    BY <1>0, <1>6, SlotTaken DEF StartResync, Kind
  <2> QED BY <1>6, <2>1, OwingKept DEF StartResync, haVars, cacheVars, readers, bounds
<1>7. ASSUME NEW t \in Task, LockDevices(t) \/ ReceiveAreas(t) \/ Discard(t) PROVE Owing'
  <2>1. /\ tasks'[t].kind = tasks[t].kind
        /\ tasks[t].pc \in {"lockDevices", "gotAreas", "askAreas"}
        /\ \A u \in Task : u # t => tasks'[u] = tasks[u]
    BY <1>0, <1>7 DEF LockDevices, ReceiveAreas, Discard, TaskState
  <2>2. \A u \in Task : (WillAnnounce(u) => WillAnnounce(u)') /\ (WillDiff(u) => WillDiff(u)')
    BY <2>1 DEF WillAnnounce, WillDiff
  <2> QED BY <1>7, <2>2, OwingKept
       DEF LockDevices, ReceiveAreas, Discard, haVars, cacheVars, lockVars, readers, bounds
<1>8. ASSUME NEW t \in Task, LockEntities(t) PROVE Owing'
  <2>1. /\ tasks'[t].kind = tasks[t].kind /\ tasks'[t].changed = tasks[t].changed
        /\ tasks'[t].pc = "askEntities"
        /\ \A u \in Task : u # t => tasks'[u] = tasks[u]
    BY <1>0, <1>8 DEF LockEntities, TaskState
  <2>2. \A u \in Task : (WillAnnounce(u) => WillAnnounce(u)') /\ (WillDiff(u) => WillDiff(u)')
    BY <2>1 DEF WillAnnounce, WillDiff
  <2> QED BY <1>8, <2>2, OwingKept DEF LockEntities, haVars, cacheVars, readers, bounds
<1>9. ASSUME NEW t \in Task, ReceiveDevices(t) PROVE Owing'
  <2> DEFINE loaded == DeviceListing(tasks[t].reply)
  <2>1. UNCHANGED <<entities, phase, faults, connected>> /\ devices' = loaded
        /\ tasks[t].pc = "gotDevices"
    BY <1>9 DEF ReceiveDevices, haVars, bounds
  <2>2. CASE FinishDevices(t, loaded)
    <3>1. snap'.device = devices'.own /\ snap'.entity = snap.entity /\ ~unannounced'
      BY <1>0, <2>1, <2>2 DEF FinishDevices
    <3> QED BY <2>1, <3>1 DEF Owing
  <2>3. CASE tasks[t].kind \in {"resync", "boot"} /\ GoOnToEntities(t, loaded # devices)
    <3> DEFINE diff == loaded # devices
    <3>1. /\ tasks'[t].kind = tasks[t].kind /\ tasks'[t].changed = diff
          /\ tasks'[t].pc \in {"lockEntities", "askEntities"}
          /\ \A u \in Task : u # t => tasks'[u] = tasks[u]
          /\ snap' = snap
      <4> HIDE DEF diff
      <4>1. GoOnToEntities(t, diff)
        BY <2>3 DEF diff
      <4> QED BY <1>0, <4>1 DEF GoOnToEntities, TaskState
    <3>2. unannounced' => unannounced \/ (diff /\ phase = "serving")
      BY <2>3 DEF GoOnToEntities
    <3>3. WillDiff(t)'
      BY <2>3, <3>1 DEF WillDiff
    <3>4. diff /\ phase = "serving" => WillAnnounce(t)'
      BY <2>3, <3>1 DEF WillAnnounce, BootAlone
    <3>5. \A u \in Task : WillAnnounce(u) => WillAnnounce(u)'
      BY <2>1, <2>3, <3>1 DEF WillAnnounce
    <3> QED BY <2>1, <3>1, <3>2, <3>3, <3>4, <3>5 DEF Owing
  <2> QED BY <1>9, <2>2, <2>3 DEF ReceiveDevices
<1>10. ASSUME NEW t \in Task, ReceiveEntities(t) PROVE Owing'
  <2> DEFINE loaded == EntityListing(tasks[t].reply)
  <2>1. /\ UNCHANGED <<devices, faults, connected>> /\ entities' = loaded
        /\ \A u \in Task : u # t => tasks'[u] = tasks[u]
        /\ phase # "exited" \/ tasks[t].kind # "boot"
    BY <1>0, <1>10 DEF ReceiveEntities, haVars, bounds, BootAlone
  <2>2. \A u \in Task : u # t => (WillAnnounce(u) => WillAnnounce(u)') /\ (WillDiff(u) => WillDiff(u)')
    BY <2>1 DEF WillAnnounce, WillDiff
  <2>3. CASE tasks[t].kind = "resync" /\ FinishResync(t, loaded)
    <3>1. /\ snap'.device = devices'.own /\ snap'.entity = entities'.own
          /\ unannounced' => unannounced /\ ~tasks[t].changed
          /\ UNCHANGED phase
      BY <2>1, <2>3 DEF FinishResync
    <3>2. ~tasks[t].changed => ~WillAnnounce(t)
      BY <2>3 DEF WillAnnounce
    <3> QED BY <2>1, <2>2, <3>1, <3>2 DEF Owing
  <2>4. CASE tasks[t].kind = "entity" /\ FinishEntities(loaded)
    <3>1. /\ snap'.device = snap.device /\ snap'.entity = entities'.own
          /\ UNCHANGED <<phase, unannounced>>
      BY <1>0, <2>1, <2>4 DEF FinishEntities
    <3>2. ~WillAnnounce(t) /\ ~WillDiff(t)
      BY <2>4 DEF WillAnnounce, WillDiff
    <3> QED BY <2>1, <2>2, <3>1, <3>2 DEF Owing
  <2>5. CASE tasks[t].kind = "boot" /\ FinishBoot(loaded)
    <3>1. /\ snap'.device = devices'.own /\ snap'.entity = entities'.own
          /\ UNCHANGED unannounced /\ phase # "exited"
      BY <2>1, <2>5 DEF FinishBoot
    <3>2. ~WillAnnounce(t)
      BY <2>5 DEF WillAnnounce
    <3> QED BY <2>1, <2>2, <3>1, <3>2 DEF Owing
  <2> QED BY <1>10, <2>3, <2>4, <2>5 DEF ReceiveEntities
<1>11. ASSUME NEW t \in Task, Fail(t) PROVE Owing'
  <2>1. /\ UNCHANGED <<entities, snap, connected>>
        /\ faults' = IF connected THEN faults + 1 ELSE faults
    BY <1>11 DEF Fail, haVars, cacheVars
  <2>2. faults' = 0 => ~connected'
    BY <1>0, <2>1
  <2> QED BY <2>1, <2>2 DEF Owing
<1>12. CASE UNCHANGED vars \/ BeginHandshake
  BY <1>12, OwingKept
     DEF BeginHandshake, vars, haVars, cacheVars, readers, bounds, WillAnnounce, WillDiff
<1>13. QED
  BY <1>1, <1>2, <1>3, <1>4, <1>5, <1>6, <1>7, <1>8, <1>9, <1>10, <1>11, <1>12
     DEF Next, TaskStep

LEMMA OwingInit == Init => Owing
BY DEF Init, Owing

(* Without refusals no load goes undiffed and no change of the device      *)
(* listing unannounced while the caches can still be reached.              *)
THEOREM OwingSafety == Spec => []Owing
  BY OwingInit, OwingStep, TypeCorrect, TrackedSafety, PTL DEF Spec

(* At rest the browser has been told of every change of the device listing.*)
THEOREM AlwaysAnnounced == Spec => []AnnouncedSettle
<1>1. Owing => AnnouncedSettle
  BY IdleOwesNothing DEF Owing, AnnouncedSettle, Quiet
<1>2. QED
  BY <1>1, OwingSafety, PTL

(* At rest the tracker's snapshots are what the caches hold.               *)
THEOREM TrackerAlwaysSettles == Spec => []TrackerSettle
<1>1. TypeOK /\ Owing => TrackerSettle
  <2> SUFFICES ASSUME TypeOK, Owing, Quiet, faults = 0
               PROVE  snap = [device |-> devices.own, entity |-> entities.own]
    BY DEF TrackerSettle
  <2>1. snap.device = devices.own /\ snap.entity = entities.own
    BY IdleOwesNothing DEF Owing, Quiet
  <2>2. snap \in [device : Nat, entity : Nat]
    BY DEF TypeOK
  <2>3. QED
    BY <2>1, <2>2
<1>2. QED
  BY <1>1, OwingSafety, TypeCorrect, PTL
===========================================================================
