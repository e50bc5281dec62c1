---------------------------- MODULE LiveUpdates ----------------------------
(***************************************************************************)
(* How the browser follows the server: the resources the server publishes  *)
(* notices about, the broker and its streams (EventBroker), and the query  *)
(* cache of each open tab, invalidated by notices (useLiveEvents.ts) and   *)
(* by the tab's own mutations (useExceptions.ts, usePolicies.ts,           *)
(* useResync.ts).                                                          *)
(*                                                                         *)
(* A resource is abstracted to the number of its changes, a query's result *)
(* to the revisions of the resources it was computed from.  The rules are  *)
(* evaluated on read, so a listing depends on the exceptions too.          *)
(*                                                                         *)
(* Definitions named M_... are plausible bugs, paired with the property    *)
(* they break in PROJECT.json.                                             *)
(***************************************************************************)
EXTENDS EventBroker, FiniteSets

CONSTANTS
  Elsewhere,  \* another client, of which only the requests matter
  MaxOther,   \* bound on changes of each resource but the exceptions
  MaxExceptionChanges  \* bound on changes of the exceptions

ASSUME ElsewhereAssumption == Elsewhere \notin Tab
ASSUME BoundsAssumption == MaxOther \in Nat /\ MaxExceptionChanges \in Nat

Client == Tab \cup {Elsewhere}

VARIABLES
  rev,      \* revision of each resource on the server
  saved,    \* revision of policies.yaml, ahead of the loaded policies after a save
  shown,    \* revisions each tab's query results were computed from
  invalid,  \* queries each tab has invalidated and not refetched
  mutating, \* queries each tab will invalidate when its mutation succeeds
  unheard,  \* kinds whose newest notice each tab has missed (history)
  acted     \* revision of the exceptions after each tab's own acknowledgement (history)

tabVars == <<shown, invalid, mutating, acted>>
vars == <<brokerVars, rev, saved, tabVars, unheard>>

Resource == Notice
Query == {"devices", "entities", "policies", "exceptions-list"}

(* What a query's result is computed from, as far as notices can tell. *)
Uses == [q \in Query |->
  CASE q = "devices"         -> {"devices", "exceptions"}
    [] q = "entities"        -> {"entities", "exceptions"}
    [] q = "policies"        -> {"policies"}
    [] q = "exceptions-list" -> {"exceptions"}]

View(q) == [r \in Uses[q] |-> rev[r]]

(* The tabs have loaded their queries and not opened their streams yet. *)
Init ==
  /\ BrokerInit
  /\ rev = [r \in Resource |-> 0]
  /\ saved = 0
  /\ shown = [t \in Tab |-> [q \in Query |-> View(q)]]
  /\ invalid = [t \in Tab |-> {}]
  /\ mutating = [t \in Tab |-> {}]
  /\ unheard = [t \in Tab |-> {}]
  /\ acted = [t \in Tab |-> 0]

---------------------------------------------------------------------------
(***************************************************************************)
(* The server.                                                             *)
(***************************************************************************)

Tell(notice, times) ==
  /\ Publish(notice, times)
  /\ unheard' = [t \in Tab |-> (unheard[t] \ {notice}) \cup Unheard(t, notice, times)]

Bound(r) == IF r = "exceptions" THEN MaxExceptionChanges ELSE MaxOther

Changed(r) == rev[r] < Bound(r) /\ rev' = [rev EXCEPT ![r] = @ + 1]

(* A device listing has changed: an event's task or a resync publishes it. *)
DevicesChange ==
  /\ Changed("devices")
  /\ Tell("devices", 1)
  /\ UNCHANGED <<saved, tabVars>>

(* An entity event publishes a notice of the entity and a broad one, a     *)
(* resync only the latter.                                                 *)
EntitiesChange ==
  /\ Changed("entities")
  /\ \E times \in 1..2 : Tell("entities", times)
  /\ UNCHANGED <<saved, tabVars>>

(* The watcher has seen the file change: the policies are reloaded. *)
ReloadPolicies ==
  /\ saved # rev["policies"]
  /\ rev' = [rev EXCEPT !["policies"] = saved]
  /\ Tell("policies", 1)
  /\ UNCHANGED <<saved, tabVars>>

---------------------------------------------------------------------------
(***************************************************************************)
(* Mutations a tab makes.  The server's part is done when the request is   *)
(* handled, the tab's onSuccess when the answer arrives.                   *)
(***************************************************************************)

Mutates(t, queries) ==
  \/ t = Elsewhere /\ UNCHANGED mutating
  \/ /\ t \in Tab /\ mutating[t] = {}
     /\ mutating' = [mutating EXCEPT ![t] = queries]

(* PUT /api/policies writes the file; exceptions of the policies that are  *)
(* gone go with them.                                                      *)
SavePolicies(t) ==
  /\ saved < MaxOther
  /\ saved' = saved + 1
  /\ Mutates(t, {"policies", "devices"})
  /\ \/ /\ Changed("exceptions")
        /\ Tell("exceptions", 1)
     \/ UNCHANGED <<rev, brokerVars, unheard>>
  /\ UNCHANGED <<shown, invalid, acted>>

(* Acknowledging or clearing an exception publishes nothing. *)
M_AckQueries == {"exceptions-list"}
AckQueries == {"devices", "entities", "exceptions-list"}

Acknowledge(t) ==
  /\ Changed("exceptions")
  /\ Mutates(t, AckQueries)
  /\ acted' = [u \in Tab |-> IF u = t THEN rev'["exceptions"] ELSE acted[u]]
  /\ unheard' = [u \in Tab |-> IF u = t THEN unheard[u] ELSE unheard[u] \cup {"exceptions"}]
  /\ UNCHANGED <<brokerVars, saved, shown, invalid>>

BulkDelete(t) ==
  /\ Changed("exceptions")
  /\ Mutates(t, {"exceptions-list"})
  /\ Tell("exceptions", 1)
  /\ UNCHANGED <<saved, shown, invalid, acted>>

(* The resync button: what a resync finds changed is DevicesChange and     *)
(* EntitiesChange.                                                         *)
Resync(t) ==
  /\ Mutates(t, {"devices", "entities", "policies"})
  /\ UNCHANGED <<brokerVars, rev, saved, shown, invalid, unheard, acted>>

OnSuccess(t) ==
  /\ mutating[t] # {}
  /\ invalid' = [invalid EXCEPT ![t] = @ \cup mutating[t]]
  /\ mutating' = [mutating EXCEPT ![t] = {}]
  /\ UNCHANGED <<brokerVars, rev, saved, shown, unheard, acted>>

---------------------------------------------------------------------------
(***************************************************************************)
(* The stream and the query cache of a tab.                                *)
(***************************************************************************)

(* EventSource connects, at first and again after every loss; useLiveEvents *)
(* invalidates nothing on that occasion.                                   *)
OpenStream(t) ==
  /\ Subscribe(t)
  /\ UNCHANGED <<rev, saved, tabVars, unheard>>

(* What was queued when a stream ends is never sent. *)
Forgets(t) == unheard' = [unheard EXCEPT ![t] = @ \cup Range(queue[t])]

CloseStream(t) ==
  /\ Unsubscribe(t, "closed")
  /\ Forgets(t)
  /\ UNCHANGED <<rev, saved, tabVars>>

StreamRaises(t) ==
  /\ IdlePoll(t)
  /\ Forgets(t)
  /\ UNCHANGED <<rev, saved, tabVars>>

M_Invalidates(notice) ==
  CASE notice = "devices"    -> {"devices"}
    [] notice = "entities"   -> {"entities"}
    [] notice = "policies"   -> {"policies"}
    [] notice = "exceptions" -> {}
Invalidates(notice) ==
  CASE notice = "devices"    -> {"devices"}
    [] notice = "entities"   -> {"entities"}
    [] notice = "policies"   -> {"policies"}
    [] notice = "exceptions" -> {"exceptions-list"}

Receive(t) ==
  /\ Take(t)
  /\ invalid' = [invalid EXCEPT ![t] = @ \cup Invalidates(Head(queue[t]))]
  /\ UNCHANGED <<rev, saved, shown, mutating, unheard, acted>>

(* An invalidated query is refetched. *)
Refetch(t, q) ==
  /\ q \in invalid[t]
  /\ shown' = [shown EXCEPT ![t][q] = View(q)]
  /\ invalid' = [invalid EXCEPT ![t] = @ \ {q}]
  /\ UNCHANGED <<brokerVars, rev, saved, mutating, unheard, acted>>

---------------------------------------------------------------------------
TabStep(t) ==
  \/ Resync(t) \/ OnSuccess(t)
  \/ OpenStream(t) \/ CloseStream(t) \/ StreamRaises(t) \/ Receive(t)
  \/ \E q \in Query : Refetch(t, q)

Next ==
  \/ DevicesChange \/ EntitiesChange \/ ReloadPolicies
  \/ \E t \in Client : SavePolicies(t) \/ Acknowledge(t) \/ BulkDelete(t)
  \/ \E t \in Tab : TabStep(t)

Spec == Init /\ [][Next]_vars

---------------------------------------------------------------------------
(***************************************************************************)
(* Properties.                                                             *)
(***************************************************************************)

(* Every variable holds a value of its type, no queue is longer than its   *)
(* bound, and only open streams have one. *)
TypeOK ==
  /\ BrokerTypeOK
  /\ rev \in [Resource -> Nat]
  /\ saved \in Nat
  /\ DOMAIN shown = Tab
  /\ \A t \in Tab : /\ DOMAIN shown[t] = Query
                    /\ \A q \in Query : shown[t][q] \in [Uses[q] -> Nat]
  /\ invalid \in [Tab -> SUBSET Query]
  /\ mutating \in [Tab -> SUBSET Query]
  /\ unheard \in [Tab -> SUBSET Resource]
  /\ acted \in [Tab -> Nat]

(* Tab t has received all it was sent and refetched all it invalidated. *)
Settled(t) == queue[t] = <<>> /\ invalid[t] = {} /\ mutating[t] = {}

Main == [devices |-> "devices", entities |-> "entities", policies |-> "policies",
         exceptions |-> "exceptions-list"]

(* A settled tab shows every resource as it is on the server, unless the   *)
(* newest notice of that very resource never reached it: dropped from a    *)
(* full queue, published while the stream was down, or never published.    *)
(* Later notices of a kind make up for dropped ones.                       *)
ShownWhenSettled ==
  \A t \in Tab : Settled(t) =>
    \A r \in Resource \ unheard[t] : shown[t][Main[r]][r] = rev[r]

(* A tab sees what its own acknowledgement did to every list it concerns:  *)
(* no list is left at the state before it, whatever else arrives meanwhile.*)
OwnAcknowledgementShown ==
  \A t \in Tab : Settled(t) =>
    \A q \in Query : "exceptions" \in Uses[q] => shown[t][q]["exceptions"] >= acted[t]

(***************************************************************************)
(* A claim of a comment, which the code does not keep.                     *)
(***************************************************************************)

(* An idle stream is kept alive by a ping (api/events.py): none ends       *)
(* because it had nothing to send.                                         *)
IdleStreamKept == \A t \in Tab : stream[t] # "raised"
===========================================================================
