-------------------------- MODULE WebSocketClient --------------------------
(***************************************************************************)
(* The Home Assistant client (ha_client/websocket.py): its supervisor with *)
(* the handshake, the read loop and the backoff, the table of requests     *)
(* awaiting a reply, and the calls other tasks make at any time meanwhile. *)
(*                                                                         *)
(* A socket is what Home Assistant has sent on it and the client has not   *)
(* read; messages arrive in order.  A request stands for any command and   *)
(* is named instead of numbered: ids only grow, so no two requests share   *)
(* one.  A registry event stands for all events of that registry.          *)
(*                                                                         *)
(* Definitions named M_... are plausible bugs, paired with the property    *)
(* they break in PROJECT.json.                                             *)
(***************************************************************************)
EXTENDS Naturals, Sequences, SequencesExt

CONSTANTS
  Request,      \* the calls other tasks make, each once
  MaxChanges,   \* bound on registry changes in Home Assistant
  MaxFailures,  \* bound on drops, refusals and failed attempts to connect
  MaxGarbage    \* bound on frames the read loop cannot read

ASSUME BoundsAssumption ==
  MaxChanges \in Nat /\ MaxFailures \in Nat /\ MaxGarbage \in Nat

VARIABLES
  phase,     \* where the supervisor is
  step,      \* the handshake step whose reply is awaited
  ws,        \* the current socket: none, open or closed
  inbox,     \* messages on it that have not been read
  subs,      \* registries Home Assistant has subscribed it to
  due,       \* Home Assistant owes it the reply to the handshake step
  owed,      \* requests Home Assistant owes it the result of
  calls,     \* what became of each call
  pending,   \* _pending: the requests awaiting a reply
  untold,    \* registries changed since subscribers were last told (history)
  early,     \* calls made while nothing read the socket (history)
  changes, failures, garbage

socket == <<ws, inbox, subs, due, owed>>
table  == <<calls, pending, early>>
bounds == <<changes, failures, garbage>>
vars   == <<phase, step, socket, table, untold, bounds>>

Registry == {"device", "area", "entity"}
Phase == {"starting", "reading", "backoff", "handshaking", "stopped", "failed"}

(* The replies a handshake waits for, in order. *)
M_Steps == <<"hello", "auth", "device", "entity">>
Steps == <<"hello", "auth", "device", "area", "entity">>

Result(q) == [type |-> "result", of |-> q]
Event(r)  == [type |-> "event", of |-> r]
Reply(s)  == [type |-> "reply", of |-> s]
Refused   == [type |-> "refused", of |-> "auth"]
Garbled   == [type |-> "garbage", of |-> "none"]

Message == {Result(q) : q \in Request} \cup {Event(r) : r \in Registry}
             \cup {Reply(s) : s \in Range(Steps)} \cup {Refused, Garbled}

InHandshake == phase = "handshaking" \/ (phase = "starting" /\ ws # "none")

Init ==
  /\ phase = "starting"
  /\ step = 1
  /\ ws = "none" /\ inbox = <<>> /\ subs = {} /\ due = FALSE /\ owed = {}
  /\ calls = [q \in Request |-> "new"]
  /\ pending = {} /\ early = {}
  /\ untold = {}
  /\ changes = 0 /\ failures = 0 /\ garbage = 0

---------------------------------------------------------------------------
(***************************************************************************)
(* Home Assistant and the network (external).                              *)
(***************************************************************************)

HAChange(r) ==
  /\ changes < MaxChanges
  /\ changes' = changes + 1
  /\ untold' = untold \cup {r}
  /\ inbox' = IF ws = "open" /\ r \in subs THEN Append(inbox, Event(r)) ELSE inbox
  /\ UNCHANGED <<phase, step, ws, subs, due, owed, table, failures, garbage>>

(* Home Assistant's side of the handshake; it may refuse the step. *)
HAReply ==
  /\ ws = "open" /\ due
  /\ due' = FALSE
  /\ \/ /\ inbox' = Append(inbox, Reply(Steps[step]))
        /\ subs' = subs \cup ({Steps[step]} \cap Registry)
        /\ UNCHANGED failures
     \/ /\ failures < MaxFailures /\ failures' = failures + 1
        /\ inbox' = Append(inbox, Refused)
        /\ UNCHANGED subs
  /\ UNCHANGED <<phase, step, ws, owed, table, untold, changes, garbage>>

(* Results come in any order, once the connection is authenticated. *)
HAResult(q) ==
  /\ ws = "open" /\ q \in owed
  /\ ~(InHandshake /\ step <= 2 /\ due)
  /\ inbox' = Append(inbox, Result(q))
  /\ owed' = owed \ {q}
  /\ UNCHANGED <<phase, step, ws, subs, due, table, untold, bounds>>

(* A frame that makes the read loop raise. *)
Garbage ==
  /\ phase = "reading" /\ ws = "open" /\ garbage < MaxGarbage
  /\ garbage' = garbage + 1
  /\ inbox' = Append(inbox, Garbled)
  /\ UNCHANGED <<phase, step, ws, subs, due, owed, table, untold, changes, failures>>

(* The connection drops; what had arrived can still be read. *)
Drop ==
  /\ ws = "open"
  /\ failures < MaxFailures /\ failures' = failures + 1
  /\ ws' = "closed"
  /\ \E n \in 0..Len(inbox) : inbox' = SubSeq(inbox, 1, n)
  /\ due' = FALSE /\ owed' = {}
  /\ UNCHANGED <<phase, step, subs, table, untold, changes, garbage>>

---------------------------------------------------------------------------
(***************************************************************************)
(* Calls of other tasks, possible from the end of the first handshake on.  *)
(***************************************************************************)

(* The request is entered in the table and sent on the current socket,     *)
(* whoever reads it.  Home Assistant hangs up on one that comes before the *)
(* authentication; on a closed socket sending raises.                      *)
Call(q) ==
  /\ phase \in {"reading", "backoff", "handshaking"}
  /\ calls[q] = "new"
  /\ \/ /\ ws = "closed"
        /\ calls' = [calls EXCEPT ![q] = "failed"]
        /\ UNCHANGED <<socket, pending, early>>
     \/ /\ ws = "open"
        /\ calls' = [calls EXCEPT ![q] = "waiting"]
        /\ pending' = pending \cup {q}
        /\ early' = IF phase = "reading" THEN early ELSE early \cup {q}
        /\ IF InHandshake /\ step = 1
             THEN /\ ws' = "closed" /\ due' = FALSE /\ owed' = {}
                  /\ UNCHANGED <<inbox, subs>>
             ELSE /\ owed' = owed \cup {q}
                  /\ UNCHANGED <<ws, inbox, subs, due>>
  /\ UNCHANGED <<phase, step, untold, bounds>>

---------------------------------------------------------------------------
(***************************************************************************)
(* The read loop.                                                          *)
(***************************************************************************)

(* _fail_pending, and the backoff that follows it. *)
M_FailPending == UNCHANGED <<calls, pending>>
FailPending ==
  /\ calls' = [q \in Request |-> IF q \in pending THEN "failed" ELSE calls[q]]
  /\ pending' = {}

BackOff ==
  /\ phase' = "backoff"
  /\ FailPending
  /\ UNCHANGED <<step, early>>

(* A result settles its call, whether Home Assistant did it or refused it; *)
(* one that nobody awaits is ignored. *)
ReadResult(q) ==
  /\ pending' = pending \ {q}
  /\ \E outcome \in {"done", "failed"} :
       calls' = IF q \in pending THEN [calls EXCEPT ![q] = outcome] ELSE calls
  /\ UNCHANGED <<phase, step, early, untold>>

(* An event is dispatched: its subscribers have been told. *)
ReadEvent(r) ==
  /\ untold' = untold \ {r}
  /\ UNCHANGED <<phase, step, table>>

Read ==
  /\ phase = "reading" /\ inbox # <<>>
  /\ inbox' = Tail(inbox)
  /\ LET m == Head(inbox) IN
       \/ m.type = "result"  /\ ReadResult(m.of)
       \/ m.type = "event"   /\ ReadEvent(m.of)
       \/ m.type = "garbage" /\ BackOff /\ UNCHANGED untold
       \/ m.type \in {"reply", "refused"} /\ UNCHANGED <<phase, step, table, untold>>
  /\ UNCHANGED <<ws, subs, due, owed, bounds>>

(* The socket is closed and read to its end. *)
ReadEnds ==
  /\ phase = "reading" /\ ws = "closed" /\ inbox = <<>>
  /\ BackOff
  /\ UNCHANGED <<socket, untold, bounds>>

---------------------------------------------------------------------------
(***************************************************************************)
(* Connecting, at the start and after a backoff.                           *)
(***************************************************************************)

(* An attempt fails: the supervisor goes round to the read loop, on        *)
(* whatever socket it has; the start gives up.                             *)
GiveUp == phase' = IF phase = "starting" THEN "failed" ELSE "reading"

Connect ==
  /\ phase = "backoff" \/ (phase = "starting" /\ ws = "none")
  /\ \/ /\ phase' = IF phase = "backoff" THEN "handshaking" ELSE phase
        /\ ws' = "open" /\ inbox' = <<>> /\ subs' = {} /\ due' = TRUE /\ owed' = {}
        /\ step' = 1
        /\ UNCHANGED failures
     \/ /\ failures < MaxFailures /\ failures' = failures + 1
        /\ GiveUp
        /\ UNCHANGED <<step, socket>>
  /\ UNCHANGED <<table, untold, changes, garbage>>

(* The handshake is over: start() returns, or ReconnectedEvent is          *)
(* dispatched, and the registries are loaded afresh.                       *)
M_Ready ==
  /\ phase' = "reading"
  /\ UNCHANGED <<step, due, untold>>

Ready ==
  /\ phase' = "reading"
  /\ untold' = {}
  /\ UNCHANGED <<step, due>>

(* The reply to a step: the next one is sent, unless the socket has closed. *)
M_FinalStep == Len(Steps) + 1
FinalStep == Len(Steps)

Proceed ==
  \/ step = FinalStep /\ Ready /\ UNCHANGED ws
  \/ /\ step < FinalStep /\ ws = "open"
     /\ step' = step + 1 /\ due' = TRUE
     /\ UNCHANGED <<phase, ws, untold>>
  \/ /\ step < FinalStep /\ ws = "closed"
     /\ GiveUp
     /\ UNCHANGED <<step, due, ws, untold>>

(* While it subscribes the client discards everything but the reply it     *)
(* waits for, the results of other tasks' requests included.  A refused    *)
(* step closes the socket.                                                 *)
HandshakeReads ==
  /\ InHandshake /\ inbox # <<>>
  /\ inbox' = Tail(inbox)
  /\ LET m == Head(inbox) IN
       \/ m.type = "reply" /\ Proceed /\ UNCHANGED owed
       \/ /\ m.type \in {"result", "event"}
          /\ UNCHANGED <<phase, step, ws, due, owed, untold>>
       \/ /\ m.type = "refused"
          /\ GiveUp
          /\ ws' = "closed" /\ due' = FALSE /\ owed' = {}
          /\ UNCHANGED <<step, untold>>
  /\ UNCHANGED <<subs, table, bounds>>

HandshakeEnds ==
  /\ InHandshake /\ ws = "closed" /\ inbox = <<>>
  /\ GiveUp
  /\ UNCHANGED <<step, socket, table, untold, bounds>>

(* stop() cancels the supervisor and closes the socket. *)
Stop ==
  /\ phase \in {"reading", "backoff", "handshaking"}
  /\ phase' = "stopped"
  /\ ws' = "closed" /\ due' = FALSE /\ owed' = {}
  /\ UNCHANGED <<step, inbox, subs, table, untold, bounds>>

---------------------------------------------------------------------------
Next ==
  \/ \E r \in Registry : HAChange(r)
  \/ \E q \in Request : HAResult(q) \/ Call(q)
  \/ HAReply \/ Garbage \/ Drop
  \/ Read \/ ReadEnds \/ Connect \/ HandshakeReads \/ HandshakeEnds \/ Stop

Spec == Init /\ [][Next]_vars

(***************************************************************************)
(* Fairness: Home Assistant answers over an open connection, the event     *)
(* loop runs the supervisor, its backoff is at most 30 seconds.  That      *)
(* attempts do not fail for ever is the bound MaxFailures.                 *)
(***************************************************************************)
Fairness ==
  /\ WF_vars(HAReply) /\ \A q \in Request : WF_vars(HAResult(q))
  /\ WF_vars(Read) /\ WF_vars(ReadEnds)
  /\ WF_vars(Connect) /\ WF_vars(HandshakeReads) /\ WF_vars(HandshakeEnds)

FairSpec == Spec /\ Fairness

---------------------------------------------------------------------------
(***************************************************************************)
(* Properties.                                                             *)
(***************************************************************************)

(* Every variable holds a value of its type. *)
TypeOK ==
  /\ phase \in Phase
  /\ step \in 1..5
  /\ ws \in {"none", "open", "closed"}
  /\ inbox \in Seq(Message)
  /\ subs \subseteq Registry
  /\ due \in BOOLEAN
  /\ owed \subseteq Request
  /\ calls \in [Request -> {"new", "waiting", "done", "failed"}]
  /\ pending \subseteq Request
  /\ early \subseteq Request
  /\ untold \subseteq Registry
  /\ changes \in Nat /\ failures \in Nat /\ garbage \in Nat

(* While an open socket is being read, a registry that has changed since   *)
(* the subscribers were last told has an event waiting to be read: no      *)
(* change falls between the old socket and the new one, between two        *)
(* subscriptions, or among the messages a handshake discards.              *)
NothingMissed ==
  phase = "reading" /\ ws = "open" =>
    \A r \in untold : Contains(inbox, Event(r))

(* So subscribers are told of every change, however often the connection   *)
(* drops or a reconnection fails on the way.                               *)
EveryChangeTold ==
  \A r \in Registry : r \in untold ~> r \notin untold \/ phase \in {"stopped", "failed"}

(* A call made while the socket is being read ends, with its result or     *)
(* with an error, whatever becomes of the connection.                      *)
CallsEnd ==
  \A q \in Request : q \in pending \ early ~> q \notin pending \/ phase = "stopped"

(***************************************************************************)
(* A claim of a comment, which the code does not keep.                     *)
(***************************************************************************)

(* Requests in flight are failed "so callers don't hang forever"           *)
(* (_supervise): none is left when there is nothing more to read.          *)
NoCallHangs ==
  phase = "reading" /\ ws = "open" /\ inbox = <<>> /\ owed = {} => pending = {}
===========================================================================
