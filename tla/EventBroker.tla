---------------------------- MODULE EventBroker ----------------------------
(***************************************************************************)
(* The fan-out of change notices to the browsers: the broker's bounded     *)
(* queues (events/broker.py) and the stream that empties one of them       *)
(* (api/events.py).  A notice is its kind; the broker never looks further. *)
(*                                                                         *)
(* The stream polls its queue, two seconds at a time, and counts the polls *)
(* that found nothing.  The counter is a variable of the generator, bound  *)
(* only once the first notice has been taken.                              *)
(***************************************************************************)
EXTENDS Naturals, Sequences, Functions

CONSTANTS
  Tab,       \* browser tabs, each with at most one stream
  MaxQueued  \* MAX_QUEUED_EVENTS

ASSUME MaxQueuedAssumption == MaxQueued \in Nat \ {0}

VARIABLES
  queue,   \* the queue of each subscribed tab
  stream   \* of each tab: closed, fresh or counting idle polls, or ended by an exception

brokerVars == <<queue, stream>>

Subscribed(t) == stream[t] \in {"fresh", "counting"}

Notice == {"devices", "entities", "policies", "exceptions"}

BrokerInit ==
  /\ queue = [t \in Tab |-> <<>>]
  /\ stream = [t \in Tab |-> "closed"]

(* _put_dropping_oldest *)
M_Put_unbounded(q, notice) == Append(q, notice)
Put(q, notice) ==
  Append(IF Len(q) < MaxQueued THEN q ELSE Tail(q), notice)

(* A change may publish its notice twice in a row. *)
PutAll(q, notice, times) == IF times = 1 THEN Put(q, notice) ELSE Put(Put(q, notice), notice)

Publish(notice, times) ==
  /\ queue' = [t \in Tab |-> IF Subscribed(t) THEN PutAll(queue[t], notice, times) ELSE <<>>]
  /\ UNCHANGED stream

(* The kinds of which tab t will get no notice after this publication. *)
Unheard(t, notice, times) ==
  IF Subscribed(t) THEN Range(queue[t]) \ Range(PutAll(queue[t], notice, times)) ELSE {notice}

Subscribe(t) ==
  /\ ~Subscribed(t)
  /\ stream' = [stream EXCEPT ![t] = "fresh"]
  /\ UNCHANGED queue

(* The generator's finally clause. *)
Unsubscribe(t, end) ==
  /\ Subscribed(t)
  /\ stream' = [stream EXCEPT ![t] = end]
  /\ queue' = [queue EXCEPT ![t] = <<>>]

(* The stream takes the oldest notice and sends it on. *)
Take(t) ==
  /\ queue[t] # <<>>
  /\ queue' = [queue EXCEPT ![t] = Tail(@)]
  /\ stream' = [stream EXCEPT ![t] = "counting"]

(* A poll times out and the counter is incremented: where it is not bound, *)
(* UnboundLocalError ends the generator.                                   *)
IdlePoll(t) ==
  /\ queue[t] = <<>>
  /\ stream[t] = "fresh"
  /\ Unsubscribe(t, "raised")

BrokerTypeOK ==
  /\ stream \in [Tab -> {"closed", "fresh", "counting", "raised"}]
  /\ queue \in [Tab -> Seq(Notice)]
  /\ \A t \in Tab : Len(queue[t]) <= MaxQueued /\ (~Subscribed(t) => queue[t] = <<>>)
===========================================================================
