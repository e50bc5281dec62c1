------------------------- MODULE LiveUpdatesProofs -------------------------
(***************************************************************************)
(* Theorems about LiveUpdates, for any tabs, queue length and number of    *)
(* changes.                                                                *)
(***************************************************************************)
EXTENDS LiveUpdates, TLAPS

(* Whatever of r the tab does not show yet is on its way: in its queue, or *)
(* behind an invalidation made or to be made.                              *)
OnItsWay(t, r) ==
  \/ shown[t][Main[r]][r] = rev[r]
  \/ Main[r] \in invalid[t] \cup mutating[t]
  \/ r \in Range(queue[t])

Told == \A t \in Tab : \A r \in Resource \ unheard[t] : OnItsWay(t, r)

(* The lists a tab's own acknowledgement concerns show it or will be       *)
(* fetched again.                                                          *)
Lists == {q \in Query : "exceptions" \in Uses[q]}

ActedOn(t, q) ==
  shown[t][q]["exceptions"] >= acted[t] \/ q \in invalid[t] \cup mutating[t]

Acted ==
  \A t \in Tab : acted[t] <= rev["exceptions"] /\ \A q \in Lists : ActedOn(t, q)

IInv == TypeOK /\ Told /\ Acted

---------------------------------------------------------------------------
LEMMA QueryFacts ==
  /\ \A r \in Resource : Main[r] \in Query /\ r \in Uses[Main[r]]
  /\ Lists \subseteq AckQueries /\ AckQueries \subseteq Query
  /\ \A q \in Query : Uses[q] \subseteq Resource
  /\ \A r \in Resource : Invalidates(r) = {Main[r]}
<1>1. \A r \in Resource : Main[r] \in Query
  BY DEF Main, Query, Resource, Notice
<1>2. /\ Uses["devices"] = {"devices", "exceptions"}
      /\ Uses["entities"] = {"entities", "exceptions"}
      /\ Uses["policies"] = {"policies"}
      /\ Uses["exceptions-list"] = {"exceptions"}
  BY DEF Uses, Query
<1>3. \A r \in Resource : r \in Uses[Main[r]]
  BY <1>2 DEF Main, Resource, Notice
<1>4. \A q \in Query : Uses[q] \subseteq Resource
  BY <1>2 DEF Query, Resource, Notice
<1>5. Lists \subseteq AckQueries /\ AckQueries \subseteq Query
  BY <1>2 DEF Lists, AckQueries, Query
<1>6. \A r \in Resource : Invalidates(r) = {Main[r]}
  BY DEF Invalidates, Main, Resource, Notice
<1> QED BY <1>1, <1>3, <1>4, <1>5, <1>6

(* A queue keeps its bound, and the notice put last is in it. *)
LEMMA PutFacts ==
  ASSUME NEW q \in Seq(Notice), Len(q) <= MaxQueued, NEW n \in Notice
  PROVE  Put(q, n) \in Seq(Notice) /\ Len(Put(q, n)) <= MaxQueued /\ n \in Range(Put(q, n))
<1> DEFINE kept == IF Len(q) < MaxQueued THEN q ELSE Tail(q)
<1>1. kept \in Seq(Notice) /\ Len(kept) < MaxQueued /\ Len(kept) \in Nat
  <2>1. CASE Len(q) < MaxQueued
    BY <2>1
  <2>2. CASE ~(Len(q) < MaxQueued)
    <3>1. Len(q) = MaxQueued /\ q # <<>>
      BY <2>2, MaxQueuedAssumption
    <3> QED BY <2>2, <3>1, MaxQueuedAssumption
  <2> QED BY <2>1, <2>2
<1>2. Put(q, n) = Append(kept, n)
  BY DEF Put
<1> HIDE DEF kept
<1>3. Put(q, n) \in Seq(Notice) /\ Len(Put(q, n)) = Len(kept) + 1
  BY <1>1, <1>2
<1>4. Len(kept) + 1 \in DOMAIN Put(q, n) /\ Put(q, n)[Len(kept) + 1] = n
  BY <1>1, <1>2
<1> QED BY <1>1, <1>3, <1>4, MaxQueuedAssumption DEF Range

LEMMA PutAllFacts ==
  ASSUME NEW q \in Seq(Notice), Len(q) <= MaxQueued, NEW n \in Notice, NEW times \in 1..2
  PROVE  /\ PutAll(q, n, times) \in Seq(Notice)
         /\ Len(PutAll(q, n, times)) <= MaxQueued
         /\ n \in Range(PutAll(q, n, times))
BY PutFacts DEF PutAll

(* After a publication everything published before is still on its way to  *)
(* a tab, or counts as unheard, and its own notice is.                     *)
LEMMA TellFacts ==
  ASSUME TypeOK, NEW n \in Notice, NEW times \in 1..2, Tell(n, times)
  PROVE  /\ BrokerTypeOK' /\ unheard' \in [Tab -> SUBSET Resource]
         /\ \A t \in Tab : n \notin unheard'[t] => n \in Range(queue'[t])
         /\ \A t \in Tab : \A r \in Resource \ unheard'[t] :
              r # n => r \notin unheard[t] /\ (r \in Range(queue[t]) => r \in Range(queue'[t]))
<1>1. /\ queue' = [t \in Tab |-> IF Subscribed(t) THEN PutAll(queue[t], n, times) ELSE <<>>]
      /\ stream' = stream
      /\ unheard' = [t \in Tab |-> (unheard[t] \ {n}) \cup Unheard(t, n, times)]
  BY DEF Tell, Publish
<1>2. \A t \in Tab : Subscribed(t)' <=> Subscribed(t)
  BY <1>1 DEF Subscribed
<1>3. ASSUME NEW t \in Tab
      PROVE  /\ queue[t] \in Seq(Notice) /\ Range(queue[t]) \subseteq Resource
             /\ Len(queue[t]) <= MaxQueued /\ unheard[t] \subseteq Resource
             /\ (~Subscribed(t) => queue[t] = <<>>)
  BY DEF TypeOK, BrokerTypeOK, Range, Resource
<1>4. ASSUME NEW t \in Tab, Subscribed(t)
      PROVE  /\ queue'[t] \in Seq(Notice) /\ Len(queue'[t]) <= MaxQueued
             /\ n \in Range(queue'[t])
             /\ unheard'[t] = (unheard[t] \ {n}) \cup (Range(queue[t]) \ Range(queue'[t]))
  BY <1>1, <1>3, <1>4, PutAllFacts DEF Unheard
<1>5. ASSUME NEW t \in Tab, ~Subscribed(t)
      PROVE  /\ queue'[t] = <<>> /\ queue'[t] \in Seq(Notice) /\ Len(queue'[t]) = 0
             /\ Range(queue[t]) = {}
             /\ unheard'[t] = (unheard[t] \ {n}) \cup {n}
  <2>1. queue'[t] = <<>>
    BY <1>1, <1>5
  <2>2. queue[t] = <<>>
    BY <1>3, <1>5
  <2>3. Range(queue[t]) = {}
    BY <2>2 DEF Range
  <2>4. unheard'[t] = (unheard[t] \ {n}) \cup {n}
    BY <1>1, <1>5 DEF Unheard
  <2> QED BY <2>1, <2>3, <2>4
<1>6. BrokerTypeOK'
  <2>1. \A t \in Tab : queue'[t] \in Seq(Notice)
    BY <1>4, <1>5
  <2>2. queue' \in [Tab -> Seq(Notice)]
    BY <1>1, <2>1
  <2>3. stream' \in [Tab -> {"closed", "fresh", "counting", "raised"}]
    BY <1>1 DEF TypeOK, BrokerTypeOK
  <2>4. \A t \in Tab : Len(queue'[t]) <= MaxQueued /\ (~Subscribed(t)' => queue'[t] = <<>>)
    BY <1>2, <1>4, <1>5, MaxQueuedAssumption
  <2> QED BY <2>2, <2>3, <2>4 DEF BrokerTypeOK
<1>7. unheard' \in [Tab -> SUBSET Resource]
  <2>1. \A t \in Tab : unheard'[t] \subseteq Resource
    BY <1>3, <1>4, <1>5 DEF Resource
  <2> QED BY <1>1, <2>1
<1>8. \A t \in Tab : n \notin unheard'[t] => n \in Range(queue'[t])
  BY <1>4, <1>5
<1>9. \A t \in Tab : \A r \in Resource \ unheard'[t] :
        r # n => r \notin unheard[t] /\ (r \in Range(queue[t]) => r \in Range(queue'[t]))
  BY <1>4, <1>5
<1> QED BY <1>6, <1>7, <1>8, <1>9

---------------------------------------------------------------------------
LEMMA MutatesFacts ==
  ASSUME TypeOK, NEW c \in Client, NEW queries \in SUBSET Query, Mutates(c, queries)
  PROVE  /\ mutating' \in [Tab -> SUBSET Query]
         /\ \A t \in Tab : mutating[t] \subseteq mutating'[t]
         /\ c \in Tab => queries \subseteq mutating'[c]
<1>1. mutating \in [Tab -> SUBSET Query]
  BY DEF TypeOK
<1>2. CASE c = Elsewhere /\ UNCHANGED mutating
  BY <1>1, <1>2, ElsewhereAssumption
<1>3. CASE c \in Tab /\ mutating[c] = {} /\ mutating' = [mutating EXCEPT ![c] = queries]
  BY <1>1, <1>3
<1> QED BY <1>2, <1>3 DEF Mutates

(* What a step has to do to keep the two parts about what is on its way:   *)
(* the tabs' results stay, what they have to refetch only grows.           *)
LEMMA ToldKept ==
  ASSUME TypeOK, Told, NEW n \in Notice, NEW times \in 1..2, Tell(n, times),
         \A r \in Resource : r # n => rev'[r] = rev[r],
         shown' = shown,
         \A t \in Tab : invalid[t] \cup mutating[t] \subseteq invalid'[t] \cup mutating'[t]
  PROVE  Told'
<1> SUFFICES ASSUME NEW t \in Tab, NEW r \in Resource, r \notin unheard'[t] PROVE OnItsWay(t, r)'
  BY DEF Told
<1>1. CASE r = n
  BY <1>1, TellFacts DEF OnItsWay
<1>2. CASE r # n
  <2>1. r \notin unheard[t] /\ (r \in Range(queue[t]) => r \in Range(queue'[t]))
    BY <1>2, TellFacts
  <2>2. OnItsWay(t, r)
    BY <2>1 DEF Told
  <2> QED BY <1>2, <2>1, <2>2 DEF OnItsWay
<1> QED BY <1>1, <1>2

LEMMA ActedKept ==
  ASSUME TypeOK, Acted, TypeOK', rev'["exceptions"] >= rev["exceptions"],
         UNCHANGED <<shown, acted>>,
         \A t \in Tab : invalid[t] \cup mutating[t] \subseteq invalid'[t] \cup mutating'[t]
  PROVE  Acted'
<1>1. "exceptions" \in Resource
  BY DEF Resource, Notice
<1>2. ASSUME NEW t \in Tab PROVE acted'[t] <= rev'["exceptions"]
  BY <1>1 DEF Acted, TypeOK
<1>3. ASSUME NEW t \in Tab, NEW q \in Lists PROVE ActedOn(t, q)'
  BY DEF Acted, ActedOn
<1> QED BY <1>2, <1>3 DEF Acted

(* A change of a resource that is told. *)
LEMMA ChangeTold ==
  ASSUME IInv, NEW n \in Notice, NEW times \in 1..2, Changed(n), Tell(n, times),
         mutating' \in [Tab -> SUBSET Query],
         \A t \in Tab : mutating[t] \subseteq mutating'[t],
         saved' \in Nat, UNCHANGED <<shown, invalid, acted>>
  PROVE  IInv'
<1>1. rev' \in [Resource -> Nat] /\ (\A r \in Resource : rev'[r] >= rev[r])
      /\ (\A r \in Resource : r # n => rev'[r] = rev[r])
  BY DEF IInv, TypeOK, Changed, Resource
<1>2. TypeOK'
  BY <1>1, TellFacts DEF IInv, TypeOK
<1>3. Told'
  BY <1>1, ToldKept DEF IInv
<1>4. Acted'
  <2>1. rev'["exceptions"] >= rev["exceptions"]
    BY <1>1 DEF Resource, Notice
  <2> QED BY <1>2, <2>1, ActedKept DEF IInv
<1> QED BY <1>2, <1>3, <1>4 DEF IInv

LEMMA NoticeFacts == {"devices", "entities", "policies", "exceptions"} = Notice
BY DEF Notice

LEMMA DevicesKeeps == ASSUME IInv, DevicesChange PROVE IInv'
BY ChangeTold, NoticeFacts DEF DevicesChange, tabVars, IInv, TypeOK

LEMMA EntitiesKeeps == ASSUME IInv, EntitiesChange PROVE IInv'
BY ChangeTold, NoticeFacts DEF EntitiesChange, tabVars, IInv, TypeOK

LEMMA ReloadKeeps == ASSUME IInv, ReloadPolicies PROVE IInv'
<1> USE DEF ReloadPolicies, tabVars
<1>1. rev' \in [Resource -> Nat] /\ (\A r \in Resource : r # "policies" => rev'[r] = rev[r])
  BY DEF IInv, TypeOK, Resource
<1>2. TypeOK'
  BY <1>1, TellFacts, NoticeFacts DEF IInv, TypeOK
<1>3. Told'
  BY <1>1, ToldKept, NoticeFacts DEF IInv
<1>4. Acted'
  <2>1. rev'["exceptions"] >= rev["exceptions"]
    BY <1>1, NoticeFacts DEF IInv, TypeOK, Resource
  <2> QED BY <1>2, <2>1, ActedKept DEF IInv
<1> QED BY <1>2, <1>3, <1>4 DEF IInv

---------------------------------------------------------------------------
(* A step after which nothing is less on its way than before. *)
LEMMA Quiet ==
  ASSUME IInv, TypeOK', UNCHANGED <<rev, shown, acted>>,
         \A t \in Tab : invalid[t] \cup mutating[t] \subseteq invalid'[t] \cup mutating'[t],
         \A t \in Tab : unheard[t] \subseteq unheard'[t],
         \A t \in Tab : \A r \in Resource \ unheard'[t] :
           r \in Range(queue[t]) => r \in Range(queue'[t]) \/ Main[r] \in invalid'[t]
  PROVE  IInv'
<1>1. Told'
  <2> SUFFICES ASSUME NEW t \in Tab, NEW r \in Resource, r \notin unheard'[t] PROVE OnItsWay(t, r)'
    BY DEF Told
  <2>1. OnItsWay(t, r)
    BY DEF IInv, Told
  <2> QED BY <2>1 DEF OnItsWay
<1>2. Acted'
  <2>1. rev'["exceptions"] >= rev["exceptions"]
    BY NoticeFacts DEF IInv, TypeOK, Resource
  <2> QED BY <2>1, ActedKept DEF IInv
<1> QED BY <1>1, <1>2 DEF IInv

LEMMA SaveKeeps ==
  ASSUME IInv, NEW c \in Client, SavePolicies(c) PROVE IInv'
<1> USE DEF SavePolicies
<1>1. {"policies", "devices"} \in SUBSET Query
  BY DEF Query
<1>2. /\ mutating' \in [Tab -> SUBSET Query]
      /\ \A t \in Tab : mutating[t] \subseteq mutating'[t]
  BY <1>1, MutatesFacts DEF IInv
<1>3. saved' \in Nat
  BY DEF IInv, TypeOK
<1>4. CASE Changed("exceptions") /\ Tell("exceptions", 1)
  BY <1>2, <1>3, <1>4, ChangeTold, NoticeFacts
<1>5. CASE UNCHANGED <<rev, brokerVars, unheard>>
  <2>1. TypeOK'
    BY <1>2, <1>3, <1>5 DEF IInv, TypeOK, BrokerTypeOK, Subscribed, brokerVars
  <2> QED BY <1>2, <1>5, <2>1, Quiet DEF brokerVars
<1> QED BY <1>4, <1>5

LEMMA AcknowledgeKeeps ==
  ASSUME IInv, NEW c \in Client, Acknowledge(c) PROVE IInv'
<1> USE DEF Acknowledge
<1>1. /\ mutating' \in [Tab -> SUBSET Query]
      /\ \A t \in Tab : mutating[t] \subseteq mutating'[t]
      /\ c \in Tab => AckQueries \subseteq mutating'[c]
  BY QueryFacts, MutatesFacts DEF IInv
<1>2. /\ rev' \in [Resource -> Nat] /\ rev'["exceptions"] = rev["exceptions"] + 1
      /\ \A r \in Resource : r # "exceptions" => rev'[r] = rev[r]
      /\ rev["exceptions"] \in Nat
  BY NoticeFacts DEF IInv, TypeOK, Changed, Resource
<1>3. TypeOK'
  <2>1. acted' \in [Tab -> Nat]
    BY <1>2, NoticeFacts DEF IInv, TypeOK
  <2>2. unheard' \in [Tab -> SUBSET Resource]
    BY NoticeFacts DEF IInv, TypeOK, Resource
  <2>3. BrokerTypeOK'
    BY DEF IInv, TypeOK, BrokerTypeOK, Subscribed, brokerVars
  <2> QED BY <1>1, <1>2, <2>1, <2>2, <2>3 DEF IInv, TypeOK
<1>4. Told'
  <2> SUFFICES ASSUME NEW t \in Tab, NEW r \in Resource, r \notin unheard'[t] PROVE OnItsWay(t, r)'
    BY DEF Told
  <2>1. CASE r = "exceptions"
    <3>1. t = c
      BY <2>1
    <3>2. Main[r] \in AckQueries
      BY <2>1 DEF Main, AckQueries
    <3> QED BY <1>1, <3>1, <3>2 DEF OnItsWay
  <2>2. CASE r # "exceptions"
    <3>1. r \notin unheard[t]
      BY DEF IInv, TypeOK
    <3>2. OnItsWay(t, r)
      BY <3>1 DEF IInv, Told
    <3> QED BY <1>1, <1>2, <2>2, <3>2 DEF OnItsWay, brokerVars
  <2> QED BY <2>1, <2>2
<1>5. Acted'
  <2>1. ASSUME NEW t \in Tab
        PROVE acted'[t] <= rev'["exceptions"] /\ \A q \in Lists : ActedOn(t, q)'
    <3>1. CASE t = c
      <4>1. acted'[t] = rev'["exceptions"]
        BY <3>1
      <4> QED BY <1>1, <1>2, <3>1, <4>1, QueryFacts DEF ActedOn
    <3>2. CASE t # c
      <4>1. acted'[t] = acted[t]
        BY <3>2
      <4> QED BY <1>1, <1>2, <4>1 DEF IInv, TypeOK, Acted, ActedOn
    <3> QED BY <3>1, <3>2
  <2> QED BY <2>1 DEF Acted
<1> QED BY <1>3, <1>4, <1>5 DEF IInv

LEMMA BulkDeleteKeeps ==
  ASSUME IInv, NEW c \in Client, BulkDelete(c) PROVE IInv'
<1>1. {"exceptions-list"} \in SUBSET Query
  BY DEF Query
<1>2. /\ mutating' \in [Tab -> SUBSET Query]
      /\ \A t \in Tab : mutating[t] \subseteq mutating'[t]
  BY <1>1, MutatesFacts DEF IInv, BulkDelete
<1> QED BY <1>2, ChangeTold, NoticeFacts DEF BulkDelete, IInv, TypeOK

LEMMA ResyncKeeps == ASSUME IInv, NEW t \in Tab, Resync(t) PROVE IInv'
<1>1. {"devices", "entities", "policies"} \in SUBSET Query /\ t \in Client
  BY DEF Query, Client
<1>2. /\ mutating' \in [Tab -> SUBSET Query]
      /\ \A u \in Tab : mutating[u] \subseteq mutating'[u]
  BY <1>1, MutatesFacts DEF IInv, Resync
<1>3. TypeOK'
  BY <1>2 DEF IInv, TypeOK, BrokerTypeOK, Subscribed, brokerVars, Resync
<1> QED BY <1>2, <1>3, Quiet DEF Resync, brokerVars

LEMMA OnSuccessKeeps == ASSUME IInv, NEW t \in Tab, OnSuccess(t) PROVE IInv'
<1> USE DEF OnSuccess
<1>1. /\ mutating \in [Tab -> SUBSET Query] /\ invalid \in [Tab -> SUBSET Query]
  BY DEF IInv, TypeOK
<1>2. /\ mutating' \in [Tab -> SUBSET Query] /\ invalid' \in [Tab -> SUBSET Query]
      /\ \A u \in Tab : invalid[u] \cup mutating[u] \subseteq invalid'[u] \cup mutating'[u]
  BY <1>1
<1>3. TypeOK'
  BY <1>2 DEF IInv, TypeOK, BrokerTypeOK, Subscribed, brokerVars
<1> QED BY <1>2, <1>3, Quiet DEF brokerVars

---------------------------------------------------------------------------
LEMMA OpenStreamKeeps == ASSUME IInv, NEW t \in Tab, OpenStream(t) PROVE IInv'
<1> USE DEF OpenStream, Subscribe, tabVars
<1>1. TypeOK'
  BY DEF IInv, TypeOK, BrokerTypeOK, Subscribed
<1> QED BY <1>1, Quiet

(* However a stream ends, what was in its queue counts as unheard. *)
LEMMA EndKeeps ==
  ASSUME IInv, NEW t \in Tab, NEW end \in {"closed", "raised"}, Unsubscribe(t, end), Forgets(t),
         UNCHANGED <<rev, saved, tabVars>>
  PROVE  IInv'
<1> USE DEF Unsubscribe, Forgets, tabVars
<1>1. Range(queue[t]) \subseteq Resource
  BY DEF IInv, TypeOK, BrokerTypeOK, Range, Resource
<1>2. queue \in [Tab -> Seq(Notice)] /\ unheard \in [Tab -> SUBSET Resource]
      /\ stream \in [Tab -> {"closed", "fresh", "counting", "raised"}]
  BY DEF IInv, TypeOK, BrokerTypeOK
<1>3. /\ queue'[t] = <<>> /\ \A u \in Tab \ {t} : queue'[u] = queue[u] /\ stream'[u] = stream[u]
      /\ queue' \in [Tab -> Seq(Notice)]
      /\ stream' \in [Tab -> {"closed", "fresh", "counting", "raised"}]
  BY <1>2
<1>4. BrokerTypeOK'
  <2>1. \A u \in Tab : Len(queue'[u]) <= MaxQueued /\ (~Subscribed(u)' => queue'[u] = <<>>)
    BY <1>3, MaxQueuedAssumption DEF IInv, TypeOK, BrokerTypeOK, Subscribed
  <2> QED BY <1>3, <2>1 DEF BrokerTypeOK
<1>5. unheard' \in [Tab -> SUBSET Resource] /\ unheard'[t] = unheard[t] \cup Range(queue[t])
      /\ \A u \in Tab \ {t} : unheard'[u] = unheard[u]
  BY <1>1, <1>2
<1>6. TypeOK'
  BY <1>4, <1>5 DEF IInv, TypeOK
<1> QED BY <1>3, <1>5, <1>6, Quiet

LEMMA CloseKeeps == ASSUME IInv, NEW t \in Tab, CloseStream(t) PROVE IInv'
BY EndKeeps DEF CloseStream

LEMMA RaisesKeeps == ASSUME IInv, NEW t \in Tab, StreamRaises(t) PROVE IInv'
BY EndKeeps DEF StreamRaises, IdlePoll

LEMMA ReceiveKeeps == ASSUME IInv, NEW t \in Tab, Receive(t) PROVE IInv'
<1> DEFINE q == queue[t]
<1>1. q \in Seq(Notice) /\ q # <<>> /\ queue \in [Tab -> Seq(Notice)] /\ Len(q) <= MaxQueued
      /\ stream \in [Tab -> {"closed", "fresh", "counting", "raised"}]
      /\ (~Subscribed(t) => q = <<>>)
  BY DEF IInv, TypeOK, BrokerTypeOK, Receive, Take
<1>2. /\ Tail(q) \in Seq(Notice) /\ Len(Tail(q)) <= MaxQueued /\ Head(q) \in Notice
      /\ Range(q) \subseteq Range(Tail(q)) \cup {Head(q)}
  <2>1. /\ Tail(q) \in Seq(Notice) /\ Head(q) \in Notice /\ Head(q) = q[1]
        /\ Len(Tail(q)) = Len(q) - 1 /\ \A i \in 1..Len(q) - 1 : Tail(q)[i] = q[i + 1]
        /\ Len(q) \in Nat
    BY <1>1
  <2>2. ASSUME NEW i \in 1..Len(q) PROVE q[i] \in Range(Tail(q)) \cup {Head(q)}
    <3>1. CASE i = 1
      BY <2>1, <3>1
    <3>2. CASE i # 1
      <4>1. i - 1 \in DOMAIN Tail(q) /\ Tail(q)[i - 1] = q[i]
        BY <2>1, <3>2
      <4> QED BY <4>1 DEF Range
    <3> QED BY <3>1, <3>2
  <2>3. DOMAIN q = 1..Len(q)
    BY <1>1
  <2>4. Len(Tail(q)) <= MaxQueued
    BY <1>1, <2>1, MaxQueuedAssumption
  <2> QED BY <2>1, <2>2, <2>3, <2>4 DEF Range
<1>3. Invalidates(Head(q)) = {Main[Head(q)]} /\ Main[Head(q)] \in Query
  BY <1>2, QueryFacts DEF Resource
<1>4. /\ queue' = [queue EXCEPT ![t] = Tail(q)]
      /\ stream' = [stream EXCEPT ![t] = "counting"]
      /\ invalid' = [invalid EXCEPT ![t] = @ \cup {Main[Head(q)]}]
      /\ UNCHANGED <<rev, saved, shown, mutating, unheard, acted>>
  BY <1>3 DEF Receive, Take
<1> HIDE DEF q
<1>5. /\ queue' \in [Tab -> Seq(Notice)] /\ queue'[t] = Tail(q)
      /\ \A u \in Tab \ {t} : queue'[u] = queue[u] /\ stream'[u] = stream[u]
      /\ stream' \in [Tab -> {"closed", "fresh", "counting", "raised"}] /\ stream'[t] = "counting"
  BY <1>1, <1>2, <1>4
<1>6. BrokerTypeOK'
  <2>1. \A u \in Tab : Len(queue'[u]) <= MaxQueued /\ (~Subscribed(u)' => queue'[u] = <<>>)
    BY <1>2, <1>5 DEF IInv, TypeOK, BrokerTypeOK, Subscribed
  <2> QED BY <1>5, <2>1 DEF BrokerTypeOK
<1>7. invalid' \in [Tab -> SUBSET Query] /\ Main[Head(q)] \in invalid'[t]
      /\ \A u \in Tab : invalid[u] \subseteq invalid'[u]
  BY <1>3, <1>4 DEF IInv, TypeOK
<1>8. TypeOK'
  BY <1>4, <1>6, <1>7 DEF IInv, TypeOK
<1>9. ASSUME NEW u \in Tab, NEW r \in Resource, r \in Range(queue[u])
      PROVE r \in Range(queue'[u]) \/ Main[r] \in invalid'[u]
  BY <1>2, <1>5, <1>7, <1>9 DEF q
<1> QED BY <1>4, <1>7, <1>8, <1>9, Quiet

LEMMA RefetchKeeps ==
  ASSUME IInv, NEW t \in Tab, NEW q \in Query, Refetch(t, q) PROVE IInv'
<1>1. /\ DOMAIN shown = Tab /\ DOMAIN shown[t] = Query
      /\ invalid \in [Tab -> SUBSET Query] /\ rev \in [Resource -> Nat]
  BY DEF IInv, TypeOK
<1>2. View(q) \in [Uses[q] -> Nat] /\ \A r \in Uses[q] : View(q)[r] = rev[r]
  BY <1>1, QueryFacts DEF View
<1>3. /\ DOMAIN shown' = Tab
      /\ \A u \in Tab \ {t} : shown'[u] = shown[u]
      /\ DOMAIN shown'[t] = Query /\ shown'[t][q] = View(q)
      /\ \A p \in Query \ {q} : shown'[t][p] = shown[t][p]
  BY <1>1 DEF Refetch
<1>4. /\ invalid' \in [Tab -> SUBSET Query] /\ invalid'[t] = invalid[t] \ {q}
      /\ \A u \in Tab \ {t} : invalid'[u] = invalid[u]
  BY <1>1 DEF Refetch
<1>5. UNCHANGED <<queue, stream, rev, saved, mutating, unheard, acted>>
  BY DEF Refetch, brokerVars
<1>6. TypeOK'
  <2>1. BrokerTypeOK'
    BY <1>5 DEF IInv, TypeOK, BrokerTypeOK, Subscribed
  <2>2. \A u \in Tab : DOMAIN shown'[u] = Query /\ \A p \in Query : shown'[u][p] \in [Uses[p] -> Nat]
    <3>1. ASSUME NEW u \in Tab, NEW p \in Query
          PROVE  DOMAIN shown'[u] = Query /\ shown'[u][p] \in [Uses[p] -> Nat]
      <4>1. DOMAIN shown[u] = Query /\ shown[u][p] \in [Uses[p] -> Nat]
        BY DEF IInv, TypeOK
      <4>2. CASE u = t /\ p = q
        BY <1>2, <1>3, <4>2
      <4>3. CASE u = t /\ p # q
        BY <1>3, <4>1, <4>3
      <4>4. CASE u # t
        BY <1>3, <4>1, <4>4
      <4> QED BY <4>2, <4>3, <4>4
    <3> QED BY <3>1
  <2> QED BY <1>3, <1>4, <1>5, <2>1, <2>2 DEF IInv, TypeOK
<1>7. Told'
  <2> SUFFICES ASSUME NEW u \in Tab, NEW r \in Resource, r \notin unheard'[u] PROVE OnItsWay(u, r)'
    BY DEF Told
  <2>1. OnItsWay(u, r) /\ Main[r] \in Query /\ r \in Uses[Main[r]]
    BY <1>5, QueryFacts DEF IInv, Told
  <2>2. CASE u = t /\ Main[r] = q
    BY <1>2, <1>3, <1>5, <2>1, <2>2 DEF OnItsWay
  <2>3. CASE ~(u = t /\ Main[r] = q)
    BY <1>3, <1>4, <1>5, <2>1, <2>3 DEF OnItsWay
  <2> QED BY <2>2, <2>3
<1>8. Acted'
  <2> SUFFICES ASSUME NEW u \in Tab, NEW p \in Lists PROVE ActedOn(u, p)'
    BY <1>5 DEF IInv, Acted
  <2>1. ActedOn(u, p) /\ p \in Query /\ "exceptions" \in Uses[p] /\ acted[u] <= rev["exceptions"]
    BY DEF IInv, Acted, Lists
  <2>2. CASE u = t /\ p = q
    BY <1>2, <1>3, <1>5, <2>1, <2>2 DEF ActedOn
  <2>3. CASE ~(u = t /\ p = q)
    BY <1>3, <1>4, <1>5, <2>1, <2>3 DEF ActedOn
  <2> QED BY <2>2, <2>3
<1> QED BY <1>6, <1>7, <1>8 DEF IInv

---------------------------------------------------------------------------
LEMMA Initially == Init => IInv
<1> SUFFICES ASSUME Init PROVE IInv
  OBVIOUS
<1> USE DEF Init
<1>1. ASSUME NEW q \in Query
      PROVE  View(q) \in [Uses[q] -> Nat] /\ \A r \in Uses[q] : View(q)[r] = rev[r]
  BY QueryFacts DEF View
<1>2. ASSUME NEW t \in Tab
      PROVE  DOMAIN shown[t] = Query /\ \A q \in Query : shown[t][q] = View(q)
  OBVIOUS
<1>3. BrokerTypeOK
  <2>1. queue \in [Tab -> Seq(Notice)] /\ \A t \in Tab : queue[t] = <<>> /\ Len(queue[t]) = 0
    BY DEF BrokerInit
  <2>2. stream \in [Tab -> {"closed", "fresh", "counting", "raised"}]
    BY DEF BrokerInit
  <2> QED BY <2>1, <2>2, MaxQueuedAssumption DEF BrokerTypeOK
<1>4. TypeOK
  BY <1>1, <1>2, <1>3 DEF TypeOK
<1>5. Told
  BY <1>1, <1>2, QueryFacts DEF Told, OnItsWay
<1>6. Acted
  <2>1. rev["exceptions"] = 0
    BY NoticeFacts DEF Resource
  <2> QED BY <1>1, <1>2, <2>1 DEF Acted, ActedOn, Lists
<1> QED BY <1>4, <1>5, <1>6 DEF IInv

LEMMA Stepwise == IInv /\ [Next]_vars => IInv'
<1> SUFFICES ASSUME IInv, [Next]_vars PROVE IInv'
  OBVIOUS
<1>1. CASE Next
  BY <1>1, DevicesKeeps, EntitiesKeeps, ReloadKeeps, SaveKeeps, AcknowledgeKeeps, BulkDeleteKeeps,
     ResyncKeeps, OnSuccessKeeps, OpenStreamKeeps, CloseKeeps, RaisesKeeps, ReceiveKeeps, RefetchKeeps
     DEF Next, TabStep
<1>2. CASE UNCHANGED vars
  <2>1. UNCHANGED <<queue, stream, rev, saved, shown, invalid, mutating, acted, unheard>>
    BY <1>2 DEF vars, brokerVars, tabVars
  <2>2. TypeOK'
    BY <2>1 DEF IInv, TypeOK, BrokerTypeOK, Subscribed
  <2> QED BY <2>1, <2>2, Quiet
<1> QED BY <1>1, <1>2

(* What a tab does not show yet is on its way to it, through the queue, an *)
(* invalidation or a mutation under way, or counts as unheard.             *)
THEOREM Invariance == Spec => []IInv
BY Initially, Stepwise, PTL DEF Spec

(* Every variable keeps its type, and no queue outgrows its bound. *)
THEOREM TypeCorrect == Spec => []TypeOK
<1>1. IInv => TypeOK
  BY DEF IInv
<1> QED BY <1>1, Invariance, PTL

(* A tab at rest shows every resource as the server has it, unless the     *)
(* newest notice of that resource never reached the tab.                   *)
THEOREM AlwaysShownWhenSettled == Spec => []ShownWhenSettled
<1>1. IInv => ShownWhenSettled
  <2> SUFFICES ASSUME IInv, NEW t \in Tab, Settled(t), NEW r \in Resource \ unheard[t]
               PROVE  shown[t][Main[r]][r] = rev[r]
    BY DEF ShownWhenSettled
  <2>1. OnItsWay(t, r)
    BY DEF IInv, Told
  <2>2. Range(queue[t]) = {}
    BY DEF Settled, Range
  <2> QED BY <2>1, <2>2 DEF OnItsWay, Settled
<1> QED BY <1>1, Invariance, PTL

(* A tab at rest shows what its own acknowledgements changed, in every     *)
(* list they concern.                                                      *)
THEOREM OwnAcknowledgementAlwaysShown == Spec => []OwnAcknowledgementShown
<1>1. IInv => OwnAcknowledgementShown
  BY DEF IInv, Acted, ActedOn, Lists, OwnAcknowledgementShown, Settled
<1> QED BY <1>1, Invariance, PTL
============================================================================
