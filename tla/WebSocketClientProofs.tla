----------------------- MODULE WebSocketClientProofs -----------------------
(***************************************************************************)
(* Theorems about WebSocketClient, for any requests and bounds.            *)
(***************************************************************************)
EXTENDS WebSocketClient, TLAPS

(* Whether a message is waiting to be read. *)
Waits(m) == \E i \in DOMAIN inbox : inbox[i] = m

ReplyAt(i) == i \in DOMAIN inbox /\ inbox[i].type = "reply"

(* The reply to the current step is owed, on its way, or neither. *)
OneReply ==
  /\ \A i, j \in DOMAIN inbox : ReplyAt(i) /\ ReplyAt(j) => i = j
  /\ due => \A i \in DOMAIN inbox : ~ReplyAt(i)

(* Home Assistant has subscribed the socket to what it has replied to.     *)
SubscribedSoFar ==
  InHandshake =>
    \A n \in 1..5 : (n < step \/ (n = step /\ \E i \in DOMAIN inbox : ReplyAt(i))) /\ Steps[n] \in Registry
                      => Steps[n] \in subs \/ ws # "open"

(* On an open socket that is read, or that a backoff leaves open, every    *)
(* change leads to an event. *)
Heard ==
  phase \in {"reading", "backoff"} /\ ws = "open" =>
    Registry \subseteq subs /\ \A r \in untold : Waits(Event(r))

IInv == TypeOK /\ OneReply /\ SubscribedSoFar /\ Heard

---------------------------------------------------------------------------
LEMMA StepsFacts ==
  /\ \A n \in 1..5 : Steps[n] \in {"hello", "auth", "device", "area", "entity"}
  /\ DOMAIN Steps = 1..5 /\ FinalStep = 5
  /\ \A r \in Registry : \E n \in 1..5 : Steps[n] = r
  /\ Range(Steps) = {"hello", "auth", "device", "area", "entity"}
<1>1. Steps[1] = "hello" /\ Steps[2] = "auth" /\ Steps[3] = "device" /\ Steps[4] = "area" /\ Steps[5] = "entity"
  BY DEF Steps
<1>2. DOMAIN Steps = 1..5 /\ FinalStep = 5
  BY DEF Steps, FinalStep
<1>3. \A n \in 1..5 : n = 1 \/ n = 2 \/ n = 3 \/ n = 4 \/ n = 5
  OBVIOUS
<1>4. Range(Steps) = {"hello", "auth", "device", "area", "entity"}
  BY <1>1, <1>2, <1>3 DEF Range
<1> QED BY <1>1, <1>2, <1>3, <1>4 DEF Registry

LEMMA Messages ==
  /\ \A q \in Request : Result(q) \in Message /\ Result(q).type = "result"
  /\ \A r \in Registry : Event(r) \in Message /\ Event(r).type = "event" /\ Event(r).of = r
  /\ \A n \in 1..5 : Reply(Steps[n]) \in Message /\ Reply(Steps[n]).type = "reply"
  /\ Refused \in Message /\ Refused.type = "refused"
  /\ Garbled \in Message /\ Garbled.type = "garbage"
  /\ \A m \in Message : /\ m.type = "result" => m.of \in Request
                        /\ m.type = "event" => m.of \in Registry /\ m = Event(m.of)
                        /\ m.type \in {"result", "event", "reply", "refused", "garbage"}
<1>1. \A q \in Request : Result(q) \in Message /\ Result(q).type = "result"
  BY DEF Message, Result
<1>2. \A r \in Registry : Event(r) \in Message /\ Event(r).type = "event" /\ Event(r).of = r
  BY DEF Message, Event
<1>3. \A n \in 1..5 : Reply(Steps[n]) \in Message /\ Reply(Steps[n]).type = "reply"
  <2>1. \A n \in 1..5 : Steps[n] \in Range(Steps)
    BY StepsFacts
  <2> QED BY <2>1 DEF Message, Reply
<1>4. /\ Refused \in Message /\ Refused.type = "refused"
      /\ Garbled \in Message /\ Garbled.type = "garbage"
  BY DEF Message, Refused, Garbled
<1>5. ASSUME NEW m \in Message
      PROVE  /\ m.type = "result" => m.of \in Request
             /\ m.type = "event" => m.of \in Registry /\ m = Event(m.of)
             /\ m.type \in {"result", "event", "reply", "refused", "garbage"}
  <2>1. CASE \E q \in Request : m = Result(q)
    BY <2>1 DEF Result
  <2>2. CASE \E r \in Registry : m = Event(r)
    BY <2>2 DEF Event
  <2>3. CASE \E x \in Range(Steps) : m = Reply(x)
    BY <2>3 DEF Reply
  <2>4. CASE m = Refused \/ m = Garbled
    BY <2>4 DEF Refused, Garbled
  <2> QED BY <2>1, <2>2, <2>3, <2>4 DEF Message
<1> QED BY <1>1, <1>2, <1>3, <1>4, <1>5

(* Appending and reading messages. *)
LEMMA Appended ==
  ASSUME inbox \in Seq(Message), NEW m \in Message, inbox' = Append(inbox, m)
  PROVE  /\ inbox' \in Seq(Message)
         /\ \A n : Waits(n)' <=> Waits(n) \/ n = m
         /\ \A i \in DOMAIN inbox' : ReplyAt(i)' <=> ReplyAt(i) \/ (i = Len(inbox) + 1 /\ m.type = "reply")
         /\ DOMAIN inbox' = 1..(Len(inbox) + 1) /\ DOMAIN inbox = 1..Len(inbox)
         /\ Len(inbox) \in Nat
BY DEF Waits, ReplyAt

LEMMA Popped ==
  ASSUME inbox \in Seq(Message), inbox # <<>>, inbox' = Tail(inbox)
  PROVE  /\ inbox' \in Seq(Message) /\ Head(inbox) \in Message
         /\ \A n : Waits(n) => Waits(n)' \/ n = Head(inbox)
         /\ \A i \in DOMAIN inbox' : i + 1 \in DOMAIN inbox /\ i + 1 # 1 /\ inbox'[i] = inbox[i + 1]
         /\ 1 \in DOMAIN inbox /\ inbox[1] = Head(inbox)
         /\ DOMAIN inbox' \subseteq Nat
<1>1. inbox' \in Seq(Message) /\ Head(inbox) = inbox[1] /\ Len(inbox) \in Nat \ {0}
  OBVIOUS
<1>2. Len(inbox') = Len(inbox) - 1 /\ \A i \in 1..Len(inbox') : inbox'[i] = inbox[i + 1]
  OBVIOUS
<1>3. DOMAIN inbox = 1..Len(inbox) /\ DOMAIN inbox' = 1..Len(inbox')
  BY <1>1
<1>4. ASSUME NEW n, Waits(n) PROVE Waits(n)' \/ n = Head(inbox)
  <2>1. PICK i \in 1..Len(inbox) : inbox[i] = n
    BY <1>3, <1>4 DEF Waits
  <2>2. CASE i = 1
    BY <1>1, <2>1, <2>2
  <2>3. CASE i # 1
    <3>1. i - 1 \in 1..Len(inbox') /\ inbox'[i - 1] = n
      BY <1>1, <1>2, <2>1, <2>3
    <3> QED BY <1>3, <3>1 DEF Waits
  <2> QED BY <2>2, <2>3
<1> QED BY <1>1, <1>2, <1>3, <1>4

---------------------------------------------------------------------------
LEMMA Initially == Init => IInv
<1> SUFFICES ASSUME Init PROVE IInv
  OBVIOUS
<1> USE DEF Init
<1>1. TypeOK
  <2>1. inbox \in Seq(Message)
    OBVIOUS
  <2>2. calls \in [Request -> {"new", "waiting", "done", "failed"}]
    OBVIOUS
  <2>3. due \in BOOLEAN
    OBVIOUS
  <2>4. phase \in Phase /\ step \in 1..5 /\ ws \in {"none", "open", "closed"}
    BY DEF Phase
  <2> QED BY <2>1, <2>2, <2>3, <2>4 DEF TypeOK
<1>2. OneReply /\ SubscribedSoFar /\ Heard
  BY DEF OneReply, ReplyAt, SubscribedSoFar, InHandshake, Heard
<1> QED BY <1>1, <1>2 DEF IInv

(* A step that leaves the messages, the subscriptions and the handshake as *)
(* they are keeps the invariant, if it changes nothing on an open socket.  *)
LEMMA Quiet ==
  ASSUME IInv, TypeOK',
         UNCHANGED <<step, inbox, subs, untold>>,
         ws' = ws \/ ws' = "closed",
         due' => due,
         InHandshake' => InHandshake,
         ws' = "open" /\ phase' \in {"reading", "backoff"} => phase \in {"reading", "backoff"}
  PROVE  IInv'
<1>1. OneReply'
  BY DEF IInv, OneReply, ReplyAt
<1>2. SubscribedSoFar'
  BY DEF IInv, SubscribedSoFar, ReplyAt
<1>3. Heard'
  BY DEF IInv, Heard, Waits, TypeOK
<1> QED BY <1>1, <1>2, <1>3 DEF IInv

LEMMA ChangeKeeps ==
  ASSUME IInv, NEW r \in Registry, HAChange(r) PROVE IInv'
<1> USE DEF IInv, HAChange
<1>1. Event(r) \in Message /\ Event(r).type = "event"
  BY Messages
<1>2. inbox \in Seq(Message)
  BY DEF TypeOK
<1>3. TypeOK'
  BY <1>1, <1>2, BoundsAssumption DEF TypeOK, table
<1>4. CASE ws = "open" /\ r \in subs
  <2>1. inbox' = Append(inbox, Event(r))
    BY <1>4
  <2>2. /\ \A n : Waits(n)' <=> Waits(n) \/ n = Event(r)
        /\ \A i \in DOMAIN inbox' : ReplyAt(i)' <=> ReplyAt(i)
        /\ DOMAIN inbox \subseteq DOMAIN inbox'
        /\ \A i : ReplyAt(i) => i \in DOMAIN inbox
        /\ \A i : ReplyAt(i)' => i \in DOMAIN inbox'
    BY <1>1, <1>2, <2>1, Appended DEF ReplyAt
  <2>3. OneReply'
    BY <2>2 DEF OneReply
  <2>4. SubscribedSoFar'
    BY <2>2 DEF SubscribedSoFar, InHandshake, table
  <2>5. Heard'
    BY <2>2 DEF Heard
  <2> QED BY <1>3, <2>3, <2>4, <2>5
<1>5. CASE ~(ws = "open" /\ r \in subs)
  <2>1. inbox' = inbox
    BY <1>5
  <2>2. OneReply'
    BY <2>1 DEF OneReply, ReplyAt
  <2>3. SubscribedSoFar'
    BY <2>1 DEF SubscribedSoFar, ReplyAt, InHandshake
  <2>4. Heard'
    BY <1>5 DEF Heard
  <2> QED BY <1>3, <2>2, <2>3, <2>4
<1> QED BY <1>4, <1>5

LEMMA ReplyKeeps == ASSUME IInv, HAReply PROVE IInv'
<1> USE DEF IInv, HAReply
<1>0. step \in 1..5 /\ inbox \in Seq(Message) /\ ws = "open" /\ due
  BY DEF TypeOK
<1>1. CASE /\ inbox' = Append(inbox, Reply(Steps[step]))
           /\ subs' = subs \cup ({Steps[step]} \cap Registry) /\ UNCHANGED failures
  <2>1. Reply(Steps[step]) \in Message /\ Reply(Steps[step]).type = "reply"
    BY <1>0, Messages
  <2>2. /\ inbox' \in Seq(Message)
        /\ \A n : Waits(n) => Waits(n)'
        /\ \A i \in DOMAIN inbox' : ReplyAt(i)' <=> ReplyAt(i) \/ i = Len(inbox) + 1
    BY <1>0, <1>1, <2>1, Appended
  <2>3. \A i : ~ReplyAt(i)
    BY <1>0 DEF OneReply, ReplyAt
  <2>4. TypeOK'
    BY <1>1, <2>2 DEF TypeOK, table
  <2>5. OneReply'
    BY <2>2, <2>3 DEF OneReply
  <2>6. SubscribedSoFar'
    BY <1>0, <1>1, <2>3 DEF SubscribedSoFar, InHandshake
  <2>7. Heard'
    BY <1>1, <2>2 DEF Heard
  <2> QED BY <2>4, <2>5, <2>6, <2>7
<1>2. CASE /\ failures < MaxFailures /\ failures' = failures + 1
           /\ inbox' = Append(inbox, Refused) /\ UNCHANGED subs
  <2>1. Refused \in Message /\ Refused.type = "refused"
    BY Messages
  <2>2. /\ inbox' \in Seq(Message)
        /\ \A n : Waits(n) => Waits(n)'
        /\ \A i \in DOMAIN inbox' : ReplyAt(i)' <=> ReplyAt(i)
        /\ \A i : ReplyAt(i)' => i \in DOMAIN inbox'
    BY <1>0, <1>2, <2>1, Appended DEF ReplyAt
  <2>3. \A i : ~ReplyAt(i)
    BY <1>0 DEF OneReply, ReplyAt
  <2>4. TypeOK'
    <3>1. failures' \in Nat
      BY <1>2 DEF TypeOK
    <3>2. due' \in BOOLEAN
      OBVIOUS
    <3> QED BY <1>2, <2>2, <3>1, <3>2 DEF TypeOK, table
  <2>5. OneReply'
    BY <2>2, <2>3 DEF OneReply
  <2>6. SubscribedSoFar'
    BY <1>2, <2>2, <2>3 DEF SubscribedSoFar, InHandshake
  <2>7. Heard'
    BY <1>2, <2>2 DEF Heard
  <2> QED BY <2>4, <2>5, <2>6, <2>7
<1> QED BY <1>1, <1>2

(* A message that is neither a reply nor an event, at the end of the inbox. *)
LEMMA Arrives ==
  ASSUME IInv, NEW m \in Message, m.type # "reply", inbox' = Append(inbox, m),
         UNCHANGED <<phase, step, ws, subs, due, untold>>, TypeOK'
  PROVE  IInv'
<1> USE DEF IInv
<1>0. inbox \in Seq(Message)
  BY DEF TypeOK
<1>1. /\ \A n : Waits(n) => Waits(n)'
      /\ \A i \in DOMAIN inbox' : ReplyAt(i)' <=> ReplyAt(i)
      /\ DOMAIN inbox \subseteq DOMAIN inbox'
      /\ \A i : ReplyAt(i) => i \in DOMAIN inbox
      /\ \A i : ReplyAt(i)' => i \in DOMAIN inbox'
  BY <1>0, Appended DEF ReplyAt
<1>2. OneReply'
  BY <1>1 DEF OneReply
<1>3. SubscribedSoFar'
  BY <1>1 DEF SubscribedSoFar, InHandshake
<1>4. Heard'
  BY <1>1 DEF Heard
<1> QED BY <1>2, <1>3, <1>4

LEMMA ResultKeeps ==
  ASSUME IInv, NEW q \in Request, HAResult(q) PROVE IInv'
<1>1. Result(q) \in Message /\ Result(q).type = "result"
  BY Messages
<1>2. TypeOK'
  BY <1>1 DEF IInv, HAResult, TypeOK, table, bounds
<1> QED BY <1>1, <1>2, Arrives DEF HAResult

LEMMA GarbageKeeps == ASSUME IInv, Garbage PROVE IInv'
<1>1. Garbled \in Message /\ Garbled.type = "garbage"
  BY Messages
<1>2. TypeOK'
  BY <1>1, BoundsAssumption DEF IInv, Garbage, TypeOK, table
<1> QED BY <1>1, <1>2, Arrives DEF Garbage

LEMMA DropKeeps == ASSUME IInv, Drop PROVE IInv'
<1> USE DEF IInv, Drop
<1>0. PICK n \in 0..Len(inbox) : inbox' = SubSeq(inbox, 1, n)
  OBVIOUS
<1>1. inbox \in Seq(Message) /\ Len(inbox) \in Nat
  BY DEF TypeOK
<1>2. /\ inbox' \in Seq(Message) /\ DOMAIN inbox' = 1..n /\ DOMAIN inbox = 1..Len(inbox)
      /\ \A i \in 1..n : inbox'[i] = inbox[i]
  BY <1>0, <1>1
<1>3. TypeOK'
  <2>1. failures' \in Nat
    BY DEF TypeOK
  <2>2. due' \in BOOLEAN /\ owed' \subseteq Request
    OBVIOUS
  <2> QED BY <1>2, <2>1, <2>2 DEF TypeOK, table
<1>4. \A i \in DOMAIN inbox' : ReplyAt(i)' => ReplyAt(i) /\ i \in DOMAIN inbox
  BY <1>0, <1>1, <1>2 DEF ReplyAt
<1>5. OneReply'
  BY <1>4 DEF OneReply, ReplyAt
<1>6. SubscribedSoFar' /\ Heard'
  BY DEF SubscribedSoFar, Heard
<1> QED BY <1>3, <1>5, <1>6

---------------------------------------------------------------------------
LEMMA CallKeeps ==
  ASSUME IInv, NEW q \in Request, Call(q) PROVE IInv'
<1>1. TypeOK'
  BY DEF IInv, Call, TypeOK, socket, bounds, Phase
<1>2. /\ UNCHANGED <<step, inbox, subs, untold, phase>>
      /\ ws' = ws \/ ws' = "closed"
      /\ due' => due
  BY DEF Call, socket
<1>3. InHandshake' => InHandshake
  BY <1>2 DEF InHandshake, Call
<1> QED BY <1>1, <1>2, <1>3, Quiet

LEMMA ReadEndsKeeps == ASSUME IInv, ReadEnds PROVE IInv'
<1>1. TypeOK'
  BY DEF IInv, ReadEnds, BackOff, FailPending, TypeOK, socket, bounds, Phase
<1>2. /\ UNCHANGED <<step, inbox, subs, untold, ws, due>>
      /\ ~InHandshake' /\ phase = "reading"
  BY DEF ReadEnds, BackOff, socket, InHandshake
<1> QED BY <1>1, <1>2, Quiet

LEMMA HandshakeEndsKeeps == ASSUME IInv, HandshakeEnds PROVE IInv'
<1>1. TypeOK'
  BY DEF IInv, HandshakeEnds, GiveUp, TypeOK, socket, table, bounds, Phase
<1>2. /\ UNCHANGED <<step, inbox, subs, untold, ws, due>>
      /\ ~InHandshake' /\ ws = "closed"
  BY DEF HandshakeEnds, GiveUp, socket, InHandshake
<1> QED BY <1>1, <1>2, Quiet

LEMMA StopKeeps == ASSUME IInv, Stop PROVE IInv'
<1>1. TypeOK'
  BY DEF IInv, Stop, TypeOK, table, bounds, Phase
<1>2. /\ UNCHANGED <<step, inbox, subs, untold>> /\ ws' = "closed" /\ ~due'
      /\ ~InHandshake'
  BY DEF Stop, InHandshake
<1> QED BY <1>1, <1>2, Quiet

LEMMA ConnectKeeps == ASSUME IInv, Connect PROVE IInv'
<1> USE DEF Connect
<1>1. CASE /\ phase' = IF phase = "backoff" THEN "handshaking" ELSE phase
           /\ ws' = "open" /\ inbox' = <<>> /\ subs' = {} /\ due' = TRUE /\ owed' = {}
           /\ step' = 1 /\ UNCHANGED failures
  <2>1. TypeOK'
    BY <1>1 DEF IInv, TypeOK, table, Phase
  <2>2. OneReply' /\ Heard'
    BY <1>1 DEF OneReply, ReplyAt, Heard
  <2>3. SubscribedSoFar'
    BY <1>1 DEF SubscribedSoFar, ReplyAt
  <2> QED BY <2>1, <2>2, <2>3 DEF IInv
<1>2. CASE failures < MaxFailures /\ failures' = failures + 1 /\ GiveUp /\ UNCHANGED <<step, socket>>
  <2>1. TypeOK'
    BY <1>2, BoundsAssumption DEF IInv, GiveUp, TypeOK, socket, table, Phase
  <2>2. /\ UNCHANGED <<step, inbox, subs, untold, ws, due>>
        /\ ~InHandshake' /\ (phase' = "reading" => phase = "backoff")
        /\ phase' \in {"reading", "failed"}
    BY <1>2 DEF GiveUp, socket, InHandshake
  <2> QED BY <2>1, <2>2, Quiet
<1> QED BY <1>1, <1>2

---------------------------------------------------------------------------
(* What reading a message leaves of the inbox. *)
LEMMA RepliesLeft ==
  ASSUME inbox \in Seq(Message), inbox # <<>>, inbox' = Tail(inbox), OneReply
  PROVE  /\ \A i, j \in DOMAIN inbox' : ReplyAt(i)' /\ ReplyAt(j)' => i = j
         /\ (due \/ Head(inbox).type = "reply") => \A i \in DOMAIN inbox' : ~ReplyAt(i)'
         /\ Head(inbox).type # "reply" => \A i \in DOMAIN inbox' : ReplyAt(i)' => ReplyAt(i + 1) /\ i + 1 \in DOMAIN inbox
<1>1. /\ \A i \in DOMAIN inbox' : i + 1 \in DOMAIN inbox /\ i + 1 # 1 /\ inbox'[i] = inbox[i + 1]
      /\ 1 \in DOMAIN inbox /\ inbox[1] = Head(inbox) /\ DOMAIN inbox' \subseteq Nat
  BY Popped
<1>2. \A i \in DOMAIN inbox' : ReplyAt(i)' => ReplyAt(i + 1) /\ i + 1 \in DOMAIN inbox
  BY <1>1 DEF ReplyAt
<1>3. ASSUME NEW i \in DOMAIN inbox', NEW j \in DOMAIN inbox', ReplyAt(i)', ReplyAt(j)'
      PROVE i = j
  <2>1. i + 1 = j + 1
    BY <1>1, <1>2, <1>3 DEF OneReply
  <2> QED BY <1>1, <2>1
<1>4. ASSUME due \/ Head(inbox).type = "reply", NEW i \in DOMAIN inbox' PROVE ~ReplyAt(i)'
  BY <1>1, <1>2, <1>4 DEF OneReply, ReplyAt
<1> QED BY <1>2, <1>3, <1>4

LEMMA ReadKeeps == ASSUME IInv, Read PROVE IInv'
<1> DEFINE m == Head(inbox)
<1>0. /\ inbox \in Seq(Message) /\ inbox # <<>> /\ inbox' = Tail(inbox) /\ phase = "reading"
      /\ UNCHANGED <<ws, subs, due, owed, bounds, step>> /\ phase' \in {"reading", "backoff"}
  BY DEF IInv, TypeOK, Read, ReadResult, ReadEvent, BackOff
<1>1. inbox' \in Seq(Message) /\ m \in Message
  BY <1>0, Popped
<1>2. TypeOK'
  <2>1. /\ m.type = "result" => m.of \in Request
        /\ m.type = "event" => m.of \in Registry
    BY <1>1, Messages
  <2>2. CASE m.type = "result" /\ ReadResult(m.of)
    BY <1>0, <1>1, <2>1, <2>2 DEF IInv, TypeOK, ReadResult, bounds
  <2>3. CASE m.type = "event" /\ ReadEvent(m.of)
    BY <1>0, <1>1, <2>1, <2>3 DEF IInv, TypeOK, ReadEvent, table, bounds
  <2>4. CASE m.type = "garbage" /\ BackOff /\ UNCHANGED untold
    BY <1>0, <1>1, <2>4 DEF IInv, TypeOK, BackOff, FailPending, bounds, Phase
  <2>5. CASE m.type \in {"reply", "refused"} /\ UNCHANGED <<phase, step, table, untold>>
    BY <1>0, <1>1, <2>5 DEF IInv, TypeOK, table, bounds
  <2> QED BY <2>2, <2>3, <2>4, <2>5 DEF Read
<1>3. OneReply'
  BY <1>0, RepliesLeft DEF IInv, OneReply
<1>4. SubscribedSoFar'
  BY <1>0 DEF SubscribedSoFar, InHandshake
<1>5. Heard'
  <2> SUFFICES ASSUME ws = "open"
               PROVE  Registry \subseteq subs /\ \A r \in untold' : Waits(Event(r))'
    BY <1>0 DEF Heard
  <2>1. Registry \subseteq subs /\ \A r \in untold : Waits(Event(r))
    BY <1>0 DEF IInv, Heard
  <2>2. untold' = IF m.type = "event" THEN untold \ {m.of} ELSE untold
    BY <1>0, <1>1, Messages DEF Read, ReadResult, ReadEvent
  <2>3. ASSUME NEW r \in untold' PROVE Waits(Event(r))'
    <3>1. r \in untold /\ r \in Registry /\ Waits(Event(r))
      BY <2>1, <2>2, <2>3 DEF IInv, TypeOK
    <3>2. Event(r) # m
      BY <2>2, <2>3, <3>1, Messages
    <3> QED BY <1>0, <3>1, <3>2, Popped
  <2> QED BY <2>1, <2>3
<1> QED BY <1>2, <1>3, <1>4, <1>5 DEF IInv

LEMMA HandshakeReadsKeeps == ASSUME IInv, HandshakeReads PROVE IInv'
<1> DEFINE m == Head(inbox)
<1>0. /\ inbox \in Seq(Message) /\ inbox # <<>> /\ inbox' = Tail(inbox) /\ InHandshake
      /\ UNCHANGED <<subs, table, bounds>> /\ step \in 1..5
  BY DEF IInv, TypeOK, HandshakeReads
<1>1. inbox' \in Seq(Message) /\ m \in Message
  BY <1>0, Popped
<1>2. CASE m.type = "reply" /\ Proceed /\ UNCHANGED owed
  <2>1. /\ inbox[1] = m /\ 1 \in DOMAIN inbox /\ ReplyAt(1)
        /\ \A i : ~ReplyAt(i)'
    BY <1>0, <1>2, Popped, RepliesLeft DEF IInv, ReplyAt
  <2>2. OneReply'
    BY <2>1 DEF OneReply
  <2>3. \A n \in 1..step : Steps[n] \in Registry => Steps[n] \in subs \/ ws # "open"
    BY <1>0, <2>1 DEF IInv, SubscribedSoFar
  <2>4. CASE step = FinalStep /\ Ready /\ UNCHANGED ws
    <3>1. TypeOK'
      BY <1>0, <1>1, <1>2, <2>4 DEF IInv, TypeOK, Ready, table, bounds, Phase
    <3>2. SubscribedSoFar'
      BY <2>4 DEF SubscribedSoFar, Ready, InHandshake
    <3>3. Heard'
      BY <1>0, <2>3, <2>4, StepsFacts DEF Heard, Ready
    <3> QED BY <2>2, <3>1, <3>2, <3>3 DEF IInv
  <2>5. CASE /\ step < FinalStep /\ ws = "open" /\ step' = step + 1 /\ due' = TRUE
             /\ UNCHANGED <<phase, ws, untold>>
    <3>1. TypeOK'
      BY <1>0, <1>1, <1>2, <2>5, StepsFacts DEF IInv, TypeOK, table, bounds
    <3>2. SubscribedSoFar'
      BY <1>0, <2>1, <2>3, <2>5 DEF SubscribedSoFar
    <3>3. Heard'
      BY <1>0, <2>5 DEF Heard, InHandshake
    <3> QED BY <2>2, <3>1, <3>2, <3>3 DEF IInv
  <2>6. CASE step < FinalStep /\ ws = "closed" /\ GiveUp /\ UNCHANGED <<step, due, ws, untold>>
    <3>1. TypeOK'
      BY <1>0, <1>1, <1>2, <2>6 DEF IInv, TypeOK, GiveUp, table, bounds, Phase
    <3>2. SubscribedSoFar' /\ Heard'
      BY <2>6 DEF SubscribedSoFar, Heard
    <3> QED BY <2>2, <3>1, <3>2 DEF IInv
  <2> QED BY <1>2, <2>4, <2>5, <2>6 DEF Proceed
<1>3. CASE m.type \in {"result", "event"} /\ UNCHANGED <<phase, step, ws, due, owed, untold>>
  <2>1. TypeOK'
    BY <1>0, <1>1, <1>3 DEF IInv, TypeOK, table, bounds
  <2>2. OneReply'
    BY <1>0, <1>3, RepliesLeft DEF IInv, OneReply
  <2>3. SubscribedSoFar'
    BY <1>0, <1>3, RepliesLeft DEF IInv, SubscribedSoFar
  <2>4. Heard'
    BY <1>0, <1>3 DEF Heard, InHandshake
  <2> QED BY <2>1, <2>2, <2>3, <2>4 DEF IInv
<1>4. CASE /\ m.type = "refused" /\ GiveUp
           /\ ws' = "closed" /\ due' = FALSE /\ owed' = {} /\ UNCHANGED <<step, untold>>
  <2>1. TypeOK'
    BY <1>0, <1>1, <1>4 DEF IInv, TypeOK, GiveUp, table, bounds, Phase
  <2>2. OneReply'
    BY <1>0, <1>4, RepliesLeft DEF IInv, OneReply
  <2>3. SubscribedSoFar' /\ Heard'
    BY <1>4 DEF SubscribedSoFar, Heard
  <2> QED BY <2>1, <2>2, <2>3 DEF IInv
<1> QED BY <1>2, <1>3, <1>4 DEF HandshakeReads

---------------------------------------------------------------------------
LEMMA Stepwise == IInv /\ [Next]_vars => IInv'
<1> SUFFICES ASSUME IInv, [Next]_vars PROVE IInv'
  OBVIOUS
<1>1. CASE Next
  BY <1>1, ChangeKeeps, ReplyKeeps, ResultKeeps, GarbageKeeps, DropKeeps, CallKeeps, ReadKeeps,
     ReadEndsKeeps, ConnectKeeps, HandshakeReadsKeeps, HandshakeEndsKeeps, StopKeeps DEF Next
<1>2. CASE UNCHANGED vars
  <2>1. UNCHANGED <<phase, step, ws, inbox, subs, due, owed, calls, pending, early, untold, changes, failures, garbage>>
    BY <1>2 DEF vars, socket, table, bounds
  <2>2. TypeOK' /\ (InHandshake' <=> InHandshake)
    BY <2>1 DEF IInv, TypeOK, InHandshake
  <2> QED BY <2>1, <2>2, Quiet
<1> QED BY <1>1, <1>2

(* What the client keeps true at every await, in the handshake as in the   *)
(* read loop: the strengthening under which the theorems below hold.       *)
THEOREM Invariance == Spec => []IInv
BY Initially, Stepwise, PTL DEF Spec

(* Every variable keeps its type. *)
THEOREM TypeCorrect == Spec => []TypeOK
<1>1. IInv => TypeOK
  BY DEF IInv
<1> QED BY <1>1, Invariance, PTL

(* While an open socket is read, a registry changed since its subscribers  *)
(* were last told has an event to be read: connections, failed ones        *)
(* included, and handshakes lose no change for good.                       *)
THEOREM NothingEverMissed == Spec => []NothingMissed
<1>1. IInv => NothingMissed
  <2> SUFFICES ASSUME IInv, phase = "reading", ws = "open", NEW r \in untold
               PROVE  Contains(inbox, Event(r))
    BY DEF NothingMissed
  <2>1. Waits(Event(r)) /\ inbox \in Seq(Message)
    BY DEF IInv, Heard, TypeOK
  <2>2. \E i \in 1..Len(inbox) : inbox[i] = Event(r)
    BY <2>1 DEF Waits
  <2> QED BY <2>2 DEF Contains
<1> QED BY <1>1, Invariance, PTL
============================================================================
