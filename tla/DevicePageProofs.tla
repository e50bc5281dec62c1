------------------------- MODULE DevicePageProofs -------------------------
(***************************************************************************)
(* Theorems about BulkActions and DevicePage, for any home, patterns and   *)
(* bounds.                                                                 *)
(***************************************************************************)
EXTENDS DevicePage, FiniteSetTheorems, SequenceTheorems, TLAPS

JobFields == {"op", "ids", "arg", "dry", "from", "results", "sent", "todo"}

ResultsOK(results) == \E S : results \in Seq(S) /\ \A o \in S : o.ok \in BOOLEAN

DialogFields == {"op", "ids", "about", "back", "mount", "waits", "found"}

(* What a dialog holds; a save and the end of a drawer take its place.     *)
DialogOK(dialog) ==
  /\ DOMAIN dialog = DialogFields
  /\ dialog.op \in {"delete", "delete in drawer", "save", "rename", "assign", "rename pattern", "discard"}
  /\ dialog.op = "rename pattern" => dialog.about \in Subs
  /\ dialog.ids \in Seq(Device) /\ IsInjective(dialog.ids)
  /\ dialog.back \in Filter

(* A request changes no config entries, and moves an item only to the id   *)
(* of an entity. *)
ChangesOK(changes) ==
  /\ DOMAIN changes \subseteq {"id", "name", "area", "off"}
  /\ "id" \in DOMAIN changes => changes.id \in EntityId
  /\ "name" \in DOMAIN changes => changes.name \in Name
  /\ "area" \in DOMAIN changes => changes.area \in Area \cup {None}
  /\ "off" \in DOMAIN changes => changes.off \in BOOLEAN

JobUnderWay ==
  /\ DOMAIN job = JobFields
  /\ job.op \in {"delete", "update", "rename"}
  /\ job.op = "update" => ChangesOK(job.arg)
  /\ job.op = "rename" => job.arg \in Subs
  /\ job.ids \in Seq(Item) /\ job.ids # << >> /\ IsInjective(job.ids)
  /\ job.dry \in BOOLEAN /\ (job.dry => job.op = "rename")
  /\ job.from # None => DialogOK(job.from) /\ job.from.op # "discard"
  /\ ResultsOK(job.results) /\ Len(job.results) <= Len(job.ids)

JobOK == job = Idle \/ JobUnderWay

---------------------------------------------------------------------------
(***************************************************************************)
(* The abstract batch.                                                     *)
(***************************************************************************)

(* The outcomes of a batch are the successes among the results. *)
Oks(results) == [n \in DOMAIN results |-> results[n].ok]

(* What appending does to a list of outcomes.                              *)
LEMMA Appends ==
  ASSUME NEW results, ResultsOK(results), NEW o, o.ok \in BOOLEAN
  PROVE  /\ ResultsOK(Append(results, o))
         /\ Len(Append(results, o)) = Len(results) + 1 /\ Len(results) \in Nat
         /\ Append(results, o)[Len(results) + 1] = o
         /\ Oks(Append(results, o)) = Append(Oks(results), o.ok)
         /\ Len(Oks(results)) = Len(results)
<1>1. PICK S : results \in Seq(S) /\ \A x \in S : x.ok \in BOOLEAN
  BY DEF ResultsOK
<1> DEFINE T == S \cup {o}
           more == Append(results, o)
<1>2. results \in Seq(T) /\ Len(results) \in Nat /\ DOMAIN results = 1..Len(results)
  BY <1>1
<1>3. /\ more \in Seq(T) /\ Len(more) = Len(results) + 1 /\ DOMAIN more = 1..Len(results) + 1
      /\ more[Len(results) + 1] = o
      /\ \A n \in 1..Len(results) : more[n] = results[n]
  BY <1>2
<1>4. \A x \in T : x.ok \in BOOLEAN
  BY <1>1
<1>5. ResultsOK(more)
  BY <1>3, <1>4 DEF ResultsOK
<1>6. Oks(results) \in Seq(BOOLEAN) /\ Len(Oks(results)) = Len(results)
  BY <1>2, <1>4 DEF Oks
<1>7. Oks(more) \in Seq(BOOLEAN) /\ Len(Oks(more)) = Len(results) + 1
  BY <1>2, <1>3, <1>4 DEF Oks
<1>8. /\ Append(Oks(results), o.ok) \in Seq(BOOLEAN)
      /\ Len(Append(Oks(results), o.ok)) = Len(results) + 1
      /\ Append(Oks(results), o.ok)[Len(results) + 1] = o.ok
      /\ \A n \in 1..Len(results) : Append(Oks(results), o.ok)[n] = results[n].ok
  BY <1>2, <1>6 DEF Oks
<1>9. \A n \in 1..Len(results) + 1 : Oks(more)[n] = Append(Oks(results), o.ok)[n]
  BY <1>2, <1>3, <1>8 DEF Oks
<1>10. Oks(more) = Append(Oks(results), o.ok)
  BY <1>7, <1>8, <1>9, SeqEqual
<1> QED BY <1>2, <1>3, <1>5, <1>6, <1>10

(* A step that settles an item, and one that does not. *)
LEMMA SettleStep ==
  ASSUME JobUnderWay, Len(job.results) < Len(job.ids), NEW o, o.ok \in BOOLEAN,
         DOMAIN job' = JobFields, job'.op = job.op, job'.arg = job.arg, job'.ids = job.ids,
         job'.dry = job.dry, job'.from = job.from, job'.results = Append(job.results, o)
  PROVE  JobUnderWay' /\ Promise!Settle
<1>1. /\ ResultsOK(job'.results) /\ Len(job'.results) = Len(job.results) + 1
      /\ Len(job.results) \in Nat
      /\ Oks(job'.results) = Append(Oks(job.results), o.ok)
      /\ Len(Oks(job.results)) = Len(job.results)
  BY Appends DEF JobUnderWay
<1>2. JobUnderWay'
  <2>1. Len(job'.results) <= Len(job'.ids)
    <3>1. Len(job.ids) \in Nat
      BY DEF JobUnderWay
    <3> QED BY <1>1, <3>1
  <2> QED BY <1>1, <2>1 DEF JobUnderWay
<1>3. Promise!Settle
  BY <1>1 DEF Promise!Settle, Oks
<1> QED BY <1>2, <1>3

LEMMA SendStep ==
  ASSUME JobUnderWay,
         DOMAIN job' = JobFields, job'.op = job.op, job'.arg = job.arg, job'.ids = job.ids,
         job'.dry = job.dry, job'.from = job.from, job'.results = job.results
  PROVE  JobUnderWay' /\ UNCHANGED Promise!vars
BY DEF JobUnderWay, Promise!vars

---------------------------------------------------------------------------
(***************************************************************************)
(* The server and Home Assistant.                                          *)
(***************************************************************************)

Record == DeviceRecord \cup EntityRecord

(* Home Assistant's registries. *)
Home ==
  /\ DOMAIN ha = Item
  /\ \A i \in Item : ha[i] # None => ha[i] \in Record
  /\ \A d \in Device : ha[d] # None => "entries" \in DOMAIN ha[d] /\ ha[d].entries \subseteq Entry

Known == [uid : Item, name : Name, area : Area \cup {None}]

(* The caches: what was in the registries once. *)
CacheOK == \A i \in Item : cache[i] # None => cache[i] \in Known

(* What Home Assistant keeps is a record, before and after an update.      *)
LEMMA RecordFacts ==
  /\ \A r \in Record : /\ r # None /\ {"uid", "name", "area"} \subseteq DOMAIN r
                       /\ r.uid \in Item /\ r.name \in Name /\ r.area \in Area \cup {None}
  /\ \A r \in Record, entries \in SUBSET Entry :
       "entries" \in DOMAIN r => [r EXCEPT !.entries = entries] \in Record
  /\ \A r \in Record : \A changes : ChangesOK(changes) =>
       [f \in DOMAIN r |-> IF f \in DOMAIN changes THEN changes[f] ELSE r[f]] \in Record
<1>1. \A r \in Record : r # None
  BY ItemsAssumption DEF Record
<1>2. \A r \in Record : /\ {"uid", "name", "area"} \subseteq DOMAIN r
                        /\ r.uid \in Item /\ r.name \in Name /\ r.area \in Area \cup {None}
  BY DEF Record, DeviceRecord, EntityRecord
<1>3. ASSUME NEW r \in Record, NEW entries \in SUBSET Entry, "entries" \in DOMAIN r
      PROVE  [r EXCEPT !.entries = entries] \in Record
  BY <1>3 DEF Record, DeviceRecord, EntityRecord
<1>4. ASSUME NEW r \in Record, NEW changes, ChangesOK(changes)
      PROVE  [f \in DOMAIN r |-> IF f \in DOMAIN changes THEN changes[f] ELSE r[f]] \in Record
  <2>1. CASE r \in DeviceRecord
    BY <1>4, <2>1 DEF Record, DeviceRecord, ChangesOK
  <2>2. CASE r \in EntityRecord
    BY <1>4, <2>2 DEF Record, EntityRecord, ChangesOK
  <2> QED BY <2>1, <2>2 DEF Record
<1> QED BY <1>1, <1>2, <1>3, <1>4

Later(d) == {c \in Entry : <<d, c>> \in linked}

(* A device being deleted has no entry left but those still to be reached  *)
(* and those linked since they were listed.                                *)
Reached ==
  Working /\ NextId \in Device /\ ha[NextId] # None =>
    ha[NextId].entries \subseteq job.todo \cup Later(NextId)

SentOK ==
  job # Idle /\ job.sent # None =>
    /\ job.sent.call = "update" => ChangesOK(job.sent.changes)
    /\ job.sent.call \in {"list", "unlink"} /\ Working => NextId \in Device
    /\ job.sent.call = "unlink" => Reached

(* Settling an item adds its outcome and leaves the rest of the request.   *)
LEMMA SettledFields ==
  ASSUME JobUnderWay, NEW o
  PROVE  LET j == Settled(o) IN
         /\ DOMAIN j = JobFields /\ j.op = job.op /\ j.arg = job.arg /\ j.ids = job.ids
         /\ j.dry = job.dry /\ j.from = job.from /\ j.results = Append(job.results, o)
         /\ j.sent = None /\ j.todo = job.todo
BY DEF Settled, JobUnderWay, JobFields

(* The item a request is at is one of those it was asked for.              *)
LEMMA NextIdItem == ASSUME JobUnderWay, Working PROVE NextId \in Item
<1>1. Len(job.results) \in Nat /\ Len(job.ids) \in Nat /\ job.ids \in Seq(Item)
  BY DEF JobUnderWay, ResultsOK
<1> QED BY <1>1 DEF Working, NextId

(* An answer that settles the item asked for. *)
LEMMA Settles ==
  ASSUME JobUnderWay, Working, NEW ok \in BOOLEAN, NEW changes,
         job' = Settled(Outcome(ok, changes))
                \/ job' = [Settled(Outcome(ok, changes)) EXCEPT !.todo = {}]
  PROVE  /\ JobUnderWay' /\ Promise!Settle /\ SentOK'
         /\ job'.results = Append(job.results, Outcome(ok, changes))
<1> DEFINE o == Outcome(ok, changes)
<1>1. o.ok = ok
  BY DEF Outcome
<1> HIDE DEF o
<1>2. /\ DOMAIN job' = JobFields /\ job'.op = job.op /\ job'.arg = job.arg /\ job'.ids = job.ids
      /\ job'.dry = job.dry /\ job'.from = job.from /\ job'.results = Append(job.results, o)
      /\ job'.sent = None
  BY SettledFields DEF o, JobFields
<1>3. JobUnderWay' /\ Promise!Settle
  BY <1>1, <1>2, SettleStep DEF Working
<1> QED BY <1>2, <1>3 DEF SentOK, o

(* A request that waits for a call has settled nothing yet.                *)
LEMMA Sends ==
  ASSUME JobUnderWay, NEW sent, NEW todo, job' = [job EXCEPT !.todo = todo, !.sent = sent]
  PROVE  /\ JobUnderWay' /\ UNCHANGED Promise!vars
         /\ job'.sent = sent /\ job'.todo = todo /\ job'.results = job.results /\ job'.ids = job.ids
<1>1. /\ DOMAIN job' = JobFields /\ job'.op = job.op /\ job'.arg = job.arg /\ job'.ids = job.ids
      /\ job'.dry = job.dry /\ job'.from = job.from /\ job'.results = job.results
      /\ job'.sent = sent /\ job'.todo = todo
  BY DEF JobUnderWay, JobFields
<1> QED BY <1>1, SendStep

(* What the steps of the server have in common. *)
Served == JobUnderWay' /\ SentOK' /\ Home' /\ (Promise!Settle \/ UNCHANGED Promise!vars)

(* What is asked of Home Assistant fits the item.                          *)
LEMMA RequestFacts ==
  ASSUME JobUnderWay, CacheOK, Working, ~Unknown
  PROVE  /\ Request.call # "unlink" /\ (Request.call = "list" => NextId \in Device)
         /\ Request.call = "update" => ChangesOK(Request.changes)
<1>1. CASE job.op = "delete"
  BY <1>1 DEF Request
<1>2. CASE job.op = "update"
  BY <1>2 DEF Request, JobUnderWay
<1>3. CASE job.op = "rename"
  <2>1. Request = [call |-> "update", changes |-> Proposed(NextId, job.arg)]
    BY <1>3 DEF Request
  <2>2. /\ DOMAIN Proposed(NextId, job.arg) \subseteq {"id", "name"}
        /\ "id" \in DOMAIN Proposed(NextId, job.arg) =>
             /\ NextId \notin Device
             /\ Proposed(NextId, job.arg).id = job.arg.id[NextId]
        /\ "name" \in DOMAIN Proposed(NextId, job.arg) =>
             Proposed(NextId, job.arg).name = job.arg.name[cache[NextId].name]
    BY DEF Proposed
  <2>3. NextId \notin Device => job.arg.id[NextId] \in EntityId
    BY <1>3, NextIdItem, ItemsAssumption DEF JobUnderWay, Item
  <2>4. job.arg.name[cache[NextId].name] \in Name
    <3>1. cache[NextId] \in Known /\ job.arg \in Subs
      BY <1>3, NextIdItem DEF Unknown, CacheOK, JobUnderWay
    <3>2. cache[NextId].name \in Name /\ job.arg.name \in [Name -> Name]
      BY <3>1, ItemsAssumption DEF Known
    <3> QED BY <3>2
  <2> QED BY <2>1, <2>2, <2>3, <2>4 DEF ChangesOK
<1> QED BY <1>1, <1>2, <1>3 DEF JobUnderWay

(* A request that is worked off has all its fields.                        *)
LEMMA UnderWay == ASSUME JobOK, Working PROVE JobUnderWay
BY DEF JobOK, Working

LEMMA AttemptServed == ASSUME JobOK, SentOK, Home, CacheOK, Attempt PROVE Served
<1>1. JobUnderWay /\ Working /\ Home'
  BY UnderWay DEF Attempt, Home
<1>2. ASSUME NEW outcome \in Decided, job' = Settled(outcome) PROVE Served
  <2>1. \E ok \in BOOLEAN : \E changes : outcome = Outcome(ok, changes)
    <3>1. CASE Unknown
      BY <1>2, <3>1 DEF Decided
    <3>2. CASE ~Unknown
      <4> DEFINE changes == Proposed(NextId, job.arg)
      <4>1. \/ outcome = Outcome(NextId \in EntityId, changes)
            \/ outcome = Outcome(TRUE, changes)
        BY <1>2, <3>2 DEF Decided
      <4>2. (NextId \in EntityId) \in BOOLEAN
        OBVIOUS
      <4> QED BY <4>1, <4>2
    <3> QED BY <3>1, <3>2
  <2> QED BY <1>1, <1>2, <2>1, Settles DEF Served
<1>3. CASE Decided = {} /\ job' = [job EXCEPT !.sent = Request]
  <2>0. ~Unknown
    BY <1>3 DEF Decided
  <2>1. /\ DOMAIN job' = JobFields /\ job'.op = job.op /\ job'.arg = job.arg /\ job'.ids = job.ids
        /\ job'.dry = job.dry /\ job'.from = job.from /\ job'.results = job.results
        /\ job'.sent = Request
    BY <1>1, <1>3 DEF JobUnderWay, JobFields
  <2>2. JobUnderWay' /\ UNCHANGED Promise!vars
    BY <1>1, <2>1, SendStep
  <2>3. NextId' = NextId
    BY <2>1 DEF NextId
  <2>4. SentOK'
    BY <1>1, <2>0, <2>1, <2>3, RequestFacts DEF SentOK
  <2> QED BY <1>1, <2>2, <2>4 DEF Served
<1> QED BY <1>2, <1>3 DEF Attempt

LEMMA RefusedServed == ASSUME JobOK, Home, Refused PROVE Served /\ Promise!Settle
<1>1. JobUnderWay /\ Working /\ Home'
  BY UnderWay DEF Refused, Home
<1> QED BY <1>1, Settles DEF Refused, Served

LEMMA ListedServed == ASSUME JobOK, SentOK, Home, Listed PROVE Served
<1>1. JobUnderWay /\ Working /\ Home' /\ NextId \in Device
  BY UnderWay DEF Listed, Waiting, Home, SentOK, Working
<1>2. CASE job' = Settled(Outcome(FALSE, << >>))
  BY <1>1, <1>2, Settles DEF Served
<1>3. ASSUME NEW call \in Unlink(ha[NextId].entries),
             job' = [job EXCEPT !.todo = ha[NextId].entries, !.sent = call]
      PROVE  Served
  <2>1. /\ JobUnderWay' /\ UNCHANGED Promise!vars /\ job'.sent = call
        /\ job'.todo = ha[NextId].entries /\ job'.results = job.results /\ job'.ids = job.ids
    BY <1>1, <1>3, Sends
  <2>2. call.call = "unlink"
    BY DEF Unlink
  <2>3. NextId' = NextId /\ ha' = ha
    BY <2>1 DEF NextId, Listed
  <2>4. SentOK'
    BY <1>1, <2>1, <2>2, <2>3 DEF SentOK, Reached
  <2> QED BY <1>1, <2>1, <2>4 DEF Served
<1> QED BY <1>2, <1>3 DEF Listed

(* Linking and updating keep the registries what they are. *)
LEMMA LinkedFacts ==
  ASSUME Home, NEW d \in Device, ha[d] # None, NEW entries \in SUBSET Entry,
         ha' = Linked(ha, d, entries)
  PROVE  /\ Home'
         /\ \A e \in Device \ {d} : ha'[e] = ha[e]
         /\ ha'[d] # None => ha'[d].entries = entries
<1>1. d \in Item /\ DOMAIN ha = Item /\ "entries" \in DOMAIN ha[d]
  BY DEF Home, Item
<1>2. CASE entries = {}
  BY <1>1, <1>2 DEF Linked, Home
<1>3. CASE entries # {}
  <2> DEFINE new == [ha[d] EXCEPT !.entries = entries]
  <2>1. ha' = [ha EXCEPT ![d] = new]
    BY <1>3 DEF Linked
  <2>2. new \in Record /\ "entries" \in DOMAIN new /\ new.entries = entries
    BY <1>1, RecordFacts DEF Home
  <2> HIDE DEF new
  <2> QED BY <1>1, <2>1, <2>2 DEF Home
<1> QED BY <1>2, <1>3

(* An update changes the item, or moves it to an id that was free.         *)
LEMMA UpdatedFacts ==
  ASSUME Home, NEW i \in Item, ha[i] # None, NEW changes, ChangesOK(changes),
         ha' = Updated(ha, i, changes)
  PROVE  /\ Home'
         /\ \A d \in Device : ha'[d] # None => ha[d] # None /\ ha'[d].entries = ha[d].entries
<1> DEFINE new == [f \in DOMAIN ha[i] |-> IF f \in DOMAIN changes THEN changes[f] ELSE ha[i][f]]
           to  == IF "id" \in DOMAIN changes THEN changes.id ELSE i
<1>1. ha' = [ha EXCEPT ![i] = None, ![to] = new]
  BY DEF Updated
<1>2. "entries" \in DOMAIN ha[i] => "entries" \in DOMAIN new /\ new.entries = ha[i].entries
  BY DEF ChangesOK
<1>3. to \in EntityId \/ to = i
  BY DEF ChangesOK
<1>3a. new \in Record
  BY RecordFacts DEF Home
<1> HIDE DEF new, to
<1>4. DOMAIN ha' = Item /\ \A j \in Item : ha'[j] # None => ha'[j] \in Record
  BY <1>1, <1>3a DEF Home
<1>5. ASSUME NEW d \in Device, ha'[d] # None
      PROVE  /\ ha[d] # None /\ ha'[d].entries = ha[d].entries
             /\ "entries" \in DOMAIN ha'[d] /\ ha'[d].entries \subseteq Entry
  <2>1. d \in Item /\ d \notin EntityId /\ DOMAIN ha = Item
    BY ItemsAssumption DEF Home, Item
  <2>2. CASE d = i
    <3>1. to = i /\ ha'[d] = new
      BY <1>1, <1>3, <1>5, <2>1, <2>2
    <3>2. "entries" \in DOMAIN ha[i] /\ ha[i].entries \subseteq Entry
      BY <2>2 DEF Home
    <3> QED BY <1>2, <2>2, <3>1, <3>2
  <2>3. CASE d # i
    <3>1. ha'[d] = ha[d]
      BY <1>1, <1>3, <2>1, <2>3
    <3> QED BY <1>5, <3>1 DEF Home
  <2> QED BY <2>2, <2>3
<1> QED BY <1>4, <1>5 DEF Home

LEMMA UnlinkedServed == ASSUME JobOK, SentOK, Home, Unlinked PROVE Served
<1>1. /\ JobUnderWay /\ Working /\ ha[NextId] # None /\ job.sent # None /\ job.sent.call = "unlink"
      /\ NextId \in Device
  BY UnderWay DEF Unlinked, Waiting, SentOK, Working
<1> DEFINE left == job.todo \ {job.sent.entry}
           entries == ha[NextId].entries \ {job.sent.entry}
<1>2. /\ Home' /\ (ha'[NextId] # None => ha'[NextId].entries = entries)
  <2>1. entries \in SUBSET Entry /\ ha' = Linked(ha, NextId, entries)
    BY <1>1 DEF Home, Unlinked
  <2> QED BY <1>1, <2>1, LinkedFacts
<1>3. ha[NextId].entries \subseteq job.todo \cup Later(NextId)
  BY <1>1 DEF SentOK, Reached, Working
<1>4. CASE job' = [Settled(Outcome(TRUE, << >>)) EXCEPT !.todo = {}]
  BY <1>1, <1>2, <1>4, Settles DEF Served
<1>5. ASSUME NEW call \in Unlink(left), job' = [job EXCEPT !.todo = left, !.sent = call]
      PROVE  Served
  <2>1. /\ JobUnderWay' /\ UNCHANGED Promise!vars /\ job'.sent = call
        /\ job'.todo = left /\ job'.results = job.results /\ job'.ids = job.ids
    BY <1>1, <1>5, Sends
  <2>2. call.call = "unlink"
    BY DEF Unlink
  <2>3. NextId' = NextId /\ linked' = linked
    BY <2>1 DEF NextId, Unlinked
  <2>4. Later(NextId)' = Later(NextId)
    BY <2>3 DEF Later
  <2>5. entries \subseteq left \cup Later(NextId)
    BY <1>3
  <2>6. SentOK'
    BY <1>1, <1>2, <2>1, <2>2, <2>3, <2>4, <2>5 DEF SentOK, Reached
  <2> QED BY <1>2, <2>1, <2>6 DEF Served
<1> QED BY <1>4, <1>5 DEF Unlinked

LEMMA RemovedServed == ASSUME JobOK, Home, Removed PROVE Served
<1>1. JobUnderWay /\ Working
  BY UnderWay DEF Removed, Waiting
<1>2. Home'
  BY DEF Removed, Home
<1> QED BY <1>1, <1>2, Settles DEF Removed, Served

LEMMA ChangedServed == ASSUME JobOK, SentOK, Home, Changed PROVE Served
<1>1. JobUnderWay /\ Working /\ NextId \in Item /\ ha[NextId] # None
      /\ ChangesOK(job.sent.changes)
  BY UnderWay, NextIdItem DEF Changed, Waiting, SentOK, Working
<1>2. /\ ha' = Updated(ha, NextId, job.sent.changes)
      /\ job' = Settled(Outcome(TRUE, job.sent.changes))
  BY DEF Changed
<1>3. Home'
  BY <1>1, <1>2, UpdatedFacts
<1> QED BY <1>1, <1>2, <1>3, Settles DEF Served

(* What Home Assistant does before its answer is lost keeps the registries. *)
LEMMA ReplyLostServed == ASSUME JobOK, SentOK, Home, ReplyLost PROVE Served
<1>1. /\ JobUnderWay /\ Working /\ NextId \in Item /\ ha[NextId] # None /\ job.sent # None
      /\ job' = Settled(Outcome(FALSE, << >>))
  BY UnderWay, NextIdItem DEF ReplyLost
<1>2. Home'
  <2>1. CASE /\ job.sent.call = "unlink"
             /\ ha' = Linked(ha, NextId, ha[NextId].entries \ {job.sent.entry})
    <3> DEFINE entries == ha[NextId].entries \ {job.sent.entry}
    <3>1. NextId \in Device
      BY <1>1, <2>1 DEF SentOK, Working
    <3>2. entries \in SUBSET Entry /\ ha' = Linked(ha, NextId, entries)
      BY <1>1, <2>1, <3>1 DEF Home
    <3> HIDE DEF entries
    <3> QED BY <1>1, <3>1, <3>2, LinkedFacts
  <2>2. CASE ha' = [ha EXCEPT ![NextId] = None]
    BY <2>2 DEF Home
  <2>3. CASE job.sent.call = "update" /\ ha' = Updated(ha, NextId, job.sent.changes)
    <3>1. ChangesOK(job.sent.changes)
      BY <1>1, <2>3 DEF SentOK, Working
    <3> QED BY <1>1, <2>3, <3>1, UpdatedFacts
  <2> QED BY <2>1, <2>2, <2>3 DEF ReplyLost
<1> QED BY <1>1, <1>2, Settles DEF Served

(* Others' changes take no entry from what a deletion has still to reach   *)
(* and add none that does not count as linked later.                       *)
LEMMA EditedKeeps == ASSUME Home, SentOK, Edited PROVE Home' /\ SentOK'
<1>0. UNCHANGED job
  BY DEF Edited
<1>1. ASSUME Home',
             \A d \in Device : ha'[d] # None =>
               ha[d] # None /\ ha'[d].entries \subseteq ha[d].entries \cup Later(d)',
             linked \subseteq linked'
      PROVE  Home' /\ SentOK'
  <2>1. \A d \in Device : Later(d) \subseteq Later(d)'
    BY <1>1 DEF Later
  <2>2. Working' = Working /\ NextId' = NextId
    BY <1>0 DEF Working, NextId
  <2>3. Reached => Reached'
    BY <1>0, <1>1, <2>1, <2>2 DEF Reached
  <2> QED BY <1>0, <1>1, <2>2, <2>3 DEF SentOK
<1>2. ASSUME NEW d \in Device, NEW c \in Entry, ha[d] # None, c \notin ha[d].entries,
             ha' = Linked(ha, d, ha[d].entries \cup {c}), linked' = linked \cup {<<d, c>>}
      PROVE  Home' /\ SentOK'
  <2>1. ha[d].entries \cup {c} \in SUBSET Entry
    BY <1>2 DEF Home
  <2>2. /\ Home' /\ \A e \in Device \ {d} : ha'[e] = ha[e]
        /\ ha'[d] # None => ha'[d].entries = ha[d].entries \cup {c}
    BY <1>2, <2>1, LinkedFacts
  <2>3. c \in Later(d)'
    BY <1>2 DEF Later
  <2> QED BY <1>1, <1>2, <2>2, <2>3
<1>3. ASSUME NEW d \in Device, NEW c \in Entry, ha[d] # None,
             ha' = Linked(ha, d, ha[d].entries \ {c}), linked' = linked
      PROVE  Home' /\ SentOK'
  <2>1. ha[d].entries \ {c} \in SUBSET Entry
    BY <1>3 DEF Home
  <2>2. /\ Home' /\ \A e \in Device \ {d} : ha'[e] = ha[e]
        /\ ha'[d] # None => ha'[d].entries = ha[d].entries \ {c}
    BY <1>3, <2>1, LinkedFacts
  <2> QED BY <1>1, <1>3, <2>2
<1>4. ASSUME NEW i \in Item, ha[i] # None, linked' = linked, NEW changes, ChangesOK(changes),
             ha' = Updated(ha, i, changes)
      PROVE  Home' /\ SentOK'
  BY <1>1, <1>4, UpdatedFacts
<1>5. ASSUME NEW i \in EntityId, linked' = linked, ha' = [ha EXCEPT ![i] = None]
      PROVE  Home' /\ SentOK'
  <2>1. Home' /\ \A d \in Device : ha'[d] = ha[d]
    BY <1>5, ItemsAssumption DEF Home, Item
  <2> QED BY <1>1, <1>5, <2>1
<1>6. /\ \A n \in Name : ChangesOK([name |-> n])
      /\ \A a \in Area : ChangesOK([area |-> a])
      /\ \A to \in EntityId : ChangesOK([id |-> to])
  BY DEF ChangesOK
<1> QED BY <1>2, <1>3, <1>4, <1>5, <1>6 DEF Edited

(* Every step of the server settles one item or none.                      *)
LEMMA ServerServed == ASSUME JobOK, SentOK, Home, CacheOK, ServerStep PROVE Served
BY AttemptServed, RefusedServed, ListedServed, UnlinkedServed, RemovedServed, ChangedServed,
   ReplyLostServed DEF ServerStep

---------------------------------------------------------------------------
(***************************************************************************)
(* What the page holds.                                                    *)
(***************************************************************************)

RowFields == {"name", "area"}

RowType == [name : Name, area : Area \cup {None}]

Rows(rows) == DOMAIN rows \subseteq Device /\ \A d \in DOMAIN rows : rows[d] \in RowType

TabFields ==
  {"open", "filter", "pages", "shown", "stale", "failed", "mounts", "missed", "selection", "drawer", "dialog"}

(* A field the user has not touched is as it was when the drawer opened.   *)
DrawerOK(drawer) ==
  /\ DOMAIN drawer = {"id", "draft", "seed", "touched"}
  /\ drawer.id # None =>
       /\ drawer.draft \in RowType
       /\ \A f \in RowFields : f \in drawer.touched \/ drawer.draft[f] = drawer.seed[f]

TabOK(t) ==
  /\ DOMAIN t = TabFields
  /\ t.filter \in Filter
  /\ DOMAIN t.pages = Filter
  /\ \A f \in Filter : t.pages[f] # None => Rows(t.pages[f])
  /\ Rows(t.shown)
  /\ t.selection \subseteq DOMAIN t.shown
  /\ t.failed \in BOOLEAN
  /\ t.failed \/ DrawerOK(t.drawer)
  /\ t.drawer.id \in DOMAIN t.shown \cup {None}
  /\ t.dialog # None => DialogOK(t.dialog)

(* The two fields of a row.                                                *)
LEMMA RowFacts == \A r \in RowType : DOMAIN r = RowFields /\ r.name \in Name /\ r.area \in Area \cup {None}
BY DEF RowType, RowFields

(* The list has rows of cached devices.                                    *)
LEMMA RowsListed == ASSUME CacheOK, NEW room PROVE Rows(ListDevices(room))
<1>1. ASSUME NEW d \in Device, cache[d] # None PROVE cache[d].name \in Name /\ cache[d].area \in Area \cup {None}
  BY <1>1 DEF CacheOK, Item, Known
<1> QED BY <1>1 DEF Rows, RowType, ListDevices

(* A drawer opens on a row, with the draft as the row is.                  *)
LEMMA DrawerFacts ==
  /\ DrawerOK(Closed) /\ Closed.id = None
  /\ \A d, rows : d \in DOMAIN rows /\ Rows(rows) =>
       DrawerOK(OpenedOn(d, rows)) /\ OpenedOn(d, rows).id = d
BY RowFacts DEF DrawerOK, Closed, OpenedOn, Rows

(* The page before its effects: selection and drawer may be off screen.    *)
Unsettled(t) ==
  /\ DOMAIN t = TabFields
  /\ t.filter \in Filter
  /\ DOMAIN t.pages = Filter
  /\ \A f \in Filter : t.pages[f] # None => Rows(t.pages[f])
  /\ Rows(t.shown)
  /\ t.failed \in BOOLEAN
  /\ t.failed \/ DrawerOK(t.drawer)
  /\ t.dialog # None => DialogOK(t.dialog)

(* The effects make good what a new list of rows breaks.                   *)
LEMMA EffectsFacts ==
  ASSUME NEW t, Unsettled(t)
  PROVE  TabOK(Effects(t)) /\ Effects(t).dialog = t.dialog
<1> DEFINE e == Effects(t)
<1>1. /\ DOMAIN e = TabFields /\ e.filter = t.filter /\ e.pages = t.pages /\ e.shown = t.shown
      /\ e.dialog = t.dialog /\ e.failed = t.failed /\ e.selection = t.selection \cap DOMAIN t.shown
      /\ e.drawer = IF t.drawer.id \in DOMAIN t.shown THEN t.drawer ELSE Closed
  BY DEF Effects, TabFields, Unsettled
<1>2. (e.failed \/ DrawerOK(e.drawer)) /\ e.drawer.id \in DOMAIN e.shown \cup {None}
  BY <1>1, DrawerFacts DEF Unsettled
<1> HIDE DEF e
<1> QED BY <1>1, <1>2 DEF TabOK, e, Unsettled

(* A filter that changes closes the drawer.                                *)
LEMMA FilteredFacts ==
  ASSUME NEW t, TabOK(t), NEW f \in Filter
  PROVE  TabOK(Filtered(t, f)) /\ Filtered(t, f).dialog = t.dialog
<1> DEFINE u == [t EXCEPT !.filter = f, !.stale = TRUE, !.failed = FALSE, !.drawer = Closed,
                          !.shown = IF t.pages[f] = None THEN @ ELSE t.pages[f]]
<1>1. /\ DOMAIN u = TabFields /\ u.filter = f /\ u.pages = t.pages /\ u.dialog = t.dialog
      /\ u.failed = FALSE /\ u.drawer = Closed /\ u.shown = IF t.pages[f] = None THEN t.shown ELSE t.pages[f]
  BY DEF TabOK, TabFields
<1>2. Filtered(t, f) = Effects(u)
  BY DEF Filtered
<1> HIDE DEF u
<1>3. Rows(u.shown)
  BY <1>1 DEF TabOK
<1>4. Unsettled(u)
  BY <1>1, <1>3, DrawerFacts DEF TabOK, Unsettled
<1>5. TabOK(Effects(u)) /\ Effects(u).dialog = u.dialog
  BY <1>4, EffectsFacts
<1> QED BY <1>1, <1>2, <1>5

LEMMA ClosesDialog ==
  ASSUME NEW t, TabOK(t) PROVE TabOK([t EXCEPT !.dialog = None])
<1> DEFINE u == [t EXCEPT !.dialog = None]
<1>1. /\ DOMAIN u = TabFields /\ u.dialog = None /\ u.filter = t.filter /\ u.pages = t.pages
      /\ u.shown = t.shown /\ u.selection = t.selection /\ u.drawer = t.drawer /\ u.failed = t.failed
  BY DEF TabOK, TabFields
<1> HIDE DEF u
<1> QED BY <1>1 DEF TabOK, u

LEMMA OpensDialog ==
  ASSUME NEW t, TabOK(t), NEW dialog, DialogOK(dialog)
  PROVE  TabOK([t EXCEPT !.dialog = dialog])
<1> DEFINE u == [t EXCEPT !.dialog = dialog]
<1>1. /\ DOMAIN u = TabFields /\ u.dialog = dialog /\ u.filter = t.filter /\ u.pages = t.pages
      /\ u.shown = t.shown /\ u.selection = t.selection /\ u.drawer = t.drawer /\ u.failed = t.failed
  BY DEF TabOK, TabFields
<1> HIDE DEF u
<1> QED BY <1>1 DEF TabOK, u

(* A table that is back has its drawer on a row as the row is.             *)
LEMMA MountedFacts ==
  ASSUME NEW t, DOMAIN t = TabFields, Rows(t.shown), t.failed \in BOOLEAN, t.failed \/ DrawerOK(t.drawer)
  PROVE  LET u == Mounted(t) IN
         /\ DOMAIN u = TabFields /\ u.dialog = t.dialog /\ u.filter = t.filter /\ u.pages = t.pages
         /\ u.shown = t.shown /\ u.selection = t.selection /\ u.failed = FALSE /\ DrawerOK(u.drawer)
         /\ t.failed => u.drawer.id \in DOMAIN t.shown \cup {None}
         /\ ~t.failed => u = t
<1>1. CASE t.failed
  <2> DEFINE drawer == IF t.drawer.id \in DOMAIN t.shown THEN OpenedOn(t.drawer.id, t.shown) ELSE Closed
  <2>1. DrawerOK(drawer) /\ drawer.id \in DOMAIN t.shown \cup {None}
    BY DrawerFacts
  <2>2. Mounted(t) = [t EXCEPT !.failed = FALSE, !.drawer = drawer]
    BY <1>1 DEF Mounted
  <2> HIDE DEF drawer
  <2> QED BY <1>1, <2>1, <2>2 DEF TabFields
<1>2. CASE ~t.failed
  BY <1>2 DEF Mounted
<1> QED BY <1>1, <1>2

LEMMA InvalidatedFacts ==
  ASSUME NEW t, TabOK(t) PROVE TabOK(Invalidated(t)) /\ Invalidated(t).dialog = t.dialog
<1> DEFINE m == IF t.pages[t.filter] = None THEN Mounted(t) ELSE t
           u == [m EXCEPT !.stale = TRUE]
<1>1. TabOK(m) /\ m.dialog = t.dialog
  <2>1. TabOK(Mounted(t)) /\ Mounted(t).dialog = t.dialog
    BY MountedFacts DEF TabOK
  <2> QED BY <2>1
<1>2. Invalidated(t) = t \/ Invalidated(t) = u
  BY DEF Invalidated
<1> HIDE DEF m
<1>3. /\ DOMAIN u = TabFields /\ u.dialog = m.dialog /\ u.filter = m.filter /\ u.pages = m.pages
      /\ u.shown = m.shown /\ u.selection = m.selection /\ u.drawer = m.drawer /\ u.failed = m.failed
  BY <1>1 DEF TabOK, TabFields
<1> HIDE DEF u
<1>4. TabOK(u)
  BY <1>1, <1>3 DEF TabOK
<1> QED BY <1>1, <1>2, <1>3, <1>4

(* The alert leaves the rows, the selection and the dialog.                *)
LEMMA UnmountedFacts == ASSUME NEW t, TabOK(t) PROVE TabOK(Unmounted(t))
<1> DEFINE u == Unmounted(t)
<1>1. Closed.id = None /\ DOMAIN Closed = {"id", "draft", "seed", "touched"}
  BY DEF Closed
<1>2. /\ DOMAIN u = TabFields /\ u.dialog = t.dialog /\ u.filter = t.filter /\ u.pages = t.pages
      /\ u.shown = t.shown /\ u.selection = t.selection /\ u.failed = TRUE /\ u.drawer.id = t.drawer.id
  BY <1>1 DEF TabOK, TabFields, Unmounted
<1> HIDE DEF u
<1> QED BY <1>2 DEF TabOK, u

LEMMA OpensDrawer ==
  ASSUME NEW t, TabOK(t), NEW drawer, DrawerOK(drawer), drawer.id \in DOMAIN t.shown \cup {None}
  PROVE  TabOK([t EXCEPT !.drawer = drawer])
<1> DEFINE u == [t EXCEPT !.drawer = drawer]
<1>1. /\ DOMAIN u = TabFields /\ u.dialog = t.dialog /\ u.filter = t.filter /\ u.pages = t.pages
      /\ u.shown = t.shown /\ u.selection = t.selection /\ u.drawer = drawer /\ u.failed = t.failed
  BY DEF TabOK, TabFields
<1> HIDE DEF u
<1> QED BY <1>1 DEF TabOK, u

LEMMA DrawerClosedFacts ==
  ASSUME NEW t, TabOK(t), NEW back \in Filter
  PROVE  TabOK(DrawerClosed(t, back)) /\ DrawerClosed(t, back).dialog = t.dialog
<1>1. TabOK([t EXCEPT !.drawer = Closed]) /\ [t EXCEPT !.drawer = Closed].dialog = t.dialog
  BY OpensDrawer, DrawerFacts DEF TabOK, TabFields
<1> QED BY <1>1, FilteredFacts DEF DrawerClosed

---------------------------------------------------------------------------
(***************************************************************************)
(* The start and the end of a request.                                     *)
(***************************************************************************)

LEMMA BeginFacts ==
  ASSUME Home, NEW op \in {"delete", "update", "rename"}, NEW ids \in Seq(Item), IsInjective(ids),
         NEW arg, NEW dry \in BOOLEAN, dry => op = "rename", NEW from,
         op = "update" => ChangesOK(arg), op = "rename" => arg \in Subs,
         from # None => DialogOK(from) /\ from.op # "discard",
         Begin(op, ids, arg, dry, from)
  PROVE  JobOK' /\ SentOK' /\ Home' /\ Promise!Ask /\ job'.from = from /\ job'.arg = arg
<1>1. /\ DOMAIN job' = JobFields /\ job'.op = op /\ job'.arg = arg /\ job'.ids = ids /\ job'.dry = dry
      /\ job'.from = from /\ job'.results = << >> /\ job'.sent = None /\ ids # << >> /\ job = Idle
  BY DEF Begin, JobFields
<1>2. ResultsOK(<< >>)
  <2>1. PICK S : S = {}
    OBVIOUS
  <2>2. << >> \in Seq(S)
    OBVIOUS
  <2>3. \A o \in S : o.ok \in BOOLEAN
    BY <2>1
  <2> QED BY <2>2, <2>3 DEF ResultsOK
<1>3. JobUnderWay'
  <2>1. Len(job'.results) <= Len(job'.ids)
    BY <1>1
  <2> QED BY <1>1, <1>2, <2>1 DEF JobUnderWay
<1>4. Promise!Ask
  <2>1. job.ids = << >>
    BY <1>1 DEF Idle
  <2>2. [n \in DOMAIN << >> |-> job'.results[n].ok] = << >>
    OBVIOUS
  <2> QED BY <1>1, <2>1, <2>2 DEF Promise!Ask
<1>5. Home'
  BY DEF Begin, Home
<1> QED BY <1>1, <1>3, <1>4, <1>5 DEF JobOK, SentOK

(* One entity or two.                                                      *)
LEMMA EntityIds ==
  ASSUME NEW ids \in {<<i>> : i \in EntityId} \cup {<<i, j>> : i, j \in EntityId}
  PROVE  ids \in Seq(Item)
<1>1. CASE ids \in {<<i>> : i \in EntityId}
  <2>1. PICK i \in EntityId : ids = <<i>>
    BY <1>1
  <2> QED BY <2>1 DEF Item
<1>2. CASE ids \in {<<i, j>> : i, j \in EntityId}
  <2>1. PICK i \in EntityId, j \in EntityId : ids = <<i, j>>
    BY <1>2, SMT
  <2> QED BY <2>1 DEF Item
<1> QED BY <1>1, <1>2

(* A request for entities, from any client.                                *)
LEMMA EntityRequestFacts ==
  ASSUME Home, EntityRequest
  PROVE  JobOK' /\ SentOK' /\ Home' /\ Promise!Ask /\ job'.from = None
<1>1. PICK ids : /\ ids \in {<<i>> : i \in EntityId} \cup {<<i, j>> : i, j \in EntityId}
                 /\ IsInjective(ids)
                 /\ \/ Begin("delete", ids, None, FALSE, None)
                    \/ \E a \in Area : Begin("update", ids, [area |-> a], FALSE, None)
                    \/ \E b \in BOOLEAN : Begin("update", ids, [off |-> b], FALSE, None)
                    \/ \E to \in EntityId : Begin("update", ids, [id |-> to], FALSE, None)
                    \/ \E sub \in Subs, dry \in BOOLEAN : Begin("rename", ids, sub, dry, None)
  BY DEF EntityRequest, Begin
<1>2. ids \in Seq(Item) /\ IsInjective(ids)
  BY <1>1, EntityIds
<1>3. /\ \A a \in Area : ChangesOK([area |-> a])
      /\ \A b \in BOOLEAN : ChangesOK([off |-> b])
      /\ \A to \in EntityId : ChangesOK([id |-> to])
  BY DEF ChangesOK
<1>4. CASE Begin("delete", ids, None, FALSE, None)
  BY <1>2, <1>4, BeginFacts
<1>5. ASSUME NEW a \in Area, Begin("update", ids, [area |-> a], FALSE, None)
      PROVE  JobOK' /\ SentOK' /\ Home' /\ Promise!Ask /\ job'.from = None
  BY <1>2, <1>3, <1>5, BeginFacts
<1>6. ASSUME NEW b \in BOOLEAN, Begin("update", ids, [off |-> b], FALSE, None)
      PROVE  JobOK' /\ SentOK' /\ Home' /\ Promise!Ask /\ job'.from = None
  BY <1>2, <1>3, <1>6, BeginFacts
<1>7. ASSUME NEW to \in EntityId, Begin("update", ids, [id |-> to], FALSE, None)
      PROVE  JobOK' /\ SentOK' /\ Home' /\ Promise!Ask /\ job'.from = None
  BY <1>2, <1>3, <1>7, BeginFacts
<1>8. ASSUME NEW sub \in Subs, NEW dry \in BOOLEAN, Begin("rename", ids, sub, dry, None)
      PROVE  JobOK' /\ SentOK' /\ Home' /\ Promise!Ask /\ job'.from = None
  BY <1>2, <1>8, BeginFacts
<1> QED BY <1>1, <1>4, <1>5, <1>6, <1>7, <1>8 DEF Begin

(* A request is answered when every item has its outcome.                  *)
LEMMA AnsweredFacts ==
  ASSUME JobOK, Home, Answered
  PROVE  JobUnderWay /\ job' = Idle /\ JobOK' /\ SentOK' /\ Home' /\ Promise!Answer
<1>1. JobUnderWay /\ job' = Idle /\ Len(job.results) = Len(job.ids)
  BY DEF Answered, JobOK
<1>2. job'.ids = << >> /\ job'.results = << >>
  BY <1>1 DEF Idle
<1>3. Len(Oks(job.results)) = Len(job.results)
  <2>1. PICK S : job.results \in Seq(S) /\ \A x \in S : x.ok \in BOOLEAN
    BY <1>1 DEF JobUnderWay, ResultsOK
  <2> QED BY <2>1 DEF Oks
<1>4. [n \in DOMAIN << >> |-> job'.results[n].ok] = << >>
  OBVIOUS
<1>5. Promise!Answer
  BY <1>1, <1>2, <1>3, <1>4 DEF Promise!Answer, Oks, JobUnderWay
<1>6. Home'
  BY DEF Answered, Home
<1> QED BY <1>1, <1>5, <1>6 DEF JobOK, SentOK

(* What has no part in a request. *)
LEMMA JobKept ==
  ASSUME JobOK, SentOK, Home, UNCHANGED <<ha, linked, job>>
  PROVE  JobOK' /\ SentOK' /\ Home' /\ UNCHANGED Promise!vars
<1>1. JobOK' /\ Home' /\ UNCHANGED Promise!vars
  BY DEF JobOK, JobUnderWay, Home, Promise!vars
<1>2. Working' = Working /\ NextId' = NextId /\ \A d \in Device : Later(d)' = Later(d)
  BY DEF Working, NextId, Later
<1>3. SentOK'
  BY <1>2 DEF SentOK, Reached
<1> QED BY <1>1, <1>3

---------------------------------------------------------------------------
(***************************************************************************)
(* The inductive invariant.                                                *)
(***************************************************************************)

Typed == JobOK /\ SentOK /\ Home /\ TabOK(tab)

IInv == Typed /\ CacheOK

(* A step keeps the invariant and is a step of the abstract batch.         *)
Good == Typed' /\ [Promise!Next]_(Promise!vars)

(* A gesture, or a refetch: the registries and the request stay.           *)
LEMMA TabStep ==
  ASSUME IInv, UNCHANGED <<ha, linked, job>>, TabOK(tab') PROVE Good
BY JobKept DEF IInv, Typed, Good

LEMMA GestureFacts == Gesture \/ Closing => UNCHANGED <<ha, linked, job>>
BY DEF Gesture, Closing, bulkVars

(* A selection in some order has each of its devices once.                 *)
LEMMA OrderedSelection ==
  ASSUME NEW S \in SUBSET Device, S # {}
  PROVE  SetToSeq(S) \in Seq(Device) /\ SetToSeq(S) # << >> /\ IsInjective(SetToSeq(S))
<1>1. /\ Cardinality(S) \in Nat /\ Cardinality(S) # 0
      /\ ExistsBijection(1..Cardinality(S), S)
  BY FS_Subset, FS_CardinalityType, FS_EmptySet, ItemsAssumption
<1>2. \E f \in [1..Cardinality(S) -> S] : IsInjective(f)
  BY <1>1 DEF ExistsBijection, Bijection, Injection
<1>3. SetToSeq(S) \in [1..Cardinality(S) -> S] /\ IsInjective(SetToSeq(S))
  BY <1>2 DEF SetToSeq
<1>4. SetToSeq(S) \in Seq(Device) /\ Len(SetToSeq(S)) = Cardinality(S)
  <2>1. SetToSeq(S) \in [1..Cardinality(S) -> Device]
    BY <1>3
  <2> QED BY <1>1, <2>1
<1> QED BY <1>1, <1>3, <1>4

(* One item is not asked for twice.                                        *)
LEMMA OneItem == ASSUME NEW i PROVE IsInjective(<<i>>)
BY DEF IsInjective

(* The open drawer is of a row on screen.                                  *)
LEMMA InTheDrawer ==
  ASSUME TabOK(tab), InDrawer
  PROVE  /\ tab.drawer.id \in Device /\ tab.drawer.id \in DOMAIN tab.shown
         /\ DOMAIN Row = RowFields /\ tab.drawer.draft \in RowType
BY RowFacts DEF TabOK, InDrawer, Row, Rows, DrawerOK

(* What is entered is the draft, with its name trimmed.                    *)
LEMMA EnteredFacts ==
  ASSUME tab.drawer.draft \in RowType
  PROVE  /\ Entered.name = Trim[tab.drawer.draft.name] /\ Entered.area = tab.drawer.draft.area
         /\ Entered.name \in Name /\ Entered.area \in Area \cup {None}
BY TrimAssumption DEF Entered, RowType

LEMMA DialogMade ==
  ASSUME TabOK(tab), NEW op \in {"delete", "delete in drawer", "save", "rename", "assign", "discard"},
         NEW ids \in Seq(Device), IsInjective(ids), NEW about
  PROVE  DialogOK(Dialog(op, ids, about)) /\ Dialog(op, ids, about).op = op
BY DEF DialogOK, Dialog, DialogFields, TabOK

LEMMA PatternDialogMade ==
  ASSUME TabOK(tab), NEW ids \in Seq(Device), IsInjective(ids), NEW about \in Subs
  PROVE  DialogOK(Dialog("rename pattern", ids, about))
BY DEF DialogOK, Dialog, DialogFields, TabOK

LEMMA OpenedFacts ==
  ASSUME IInv, UNCHANGED <<ha, linked, job>>, NEW dialog, Opened(dialog),
         dialog # None => DialogOK(dialog)
  PROVE  Good
<1>1. TabOK(tab')
  BY OpensDialog, ClosesDialog DEF IInv, Typed, Opened
<1> QED BY <1>1, TabStep

LEMMA RefreshKeeps == ASSUME IInv, Refresh PROVE Good
<1>1. CASE tab' = Invalidated(tab)
  BY <1>1, InvalidatedFacts, TabStep DEF Refresh, Refreshed, IInv, Typed
<1>2. CASE tab' = [tab EXCEPT !.missed = TRUE]
  <2>1. /\ DOMAIN tab' = TabFields /\ tab'.dialog = tab.dialog /\ tab'.filter = tab.filter
        /\ tab'.pages = tab.pages /\ tab'.shown = tab.shown /\ tab'.selection = tab.selection
        /\ tab'.drawer = tab.drawer /\ tab'.failed = tab.failed
    BY <1>2 DEF IInv, Typed, TabOK, TabFields
  <2>2. TabOK(tab')
    BY <2>1 DEF IInv, Typed, TabOK
  <2> QED BY <2>2, TabStep DEF Refresh, Refreshed
<1> QED BY <1>1, <1>2 DEF Refresh

LEMMA OnlineKeeps == ASSUME IInv, Online PROVE Good
BY InvalidatedFacts, TabStep DEF Online, bulkVars, IInv, Typed

LEMMA FetchFailsKeeps == ASSUME IInv, FetchFails PROVE Good
BY UnmountedFacts, TabStep DEF FetchFails, bulkVars, IInv, Typed

LEMMA FetchKeeps == ASSUME IInv, Fetch PROVE Good
<1> DEFINE rows == ListDevices(tab.filter)
           t == Arrived(rows)
           u == Mounted(t)
<1>1. /\ DOMAIN t = TabFields /\ t.filter = tab.filter /\ t.shown = rows
      /\ t.pages = [tab.pages EXCEPT ![tab.filter] = rows]
      /\ t.drawer = tab.drawer /\ t.dialog = tab.dialog /\ t.failed = tab.failed
  BY DEF IInv, Typed, TabOK, TabFields, Arrived
<1>2. Rows(rows) /\ tab' = Effects(u) /\ UNCHANGED <<ha, linked, job>>
  BY RowsListed DEF Fetch, bulkVars, IInv
<1> HIDE DEF t, rows
<1>3. DOMAIN t.pages = Filter /\ \A f \in Filter : t.pages[f] # None => Rows(t.pages[f])
  BY <1>1, <1>2 DEF IInv, Typed, TabOK
<1>4. /\ DOMAIN u = TabFields /\ u.dialog = t.dialog /\ u.filter = t.filter /\ u.pages = t.pages
      /\ u.shown = t.shown /\ u.failed = FALSE /\ DrawerOK(u.drawer)
  BY <1>1, <1>2, MountedFacts DEF IInv, Typed, TabOK
<1> HIDE DEF u
<1>5. Unsettled(u)
  BY <1>1, <1>2, <1>3, <1>4 DEF IInv, Typed, TabOK, Unsettled
<1>6. TabOK(Effects(u))
  BY <1>5, EffectsFacts
<1> QED BY <1>2, <1>6, TabStep

LEMMA SetFilterKeeps == ASSUME IInv, SetFilter PROVE Good
BY FilteredFacts, GestureFacts, TabStep DEF SetFilter, IInv, Typed

LEMMA SelectKeeps == ASSUME IInv, Select PROVE Good
<1>1. PICK d \in DOMAIN tab.shown :
        tab' = [tab EXCEPT !.selection = IF d \in @ THEN @ \ {d} ELSE @ \cup {d}]
  BY DEF Select
<1>2. /\ DOMAIN tab' = TabFields /\ tab'.dialog = tab.dialog /\ tab'.filter = tab.filter
      /\ tab'.pages = tab.pages /\ tab'.shown = tab.shown /\ tab'.drawer = tab.drawer
      /\ tab'.selection \subseteq tab.selection \cup {d} /\ tab'.failed = tab.failed
  BY <1>1 DEF IInv, Typed, TabOK, TabFields
<1>3. TabOK(tab')
  BY <1>1, <1>2 DEF IInv, Typed, TabOK
<1> QED BY <1>3, GestureFacts, TabStep DEF Select

LEMMA OpenDrawerKeeps == ASSUME IInv, OpenDrawer PROVE Good
<1>1. PICK d \in DOMAIN tab.shown : tab' = [tab EXCEPT !.drawer = OpenedOn(d, tab.shown)]
  BY DEF OpenDrawer
<1>2. DrawerOK(OpenedOn(d, tab.shown)) /\ OpenedOn(d, tab.shown).id = d
  BY DrawerFacts DEF IInv, Typed, TabOK
<1>3. TabOK(tab')
  BY <1>1, <1>2, OpensDrawer DEF IInv, Typed
<1> QED BY <1>3, GestureFacts, TabStep DEF OpenDrawer

LEMMA EditDraftKeeps == ASSUME IInv, EditDraft PROVE Good
<1> DEFINE edited(f, v) == [tab.drawer EXCEPT !.draft[f] = v, !.touched = @ \cup {f}]
           fits(f, v) == (f = "name" /\ v \in Name) \/ (f = "area" /\ v \in Area \cup {None})
<1>1. \E f \in RowFields : \E v : fits(f, v) /\ tab' = [tab EXCEPT !.drawer = edited(f, v)]
  <2>1. CASE \E n \in Name :
               tab' = [tab EXCEPT !.drawer.draft.name = n, !.drawer.touched = @ \cup {"name"}]
    <3>1. PICK n \in Name : tab' = [tab EXCEPT !.drawer = edited("name", n)]
      BY <2>1 DEF IInv, Typed, TabOK, TabFields
    <3>2. "name" \in RowFields /\ fits("name", n)
      BY DEF RowFields
    <3> HIDE DEF edited, fits
    <3> QED BY <3>1, <3>2
  <2>2. CASE \E a \in Area \cup {None} :
               tab' = [tab EXCEPT !.drawer.draft.area = a, !.drawer.touched = @ \cup {"area"}]
    <3>1. PICK a \in Area \cup {None} : tab' = [tab EXCEPT !.drawer = edited("area", a)]
      BY <2>2 DEF IInv, Typed, TabOK, TabFields
    <3>2. "area" \in RowFields /\ fits("area", a)
      BY DEF RowFields
    <3> HIDE DEF edited, fits
    <3> QED BY <3>1, <3>2
  <2> QED BY <2>1, <2>2 DEF EditDraft
<1>1a. PICK f \in RowFields : \E v : fits(f, v) /\ tab' = [tab EXCEPT !.drawer = edited(f, v)]
  BY <1>1
<1>1b. PICK v : fits(f, v) /\ tab' = [tab EXCEPT !.drawer = edited(f, v)]
  BY <1>1a
<1> DEFINE drawer == edited(f, v)
<1>2. /\ DOMAIN drawer = {"id", "draft", "seed", "touched"}
      /\ drawer.id = tab.drawer.id /\ drawer.seed = tab.drawer.seed
      /\ drawer.draft = [tab.drawer.draft EXCEPT ![f] = v]
      /\ drawer.touched = tab.drawer.touched \cup {f}
  BY DEF IInv, Typed, TabOK, DrawerOK, EditDraft, InDrawer
<1>2a. tab' = [tab EXCEPT !.drawer = drawer]
  BY <1>1b
<1> HIDE DEF drawer
<1>3. DrawerOK(drawer)
  <2>1. DrawerOK(tab.drawer)
    BY DEF IInv, Typed, TabOK, EditDraft, InDrawer
  <2>2. drawer.id # None => drawer.draft \in RowType
    BY <1>1b, <1>2, <2>1 DEF DrawerOK, RowType
  <2>3. drawer.id # None => \A g \in RowFields : g \in drawer.touched \/ drawer.draft[g] = drawer.seed[g]
    BY <1>2, <2>1, RowFacts DEF DrawerOK
  <2> QED BY <1>2, <2>2, <2>3 DEF DrawerOK
<1>4. TabOK(tab')
  BY <1>2, <1>2a, <1>3, OpensDrawer DEF IInv, Typed, TabOK
<1> QED BY <1>4, GestureFacts, TabStep DEF EditDraft

LEMMA SaveKeeps ==
  ASSUME IInv, Save
  PROVE  Good /\ job'.from.op = "save" /\ job'.arg = Differing
<1> DEFINE from == Dialog("save", << >>, None)
<1>1. /\ Begin("update", <<tab.drawer.id>>, Differing, FALSE, from)
      /\ InDrawer /\ tab' = tab /\ TabOK(tab) /\ Home
  BY DEF Save, IInv, Typed
<1>2. <<tab.drawer.id>> \in Seq(Item) /\ IsInjective(<<tab.drawer.id>>)
  BY <1>1, InTheDrawer, OneItem DEF Item
<1>3. ChangesOK(Differing)
  <2>1. DOMAIN Differing \subseteq RowFields /\ \A f \in DOMAIN Differing : Differing[f] = Entered[f]
    BY <1>1, InTheDrawer DEF Differing
  <2>2. Entered.name \in Name /\ Entered.area \in Area \cup {None}
    BY <1>1, InTheDrawer, EnteredFacts
  <2> QED BY <2>1, <2>2 DEF ChangesOK, RowFields
<1>4. DialogOK(from) /\ from.op = "save"
  <2>1. << >> \in Seq(Device) /\ IsInjective(<< >>)
    BY DEF IsInjective
  <2> QED BY <1>1, <2>1, DialogMade
<1> HIDE DEF from
<1>5. JobOK' /\ SentOK' /\ Home' /\ Promise!Ask /\ job'.from = from /\ job'.arg = Differing
  BY <1>1, <1>2, <1>3, <1>4, BeginFacts
<1>6. TabOK(tab')
  BY <1>1
<1> QED BY <1>4, <1>5, <1>6 DEF Good, IInv, Typed, Promise!Next

LEMMA RequestCloseKeeps == ASSUME IInv, RequestClose PROVE Good
<1>1. UNCHANGED <<ha, linked, job>>
  BY GestureFacts DEF RequestClose
<1>2. CASE Opened(Dialog("discard", << >>, None))
  <2>1. << >> \in Seq(Device) /\ IsInjective(<< >>)
    BY DEF IsInjective
  <2>2. DialogOK(Dialog("discard", << >>, None))
    BY <2>1, DialogMade DEF IInv, Typed
  <2> QED BY <1>1, <1>2, <2>2, OpenedFacts
<1>3. CASE tab' = [tab EXCEPT !.drawer = Closed]
  <2>1. TabOK(tab')
    BY <1>3, OpensDrawer, DrawerFacts DEF IInv, Typed
  <2> QED BY <1>1, <2>1, TabStep
<1> QED BY <1>2, <1>3 DEF RequestClose

LEMMA DiscardKeeps == ASSUME IInv, Discard PROVE Good
<1>1. tab' = [DrawerClosed(tab, tab.dialog.back) EXCEPT !.dialog = None]
      /\ tab.dialog.back \in Filter /\ TabOK(tab)
  BY DEF Discard, InDialog, IInv, Typed, TabOK, DialogOK
<1>2. TabOK(tab')
  BY <1>1, DrawerClosedFacts, ClosesDialog
<1> QED BY <1>2, GestureFacts, TabStep DEF Discard

LEMMA OpenDialogKeeps == ASSUME IInv, OpenDialog PROVE Good
<1>1. UNCHANGED <<ha, linked, job>> /\ TabOK(tab)
  BY GestureFacts DEF OpenDialog, IInv, Typed
<1>2. CASE InDrawer /\ Opened(Dialog("delete in drawer", <<tab.drawer.id>>, None))
  <2>1. <<tab.drawer.id>> \in Seq(Device) /\ IsInjective(<<tab.drawer.id>>)
    <3>1. tab.drawer.id \in Device
      BY <1>1, <1>2, InTheDrawer
    <3> QED BY <3>1, OneItem
  <2>2. DialogOK(Dialog("delete in drawer", <<tab.drawer.id>>, None))
    BY <1>1, <2>1, DialogMade
  <2> QED BY <1>1, <1>2, <2>2, OpenedFacts
<1>3. CASE tab.selection # {}
  <2> DEFINE ids == SetToSeq(tab.selection)
             name == tab.shown[ids[1]].name
  <2>1. ids \in Seq(Device) /\ IsInjective(ids)
    <3>1. tab.selection \in SUBSET Device
      BY <1>1 DEF TabOK, Rows
    <3> QED BY <1>3, <3>1, OrderedSelection
  <2>2. /\ \A op \in {"delete", "assign"} : DialogOK(Dialog(op, ids, None))
        /\ DialogOK(Dialog("rename", ids, name))
        /\ \A sub \in Subs : DialogOK(Dialog("rename pattern", ids, sub))
    <3> HIDE DEF ids, name
    <3> QED BY <1>1, <2>1, DialogMade, PatternDialogMade
  <2>3. CASE \E op \in {"delete", "assign"} : Opened(Dialog(op, ids, None))
    BY <1>1, <2>2, <2>3, OpenedFacts
  <2>4. CASE Opened(Dialog("rename", ids, name))
    BY <1>1, <2>2, <2>4, OpenedFacts
  <2>5. CASE \E sub \in Subs : Opened(Dialog("rename pattern", ids, sub))
    BY <1>1, <2>2, <2>5, OpenedFacts
  <2>6. CASE InDrawer /\ Opened(Dialog("delete in drawer", <<tab.drawer.id>>, None))
    BY <1>2, <2>6
  <2> QED BY <2>3, <2>4, <2>5, <2>6 DEF OpenDialog
<1> QED BY <1>2, <1>3 DEF OpenDialog

LEMMA ChangePatternKeeps == ASSUME IInv, ChangePattern PROVE Good
<1>1. PICK sub \in Subs : Opened([tab.dialog EXCEPT !.about = sub])
  BY DEF ChangePattern
<1>2. DialogOK(tab.dialog)
  BY DEF ChangePattern, InDialog, IInv, Typed, TabOK
<1>3. DialogOK([tab.dialog EXCEPT !.about = sub])
  BY <1>2 DEF DialogOK, DialogFields
<1> QED BY <1>1, <1>3, GestureFacts, OpenedFacts DEF ChangePattern

LEMMA CancelKeeps == ASSUME IInv, Cancel PROVE Good
BY GestureFacts, OpenedFacts DEF Cancel

(* Who asks for a request says what it is for. *)
LEMMA Asks ==
  ASSUME IInv, NEW op \in {"delete", "update", "rename"}, NEW ids \in Seq(Device), IsInjective(ids),
         NEW arg, NEW dry \in BOOLEAN, dry => op = "rename", NEW from, op = "update" => ChangesOK(arg), op = "rename" => arg \in Subs,
         DialogOK(from), from.op \notin {"discard", "save"}, TabOK(tab'), Begin(op, ids, arg, dry, from)
  PROVE  Good /\ job'.from.op # "save"
<1>1. ids \in Seq(Item)
  BY DEF Item
<1>2. JobOK' /\ SentOK' /\ Home' /\ Promise!Ask /\ job'.from = from
  BY <1>1, BeginFacts DEF IInv, Typed
<1> QED BY <1>2 DEF Good, IInv, Typed, Promise!Next

LEMMA InTheDialog ==
  ASSUME TabOK(tab), NEW op, InDialog(op) PROVE DialogOK(tab.dialog) /\ tab.dialog.op = op
BY DEF TabOK, InDialog

LEMMA ConfirmDeleteKeeps ==
  ASSUME IInv, ConfirmDelete PROVE Good /\ job'.from.op # "save"
<1>1. /\ DialogOK(tab.dialog) /\ tab.dialog.op \in {"delete", "delete in drawer"}
      /\ Begin("delete", tab.dialog.ids, None, FALSE, tab.dialog)
  BY InTheDialog DEF ConfirmDelete, IInv, Typed
<1>2. TabOK(tab')
  BY ClosesDialog DEF ConfirmDelete, IInv, Typed
<1>3. tab.dialog.ids \in Seq(Device) /\ IsInjective(tab.dialog.ids)
  BY <1>1 DEF DialogOK
<1> QED BY <1>1, <1>2, <1>3, Asks

LEMMA SubmitKeeps == ASSUME IInv, Submit PROVE Good /\ job'.from.op # "save"
<1>1. TabOK(tab)
  BY DEF IInv, Typed
<1>2. (\A a \in Area : ChangesOK([area |-> a])) /\ (\A n \in Name : ChangesOK([name |-> n]))
  BY DEF ChangesOK
<1>3. ASSUME NEW op \in {"assign", "rename"}, InDialog(op), tab' = tab,
             NEW changes, ChangesOK(changes), Begin("update", tab.dialog.ids, changes, FALSE, tab.dialog)
      PROVE  Good /\ job'.from.op # "save"
  <2>1. /\ DialogOK(tab.dialog) /\ tab.dialog.op = op /\ TabOK(tab')
        /\ tab.dialog.ids \in Seq(Device) /\ IsInjective(tab.dialog.ids)
    BY <1>1, <1>3, InTheDialog DEF DialogOK
  <2> QED BY <1>3, <2>1, Asks
<1>4. ASSUME NEW dry \in BOOLEAN, InDialog("rename pattern"), TabOK(tab'),
             Begin("rename", tab.dialog.ids, tab.dialog.about, dry, tab.dialog)
      PROVE  Good /\ job'.from.op # "save"
  <2>1. /\ DialogOK(tab.dialog) /\ tab.dialog.op = "rename pattern"
        /\ tab.dialog.ids \in Seq(Device) /\ IsInjective(tab.dialog.ids) /\ tab.dialog.about \in Subs
    BY <1>1, <1>4, InTheDialog DEF DialogOK
  <2> QED BY <1>4, <2>1, Asks
<1>5. CASE /\ InDialog("assign") /\ UNCHANGED tab
           /\ \E a \in Area : Begin("update", tab.dialog.ids, [area |-> a], FALSE, tab.dialog)
  <2>1. PICK a \in Area : Begin("update", tab.dialog.ids, [area |-> a], FALSE, tab.dialog)
    BY <1>5
  <2> QED BY <1>2, <1>3, <1>5, <2>1
<1>6. CASE /\ InDialog("rename") /\ UNCHANGED tab
           /\ \E n \in Name \ {tab.dialog.about} :
                Begin("update", tab.dialog.ids, [name |-> n], FALSE, tab.dialog)
  <2>1. PICK n \in Name : Begin("update", tab.dialog.ids, [name |-> n], FALSE, tab.dialog)
    BY <1>6
  <2> QED BY <1>2, <1>3, <1>6, <2>1
<1>7. CASE /\ InDialog("rename pattern") /\ tab.dialog.found /\ UNCHANGED tab
           /\ Begin("rename", tab.dialog.ids, tab.dialog.about, FALSE, tab.dialog)
  BY <1>1, <1>4, <1>7
<1>8. CASE /\ InDialog("rename pattern") /\ tab' = [tab EXCEPT !.dialog.waits = TRUE]
           /\ Begin("rename", tab.dialog.ids, tab.dialog.about, TRUE, tab.dialog)
  <2> DEFINE dialog == [tab.dialog EXCEPT !.waits = TRUE]
  <2>1. DialogOK(dialog)
    BY <1>1, <1>8, InTheDialog DEF DialogOK, DialogFields
  <2>2. tab' = [tab EXCEPT !.dialog = dialog]
    BY <1>1, <1>8 DEF TabOK, TabFields
  <2> HIDE DEF dialog
  <2>3. TabOK(tab')
    BY <1>1, <2>1, <2>2, OpensDialog
  <2> QED BY <1>4, <1>8, <2>3
<1> QED BY <1>5, <1>6, <1>7, <1>8 DEF Submit

LEMMA AnswerArrivesKeeps == ASSUME IInv, AnswerArrives PROVE Good
<1>1. JobUnderWay /\ JobOK' /\ SentOK' /\ Home' /\ Promise!Answer /\ TabOK(tab)
  BY AnsweredFacts DEF AnswerArrives, IInv, Typed
<1>2. CASE job.from = None
  BY <1>1, <1>2 DEF AnswerArrives, Good, IInv, Typed, Promise!Next
<1>3. CASE job.from # None
  <2> DEFINE op == job.from.op
  <2>1. /\ op \in {"delete", "delete in drawer", "save", "rename", "assign", "rename pattern"}
        /\ job.from.back \in Filter /\ job.dry \in BOOLEAN /\ tab' = AfterAnswer(tab)
    BY <1>1, <1>3 DEF JobUnderWay, DialogOK, AnswerArrives
  <2> SUFFICES TabOK(tab')
    BY <1>1 DEF Good, IInv, Typed, Promise!Next
  <2>2. CASE op = "delete"
    <3> DEFINE t == IF AskerMounted THEN [tab EXCEPT !.selection = {}] ELSE tab
    <3>1. tab' = Invalidated(t) \/ tab' = t
      BY <2>1, <2>2 DEF AfterAnswer
    <3>2. /\ DOMAIN t = TabFields /\ t.dialog = tab.dialog /\ t.filter = tab.filter
          /\ t.pages = tab.pages /\ t.shown = tab.shown /\ t.drawer = tab.drawer
          /\ t.failed = tab.failed /\ t.selection \subseteq tab.selection
      BY <1>1 DEF TabOK, TabFields
    <3> HIDE DEF t
    <3>3. TabOK(t)
      BY <1>1, <3>2 DEF TabOK
    <3> QED BY <3>1, <3>3, InvalidatedFacts
  <2>3. CASE op = "delete in drawer"
    <3> DEFINE t == IF AnyOk /\ AskerMounted THEN DrawerClosed(tab, job.from.back) ELSE tab
    <3>1. tab' = Invalidated(t) \/ tab' = t
      BY <2>1, <2>3 DEF AfterAnswer
    <3>2. TabOK(t)
      BY <1>1, <2>1, DrawerClosedFacts
    <3> HIDE DEF t
    <3> QED BY <3>1, <3>2, InvalidatedFacts
  <2>4. CASE op = "save"
    <3>1. tab' = Invalidated(tab) \/ tab' = tab
      BY <2>1, <2>4 DEF AfterAnswer
    <3> QED BY <1>1, <3>1, InvalidatedFacts
  <2>5. CASE op \in {"rename", "assign"}
    <3>1. tab' = Invalidated([tab EXCEPT !.dialog = None]) \/ tab' = tab
      BY <2>1, <2>5 DEF AfterAnswer
    <3> QED BY <1>1, <3>1, ClosesDialog, InvalidatedFacts
  <2>6. CASE op = "rename pattern" /\ ~job.dry
    <3>1. tab' = Invalidated([tab EXCEPT !.dialog = None]) \/ tab' = tab
      BY <2>1, <2>6 DEF AfterAnswer
    <3> QED BY <1>1, <3>1, ClosesDialog, InvalidatedFacts
  <2>7. CASE op = "rename pattern" /\ job.dry
    <3> DEFINE dialog == [tab.dialog EXCEPT !.waits = FALSE, !.found = Matched]
    <3>1. \/ tab.dialog # None /\ tab' = [tab EXCEPT !.dialog.waits = FALSE, !.dialog.found = Matched]
          \/ tab' = tab
      BY <2>1, <2>7 DEF AfterAnswer
    <3>2. CASE tab.dialog # None /\ tab' = [tab EXCEPT !.dialog.waits = FALSE, !.dialog.found = Matched]
      <4>1. DialogOK(dialog)
        BY <1>1, <3>2 DEF TabOK, DialogOK, DialogFields
      <4>2. tab' = [tab EXCEPT !.dialog = dialog]
        BY <1>1, <3>2 DEF TabOK, TabFields
      <4> HIDE DEF dialog
      <4> QED BY <1>1, <4>1, <4>2, OpensDialog
    <3> QED BY <1>1, <3>1, <3>2
  <2>8. op = "rename pattern" => TabOK(tab')
    <3>1. job.dry \/ ~job.dry
      OBVIOUS
    <3> QED BY <2>6, <2>7, <3>1, Zenon
  <2> HIDE DEF op
  <2> QED BY <2>1, <2>2, <2>3, <2>4, <2>5, <2>8
<1> QED BY <1>2, <1>3

---------------------------------------------------------------------------
LEMMA ServerKeeps == ASSUME IInv, Server PROVE Good
<1>1. Served /\ tab' = tab
  BY ServerServed DEF Server, IInv, Typed
<1> QED BY <1>1 DEF Served, Good, IInv, Typed, JobOK, Promise!Next

LEMMA EditedKeepsAll == ASSUME IInv, Edited, tab' = tab PROVE Good
<1>1. Home' /\ SentOK' /\ job' = job
  BY EditedKeeps DEF IInv, Typed, Edited
<1>2. JobOK' /\ UNCHANGED Promise!vars
  BY <1>1 DEF IInv, Typed, JobOK, JobUnderWay, Promise!vars
<1> QED BY <1>1, <1>2 DEF Good, IInv, Typed

LEMMA OthersKeep == ASSUME IInv, Others PROVE Good
<1>1. CASE Edited /\ tab' = tab
  BY <1>1, EditedKeepsAll
<1>2. CASE EntityRequest /\ tab' = tab
  BY <1>2, EntityRequestFacts DEF Good, IInv, Typed, Promise!Next
<1> QED BY <1>1, <1>2 DEF Others

(* Every step keeps the types, and is one of the abstract batch.           *)
LEMMA NextKeeps == ASSUME IInv, [Next]_vars PROVE Good
<1>1. CASE UNCHANGED vars
  BY <1>1, TabStep DEF vars, bulkVars, IInv, Typed
<1>2. CASE User
  BY <1>2, SetFilterKeeps, SelectKeeps, OpenDrawerKeeps, EditDraftKeeps, SaveKeeps, RequestCloseKeeps,
     DiscardKeeps, OpenDialogKeeps, ChangePatternKeeps, CancelKeeps, ConfirmDeleteKeeps, SubmitKeeps
     DEF User
<1> QED BY <1>1, <1>2, OthersKeep, ServerKeeps, RefreshKeeps, OnlineKeeps, FetchKeeps, FetchFailsKeeps,
        AnswerArrivesKeeps DEF Next

(* What the cache copies is what it may hold.                              *)
LEMMA SeenFacts == ASSUME Home PROVE \A i \in Item : Seen(ha)[i] # None => Seen(ha)[i] \in Known
<1> SUFFICES ASSUME NEW i \in Item, Seen(ha)[i] # None PROVE Seen(ha)[i] \in Known
  OBVIOUS
<1>1. ha[i] \in Record /\ Seen(ha)[i] = [uid |-> ha[i].uid, name |-> ha[i].name, area |-> ha[i].area]
  BY DEF Home, Seen
<1> QED BY <1>1, RecordFacts DEF Known

(* The cache changes by a refresh only.                                    *)
LEMMA CacheStep == ASSUME [Next]_vars PROVE cache' = cache \/ cache' = Seen(ha)
<1>1. CASE User
  BY <1>1 DEF User, SetFilter, Select, OpenDrawer, EditDraft, Save, RequestClose, Discard, OpenDialog,
     ChangePattern, Cancel, ConfirmDelete, Submit, Gesture, Closing, bulkVars, Begin
<1>2. CASE Server
  BY <1>2 DEF Server, ServerStep, Attempt, Refused, Listed, Unlinked, Removed, Changed, ReplyLost
<1>3. CASE Others
  BY <1>3 DEF Others, Edited, EntityRequest, Begin
<1>4. CASE Refresh \/ Online \/ Fetch \/ FetchFails \/ AnswerArrives \/ UNCHANGED vars
  BY <1>4 DEF Refresh, Refreshed, Online, Fetch, FetchFails, AnswerArrives, Answered, vars, bulkVars
<1> QED BY <1>1, <1>2, <1>3, <1>4 DEF Next

(* The cache holds what it may hold.                                       *)
LEMMA CacheKeeps == ASSUME IInv, [Next]_vars PROVE CacheOK'
BY CacheStep, SeenFacts DEF IInv, Typed, CacheOK

LEMMA InitFacts == Init => IInv /\ Promise!Init
<1> SUFFICES ASSUME Init PROVE IInv /\ Promise!Init
  OBVIOUS
<1>1. Home
  <2>1. /\ DOMAIN ha = Item
        /\ \A d \in Device : ha[d] \in DeviceRecord \cup {None}
        /\ \A e \in EntityId : ha[e] \in EntityRecord \cup {None}
    BY ItemsAssumption DEF Init, BulkInit
  <2>2. \A i \in Item : ha[i] # None => ha[i] \in Record
    BY <2>1 DEF Item, Record
  <2>3. \A r \in DeviceRecord : "entries" \in DOMAIN r /\ r.entries \subseteq Entry
    BY DEF DeviceRecord
  <2> QED BY <2>1, <2>2, <2>3 DEF Home
<1>1a. CacheOK
  <2>1. cache = Seen(ha)
    BY DEF Init, BulkInit
  <2> QED BY <1>1, <2>1, SeenFacts DEF CacheOK
<1>2. job = Idle
  BY DEF Init, BulkInit
<1>3. JobOK /\ SentOK /\ Promise!Init
  <2>1. job.ids = << >> /\ job.results = << >>
    BY <1>2 DEF Idle
  <2>2. [n \in DOMAIN << >> |-> job.results[n].ok] = << >>
    OBVIOUS
  <2> QED BY <1>2, <2>1, <2>2 DEF JobOK, SentOK, Promise!Init
<1>4. TabOK(tab)
  <2> DEFINE rows == ListDevices(None)
             pages == [f \in Filter |-> IF f = None THEN ListDevices(f) ELSE None]
  <2>1. PICK drawer \in {Closed} \cup {OpenedOn(d, rows) : d \in DOMAIN rows} :
          tab = [open |-> rows # << >>, filter |-> None, pages |-> pages, shown |-> rows, stale |-> FALSE,
                 failed |-> FALSE, mounts |-> 0, missed |-> FALSE,
                 selection |-> {}, drawer |-> drawer, dialog |-> None]
    BY DEF Init
  <2>2. Rows(rows) /\ DOMAIN pages = Filter /\ \A f \in Filter : pages[f] # None => Rows(pages[f])
    BY <1>1a, RowsListed
  <2>3. DrawerOK(drawer) /\ drawer.id \in DOMAIN rows \cup {None}
    <3> HIDE DEF rows
    <3> QED BY <2>1, <2>2, DrawerFacts
  <2>4. /\ DOMAIN tab = TabFields /\ tab.filter = None /\ tab.pages = pages /\ tab.shown = rows
        /\ tab.selection = {} /\ tab.drawer = drawer /\ tab.dialog = None /\ tab.failed = FALSE
    BY <2>1 DEF TabFields
  <2> HIDE DEF rows, pages
  <2> QED BY <2>2, <2>3, <2>4 DEF TabOK, Filter
<1> QED BY <1>1, <1>1a, <1>3, <1>4 DEF IInv, Typed

(* What the page and the server rely on holds in every state.              *)
THEOREM Invariance == Spec => []IInv
<1>1. Init => IInv
  BY InitFacts
<1>2. IInv /\ [Next]_vars => IInv'
  BY NextKeeps, CacheKeeps DEF Good, IInv
<1> QED BY <1>1, <1>2, PTL DEF Spec

(* No action of the page finds a row selected that is not on screen, and   *)
(* the drawer shows a row.                                                 *)
THEOREM NothingEverOffScreen == Spec => []NothingOffScreen
<1>1. IInv => NothingOffScreen
  BY DEF IInv, Typed, TabOK, NothingOffScreen
<1> QED BY <1>1, Invariance, PTL

(* Every item of every bulk request gets one outcome, in order, and the    *)
(* answer is sent when all have one: the server takes the steps of Batch.  *)
THEOREM EveryItemAnswered == Spec => Promise!Init /\ [][Promise!Next]_(Promise!vars)
<1>1. Init => Promise!Init
  BY InitFacts
<1>2. IInv /\ [Next]_vars => [Promise!Next]_(Promise!vars)
  BY NextKeeps DEF Good
<1> QED BY <1>1, <1>2, Invariance, PTL DEF Spec

---------------------------------------------------------------------------
(* What a save sends was touched, its row has changed, or its name is not  *)
(* what trimming makes of it.                                              *)
LEMMA SaveSendsEdited ==
  ASSUME IInv, Save, NEW f \in DOMAIN job'.arg
  PROVE  \/ f \in tab.drawer.touched
         \/ Row[f] # tab.drawer.seed[f]
         \/ f = "name" /\ Trim[Row.name] # Row.name
<1>1. f \in DOMAIN Row /\ Entered[f] # Row[f]
  BY SaveKeeps DEF Differing, Differs
<1>2. f \in RowFields /\ DrawerOK(tab.drawer) /\ tab.drawer.id # None /\ tab.drawer.draft \in RowType
  BY <1>1, InTheDrawer DEF Save, InDrawer, IInv, Typed, TabOK
<1>3. f \in tab.drawer.touched \/ tab.drawer.draft[f] = tab.drawer.seed[f]
  BY <1>2 DEF DrawerOK
<1>4. CASE f = "area"
  BY <1>1, <1>2, <1>3, <1>4, EnteredFacts
<1>5. CASE f = "name"
  BY <1>1, <1>2, <1>3, <1>5, EnteredFacts
<1> QED BY <1>2, <1>4, <1>5 DEF RowFields

(* No other step starts a request of a drawer.                             *)
LEMMA OnlySaveSaves ==
  ASSUME IInv, [Next]_vars, job = Idle, job' # Idle, job'.from # None, job'.from.op = "save"
  PROVE  Save
<1>1. ~EntityRequest
  BY EntityRequestFacts DEF IInv, Typed
<1>2. ~Server
  BY DEF Server, ServerStep, Attempt, Refused, Listed, Unlinked, Removed, Changed, ReplyLost, Waiting, Working
<1>3. ~ConfirmDelete /\ ~Submit
  BY ConfirmDeleteKeeps, SubmitKeeps
<1>4. job' # job
  OBVIOUS
<1>5. /\ ~SetFilter /\ ~Select /\ ~OpenDrawer /\ ~EditDraft /\ ~RequestClose /\ ~Discard
      /\ ~OpenDialog /\ ~ChangePattern /\ ~Cancel
  BY <1>4, GestureFacts
     DEF SetFilter, Select, OpenDrawer, EditDraft, RequestClose, Discard, OpenDialog, ChangePattern, Cancel
<1>6. ~Edited /\ ~Refresh /\ ~Online /\ ~Fetch /\ ~FetchFails /\ ~AnswerArrives
  BY <1>4 DEF Edited, Refresh, Refreshed, Online, Fetch, FetchFails, bulkVars, AnswerArrives, Answered
<1>7. ~UNCHANGED vars
  BY <1>4 DEF vars, bulkVars
<1> QED BY <1>1, <1>2, <1>3, <1>5, <1>6, <1>7 DEF Next, Others, User

(* A drawer's save sends no field that its user left alone, unless the row *)
(* changed under it or is a name with space around it.                     *)
THEOREM UntouchedFieldsAlwaysKept == Spec => UntouchedFieldsKept
<1>1. IInv /\ [Next]_vars =>
        [job = Idle /\ job' # Idle /\ job'.from # None /\ job'.from.op = "save" =>
           \A f \in DOMAIN job'.arg :
             \/ f \in tab.drawer.touched
             \/ Row[f] # tab.drawer.seed[f]
             \/ f = "name" /\ Trim[Row.name] # Row.name]_vars
  BY OnlySaveSaves, SaveSendsEdited
<1> QED BY <1>1, Invariance, PTL DEF Spec, UntouchedFieldsKept

---------------------------------------------------------------------------
(* What is left of a device whose deletion ends. *)
Left(d) == IF ha'[d] = None THEN {} ELSE ha'[d].entries

(* A refused removal leaves what was not reached.                          *)
LEMMA RefusedLeaves ==
  ASSUME IInv, Refused, Waiting("unlink"), NextId \in Device
  PROVE  /\ Last(job'.results).ok = FALSE
         /\ Left(NextId) \subseteq job.todo \cup Later(NextId)
<1>1. JobUnderWay /\ job'.results = Append(job.results, Outcome(FALSE, << >>))
  BY UnderWay, Settles DEF IInv, Typed, Refused
<1>2. Last(job'.results) = Outcome(FALSE, << >>)
  BY <1>1, Appends DEF Last, JobUnderWay, Outcome
<1>3. Reached /\ Working /\ ha' = ha
  BY DEF IInv, Typed, SentOK, Waiting, Working, Refused
<1> QED BY <1>2, <1>3 DEF Outcome, Reached, Left

(* One whose answer is lost leaves no more.                                *)
LEMMA ReplyLostLeaves ==
  ASSUME IInv, ReplyLost, job.sent.call = "unlink", NextId \in Device
  PROVE  /\ Last(job'.results).ok = FALSE
         /\ Left(NextId) \subseteq job.todo \cup Later(NextId)
<1>1. /\ JobUnderWay /\ job'.results = Append(job.results, Outcome(FALSE, << >>))
      /\ Working /\ ha[NextId] # None /\ job.sent # None
  BY UnderWay, Settles DEF IInv, Typed, ReplyLost
<1>2. Last(job'.results) = Outcome(FALSE, << >>)
  BY <1>1, Appends DEF Last, JobUnderWay, Outcome
<1>3. ha[NextId].entries \subseteq job.todo \cup Later(NextId)
  BY <1>1 DEF IInv, Typed, SentOK, Reached, Working
<1>4. Left(NextId) \subseteq ha[NextId].entries
  <2> DEFINE entries == ha[NextId].entries \ {job.sent.entry}
  <2>1. Home /\ entries \in SUBSET Entry /\ ha' = Linked(ha, NextId, entries)
    BY <1>1 DEF IInv, Typed, Home, ReplyLost
  <2>2. entries \subseteq ha[NextId].entries
    OBVIOUS
  <2> HIDE DEF entries
  <2>3. ha'[NextId] # None => ha'[NextId].entries = entries
    BY <1>1, <2>1, LinkedFacts
  <2> QED BY <2>2, <2>3 DEF Left
<1> QED BY <1>2, <1>3, <1>4 DEF Outcome

(* The last removal leaves only what was linked later.                     *)
LEMMA UnlinkedLeaves ==
  ASSUME IInv, Unlinked, Len(job'.results) > Len(job.results), NextId \in Device
  PROVE  Left(NextId) \subseteq Later(NextId)
<1>1. /\ JobUnderWay /\ Working /\ Reached /\ ha[NextId] # None
  BY UnderWay DEF IInv, Typed, SentOK, Waiting, Working, Unlinked
<1>2. job.todo \subseteq {job.sent.entry}
  <2>1. ASSUME NEW todo, NEW sent, job' = [job EXCEPT !.todo = todo, !.sent = sent] PROVE FALSE
    <3>1. job'.results = job.results
      BY <1>1, <2>1, Sends
    <3>2. Len(job.results) \in Nat
      BY <1>1 DEF JobUnderWay, ResultsOK
    <3> QED BY <3>1, <3>2
  <2> QED BY <2>1 DEF Unlinked
<1>3. Left(NextId) \subseteq ha[NextId].entries \ {job.sent.entry}
  <2> DEFINE entries == ha[NextId].entries \ {job.sent.entry}
  <2>1. Home /\ entries \in SUBSET Entry /\ ha' = Linked(ha, NextId, entries)
    BY <1>1 DEF IInv, Typed, Home, Unlinked
  <2> HIDE DEF entries
  <2>2. ha'[NextId] # None => ha'[NextId].entries = entries
    BY <1>1, <2>1, LinkedFacts
  <2> QED BY <2>2 DEF Left, entries
<1> QED BY <1>1, <1>2, <1>3 DEF Reached

(* Only these end a deletion that removes config entries.                  *)
LEMMA DeletionEnds ==
  ASSUME IInv, [Next]_vars, Working, Len(job'.results) > Len(job.results), job.sent # None,
         job.sent.call = "unlink"
  PROVE  Refused \/ Unlinked \/ ReplyLost
<1>1. job # Idle /\ Len(job.results) \in Nat
  BY UnderWay DEF Working, IInv, Typed, JobUnderWay, ResultsOK
<1>2. job' # job
  BY <1>1
<1>3. job' # Idle
  <2>1. Len(Idle.results) = 0
    BY DEF Idle
  <2> QED BY <1>1, <2>1
<1>4. ~EntityRequest /\ ~Save /\ ~ConfirmDelete /\ ~Submit
  <2>1. ~EntityRequest
    BY <1>1 DEF EntityRequest, Begin
  <2>2. ~Save
    BY <1>1 DEF Save, Begin
  <2>3. ~ConfirmDelete
    BY <1>1 DEF ConfirmDelete, Begin
  <2>4. ~Submit
    BY <1>1 DEF Submit, Begin
  <2> QED BY <2>1, <2>2, <2>3, <2>4
<1>5. /\ ~SetFilter /\ ~Select /\ ~OpenDrawer /\ ~EditDraft /\ ~RequestClose /\ ~Discard
      /\ ~OpenDialog /\ ~ChangePattern /\ ~Cancel
  BY <1>2, GestureFacts
     DEF SetFilter, Select, OpenDrawer, EditDraft, RequestClose, Discard, OpenDialog, ChangePattern, Cancel
<1>6. ~Edited /\ ~Refresh /\ ~Online /\ ~Fetch /\ ~FetchFails /\ ~AnswerArrives /\ ~UNCHANGED vars
  BY <1>2, <1>3
     DEF Edited, Refresh, Refreshed, Online, Fetch, FetchFails, bulkVars, AnswerArrives, Answered, vars
<1>7. ~Attempt /\ ~Listed /\ ~Removed /\ ~Changed
  BY DEF Attempt, Listed, Removed, Changed, Waiting
<1> QED BY <1>4, <1>5, <1>6, <1>7 DEF Next, Others, User, Server, ServerStep

(* A device reported as deleted is gone, but for entries linked since they *)
(* were listed; one that could not be deleted has no other entries left    *)
(* than those not yet reached.                                             *)
THEOREM DeletesAlwaysReported == Spec => DeleteOutcome
<1>1. IInv /\ [Next]_vars =>
        [(/\ job.op = "delete" /\ Working /\ NextId \in Device
          /\ Len(job'.results) > Len(job.results) /\ job.sent # None /\ job.sent.call = "unlink")
         => LET d    == NextId
                left == IF ha'[d] = None THEN {} ELSE ha'[d].entries
                missed == IF Last(job'.results).ok THEN {} ELSE job.todo
            IN  left \subseteq missed \cup {c \in Entry : <<d, c>> \in linked}]_bulkVars
  <2> SUFFICES ASSUME IInv, [Next]_vars, Working, NextId \in Device,
                      Len(job'.results) > Len(job.results), job.sent # None,
                      job.sent.call = "unlink"
               PROVE  Left(NextId) \subseteq
                        (IF Last(job'.results).ok THEN {} ELSE job.todo) \cup Later(NextId)
    BY DEF Left, Later
  <2>1. CASE Refused
    BY <2>1, RefusedLeaves DEF Waiting
  <2>2. CASE Unlinked
    BY <2>2, UnlinkedLeaves
  <2>3. CASE ReplyLost
    BY <2>3, ReplyLostLeaves
  <2> QED BY <2>1, <2>2, <2>3, DeletionEnds
<1> QED BY <1>1, Invariance, PTL DEF Spec, DeleteOutcome

---------------------------------------------------------------------------
LEMMA InvalidatedUntouched ==
  ASSUME NEW t, TabOK(t), ~t.failed PROVE Invalidated(t).drawer = t.drawer
<1>1. Mounted(t) = t
  BY DEF Mounted
<1> QED BY <1>1 DEF Invalidated, TabOK, TabFields

LEMMA UntouchedFacts ==
  ASSUME TabOK(tab), ~tab.failed
  PROVE  /\ Invalidated(tab).drawer = tab.drawer
         /\ \A dialog : [tab EXCEPT !.dialog = dialog].drawer = tab.drawer
         /\ Invalidated([tab EXCEPT !.dialog = None]).drawer = tab.drawer
<1>1. \A dialog : LET t == [tab EXCEPT !.dialog = dialog] IN t.drawer = tab.drawer /\ t.failed = tab.failed
  BY DEF TabOK, TabFields
<1>2. TabOK([tab EXCEPT !.dialog = None])
  BY ClosesDialog
<1> QED BY <1>1, <1>2, InvalidatedUntouched

(* The drawer stays open, and its draft changes by the user's hand only.   *)
Kept == tab'.drawer.id = tab.drawer.id /\ (tab'.drawer.draft = tab.drawer.draft \/ EditDraft)

LEMMA UntouchedKept == ASSUME tab'.drawer = tab.drawer PROVE Kept
BY DEF Kept

(* A refetch leaves the drawer open as it is, or finds its device gone.    *)
LEMMA FetchKeepsDraft ==
  ASSUME IInv, Fetch, ~tab.failed PROVE Kept \/ tab.drawer.id \notin DOMAIN tab'.shown
<1> DEFINE t == Arrived(ListDevices(tab.filter))
<1>1. DOMAIN t = TabFields /\ t.drawer = tab.drawer /\ t.failed = tab.failed
  BY DEF IInv, Typed, TabOK, TabFields, Arrived
<1>2. tab' = Effects(Mounted(t))
  BY DEF Fetch
<1> HIDE DEF t
<1>3. Mounted(t) = t
  BY <1>1 DEF Mounted
<1>4. tab'.shown = t.shown /\ tab'.drawer = IF t.drawer.id \in DOMAIN t.shown THEN t.drawer ELSE Closed
  BY <1>1, <1>2, <1>3 DEF Effects, TabFields
<1> QED BY <1>1, <1>4 DEF Kept

(* What the user does to an open drawer: edit it, or ask before it closes. *)
LEMMA UserKeepsDraft ==
  ASSUME IInv, User, tab.drawer.id # None, ~tab.failed, Dirty
  PROVE  Kept \/ (tab.dialog # tab'.dialog /\ InDialog("discard"))
<1>0. TabOK(tab)
  BY DEF IInv, Typed
<1>1. ~SetFilter /\ ~Select /\ ~OpenDrawer
  BY DEF SetFilter, Select, OpenDrawer, AtTable
<1>2. CASE EditDraft
  <2>1. tab'.drawer.id = tab.drawer.id
    BY <1>0, <1>2 DEF EditDraft, TabOK, TabFields, DrawerOK
  <2> QED BY <1>2, <2>1 DEF Kept
<1>3. CASE Save \/ RequestClose \/ OpenDialog \/ ChangePattern \/ Cancel \/ ConfirmDelete
  <2>1. tab' = tab \/ \E dialog : tab' = [tab EXCEPT !.dialog = dialog]
    BY <1>3 DEF Save, RequestClose, OpenDialog, ChangePattern, Cancel, ConfirmDelete, Opened
  <2> QED BY <1>0, <2>1, UntouchedFacts, UntouchedKept
<1>4. CASE Submit
  <2>1. tab' = tab \/ tab' = [tab EXCEPT !.dialog = [tab.dialog EXCEPT !.waits = TRUE]]
    BY <1>4 DEF Submit, IInv, Typed, TabOK, TabFields
  <2> QED BY <1>0, <2>1, UntouchedFacts, UntouchedKept
<1>5. CASE Discard
  <2> DEFINE t == DrawerClosed(tab, tab.dialog.back)
  <2>1. tab.dialog # None /\ InDialog("discard") /\ tab' = [t EXCEPT !.dialog = None]
    BY <1>5 DEF Discard, InDialog
  <2>2. TabOK(t)
    BY <2>1, DrawerClosedFacts DEF IInv, Typed, TabOK, DialogOK
  <2> HIDE DEF t
  <2>3. tab'.dialog = None
    BY <2>1, <2>2 DEF TabOK, TabFields
  <2> QED BY <2>1, <2>3
<1> QED BY <1>1, <1>2, <1>3, <1>4, <1>5 DEF User

(* An answer: only that to a deletion from the drawer closes it.           *)
LEMMA AnswerKeepsDraft ==
  ASSUME IInv, AnswerArrives, ~tab.failed
  PROVE  \/ Kept
         \/ job # Idle /\ job' = Idle /\ job.from # None /\ job.from.op = "delete in drawer" /\ AnyOk
<1>0. TabOK(tab)
  BY DEF IInv, Typed
<1>1. JobUnderWay /\ job # Idle /\ job' = Idle
  BY AnsweredFacts DEF AnswerArrives, Answered, IInv, Typed
<1>2. CASE job.from = None
  BY <1>2, UntouchedKept DEF AnswerArrives
<1>3. CASE job.from # None
  <2> DEFINE op == job.from.op
  <2>1. /\ op \in {"delete", "delete in drawer", "save", "rename", "assign", "rename pattern"}
        /\ job.dry \in BOOLEAN /\ tab' = AfterAnswer(tab)
    BY <1>1, <1>3 DEF JobUnderWay, DialogOK, AnswerArrives
  <2>2. CASE op = "delete"
    <3> DEFINE t == IF AskerMounted THEN [tab EXCEPT !.selection = {}] ELSE tab
    <3>1. tab' = Invalidated(t) \/ tab' = t
      BY <2>1, <2>2 DEF AfterAnswer
    <3>2. /\ DOMAIN t = TabFields /\ t.dialog = tab.dialog /\ t.filter = tab.filter
          /\ t.pages = tab.pages /\ t.shown = tab.shown /\ t.drawer = tab.drawer
          /\ t.failed = tab.failed /\ t.selection \subseteq tab.selection
      BY <1>0 DEF TabOK, TabFields
    <3> HIDE DEF t
    <3>3. TabOK(t)
      BY <1>0, <3>2 DEF TabOK
    <3>4. tab'.drawer = tab.drawer
      BY <3>1, <3>2, <3>3, InvalidatedUntouched
    <3> QED BY <3>4, UntouchedKept
  <2>3. CASE op = "delete in drawer"
    <3>1. AnyOk \/ tab' = tab
      BY <2>1, <2>3 DEF AfterAnswer
    <3> QED BY <1>1, <1>3, <2>3, <3>1, UntouchedKept
  <2>4. CASE op \in {"save", "rename", "assign"}
    <3>1. tab' \in {tab, Invalidated(tab), Invalidated([tab EXCEPT !.dialog = None])}
      BY <2>1, <2>4 DEF AfterAnswer
    <3> QED BY <1>0, <3>1, UntouchedFacts, UntouchedKept
  <2>5. CASE op = "rename pattern" /\ ~job.dry
    <3>1. tab' = Invalidated([tab EXCEPT !.dialog = None])
      BY <2>1, <2>5 DEF AfterAnswer
    <3> QED BY <1>0, <3>1, UntouchedFacts, UntouchedKept
  <2>6. CASE op = "rename pattern" /\ job.dry
    <3>1. tab' = tab \/ tab' = [tab EXCEPT !.dialog.waits = FALSE, !.dialog.found = Matched]
      BY <2>1, <2>6 DEF AfterAnswer
    <3>2. tab' = tab \/ tab' = [tab EXCEPT !.dialog = [tab.dialog EXCEPT !.waits = FALSE, !.found = Matched]]
      BY <3>1 DEF IInv, Typed, TabOK, TabFields
    <3> QED BY <1>0, <3>2, UntouchedFacts, UntouchedKept
  <2>7. op = "rename pattern" => (op = "rename pattern" /\ ~job.dry) \/ (op = "rename pattern" /\ job.dry)
    BY Zenon
  <2> HIDE DEF op
  <2> QED BY <2>1, <2>2, <2>3, <2>4, <2>5, <2>6, <2>7
<1> QED BY <1>2, <1>3

(* Unsaved edits survive every refetch that succeeds and every answer, for *)
(* any lists, requests and dialogs: they change by the user's hand, and go *)
(* only when the user discards them, when their device leaves the table,   *)
(* when a deletion from a drawer succeeds, or when a refetch fails and an  *)
(* alert takes the place of the drawer (pages/Devices/DevicesPage.tsx,     *)
(* EditDeviceDrawer.tsx).                                                  *)
THEOREM DraftAlwaysKept == Spec => DraftKept
<1>1. IInv /\ [Next]_vars =>
        [tab.drawer.id # None /\ ~tab.failed /\ Dirty =>
           \/ /\ tab'.drawer.id = tab.drawer.id
              /\ tab'.drawer.draft = tab.drawer.draft \/ EditDraft
           \/ tab.dialog # tab'.dialog /\ InDialog("discard")
           \/ tab.drawer.id \notin DOMAIN tab'.shown
           \/ job # Idle /\ job' = Idle /\ job.from # None
                /\ job.from.op = "delete in drawer" /\ AnyOk
           \/ tab'.failed]_vars
  <2> SUFFICES ASSUME IInv, [Next]_vars, tab.drawer.id # None, ~tab.failed, Dirty
               PROVE  \/ Kept
                      \/ tab.dialog # tab'.dialog /\ InDialog("discard")
                      \/ tab.drawer.id \notin DOMAIN tab'.shown
                      \/ job # Idle /\ job' = Idle /\ job.from # None
                           /\ job.from.op = "delete in drawer" /\ AnyOk
                      \/ tab'.failed
    BY DEF Kept
  <2>0. TabOK(tab)
    BY DEF IInv, Typed
  <2>1. CASE UNCHANGED vars \/ Others \/ Server
    <3>1. tab' = tab
      BY <2>1 DEF vars, Others, Server
    <3> QED BY <3>1, UntouchedKept
  <2>2. CASE Refresh \/ Online
    <3>1. tab' = Invalidated(tab) \/ tab' = [tab EXCEPT !.missed = TRUE]
      BY <2>2 DEF Refresh, Online
    <3>2. [tab EXCEPT !.missed = TRUE].drawer = tab.drawer
      BY <2>0 DEF TabOK, TabFields
    <3> QED BY <2>0, <3>1, <3>2, UntouchedFacts, UntouchedKept
  <2>3. CASE FetchFails
    <3>1. tab'.failed
      BY <2>0, <2>3 DEF FetchFails, Unmounted, TabOK, TabFields
    <3> QED BY <3>1
  <2> QED BY <2>1, <2>2, <2>3, FetchKeepsDraft, UserKeepsDraft, AnswerKeepsDraft DEF Next
<1> QED BY <1>1, Invariance, PTL DEF Spec, DraftKept
============================================================================
