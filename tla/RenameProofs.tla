---------------------------- MODULE RenameProofs ----------------------------
(***************************************************************************)
(* A rename gives every item what its dry run showed (PreviewKept of       *)
(* BulkActions), for any home, patterns and bounds.                        *)
(*                                                                         *)
(* While nobody else changes anything, the items a rename has still to     *)
(* come to are as they were when it began, in Home Assistant and in the    *)
(* cache, so each is given what its preview said; and no item is moved     *)
(* onto another, so none that was given its name loses it again.           *)
(***************************************************************************)
EXTENDS DevicePageProofs

(* An outcome of a dry run says what the pattern makes of the item. *)
Matches(p, sub) ==
  cache[p.id] # None => p.uid = cache[p.id].uid /\ p.changes = Proposed(p.id, sub)

Shown(outcomes, sub) == cache = Seen(ha) /\ \A p \in Range(outcomes) : Matches(p, sub)

(* The items a request has still to settle. *)
Ahead == {job.ids[n] : n \in (Len(job.results) + 1)..Len(job.ids)}

Place(p) == IF "id" \in DOMAIN p.changes THEN p.changes.id ELSE p.id

Given(p) ==
  /\ ha[Place(p)] # None /\ ha[Place(p)].uid = p.uid
  /\ "name" \in DOMAIN p.changes => ha[Place(p)].name = p.changes.name

(* A rename in the middle. *)
Renaming ==
  /\ \A i \in Ahead : cache[i] = Seen(ha)[i] /\ (i \in EntityId => ha[i] # None)
  /\ job.sent # None =>
       /\ Working /\ cache[NextId] # None
       /\ job.sent = [call |-> "update", changes |-> Proposed(NextId, job.arg)]
  /\ preview.sub = job.arg => \A p \in Range(preview.results) :
       /\ p.id \in Ahead => Matches(p, job.arg)
       /\ \A o \in Range(job.results) : o.id = p.id /\ o.ok => Given(p) /\ Place(p) \in Item \ Ahead

PreviewOK ==
  /\ job # Idle /\ job.dry => job.sent = None
  /\ clean /\ job = Idle => Shown(preview.results, preview.sub)
  /\ clean /\ job # Idle /\ job.dry => Shown(job.results, job.arg)
  /\ clean /\ job # Idle /\ ~job.dry => job.op = "rename" /\ Renaming

---------------------------------------------------------------------------
(* What is ahead are items asked for, the next one among them.             *)
LEMMA AheadFacts ==
  ASSUME JobUnderWay
  PROVE  /\ Ahead \subseteq Item
         /\ Working => NextId \in Ahead
         /\ \A o : Working /\ job'.ids = job.ids /\ job'.results = Append(job.results, o) =>
              Ahead' = Ahead \ {NextId}
<1> DEFINE m == Len(job.results)
           L == Len(job.ids)
           ids == job.ids
<1>1. /\ m \in Nat /\ L \in Nat /\ ids \in Seq(Item) /\ DOMAIN ids = 1..L
      /\ \A a, b \in 1..L : ids[a] = ids[b] => a = b
  BY DEF JobUnderWay, ResultsOK, IsInjective
<1>2. Ahead = {ids[n] : n \in (m + 1)..L}
  BY DEF Ahead
<1>3. Working => m < L /\ NextId = ids[m + 1]
  BY DEF Working, NextId
<1>4. ASSUME NEW o, Working, job'.ids = job.ids, job'.results = Append(job.results, o)
      PROVE  Ahead' = Ahead \ {NextId}
  <2>1. Len(job'.results) = m + 1
    BY <1>4, <1>1 DEF JobUnderWay, ResultsOK
  <2>2. Ahead' = {ids[n] : n \in (m + 2)..L}
    BY <1>1, <1>4, <2>1 DEF Ahead
  <2> HIDE DEF m, L, ids
  <2>3. \A n \in (m + 2)..L : n \in (m + 1)..L /\ ids[n] # ids[m + 1]
    BY <1>1, <1>3, <1>4
  <2>4. \A n \in (m + 1)..L : n = m + 1 \/ n \in (m + 2)..L
    BY <1>1
  <2> QED BY <1>2, <1>3, <1>4, <2>2, <2>3, <2>4
<1> HIDE DEF m, L, ids
<1>5. Ahead \subseteq Item
  BY <1>1, <1>2
<1>6. Working => NextId \in Ahead
  BY <1>1, <1>2, <1>3
<1> QED BY <1>4, <1>5, <1>6

(* What the pattern makes of an item that is known. *)
LEMMA ProposedFacts ==
  ASSUME NEW i \in Item, NEW sub \in Subs
  PROVE  LET changes == Proposed(i, sub) IN
         /\ DOMAIN changes \subseteq {"id", "name"}
         /\ "id" \in DOMAIN changes => i \notin Device /\ changes.id \in EntityId /\ changes.id # i
<1>1. sub.id \in [EntityId -> EntityId]
  BY ItemsAssumption
<1>2. i \notin Device => sub.id[i] \in EntityId
  BY <1>1 DEF Item
<1> QED BY <1>2 DEF Proposed

(* What a step that leaves the request, the registries, the cache and the  *)
(* preview alone keeps. *)
LEMMA PreviewStays ==
  ASSUME PreviewOK, UNCHANGED <<ha, cache, job, preview>>, clean' => clean PROVE PreviewOK'
<1>1. ha' = ha /\ cache' = cache /\ job' = job /\ preview' = preview
  OBVIOUS
<1>2. /\ Seen(ha)' = Seen(ha) /\ Ahead' = Ahead /\ Working' = Working /\ NextId' = NextId
      /\ \A i, sub : Proposed(i, sub)' = Proposed(i, sub)
  BY <1>1 DEF Seen, Ahead, Working, NextId, Proposed
<1>3. /\ \A p, sub : Matches(p, sub)' <=> Matches(p, sub)
      /\ \A p : Given(p)' <=> Given(p)
  BY <1>1, <1>2 DEF Matches, Given
<1>4. \A outcomes, sub : Shown(outcomes, sub)' <=> Shown(outcomes, sub)
  BY <1>1, <1>2, <1>3 DEF Shown
<1>5. Renaming => Renaming'
  <2> SUFFICES ASSUME Renaming PROVE Renaming'
    OBVIOUS
  <2>1. \A i \in Ahead : cache'[i] = Seen(ha)'[i] /\ (i \in EntityId => ha'[i] # None)
    BY <1>1, <1>2 DEF Renaming
  <2>2. job.sent # None =>
          /\ Working /\ cache[NextId] # None
          /\ job.sent = [call |-> "update", changes |-> Proposed(NextId, job.arg)]
    BY DEF Renaming
  <2>3. preview.sub = job.arg => \A p \in Range(preview.results) :
          /\ p.id \in Ahead => Matches(p, job.arg)
          /\ \A o \in Range(job.results) : o.id = p.id /\ o.ok => Given(p) /\ Place(p) \in Item \ Ahead
    BY DEF Renaming
  <2> QED BY <1>1, <1>2, <1>3, <2>1, <2>2, <2>3 DEF Renaming
<1> QED BY <1>1, <1>4, <1>5 DEF PreviewOK

(* Somebody else's change ends what the preview promised.                  *)
LEMMA EditedKeepsPreview == ASSUME PreviewOK, Edited PROVE PreviewOK'
BY DEF PreviewOK, Edited

(* A refresh shows the cache what the rename has done so far.              *)
LEMMA RefreshKeepsPreview == ASSUME IInv, PreviewOK, Refreshed PROVE PreviewOK'
<1>1. /\ cache # Seen(ha) /\ cache' = Seen(ha) /\ ha' = ha /\ job' = job /\ preview' = preview
      /\ clean' = clean
  BY DEF Refreshed
<1>2. ASSUME clean, job # Idle, ~job.dry PROVE Renaming'
  <2>1. Renaming /\ JobUnderWay
    BY <1>2 DEF PreviewOK, IInv, Typed, JobOK
  <2>2. Ahead' = Ahead /\ Seen(ha)' = Seen(ha) /\ Working' = Working /\ NextId' = NextId
    BY <1>1 DEF Ahead, Seen, Working, NextId
  <2>3. \A i \in Ahead : cache'[i] = cache[i]
    BY <1>1, <2>1 DEF Renaming
  <2>4. \A i \in Ahead : \A sub : Proposed(i, sub)' = Proposed(i, sub)
    BY <2>3 DEF Proposed
  <2>5. Working => NextId \in Ahead
    BY <2>1, AheadFacts
  <2>6. \A i \in Ahead : cache'[i] = Seen(ha)'[i] /\ (i \in EntityId => ha'[i] # None)
    BY <1>1, <2>1, <2>2 DEF Renaming
  <2>7. job.sent # None =>
          /\ Working /\ cache'[NextId] # None
          /\ job.sent = [call |-> "update", changes |-> Proposed(NextId, job.arg)']
    <3> SUFFICES ASSUME job.sent # None
                 PROVE  /\ Working /\ cache'[NextId] # None
                        /\ job.sent = [call |-> "update", changes |-> Proposed(NextId, job.arg)']
      OBVIOUS
    <3>1. /\ Working /\ cache[NextId] # None
          /\ job.sent = [call |-> "update", changes |-> Proposed(NextId, job.arg)]
      BY <2>1 DEF Renaming
    <3>2. NextId \in Ahead
      BY <2>5, <3>1
    <3>3. Proposed(NextId, job.arg)' = Proposed(NextId, job.arg)
      BY <1>1, <2>2, <2>4, <3>2
    <3> QED BY <2>3, <3>1, <3>2, <3>3
  <2>8. ASSUME preview.sub = job.arg, NEW p \in Range(preview.results)
        PROVE  /\ p.id \in Ahead => Matches(p, job.arg)'
               /\ \A o \in Range(job.results) :
                    o.id = p.id /\ o.ok => Given(p)' /\ Place(p) \in Item \ Ahead
    <3>1. p.id \in Ahead => Matches(p, job.arg)'
      <4> SUFFICES ASSUME p.id \in Ahead PROVE Matches(p, job.arg)'
        OBVIOUS
      <4>1. Matches(p, job.arg) /\ cache'[p.id] = cache[p.id]
            /\ Proposed(p.id, job.arg)' = Proposed(p.id, job.arg)
        BY <1>1, <2>1, <2>3, <2>4, <2>8 DEF Renaming
      <4> QED BY <4>1 DEF Matches
    <3>2. Given(p)' = Given(p)
      BY <1>1 DEF Given, Place
    <3> QED BY <2>1, <2>8, <3>1, <3>2 DEF Renaming
  <2> QED BY <1>1, <2>2, <2>6, <2>7, <2>8 DEF Renaming, Place
<1> QED BY <1>1, <1>2 DEF PreviewOK, Shown

(* A request begins: a dry run shows nothing yet, and a rename is about    *)
(* items that are as the cache has them. *)
LEMMA BeginKeepsPreview ==
  ASSUME IInv, PreviewOK, NEW op, NEW ids \in Seq(Item), NEW arg, NEW dry \in BOOLEAN, NEW from,
         \A i \in Range(ids) : i \in EntityId => cache[i] # None,
         Begin(op, ids, arg, dry, from)
  PROVE  PreviewOK'
<1>1. /\ job = Idle /\ job'.op = op /\ job'.ids = ids /\ job'.arg = arg /\ job'.dry = dry
      /\ job'.results = << >> /\ job'.sent = None
      /\ ha' = ha /\ cache' = cache /\ preview' = preview
      /\ clean' = IF dry THEN cache = Seen(ha) ELSE clean /\ op = "rename"
  BY DEF Begin
<1>0. job' # Idle
  BY DEF Begin, Idle
<1>2. Range(<< >>) = {}
  BY DEF Range
<1>3. Seen(ha)' = Seen(ha)
  BY <1>1 DEF Seen
<1>4. CASE dry
  <2>1. clean' => Shown(job.results, job.arg)'
    BY <1>1, <1>2, <1>3, <1>4 DEF Shown
  <2>2. job' # Idle
    BY <1>0
  <2> QED BY <1>1, <1>4, <2>1, <2>2 DEF PreviewOK
<1>5. CASE ~dry
  <2>0. job' # Idle
    BY <1>0
  <2> SUFFICES ASSUME clean' PROVE Renaming'
    BY <1>1, <1>5, <2>0 DEF PreviewOK
  <2>1. Shown(preview.results, preview.sub)
    BY <1>1, <1>5 DEF PreviewOK
  <2>2. Ahead' \subseteq Range(ids) /\ Range(ids) \subseteq Item
    BY <1>1 DEF Ahead, Range
  <2>3. \A i \in Ahead' : cache'[i] = Seen(ha)'[i] /\ (i \in EntityId => ha'[i] # None)
    <3> SUFFICES ASSUME NEW i \in Ahead', i \in EntityId PROVE ha[i] # None
      BY <1>1, <1>3, <2>1 DEF Shown
    <3>1. i \in Item /\ Seen(ha)[i] # None
      BY <2>1, <2>2 DEF Shown
    <3> QED BY <3>1 DEF Seen
  <2>4. \A p \in Range(preview.results) : Matches(p, preview.sub)'
    <3>1. \A i, sub : Proposed(i, sub)' = Proposed(i, sub)
      BY <1>1 DEF Proposed
    <3>2. preview'.sub = preview.sub
      BY <1>1
    <3> QED BY <1>1, <2>1, <3>1, <3>2 DEF Shown, Matches
  <2>5. job'.sent = None /\ Range(job'.results) = {} /\ preview'.sub = preview.sub
        /\ preview'.results = preview.results
    BY <1>1, <1>2
  <2> QED BY <2>3, <2>4, <2>5 DEF Renaming, Matches, Proposed
<1> QED BY <1>4, <1>5

---------------------------------------------------------------------------
(* What settles an item: a dry run says what the pattern makes of it; a    *)
(* rename leaves alone what is ahead and what has been given its name, and *)
(* gives the item what was shown of it.                                    *)
LEMMA SettleKeepsPreview ==
  ASSUME JobUnderWay, Working, PreviewOK, NEW o, o.id = NextId,
         DOMAIN job' = JobFields, job'.op = job.op, job'.arg = job.arg, job'.ids = job.ids,
         job'.dry = job.dry, job'.results = Append(job.results, o), job'.sent = None,
         UNCHANGED <<cache, preview, clean>>,
         clean /\ job.dry => ha' = ha /\ Matches(o, job.arg),
         clean /\ ~job.dry =>
           /\ \A i \in Ahead \ {NextId} : ha'[i] = ha[i]
           /\ \A p : Given(p) /\ Place(p) \in Item \ Ahead => Given(p)'
           /\ o.ok => \A p : p.id = NextId /\ Matches(p, job.arg) =>
                        Given(p)' /\ Place(p) \in Item \ (Ahead \ {NextId})
  PROVE  PreviewOK'
<1>1. Range(job'.results) = Range(job.results) \cup {o}
  <2>1. PICK S : job.results \in Seq(S)
    BY DEF JobUnderWay, ResultsOK
  <2>2. /\ Len(job.results) \in Nat /\ DOMAIN job'.results = 1..(Len(job.results) + 1)
        /\ DOMAIN job.results = 1..Len(job.results) /\ job'.results[Len(job.results) + 1] = o
        /\ \A n \in 1..Len(job.results) : job'.results[n] = job.results[n]
    BY <2>1
  <2>3. \A n \in 1..(Len(job.results) + 1) : n \in 1..Len(job.results) \/ n = Len(job.results) + 1
    BY <2>2
  <2>4. \A n \in 1..Len(job.results) : n \in 1..(Len(job.results) + 1)
    BY <2>2
  <2>5. Len(job.results) + 1 \in 1..(Len(job.results) + 1)
    BY <2>2
  <2> QED BY <2>2, <2>3, <2>4, <2>5 DEF Range
<1>2. Ahead' = Ahead \ {NextId} /\ NextId \in Ahead /\ Ahead \subseteq Item
  BY AheadFacts
<1>3. \A i, sub : Proposed(i, sub)' = Proposed(i, sub)
  BY DEF Proposed
<1>4. \A p, sub : Matches(p, sub)' <=> Matches(p, sub)
  BY <1>3 DEF Matches
<1>5. job' # Idle /\ job # Idle
  <2>1. DOMAIN Idle = {"op", "ids", "results"}
    BY DEF Idle
  <2> QED BY <2>1 DEF JobFields, JobUnderWay
<1>6. CASE job.dry
  <2> SUFFICES ASSUME clean PROVE Shown(job.results, job.arg)'
    BY <1>5, <1>6 DEF PreviewOK
  <2>1. ha' = ha /\ Shown(job.results, job.arg) /\ Matches(o, job.arg)
    BY <1>5, <1>6 DEF PreviewOK
  <2>2. Seen(ha)' = Seen(ha)
    BY <2>1 DEF Seen
  <2> QED BY <1>1, <1>4, <2>1, <2>2 DEF Shown
<1>7. CASE ~job.dry
  <2> SUFFICES ASSUME clean PROVE job'.op = "rename" /\ Renaming'
    BY <1>5, <1>7 DEF PreviewOK
  <2>1. Renaming /\ job.op = "rename"
    BY <1>5, <1>7 DEF PreviewOK
  <2>2. \A i \in Ahead' : cache'[i] = Seen(ha)'[i] /\ (i \in EntityId => ha'[i] # None)
    <3> SUFFICES ASSUME NEW i \in Ahead \ {NextId}
                 PROVE  cache[i] = Seen(ha)'[i] /\ (i \in EntityId => ha'[i] # None)
      BY <1>2
    <3>1. i \in Item /\ ha'[i] = ha[i]
      BY <1>2, <1>7
    <3>2. Seen(ha)'[i] = Seen(ha)[i]
      BY <3>1 DEF Seen
    <3> QED BY <2>1, <3>1, <3>2 DEF Renaming
  <2>3. ASSUME preview.sub = job.arg, NEW p \in Range(preview.results), p.id \in Ahead'
        PROVE  Matches(p, job.arg)
    BY <1>2, <2>1, <2>3 DEF Renaming
  <2>4. ASSUME preview.sub = job.arg, NEW p \in Range(preview.results), NEW r \in Range(job'.results),
               r.id = p.id, r.ok
        PROVE  Given(p)' /\ Place(p) \in Item \ Ahead'
    <3>1. CASE r \in Range(job.results)
      BY <1>2, <1>7, <2>1, <2>4, <3>1 DEF Renaming
    <3>2. CASE r = o
      <4>1. p.id = NextId /\ Matches(p, job.arg)
        BY <1>2, <2>1, <2>4, <3>2 DEF Renaming
      <4> QED BY <1>2, <1>7, <2>4, <3>2, <4>1
    <3> QED BY <1>1, <2>4, <3>1, <3>2
  <2> QED BY <1>4, <2>1, <2>2, <2>3, <2>4 DEF Renaming, Place
<1> QED BY <1>6, <1>7

(* What the server decides by itself. *)
LEMMA DecidedKeepsPreview ==
  ASSUME JobUnderWay, Working, PreviewOK, NEW o \in Decided, job' = Settled(o),
         UNCHANGED <<ha, cache, preview, clean>>
  PROVE  PreviewOK'
<1> DEFINE changes == Proposed(NextId, job.arg)
<1>1. /\ DOMAIN job' = JobFields /\ job'.op = job.op /\ job'.arg = job.arg /\ job'.ids = job.ids
      /\ job'.dry = job.dry /\ job'.results = Append(job.results, o) /\ job'.sent = None
  BY SettledFields DEF JobFields
<1>2. /\ o.id = NextId
      /\ \/ Unknown /\ ~o.ok
         \/ /\ cache[NextId] # None /\ o.changes = changes /\ o.uid = cache[NextId].uid
            /\ job.op = "rename"
            /\ ~job.dry /\ o.ok => changes = << >> /\ NextId \in EntityId
  <2>1. CASE Unknown
    BY <2>1 DEF Decided, Outcome
  <2>2. CASE ~Unknown
    <3>1. job.op = "rename" /\ cache[NextId] # None
      BY <2>2 DEF Decided, Unknown
    <3>2. \/ changes = << >> /\ o = Outcome(NextId \in EntityId, changes)
          \/ job.dry /\ o = Outcome(TRUE, changes)
      BY <2>2, <3>1 DEF Decided
    <3> HIDE DEF changes
    <3>3. o.id = NextId /\ o.changes = changes /\ o.uid = cache[NextId].uid
      BY <3>1, <3>2 DEF Outcome
    <3>4. ~job.dry /\ o.ok => changes = << >> /\ NextId \in EntityId
      <4> SUFFICES ASSUME ~job.dry, o.ok PROVE changes = << >> /\ NextId \in EntityId
        OBVIOUS
      <4> DEFINE known == NextId \in EntityId
      <4>1. changes = << >> /\ o = Outcome(known, changes)
        BY <3>2
      <4> HIDE DEF known
      <4>2. o.ok = known
        BY <4>1 DEF Outcome
      <4> QED BY <4>1, <4>2 DEF known
    <3> QED BY <3>1, <3>3, <3>4
  <2> QED BY <2>1, <2>2
<1>3. ASSUME clean, job.dry PROVE Matches(o, job.arg)
  <2>1. CASE Unknown
    BY <1>2, <2>1 DEF Unknown, Matches
  <2>2. CASE ~Unknown
    BY <1>2, <2>2 DEF Matches
  <2> QED BY <2>1, <2>2
<1>4. \A p : Given(p)' <=> Given(p)
  BY DEF Given
<1>5. ASSUME clean, ~job.dry, o.ok, NEW p, p.id = NextId, Matches(p, job.arg)
      PROVE  Given(p)' /\ Place(p) \in Item \ (Ahead \ {NextId})
  <2>1. cache[NextId] # None /\ changes = << >> /\ NextId \in EntityId
    BY <1>2, <1>5
  <2>2. p.changes = << >> /\ p.uid = cache[NextId].uid
    BY <1>5, <2>1 DEF Matches
  <2>3. Place(p) = NextId /\ "name" \notin DOMAIN p.changes
    BY <1>5, <2>2 DEF Place
  <2>4. /\ NextId \in Ahead /\ NextId \in Item
        /\ cache[NextId] = Seen(ha)[NextId] /\ ha[NextId] # None
    <3>1. NextId \in Ahead /\ Ahead \subseteq Item
      BY AheadFacts
    <3>2. Renaming
      BY <1>5 DEF PreviewOK, Working
    <3> QED BY <2>1, <3>1, <3>2 DEF Renaming
  <2>5. ha[NextId].uid = p.uid
    BY <2>2, <2>4 DEF Seen
  <2> QED BY <1>4, <2>3, <2>4, <2>5 DEF Given
<1> HIDE DEF changes
<1> QED BY <1>1, <1>2, <1>3, <1>4, <1>5, SettleKeepsPreview

(* The server looks at the next item, in the cache.                        *)
LEMMA AttemptKeepsPreview == ASSUME IInv, PreviewOK, Attempt PROVE PreviewOK'
<1>1. JobUnderWay /\ Working /\ UNCHANGED <<ha, cache, preview, clean>> /\ job # Idle
  BY UnderWay DEF Attempt, IInv, Typed, Working
<1>2. ASSUME NEW o \in Decided, job' = Settled(o) PROVE PreviewOK'
  BY <1>1, <1>2, DecidedKeepsPreview
<1>3. CASE Decided = {} /\ job' = [job EXCEPT !.sent = Request]
  <2>1. /\ job'.op = job.op /\ job'.arg = job.arg /\ job'.ids = job.ids /\ job'.dry = job.dry
        /\ job'.results = job.results /\ job'.sent = Request /\ DOMAIN job' = JobFields
    BY <1>1, <1>3 DEF JobUnderWay, JobFields
  <2>2. ~Unknown /\ ~job.dry
    BY <1>1, <1>3 DEF Decided, JobUnderWay
  <2>3. job' # Idle
    <3>1. DOMAIN Idle = {"op", "ids", "results"}
      BY DEF Idle
    <3> QED BY <2>1, <3>1 DEF JobFields
  <2> SUFFICES ASSUME clean PROVE job.op = "rename" /\ Renaming'
    BY <1>1, <2>1, <2>2, <2>3 DEF PreviewOK
  <2>4. job.op = "rename" /\ Renaming
    BY <1>1, <2>2 DEF PreviewOK
  <2>5. cache[NextId] # None /\ Request = [call |-> "update", changes |-> Proposed(NextId, job.arg)]
    BY <2>2, <2>4 DEF Unknown, Request
  <2>6. /\ Seen(ha)' = Seen(ha) /\ Ahead' = Ahead /\ Working' /\ NextId' = NextId
        /\ \A i, sub : Proposed(i, sub)' = Proposed(i, sub)
    BY <1>1, <2>1, <2>3 DEF Seen, Ahead, Working, NextId, Proposed
  <2>7. (\A p, sub : Matches(p, sub)' <=> Matches(p, sub)) /\ (\A p : Given(p)' <=> Given(p))
    BY <1>1, <2>6 DEF Matches, Given
  <2>8. \A i \in Ahead : cache'[i] = Seen(ha)'[i] /\ (i \in EntityId => ha'[i] # None)
    BY <1>1, <2>4, <2>6 DEF Renaming
  <2>9. preview.sub = job.arg => \A p \in Range(preview.results) :
          /\ p.id \in Ahead => Matches(p, job.arg)
          /\ \A o \in Range(job.results) : o.id = p.id /\ o.ok => Given(p) /\ Place(p) \in Item \ Ahead
    BY <2>4 DEF Renaming
  <2> QED BY <1>1, <2>1, <2>4, <2>5, <2>6, <2>7, <2>8, <2>9 DEF Renaming
<1> QED BY <1>2, <1>3 DEF Attempt

(* What is waited for: nothing in a dry run, an update in a rename.        *)
LEMMA WaitingFacts ==
  ASSUME IInv, PreviewOK, Working, job.sent # None
  PROVE  /\ JobUnderWay /\ ~job.dry
         /\ clean => /\ Renaming /\ cache[NextId] # None
                     /\ job.sent = [call |-> "update", changes |-> Proposed(NextId, job.arg)]
                     /\ job.arg \in Subs
<1>1. JobUnderWay /\ ~job.dry /\ job # Idle
  BY UnderWay DEF IInv, Typed, PreviewOK, Working
<1>2. clean => Renaming /\ job.op = "rename"
  BY <1>1 DEF PreviewOK
<1> QED BY <1>1, <1>2 DEF Renaming, JobUnderWay

(* A refused item is reported so, and is as it was.                        *)
LEMMA RefusedKeepsPreview == ASSUME IInv, PreviewOK, Refused PROVE PreviewOK'
<1> DEFINE o == Outcome(FALSE, << >>)
<1>1. /\ Working /\ job.sent # None /\ job' = Settled(o)
      /\ UNCHANGED <<ha, cache, preview, clean>>
  BY DEF Refused
<1>2. JobUnderWay /\ ~job.dry
  BY <1>1, WaitingFacts
<1>3. ~o.ok /\ o.id = NextId
  BY DEF Outcome
<1> HIDE DEF o
<1>4. /\ DOMAIN job' = JobFields /\ job'.op = job.op /\ job'.arg = job.arg /\ job'.ids = job.ids
      /\ job'.dry = job.dry /\ job'.results = Append(job.results, o) /\ job'.sent = None
  BY <1>1, <1>2, SettledFields DEF JobFields
<1>5. \A p : Given(p)' <=> Given(p)
  BY <1>1 DEF Given
<1> QED BY <1>1, <1>2, <1>3, <1>4, <1>5, SettleKeepsPreview

(* The calls of a deletion: no preview is awaited. *)
LEMMA DeletionKeepsPreview == ASSUME IInv, PreviewOK, Listed \/ Unlinked \/ Removed PROVE PreviewOK'
<1>1. /\ Working /\ job.sent # None /\ job.sent.call # "update" /\ clean' = clean
  BY DEF Listed, Unlinked, Removed, Waiting
<1>2. JobUnderWay /\ ~job.dry /\ ~clean
  BY <1>1, WaitingFacts
<1>3. job'.dry = job.dry
  <2>1. \A todo, sent : [job EXCEPT !.todo = todo, !.sent = sent].dry = job.dry
    BY <1>2 DEF JobUnderWay, JobFields
  <2>2. \A o : Settled(o).dry = job.dry /\ [Settled(o) EXCEPT !.todo = {}].dry = job.dry
    BY <1>2, SettledFields DEF JobFields
  <2>3. CASE Listed
    <3> DEFINE all == ha[NextId].entries
    <3>1. \/ \E o : job' = Settled(o)
          \/ \E call : job' = [job EXCEPT !.todo = all, !.sent = call]
      BY <2>3 DEF Listed
    <3> HIDE DEF all
    <3>2. CASE \E o : job' = Settled(o)
      BY <2>2, <3>2
    <3>3. CASE \E call : job' = [job EXCEPT !.todo = all, !.sent = call]
      BY <2>1, <3>3
    <3> QED BY <3>1, <3>2, <3>3
  <2>4. CASE Unlinked
    <3> DEFINE left == job.todo \ {job.sent.entry}
           o == Outcome(TRUE, << >>)
    <3>1. \/ job' = [Settled(o) EXCEPT !.todo = {}]
          \/ \E call : job' = [job EXCEPT !.todo = left, !.sent = call]
      BY <2>4 DEF Unlinked
    <3> HIDE DEF left, o
    <3>2. CASE \E call : job' = [job EXCEPT !.todo = left, !.sent = call]
      BY <2>1, <3>2
    <3> QED BY <2>2, <3>1, <3>2
  <2>5. CASE Removed
    <3> DEFINE o == Outcome(TRUE, << >>)
    <3>1. job' = Settled(o)
      BY <2>5 DEF Removed
    <3> HIDE DEF o
    <3> QED BY <2>2, <3>1
  <2> QED BY <2>3, <2>4, <2>5
<1> QED BY <1>1, <1>2, <1>3 DEF PreviewOK

(* An item is given what its dry run showed of it, whether its update is   *)
(* answered or not. *)
LEMMA CarriedOutKeepsPreview ==
  ASSUME IInv, PreviewOK, Waiting("update"), ha[NextId] # None,
         "id" \in DOMAIN job.sent.changes => ha[job.sent.changes.id] = None,
         ha' = Updated(ha, NextId, job.sent.changes),
         NEW o, o.id = NextId, job' = Settled(o), UNCHANGED <<cache, preview, clean>>
  PROVE  PreviewOK'
<1> DEFINE changes == job.sent.changes
           i == NextId
           to == IF "id" \in DOMAIN changes THEN changes.id ELSE i
           new == [f \in DOMAIN ha[i] |-> IF f \in DOMAIN changes THEN changes[f] ELSE ha[i][f]]
<1>1. /\ Working /\ job.sent # None /\ ha[i] # None
      /\ "id" \in DOMAIN changes => ha[changes.id] = None
      /\ ha' = [ha EXCEPT ![i] = None, ![to] = new]
  BY DEF Waiting, Updated
<1>2. /\ JobUnderWay /\ ~job.dry
      /\ clean => /\ Renaming /\ cache[i] # None /\ changes = Proposed(i, job.arg)
                  /\ job.arg \in Subs
  BY <1>1, WaitingFacts
<1>3. i \in Ahead /\ i \in Item /\ Ahead \subseteq Item
  BY <1>1, <1>2, AheadFacts
<1>4. /\ DOMAIN job' = JobFields /\ job'.op = job.op /\ job'.arg = job.arg /\ job'.ids = job.ids
      /\ job'.dry = job.dry /\ job'.results = Append(job.results, o) /\ job'.sent = None
  BY <1>2, SettledFields DEF JobFields
<1> SUFFICES ASSUME clean
             PROVE  /\ \A j \in Ahead \ {i} : ha'[j] = ha[j]
                    /\ \A p : Given(p) /\ Place(p) \in Item \ Ahead => Given(p)'
                    /\ \A p : p.id = i /\ Matches(p, job.arg) =>
                         Given(p)' /\ Place(p) \in Item \ (Ahead \ {i})
  BY <1>1, <1>2, <1>4, SettleKeepsPreview
<1>5. /\ DOMAIN changes \subseteq {"id", "name"} /\ to \in Item
      /\ to # i => to \in EntityId /\ ha[to] = None
  <2>1. /\ DOMAIN changes \subseteq {"id", "name"}
        /\ "id" \in DOMAIN changes => changes.id \in EntityId
    BY <1>2, <1>3, ProposedFacts
  <2> HIDE DEF changes
  <2> QED BY <1>1, <1>3, <2>1 DEF Item
<1>6. DOMAIN ha = Item /\ ha[i] \in Record
  BY <1>1, <1>3 DEF IInv, Typed, Home
<1>7. /\ "uid" \in DOMAIN ha[i] /\ "name" \in DOMAIN ha[i] /\ new.uid = ha[i].uid
      /\ "name" \in DOMAIN changes => new.name = changes.name
  BY <1>5, <1>6, RecordFacts
<1>8. new # None
  <2>1. ChangesOK(changes)
    <3>1. ~Unknown
      BY <1>2 DEF Unknown
    <3>2. Request = [call |-> "update", changes |-> changes]
      BY <1>1, <1>2 DEF PreviewOK, Request, Working
    <3> QED BY <1>1, <1>2, <3>1, <3>2, RequestFacts DEF IInv, Typed
  <2> HIDE DEF changes
  <2> QED BY <1>6, <2>1, RecordFacts
<1>9. Renaming /\ cache[i] = Seen(ha)[i] /\ cache[i] # None
  BY <1>2, <1>3 DEF Renaming
<1> HIDE DEF changes, to, new, i
<1>10. ha'[to] = new /\ \A j \in Item \ {i, to} : ha'[j] = ha[j]
  BY <1>1, <1>5, <1>6
<1>11. to \notin Ahead \ {i}
  BY <1>5, <1>9 DEF Renaming
<1>12. ASSUME NEW j \in Ahead \ {i} PROVE ha'[j] = ha[j]
  BY <1>3, <1>10, <1>11
<1>13. ASSUME NEW p, Given(p), Place(p) \in Item \ Ahead PROVE Given(p)'
  <2>1. Place(p) # i /\ Place(p) # to
    BY <1>3, <1>5, <1>13 DEF Given
  <2>2. ha'[Place(p)] = ha[Place(p)]
    BY <1>10, <1>13, <2>1
  <2> QED BY <1>13, <2>2 DEF Given, Place
<1>14. ASSUME NEW p, p.id = i, Matches(p, job.arg)
       PROVE  Given(p)' /\ Place(p) \in Item \ (Ahead \ {i})
  <2>1. p.changes = changes /\ p.uid = cache[i].uid
    BY <1>2, <1>9, <1>14 DEF Matches
  <2>2. Place(p) = to
    BY <1>14, <2>1 DEF Place, to
  <2>3. cache[i].uid = ha[i].uid
    BY <1>3, <1>9 DEF Seen
  <2> QED BY <1>5, <1>7, <1>8, <1>10, <1>11, <2>1, <2>2, <2>3 DEF Given, Place
<1> QED BY <1>12, <1>13, <1>14

LEMMA ChangedKeepsPreview == ASSUME IInv, PreviewOK, Changed PROVE PreviewOK'
<1> DEFINE o == Outcome(TRUE, job.sent.changes)
<1>1. /\ Waiting("update") /\ ha[NextId] # None /\ job' = Settled(o)
      /\ "id" \in DOMAIN job.sent.changes => ha[job.sent.changes.id] = None
      /\ ha' = Updated(ha, NextId, job.sent.changes) /\ UNCHANGED <<cache, preview, clean>>
  BY DEF Changed
<1>2. o.id = NextId
  BY DEF Outcome
<1> HIDE DEF o
<1> QED BY <1>1, <1>2, CarriedOutKeepsPreview

(* The call that loses its answer is an update, or no preview is awaited.  *)
LEMMA ReplyLostKeepsPreview == ASSUME IInv, PreviewOK, ReplyLost PROVE PreviewOK'
<1> DEFINE o == Outcome(FALSE, << >>)
<1>1. /\ Working /\ job.sent # None /\ ha[NextId] # None /\ job' = Settled(o)
      /\ UNCHANGED <<cache, preview, clean>>
  BY DEF ReplyLost
<1>2. o.id = NextId
  BY DEF Outcome
<1> HIDE DEF o
<1>3. CASE job.sent.call = "update"
  <2>1. /\ Waiting("update") /\ ha' = Updated(ha, NextId, job.sent.changes)
        /\ "id" \in DOMAIN job.sent.changes => ha[job.sent.changes.id] = None
    BY <1>3 DEF ReplyLost, Waiting
  <2> QED BY <1>1, <1>2, <2>1, CarriedOutKeepsPreview
<1>4. CASE job.sent.call # "update"
  <2>1. JobUnderWay /\ ~job.dry /\ ~clean
    BY <1>1, <1>4, WaitingFacts
  <2>2. job'.dry = job.dry
    BY <1>1, <2>1, SettledFields
  <2> QED BY <1>1, <2>1, <2>2 DEF PreviewOK
<1> QED BY <1>3, <1>4

(* The answer to a dry run is its preview. *)
LEMMA AnsweredKeepsPreview == ASSUME IInv, PreviewOK, Answered PROVE PreviewOK'
<1>1. /\ JobUnderWay /\ job # Idle /\ job' = Idle /\ UNCHANGED <<ha, cache>>
      /\ preview' = IF job.op = "rename" /\ job.dry
                      THEN [sub |-> job.arg, results |-> job.results] ELSE preview
      /\ clean' = (clean /\ job.dry)
  BY DEF Answered, IInv, Typed, JobOK
<1> SUFFICES ASSUME clean' PROVE Shown(preview.results, preview.sub)'
  BY <1>1 DEF PreviewOK
<1>2. clean /\ job.dry
  BY <1>1
<1>3. preview'.results = job.results /\ preview'.sub = job.arg /\ Shown(job.results, job.arg)
  BY <1>1, <1>2 DEF JobUnderWay, PreviewOK
<1>4. Seen(ha)' = Seen(ha) /\ \A i, sub : Proposed(i, sub)' = Proposed(i, sub)
  BY <1>1 DEF Seen, Proposed
<1> QED BY <1>1, <1>3, <1>4 DEF Shown, Matches

---------------------------------------------------------------------------
(* Who asks for a request asks for devices, or for entities that the cache *)
(* has. *)
LEMMA RequestKeepsPreview ==
  ASSUME IInv, PreviewOK, EntityRequest \/ Save \/ ConfirmDelete \/ Submit PROVE PreviewOK'
<1>1. ASSUME NEW op, NEW ids \in Seq(Device), NEW arg, NEW dry \in BOOLEAN, NEW from,
             Begin(op, ids, arg, dry, from)
      PROVE  PreviewOK'
  <2>1. ids \in Seq(Item) /\ \A i \in Range(ids) : i \notin EntityId
    <3>1. \A i \in Range(ids) : i \in Device
      BY DEF Range
    <3> QED BY <3>1, ItemsAssumption DEF Item
  <2> QED BY <1>1, <2>1, BeginKeepsPreview
<1>2. CASE EntityRequest
  <2>1. PICK ids : /\ ids \in {<<i>> : i \in EntityId} \cup {<<i, j>> : i, j \in EntityId}
                   /\ \A i \in Range(ids) : cache[i] # None
                   /\ \/ Begin("delete", ids, None, FALSE, None)
                      \/ \E a \in Area : Begin("update", ids, [area |-> a], FALSE, None)
                      \/ \E b \in BOOLEAN : Begin("update", ids, [off |-> b], FALSE, None)
                      \/ \E to \in EntityId : Begin("update", ids, [id |-> to], FALSE, None)
                      \/ \E sub \in Subs, dry \in BOOLEAN : Begin("rename", ids, sub, dry, None)
    BY <1>2 DEF EntityRequest, Begin
  <2>2. ids \in Seq(Item)
    BY <2>1, EntityIds
  <2>3. \A op, arg : \A dry \in BOOLEAN : Begin(op, ids, arg, dry, None) => PreviewOK'
    BY <2>1, <2>2, BeginKeepsPreview
  <2>4. \A op, arg : Begin(op, ids, arg, FALSE, None) => PreviewOK'
    BY <2>3
  <2>5. ASSUME NEW sub \in Subs, NEW dry \in BOOLEAN, Begin("rename", ids, sub, dry, None)
        PROVE  PreviewOK'
    BY <2>3, <2>5
  <2>6. CASE Begin("delete", ids, None, FALSE, None)
    BY <2>4, <2>6
  <2>7. ASSUME NEW a \in Area, Begin("update", ids, [area |-> a], FALSE, None) PROVE PreviewOK'
    BY <2>4, <2>7
  <2>8. ASSUME NEW b \in BOOLEAN, Begin("update", ids, [off |-> b], FALSE, None) PROVE PreviewOK'
    BY <2>4, <2>8
  <2>9. ASSUME NEW to \in EntityId, Begin("update", ids, [id |-> to], FALSE, None) PROVE PreviewOK'
    BY <2>4, <2>9
  <2> QED BY <2>1, <2>5, <2>6, <2>7, <2>8, <2>9 DEF Begin
<1>3. CASE Save
  <2>1. <<tab.drawer.id>> \in Seq(Device)
    <3>1. tab.drawer.id \in Device
      BY <1>3, InTheDrawer DEF Save, IInv, Typed
    <3> QED BY <3>1
  <2> DEFINE ids == <<tab.drawer.id>>
             dialog == Dialog("save", << >>, None)
             arg == Differing
  <2>2. Begin("update", ids, arg, FALSE, dialog)
    BY <1>3 DEF Save
  <2> HIDE DEF ids, dialog, arg
  <2>3. ids \in Seq(Device)
    BY <2>1 DEF ids
  <2> QED BY <1>1, <2>2, <2>3
<1>4. CASE ConfirmDelete \/ Submit
  <2>1. tab.dialog.ids \in Seq(Device)
    BY <1>4 DEF ConfirmDelete, Submit, InDialog, IInv, Typed, TabOK, DialogOK
  <2>2. \E op, arg : \E dry \in BOOLEAN : Begin(op, tab.dialog.ids, arg, dry, tab.dialog)
    BY <1>4 DEF ConfirmDelete, Submit
  <2> QED BY <1>1, <2>1, <2>2
<1> QED BY <1>2, <1>3, <1>4

(* One action after the other.                                             *)
LEMMA NextKeepsPreview == ASSUME IInv, PreviewOK, [Next]_vars PROVE PreviewOK'
<1>1. CASE UNCHANGED vars \/ Online \/ Fetch \/ FetchFails
  BY <1>1, PreviewStays DEF vars, bulkVars, Online, Fetch, FetchFails
<1>2. CASE SetFilter \/ Select \/ OpenDrawer \/ EditDraft \/ OpenDialog \/ ChangePattern
  <2>1. Gesture
    BY <1>2 DEF SetFilter, Select, OpenDrawer, EditDraft, OpenDialog, ChangePattern
  <2> QED BY <2>1, PreviewStays DEF Gesture
<1>3. CASE RequestClose \/ Discard \/ Cancel
  <2>1. UNCHANGED bulkVars
    BY <1>3 DEF RequestClose, Discard, Cancel, Closing
  <2> QED BY <2>1, PreviewStays DEF bulkVars
<1>4. CASE Save \/ ConfirmDelete \/ Submit \/ EntityRequest
  BY <1>4, RequestKeepsPreview
<1>5. CASE Server
  BY <1>5, AttemptKeepsPreview, RefusedKeepsPreview, DeletionKeepsPreview, ChangedKeepsPreview,
     ReplyLostKeepsPreview DEF Server, ServerStep
<1>6. CASE Edited \/ Refresh \/ AnswerArrives
  BY <1>6, EditedKeepsPreview, RefreshKeepsPreview, AnsweredKeepsPreview DEF Refresh, AnswerArrives
<1> QED BY <1>1, <1>2, <1>3, <1>4, <1>5, <1>6 DEF Next, Others, User

(* What a dry run showed is what there is, until somebody else changes it  *)
(* or the rename begins, and then of what it has still to come to.         *)
THEOREM PreviewInvariance == Spec => []PreviewOK
<1>1. Init => PreviewOK
  BY DEF Init, BulkInit, PreviewOK
<1>2. IInv /\ PreviewOK /\ [Next]_vars => PreviewOK'
  BY NextKeepsPreview
<1> QED BY <1>1, <1>2, Invariance, PTL DEF Spec

(* As long as nobody else changes anything, a rename gives every item what *)
(* its dry run showed, and to no other item, however far the cache has     *)
(* followed in the middle.                                                 *)
THEOREM PreviewAlwaysKept == Spec => []PreviewKept
<1>1. PreviewOK => PreviewKept
  <2> SUFFICES ASSUME PreviewOK, job.op = "rename", ~job.dry, clean, preview.sub = job.arg,
                      NEW o \in Range(job.results), NEW p \in Range(preview.results), o.id = p.id, o.ok
               PROVE  Given(p)
    BY DEF PreviewKept, Given, Place
  <2>1. job # Idle
    <3>1. Range(Idle.results) = {}
      BY DEF Idle, Range
    <3> QED BY <3>1
  <2> QED BY <2>1 DEF PreviewOK, Renaming
<1> QED BY <1>1, PreviewInvariance, PTL
=============================================================================
