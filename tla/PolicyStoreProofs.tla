------------------------- MODULE PolicyStoreProofs -------------------------
(***************************************************************************)
(* Theorems about PolicyStore, for any policies, settings, targets and     *)
(* settings pages.                                                         *)
(***************************************************************************)
EXTENDS PolicyStore, TLAPS

(* What a save carries comes from a draft, which is complete. *)
SavesComplete ==
  saving.at # "idle" => Baseline \subseteq Defined(saving.body)

(* RulesFollowFile holds from the load on, before the watcher runs too. *)
Follows ==
  phase \in {"loaded", "serving"} /\ ~dirty /\ ~missed =>
    /\ Usable(file) => held = Loaded(file) /\ ~error
    /\ ReportsError(file) => error

EngineIsHeld == engine = held

IInv == TypeOK /\ SavesComplete /\ Follows /\ EngineIsHeld /\ OnlyEditorsBreak

---------------------------------------------------------------------------
(* Nothing and every file are of their types (PolicyStore's abstract data). *)
LEMMA Types ==
  /\ Nothing \in Contents
  /\ NotSaving \in [at : {"idle", "written", "replaced"}, body : Contents]
  /\ \A f \in File : f.says \in Contents
  /\ \A c \in Contents : Holding(c) \in File
  /\ Without("missing") \in File
BY DEF Nothing, Contents, NotSaving, File, Unusable, Gone, Without, Holding

(* _merge_missing_baselines yields a complete file and leaves a complete   *)
(* one as it is. *)
LEMMA MergedComplete ==
  ASSUME NEW c \in Contents
  PROVE  /\ Merged(c) \in Contents
         /\ Baseline \subseteq Defined(Merged(c))
BY PolicyAssumption, SettingAssumption DEF Merged, Contents, Defined

(* What a usable file loads to are rules. *)
LEMMA LoadedRules ==
  ASSUME NEW f \in File, Usable(f)
  PROVE  Loaded(f) \in Rules
BY Types, MergedComplete DEF Usable, Loaded, Rules

(* The program starts within the inductive invariant. *)
LEMMA InitIInv == Init => IInv
<1> SUFFICES ASSUME Init PROVE IInv
  OBVIOUS
<1>1. TypeOK
  BY Types DEF Init, TypeOK, NotSaving
<1>2. SavesComplete /\ Follows /\ EngineIsHeld /\ OnlyEditorsBreak
  BY DEF Init, SavesComplete, Follows, EngineIsHeld, OnlyEditorsBreak, NotSaving
<1> QED BY <1>1, <1>2 DEF IInv

---------------------------------------------------------------------------
(* Each action keeps the inductive invariant. *)
LEMMA StepIInv == IInv /\ [Next]_vars => IInv'
<1> SUFFICES ASSUME IInv, [Next]_vars PROVE IInv'
  OBVIOUS
<1> USE DEF IInv
<1>1. CASE UNCHANGED vars
  BY <1>1 DEF vars, server, TypeOK, SavesComplete, Follows, EngineIsHeld, OnlyEditorsBreak,
              Usable, Parses, Gone, Loaded, ReportsError
<1>2. CASE Start
  <2>1. file' \in File /\ author' \in {"editor", "program"} /\ OnlyEditorsBreak'
    BY <1>2, Types, MergedComplete
    DEF Start, Seed, TypeOK, OnlyEditorsBreak, Holding, Without, Gone, Broken, File, Unusable
  <2>2. Usable(file') => Loaded(file') \in Rules
    BY <2>1, LoadedRules
  <2>3. TypeOK'
    BY <1>2, <2>1, <2>2 DEF Start, TypeOK, Adopt, server
  <2>4. SavesComplete' /\ EngineIsHeld'
    BY <1>2 DEF Start, SavesComplete, EngineIsHeld, Adopt, server
  <2>5. Follows'
    BY <1>2 DEF Start, Follows, Adopt, server, Usable, Parses, Gone, ReportsError, Loaded
  <2> QED BY <2>1, <2>3, <2>4, <2>5
<1>3. CASE StartWatching
  BY <1>3 DEF StartWatching, server, TypeOK, SavesComplete, Follows, EngineIsHeld,
              OnlyEditorsBreak, Usable, Parses, Gone, Loaded, ReportsError
<1>4. CASE Stop
  BY <1>4, Types DEF Stop, TypeOK, SavesComplete, Follows, EngineIsHeld, OnlyEditorsBreak, NotSaving
<1>5. CASE Reload
  <2>1. Usable(file) => Loaded(file) \in Rules
    BY LoadedRules DEF TypeOK
  <2>2. error' \in BOOLEAN
    BY <1>5 DEF Reload, Adopt, server, TypeOK
  <2>3. TypeOK'
    BY <1>5, <2>1, <2>2 DEF Reload, Adopt, server, TypeOK
  <2>4. SavesComplete' /\ EngineIsHeld' /\ OnlyEditorsBreak'
    BY <1>5 DEF Reload, Adopt, server, SavesComplete, EngineIsHeld, OnlyEditorsBreak
  <2>5. Follows'
    BY <1>5 DEF Reload, Adopt, server, Follows, Usable, Parses, Gone, ReportsError, Loaded
  <2> QED BY <2>3, <2>4, <2>5
<1>6. ASSUME NEW f \in File, Edit(f) PROVE IInv'
  <2>1. TypeOK' /\ SavesComplete' /\ EngineIsHeld' /\ OnlyEditorsBreak'
    BY <1>6, Types
    DEF Edit, Write, Watched, server, TypeOK, SavesComplete, EngineIsHeld, OnlyEditorsBreak, NotSaving
  <2>2. Follows'
    BY <1>6 DEF Edit, Write, Watched, server, Follows
  <2> QED BY <2>1, <2>2
<1>7. ASSUME NEW t \in Tab, Fetch(t) PROVE IInv'
  <2>1. held \in {c \in Contents : c = Nothing \/ Baseline \subseteq Defined(c)}
    BY Types DEF TypeOK, Rules
  <2>2. TypeOK'
    BY <1>7, <2>1 DEF Fetch, server, TypeOK
  <2>3. SavesComplete' /\ Follows' /\ EngineIsHeld' /\ OnlyEditorsBreak'
    BY <1>7 DEF Fetch, server, SavesComplete, Follows, EngineIsHeld, OnlyEditorsBreak,
                Usable, Parses, Gone, Loaded, ReportsError
  <2> QED BY <2>2, <2>3
<1>8. ASSUME NEW t \in Tab, NEW p \in Policy, Change(t, p) PROVE IInv'
  <2>1. PICK s \in Choices(p) : draft' = [draft EXCEPT ![t][p] = s]
    BY <1>8 DEF Change
  <2>2. /\ draft[t] \in Contents /\ Baseline \subseteq Defined(draft[t])
        /\ s \in Setting \cup {Absent} /\ (p \in Baseline => s # Absent)
    BY <1>8, SettingAssumption DEF Change, TypeOK, Choices
  <2>3. [draft[t] EXCEPT ![p] = s] \in {c \in Contents : Baseline \subseteq Defined(c)}
    BY <2>2, PolicyAssumption DEF Contents, Defined
  <2>4. \A u \in Tab : draft'[u] \in {c \in Contents : c = Nothing \/ Baseline \subseteq Defined(c)}
    BY <2>1, <2>3 DEF TypeOK
  <2>5. TypeOK'
    BY <1>8, <2>4 DEF Change, server, TypeOK
  <2>6. SavesComplete' /\ Follows' /\ EngineIsHeld' /\ OnlyEditorsBreak'
    BY <1>8 DEF Change, server, SavesComplete, Follows, EngineIsHeld, OnlyEditorsBreak,
                Usable, Parses, Gone, Loaded, ReportsError
  <2> QED BY <2>5, <2>6
<1>9. ASSUME NEW t \in Tab, BeginSave(t) PROVE IInv'
  <2>1. draft[t] \in Contents /\ Baseline \subseteq Defined(draft[t])
    BY <1>9 DEF BeginSave, TypeOK
  <2>2. TypeOK' /\ SavesComplete'
    BY <1>9, <2>1, Types DEF BeginSave, server, TypeOK, SavesComplete
  <2>3. EngineIsHeld' /\ OnlyEditorsBreak'
    BY <1>9 DEF BeginSave, server, EngineIsHeld, OnlyEditorsBreak, Without, Broken
  <2>4. Parses(file') <=> Parses(file)
    BY <1>9 DEF BeginSave, Without, Parses, Gone
  <2>5. file'.says = file.says
    <3>1. file.is = "no directory" => file \in Unusable
      BY DEF TypeOK, File
    <3> QED BY <1>9, <3>1 DEF BeginSave, Without, Unusable
  <2>6. ReportsError(file') <=> ReportsError(file)
    BY <1>9 DEF BeginSave, Without, ReportsError
  <2>7. Follows'
    BY <1>9, <2>4, <2>5, <2>6 DEF BeginSave, server, Follows, Usable, Loaded
  <2> QED BY <2>2, <2>3, <2>7
<1>10. CASE ReplaceFile
  <2>1. TypeOK'
    BY <1>10, Types DEF ReplaceFile, Write, Watched, server, TypeOK
  <2>2. SavesComplete' /\ EngineIsHeld' /\ OnlyEditorsBreak' /\ Follows'
    BY <1>10 DEF ReplaceFile, Write, Watched, server, TypeOK, SavesComplete, EngineIsHeld,
                 OnlyEditorsBreak, Follows, Holding, Broken
  <2> QED BY <2>1, <2>2
<1>11. CASE Cascade
  <2>1. TypeOK' /\ SavesComplete'
    BY <1>11, Types DEF Cascade, Kept, server, TypeOK, SavesComplete, NotSaving
  <2>2. Follows' /\ EngineIsHeld' /\ OnlyEditorsBreak'
    BY <1>11 DEF Cascade, server, Follows, EngineIsHeld, OnlyEditorsBreak,
                 Usable, Parses, Gone, Loaded, ReportsError
  <2> QED BY <2>1, <2>2
<1>12. ASSUME NEW e \in Exception, Acknowledge(e) \/ Clear(e) PROVE IInv'
  <2>1. TypeOK'
    BY <1>12 DEF Acknowledge, Clear, server, TypeOK
  <2>2. SavesComplete' /\ EngineIsHeld' /\ OnlyEditorsBreak'
    BY <1>12 DEF Acknowledge, Clear, server, SavesComplete, EngineIsHeld, OnlyEditorsBreak
  <2>3. UNCHANGED <<file, phase, server, dirty, missed>>
    BY <1>12 DEF Acknowledge, Clear
  <2>4. Follows'
    BY <2>3 DEF server, Follows, Usable, Loaded
  <2> QED BY <2>1, <2>2, <2>4
<1> QED
  BY <1>1, <1>2, <1>3, <1>4, <1>5, <1>6, <1>7, <1>8, <1>9, <1>10, <1>11, <1>12 DEF Next

(* The inductive invariant holds in every reachable state. *)
THEOREM Invariance == Spec => []IInv
<1>1. Init => IInv
  BY InitIInv
<1>2. IInv /\ [Next]_vars => IInv'
  BY StepIInv
<1> QED BY <1>1, <1>2, PTL DEF Spec

---------------------------------------------------------------------------
(* Every variable keeps its type; what is loaded, and what a page edits,   *)
(* never lacks a shipped policy (load_policies_file, the settings pages).  *)
THEOREM TypeCorrect == Spec => []TypeOK
<1>1. IInv => TypeOK
  BY DEF IInv
<1> QED BY <1>1, Invariance, PTL

(* The rules in force are the file's whenever the watcher has caught up    *)
(* (reload_policies, the lifespan). *)
THEOREM RulesAlwaysFollowFile == Spec => []RulesFollowFile
<1>1. IInv => RulesFollowFile
  BY DEF IInv, Follows, EngineIsHeld, RulesFollowFile
<1> QED BY <1>1, Invariance, PTL

(* No save, interrupted or not, breaks the file (write_policies_file). *)
THEOREM SavesNeverBreak == Spec => []OnlyEditorsBreak
<1>1. IInv => OnlyEditorsBreak
  BY DEF IInv
<1> QED BY <1>1, Invariance, PTL

(* Rules are replaced as a whole, by a valid file's, or not at all         *)
(* (reload_policies). *)
THEOREM LastGoodAlwaysKept == Spec => LastGoodKept
<1> DEFINE Replaced ==
      phase = "serving" /\ phase' = "serving" =>
        engine' = held' /\ (held' # held => Usable(file) /\ held' = Loaded(file))
<1>1. IInv /\ [Next]_vars => [Replaced]_vars
  <2> SUFFICES ASSUME IInv, Next, phase = "serving", phase' = "serving" PROVE Replaced
    OBVIOUS
  <2>1. engine = held
    BY DEF IInv, EngineIsHeld
  <2>2. CASE Reload
    BY <2>1, <2>2 DEF Reload, Adopt, server
  <2>3. CASE ~Reload
    <3>1. UNCHANGED server
      BY <2>3 DEF Next, Start, StartWatching, Stop, Edit, Fetch, Change, BeginSave,
                  ReplaceFile, Cascade, Acknowledge, Clear
    <3> QED BY <2>1, <3>1 DEF server
  <2> QED BY <2>2, <2>3
<1> QED BY <1>1, Invariance, PTL DEF Spec, LastGoodKept

(* No save takes the exceptions of a shipped policy with it                *)
(* (delete_not_in after _merge_missing_baselines). *)
THEOREM BuiltInExceptionsAlwaysKept == Spec => BuiltInExceptionsKept
<1> DEFINE Survive == \A e \in exceptions \ exceptions' : e.policy \in Baseline => saving' = saving
<1>1. IInv /\ [Next]_vars => [Survive]_vars
  <2> SUFFICES ASSUME IInv, Next PROVE Survive
    OBVIOUS
  <2>1. CASE Cascade
    <3>1. Baseline \subseteq Defined(saving.body)
      BY <2>1 DEF IInv, SavesComplete, Cascade
    <3> QED BY <2>1, <3>1 DEF Cascade, Kept
  <2>2. CASE ~Cascade
    <3>1. exceptions' = exceptions \/ saving' = saving
      BY <2>2 DEF Next, Start, StartWatching, Stop, Reload, Edit, Fetch, Change, BeginSave,
                  ReplaceFile, Acknowledge, Clear
    <3> QED BY <3>1
  <2> QED BY <2>1, <2>2
<1> QED BY <1>1, Invariance, PTL DEF Spec, BuiltInExceptionsKept
===========================================================================
