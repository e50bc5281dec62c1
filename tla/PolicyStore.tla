---------------------------- MODULE PolicyStore ----------------------------
(***************************************************************************)
(* The policies: policies.yaml on disk, written by people with an editor   *)
(* and by the settings pages (policies/writer.py, api/policies.py); the    *)
(* rules loaded from it at start and after every change the watcher sees   *)
(* (policies/loader.py, watcher.py, main.py); the drafts of open settings  *)
(* pages (pages/Settings); and the exceptions, which a save deletes along  *)
(* with the policies it removes (storage/exceptions_repo.py).              *)
(*                                                                         *)
(* A file is what loading it does: it is missing, its directory too or     *)
(* not, it holds policies, it is invalid (unreadable, not YAML, or against *)
(* the schema), it is a list where a mapping is expected, which is invalid *)
(* and cannot be saved over either, or it is binary, which makes reading   *)
(* it raise.  The contents map each policy id to what the file says of it; *)
(* the order and the fields of a policy are abstracted away.               *)
(*                                                                         *)
(* A save runs on the event loop without an await, so that no reload comes *)
(* between its steps; editors, the handlers in the thread pool and a crash *)
(* do.  A save that raises before it replaces the file changes nothing.    *)
(* Recompiling for an area change (RegistrySync) compiles what is loaded.  *)
(*                                                                         *)
(* Definitions named M_... are plausible bugs, paired with the property    *)
(* they break in PROJECT.json.                                             *)
(***************************************************************************)
EXTENDS FiniteSets

CONSTANTS
  Policy,    \* policy ids
  Baseline,  \* ids of the policies the program ships (_BASELINE_POLICIES)
  Setting,   \* what a file may say of a policy
  Refused,   \* settings with a pattern RE2 does not compile
  Default,   \* what a shipped policy says
  Absent,    \* the file says nothing of a policy
  Target,    \* devices and entities that can be excepted
  Tab        \* open settings pages

ASSUME PolicyAssumption == Baseline \subseteq Policy /\ Baseline # {}
ASSUME SettingAssumption ==
  /\ Default \in Setting \ Refused
  /\ Refused \subseteq Setting
  /\ Absent \notin Setting

VARIABLES
  file,       \* policies.yaml
  author,     \* who wrote it last (history)
  phase,      \* down, loaded, serving or failed
  watching,   \* the watcher's task has a directory to watch
  held,       \* AppState.policies_file; Nothing stands for None
  engine,     \* the policies AppState.engine was compiled from
  error,      \* AppState.policies_error is set
  dirty,      \* the watcher has seen a change and not reloaded yet
  missed,     \* the last change since the load was seen by no watcher (history)
  exceptions, \* rows of the exceptions table
  saving,     \* how far the current save is, and what it saves
  draft       \* the draft of each settings page

server == <<held, engine, error>>
vars == <<file, author, phase, watching, server, dirty, missed, exceptions, saving, draft>>

Contents == [Policy -> Setting \cup {Absent}]
Nothing == [p \in Policy |-> Absent]
Defined(c) == {p \in Policy : c[p] # Absent}

Broken == {"invalid", "list", "binary"}
Gone == {"missing", "no directory"}
Holding(c) == [is |-> "valid", says |-> c]
Without(is) == [is |-> is, says |-> Nothing]
Unusable == [is : Gone \cup Broken, says : {Nothing}]
File == Unusable \cup [is : {"valid"}, says : Contents]

NotSaving == [at |-> "idle", body |-> Nothing]

Exception == [target : Target, policy : Policy]

---------------------------------------------------------------------------
(***************************************************************************)
(* Loading.                                                                *)
(***************************************************************************)

(* Shipped policies a file does not mention are added in memory. *)
M_Merged(c) == c
Merged(c) == [p \in Policy |-> IF c[p] = Absent /\ p \in Baseline THEN Default ELSE c[p]]

(* load_policies_file, for the files it finds policies in: a missing file  *)
(* stands for the shipped policies. *)
Parses(f) == f.is \in Gone \cup {"valid"}
Loaded(f) == Merged(f.says)

(* RuleEngine.compile: a pattern of a naming policy that RE2 refuses raises *)
(* out of it. *)
Compiles(c) == \A p \in Policy : c[p] \notin Refused

Usable(f) == Parses(f) /\ Compiles(Loaded(f))

(* An invalid file is one load_policies_file reports as an error. *)
ReportsError(f) == f.is \in {"invalid", "list"}

Adopt(c) == held' = c /\ engine' = c /\ error' = FALSE

Init ==
  /\ file \in File
  /\ author = "editor"
  /\ phase = "down" /\ watching = FALSE
  /\ held = Nothing /\ engine = Nothing /\ error = FALSE
  /\ dirty = FALSE /\ missed = FALSE
  /\ exceptions = {}
  /\ saving = NotSaving
  /\ draft = [t \in Tab |-> Nothing]

---------------------------------------------------------------------------
(***************************************************************************)
(* The process.                                                            *)
(***************************************************************************)

(* The shipped policies are written where no file is, if they can be; the  *)
(* directory is made first. *)
Seed ==
  \/ /\ file.is \in Gone
     /\ file' \in {Without("missing"), Holding(Merged(Nothing))} /\ author' = "program"
  \/ UNCHANGED <<file, author>>

(* The lifespan loads the file and compiles it.  What raises there ends it. *)
Start ==
  /\ phase \in {"down", "failed"}
  /\ Seed
  /\ \/ Usable(file') /\ Adopt(Loaded(file')) /\ phase' = "loaded"
     \/ /\ ReportsError(file')
        /\ error' = TRUE /\ UNCHANGED <<held, engine>>
        /\ phase' = "loaded"
     \/ /\ ~Usable(file') /\ ~ReportsError(file')
        /\ UNCHANGED server
        /\ phase' = "failed"
  /\ UNCHANGED <<watching, dirty, missed, exceptions, saving, draft>>

(* Requests are served, and the watcher's task begins to watch the         *)
(* directory, or dies of there being none: nobody looks at it again. *)
StartWatching ==
  /\ phase = "loaded"
  /\ phase' = "serving"
  /\ watching' = (file.is # "no directory")
  /\ UNCHANGED <<file, author, server, dirty, missed, exceptions, saving, draft>>

(* The process stops or crashes, in the middle of a save perhaps. *)
Stop ==
  /\ phase \in {"loaded", "serving"}
  /\ phase' = "down" /\ watching' = FALSE
  /\ held' = Nothing /\ engine' = Nothing /\ error' = FALSE
  /\ dirty' = FALSE /\ missed' = FALSE
  /\ saving' = NotSaving
  /\ UNCHANGED <<file, author, exceptions, draft>>

(* The directory is watched, not the file, which a save replaces. *)
M_Watched == watching /\ author = "editor"
Watched == watching

Write(f, who) ==
  /\ file' = f
  /\ author' = who
  /\ dirty' = (dirty \/ Watched)
  /\ missed' = (phase \in {"loaded", "serving"} /\ ~watching)

(* Somebody edits, replaces or deletes the file.  With the directory goes  *)
(* the watch, and the temporary file of a save, which then fails. *)
Edit(f) ==
  /\ f # file
  /\ Write(f, "editor")
  /\ watching' = (watching /\ f.is # "no directory")
  /\ saving' = IF f.is = "no directory" /\ saving.at = "written" THEN NotSaving ELSE saving
  /\ UNCHANGED <<phase, server, exceptions, draft>>

(* reload_policies: the last good rules stay when the file is invalid, and *)
(* when the reload raises, which the watcher swallows: reading a binary    *)
(* file does so at once, a refused pattern after the error was reset.      *)
M_Reload ==
  /\ phase = "serving" /\ dirty /\ saving = NotSaving
  /\ dirty' = FALSE
  /\ \/ Usable(file) /\ Adopt(Loaded(file))
     \/ /\ ~Usable(file)
        /\ held' = Nothing /\ engine' = Nothing
        /\ error' = ReportsError(file)
  /\ UNCHANGED <<file, author, phase, watching, missed, exceptions, saving, draft>>

Reload ==
  /\ phase = "serving" /\ dirty /\ saving = NotSaving
  /\ dirty' = FALSE
  /\ \/ Usable(file) /\ Adopt(Loaded(file))
     \/ /\ Parses(file) /\ ~Usable(file)
        /\ error' = FALSE /\ UNCHANGED <<held, engine>>
     \/ /\ ReportsError(file)
        /\ error' = TRUE /\ UNCHANGED <<held, engine>>
     \/ /\ ~Parses(file) /\ ~ReportsError(file)
        /\ UNCHANGED server
  /\ UNCHANGED <<file, author, phase, watching, missed, exceptions, saving, draft>>

---------------------------------------------------------------------------
(***************************************************************************)
(* Settings pages.                                                         *)
(***************************************************************************)

(* GET /api/policies/file serves the loaded policies, or 503 without any;  *)
(* the page makes them its draft. *)
Fetch(t) ==
  /\ phase = "serving"
  /\ held # Nothing
  /\ draft' = [draft EXCEPT ![t] = held]
  /\ UNCHANGED <<file, author, phase, watching, server, dirty, missed, exceptions, saving>>

(* A page changes a policy's fields; only custom rules can be added and    *)
(* removed, and a custom rule has no pattern to refuse. *)
Choices(p) == IF p \in Baseline THEN Setting ELSE (Setting \ Refused) \cup {Absent}

Change(t, p) ==
  /\ draft[t] # Nothing
  /\ \E s \in Choices(p) : draft' = [draft EXCEPT ![t][p] = s]
  /\ UNCHANGED <<file, author, phase, watching, server, dirty, missed, exceptions, saving>>

(* PUT /api/policies sends the whole draft back.  The directory is made    *)
(* where it is missing, the new contents go to a temporary file first; a   *)
(* list in the old one raises. *)
M_BeginSave(t) ==
  /\ phase = "serving" /\ saving = NotSaving
  /\ draft[t] # Nothing
  /\ file.is # "list"
  /\ saving' = [at |-> "written", body |-> draft[t]]
  /\ Write(Without("invalid"), "program")
  /\ UNCHANGED <<phase, watching, server, exceptions, draft>>

BeginSave(t) ==
  /\ phase = "serving" /\ saving = NotSaving
  /\ draft[t] # Nothing
  /\ file.is # "list"
  /\ saving' = [at |-> "written", body |-> draft[t]]
  /\ file' = IF file.is = "no directory" THEN Without("missing") ELSE file
  /\ UNCHANGED <<author, phase, watching, server, dirty, missed, exceptions, draft>>

ReplaceFile ==
  /\ saving.at = "written"
  /\ Write(Holding(saving.body), "program")
  /\ saving' = [saving EXCEPT !.at = "replaced"]
  /\ UNCHANGED <<phase, watching, server, exceptions, draft>>

(* delete_not_in; on a locked database it raises. *)
M_Kept(body) == {e \in exceptions : e.policy \in Defined(file.says)}
Kept(body) == {e \in exceptions : e.policy \in Defined(body)}

Cascade ==
  /\ saving.at = "replaced"
  /\ exceptions' \in {Kept(saving.body), exceptions}
  /\ saving' = NotSaving
  /\ UNCHANGED <<file, author, phase, watching, server, dirty, missed, draft>>

---------------------------------------------------------------------------
(***************************************************************************)
(* Exceptions, handled in the thread pool: nothing checks that the policy  *)
(* exists.                                                                 *)
(***************************************************************************)

Acknowledge(e) ==
  /\ phase = "serving"
  /\ exceptions' = exceptions \cup {e}
  /\ UNCHANGED <<file, author, phase, watching, server, dirty, missed, saving, draft>>

Clear(e) ==
  /\ phase = "serving"
  /\ exceptions' = exceptions \ {e}
  /\ UNCHANGED <<file, author, phase, watching, server, dirty, missed, saving, draft>>

Next ==
  \/ Start \/ StartWatching \/ Stop \/ Reload
  \/ \E f \in File : Edit(f)
  \/ \E t \in Tab : Fetch(t) \/ BeginSave(t) \/ \E p \in Policy : Change(t, p)
  \/ ReplaceFile \/ Cascade
  \/ \E e \in Exception : Acknowledge(e) \/ Clear(e)

Spec == Init /\ [][Next]_vars

---------------------------------------------------------------------------
(***************************************************************************)
(* Properties.                                                             *)
(***************************************************************************)

(* Rules that can be loaded: complete with the shipped policies. *)
Rules == {c \in Contents : Baseline \subseteq Defined(c) /\ Compiles(c)}

(* Every variable holds a value of its type; what is loaded, and what a    *)
(* page edits, never lacks a shipped policy. *)
TypeOK ==
  /\ file \in File
  /\ author \in {"editor", "program"}
  /\ phase \in {"down", "loaded", "serving", "failed"}
  /\ watching \in BOOLEAN
  /\ held \in Rules \cup {Nothing} /\ engine \in Rules \cup {Nothing}
  /\ error \in BOOLEAN /\ dirty \in BOOLEAN /\ missed \in BOOLEAN
  /\ exceptions \subseteq Exception
  /\ saving \in [at : {"idle", "written", "replaced"}, body : Contents]
  /\ \A t \in Tab : draft[t] \in {c \in Contents : c = Nothing \/ Baseline \subseteq Defined(c)}

(* Once the watcher has handled what it saw, the rules in force, and those *)
(* listed, are the file's, and an invalid file is known to be one,         *)
(* whatever edits, saves and restarts led there.  Not covered: a change    *)
(* that nothing watched for, between the load at start and the watch or    *)
(* after the directory was missing, a pattern RE2 refuses and a binary     *)
(* file. *)
RulesFollowFile ==
  phase = "serving" /\ ~dirty /\ ~missed =>
    /\ Usable(file) => held = Loaded(file) /\ engine = held /\ ~error
    /\ ReportsError(file) => error

(* While the program serves, no reload, failed or not, takes the rules     *)
(* away or mixes them: they change to all that a valid file says, and the  *)
(* engine is compiled from what is listed. *)
LastGoodKept ==
  [][phase = "serving" /\ phase' = "serving" =>
       /\ engine' = held'
       /\ held' # held => Usable(file) /\ held' = Loaded(file)]_vars

(* A save leaves the old file or the new one at every moment, a crash in   *)
(* the middle included: only an editor can break the file. *)
OnlyEditorsBreak == file.is \in Broken => author = "editor"

(* The cascade of a save never takes the exceptions of a shipped policy    *)
(* with it, even when the file on disk does not mention that policy: only  *)
(* clearing them does. *)
BuiltInExceptionsKept ==
  [][\A e \in exceptions \ exceptions' : e.policy \in Baseline => saving' = saving]_vars
=============================================================================
