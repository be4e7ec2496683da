---------------------------- MODULE LocalImport ----------------------------
(***************************************************************************)
(* Imports of the settings of the user's own Claude into a managed profile *)
(* (usage-daemon/src/import_jobs.rs, providers/claude/local_import.rs and  *)
(* start_import in claude/adapter.rs): jobs, the plan that is made before  *)
(* the job starts, the files that are written one by one, and the two      *)
(* places where it is noted which ones.  One account.                      *)
(***************************************************************************)
EXTENDS Integers, FiniteSetsExt, SequencesExt

CONSTANTS
  ImportFiles,     \* what can be imported: settings, history, trust
  Protected,       \* PROTECTED_DEST_PATHS: never removed
  ImportRequests,  \* requests, each the job it starts
  Retained         \* RETAINED_IMPORT_JOBS

ASSUME LocalImportAssumption ==
  Protected \subseteq ImportFiles /\ IsFiniteSet(ImportRequests) /\ Retained \in Nat \ {0}

Modes == {"PrefsOnly", "Replace"}

VARIABLES
  import,        \* of each request: where it is, what it selects, mode, what is left and imported
  activeImport,  \* active_by_account: at most one job
  finished,      \* jobs that have ended, the oldest first
  present,       \* files in the profile
  recorded,      \* the manifest beside them
  saved,         \* the manifest in the configuration
  profile,       \* the profile has not been deleted
  authored       \* history: files that an import wrote

jobVars == <<activeImport, finished>>
dirVars == <<present, recorded, saved, authored>>
importVars == <<import, jobVars, dirVars, profile>>

Moves(r, to) == import' = [import EXCEPT ![r].pc = to]

ImportInit ==
  /\ import = [r \in ImportRequests |-> [pc |-> "out", mode |-> "PrefsOnly", left |-> {}, done |-> {}]]
  /\ activeImport = {} /\ finished = <<>>
  /\ present = {} /\ recorded = {} /\ saved = {} /\ authored = {}
  /\ profile = TRUE
-----------------------------------------------------------------------------
(* import_account_data: refused while an import of the account is active.  *)
RequestImport(r) ==
  /\ import[r].pc = "out"
  /\ Moves(r, IF activeImport = {} THEN "admitted" ELSE "refused")
  /\ UNCHANGED <<jobVars, dirVars, profile>>

(* plan: what is selected and can be read by then; start_import refuses    *)
(* profiles that are not there or not managed.                             *)
PlanImport(r) ==
  /\ import[r].pc = "admitted"
  /\ IF profile
     THEN \E selected \in SUBSET ImportFiles, mode \in Modes :
            import' = [import EXCEPT ![r] = [pc |-> "planned", mode |-> mode, left |-> selected, done |-> {}]]
     ELSE Moves(r, "refused")
  /\ UNCHANGED <<jobVars, dirVars, profile>>

(* Mutant: the job is taken to be the only one since the request came in.  *)
StartAnyImport(r) ==
  /\ import[r].pc = "planned"
  /\ Moves(r, "queued")
  /\ activeImport' = activeImport \union {r}
  /\ UNCHANGED <<finished, dirVars, profile>>

(* ImportJobs::start asks again, under the lock.                           *)
StartImport(r) ==
  /\ import[r].pc = "planned"
  /\ IF activeImport # {}
     THEN Moves(r, "refused") /\ UNCHANGED activeImport
     ELSE Moves(r, "queued") /\ activeImport' = {r}
  /\ UNCHANGED <<finished, dirVars, profile>>
-----------------------------------------------------------------------------
(* run: an empty plan is done; otherwise there must be enough space.       *)
RunImport(r) ==
  /\ import[r].pc = "queued"
  /\ IF import[r].left = {} THEN Moves(r, "persisting")
     ELSE \E pc \in {"copying", "failing"} : Moves(r, pc)
  /\ UNCHANGED <<jobVars, dirVars, profile>>

(* The next file: staged and renamed, gone in the meantime, or an error.   *)
ImportFile(r) ==
  /\ import[r].pc = "copying"
  /\ \E file \in import[r].left :
       \/ /\ present' = present \union {file} /\ authored' = authored \union {file}
          /\ import' = [import EXCEPT ![r].left = @ \ {file}, ![r].done = @ \union {file}]
       \/ /\ import' = [import EXCEPT ![r].left = @ \ {file}]
          /\ UNCHANGED <<present, authored>>
       \/ Moves(r, "failing") /\ UNCHANGED <<present, authored>>
  /\ UNCHANGED <<jobVars, recorded, saved, profile>>

(* cleanup_stale_replace_paths                                             *)
StalePaths(r) == recorded \ (import[r].done \union Protected)

ConcludeImport(r) ==
  /\ import[r].pc = "copying" /\ import[r].left = {}
  /\ IF import[r].done = {} THEN Moves(r, "failing") /\ UNCHANGED <<present, recorded>>
     ELSE /\ present' = IF import[r].mode = "Replace" THEN present \ StalePaths(r) ELSE present
          /\ \/ recorded' = import[r].done /\ Moves(r, "persisting")
             \/ UNCHANGED recorded /\ Moves(r, "failing")
  /\ UNCHANGED <<jobVars, saved, authored, profile>>

(* persist_local_import: in the configuration, if the profile is there.    *)
PersistImport(r) ==
  /\ import[r].pc = "persisting"
  /\ \/ profile /\ saved' = import[r].done /\ Moves(r, "completing")
     \/ UNCHANGED saved /\ Moves(r, "failing")
  /\ UNCHANGED <<jobVars, present, recorded, authored, profile>>

(* Mutant: one more than that.                                             *)
RetainMore(jobs) == SubSeq(jobs, Max({1, Len(jobs) - Retained}), Len(jobs))
Retain(jobs) == SubSeq(jobs, Max({1, Len(jobs) - Retained + 1}), Len(jobs))

FinishImport(r) ==
  /\ import[r].pc \in {"completing", "failing"}
  /\ Moves(r, IF import[r].pc = "completing" THEN "completed" ELSE "failed")
  /\ activeImport' = {}
  /\ finished' = Retain(Append(finished, r))
  /\ UNCHANGED <<dirVars, profile>>
-----------------------------------------------------------------------------
(* The profile's tool writes files of its own.                             *)
AuthorFile ==
  /\ profile
  /\ \E f \in ImportFiles \ present : present' = present \union {f}
  /\ UNCHANGED <<import, jobVars, recorded, saved, authored, profile>>

(* delete_account: tombstone, then the directory.                          *)
DeleteProfile ==
  /\ profile
  /\ profile' = FALSE /\ present' = {} /\ recorded' = {}
  /\ UNCHANGED <<import, jobVars, saved, authored>>

ImportNext ==
  \/ \E r \in ImportRequests :
       \/ RequestImport(r) \/ PlanImport(r) \/ StartImport(r) \/ RunImport(r)
       \/ ImportFile(r) \/ ConcludeImport(r) \/ PersistImport(r) \/ FinishImport(r)
  \/ AuthorFile \/ DeleteProfile

ImportSpec == ImportInit /\ [][ImportNext]_importVars
-----------------------------------------------------------------------------
ImportStarted == {"queued", "copying", "persisting", "completing", "failing"}

ImportTypeOK ==
  /\ \A r \in ImportRequests :
       /\ import[r].pc \in ImportStarted \union {"out", "refused", "admitted", "planned", "completed", "failed"}
       /\ import[r].left \union import[r].done \subseteq ImportFiles
  /\ activeImport \subseteq ImportRequests /\ Len(finished) <= Retained
  /\ present \union recorded \union authored \union saved \subseteq ImportFiles
  /\ profile \in BOOLEAN

(* Two imports never write into the profile at once, though both may have  *)
(* been admitted when none was active (ImportJobs::start).                 *)
OneImport ==
  \A r \in ImportRequests : import[r].pc \in ImportStarted <=> activeImport = {r}

(* "never touching credentials or paths outside that prior manifest": an   *)
(* import removes only what an import wrote, however many imports failed   *)
(* in between.                                                             *)
ForeignKept ==
  [][\A f \in ImportFiles : f \in present /\ f \notin present' /\ profile' => f \in authored]_importVars

(* "dual bookkeeping": what an import that completed noted beside the      *)
(* files and what it noted in the configuration are the same, though the   *)
(* profile was deleted or other imports failed in the meantime.            *)
ManifestsAgree ==
  \A r \in ImportRequests :
    import[r].pc = "completing" /\ profile /\ import[r].done # {} => saved = recorded

(* What is said to be imported is in the profile when the job completes.   *)
ImportedIsThere ==
  \A r \in ImportRequests :
    import[r].pc = "completing" /\ profile => import[r].done \subseteq present

(* However imports overlap, fail and follow each other: one at a time, and *)
(* one that completes noted the same in both places and left its files.    *)
ImportsSafe == OneImport /\ ManifestsAgree /\ ImportedIsThere
=============================================================================
