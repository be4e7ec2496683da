------------------------ MODULE AdministrationProofs -------------------------
(***************************************************************************)
(* Proofs about what users administer: their sign-ins, the configuration,  *)
(* imports of settings, and the profiles of their accounts; about the      *)
(* database that is opened for them; and, of that and of imports, that     *)
(* nothing is written which somebody else owns.                            *)
(***************************************************************************)
EXTENDS MCParts, FiniteSetTheorems, WellFoundedInduction, TLAPS

(* Sign-ins.  A thread waits for a login that is registered or was ousted; *)
(* a process only runs while somebody waits for it, and nothing was typed  *)
(* for a login before it was registered.                                   *)
LoginTypes ==
  /\ attempt \in [Attempts -> {"none", "launching", "refused", "waiting", "reaped", "verifying", "done"}]
  /\ process \in [Attempts -> {"none", "running", "succeeded", "failed"}]
  /\ activeLogin = {} \/ \E a \in Attempts : activeLogin = {a}
  /\ typed \in [Attempts -> Seq({"whole", "partial"})]
  /\ verified \subseteq Attempts /\ ousted \subseteq Attempts
  /\ shutdown \in {"no", "stopping", "cancelled", "down"}

RegistryIsKnown ==
  \A a \in Attempts :
    /\ attempt[a] \in {"waiting", "reaped"} => a \in activeLogin \union ousted
    /\ a \in activeLogin => attempt[a] \in {"waiting", "reaped", "done"}
    /\ a \in activeLogin /\ attempt[a] = "done" => shutdown = "down"
    /\ a \in ousted => attempt[a] \notin {"none", "launching"} /\ process[a] # "running"
    /\ shutdown = "down" => attempt[a] = "done"

ProcessIsKnown ==
  \A a \in Attempts :
    /\ attempt[a] = "none" => process[a] = "none"
    /\ attempt[a] \in {"refused", "reaped", "verifying"} => process[a] # "running"
    /\ attempt[a] = "done" /\ shutdown # "down" =>
         process[a] # "running" /\ (process[a] = "succeeded" => a \in verified \union ousted)

CodesAreKnown ==
  \A a \in Attempts :
    /\ attempt[a] \in {"none", "launching"} => typed[a] = <<>>
    /\ a \in activeLogin => \A i \in 1 .. Len(typed[a]) : typed[a][i] # "partial"

LoginInv == LoginTypes /\ RegistryIsKnown /\ ProcessIsKnown /\ CodesAreKnown /\ CodesAreWhole

(* No login runs when the daemon starts.                                   *)
LEMMA LoginInitInv == LoginInit => LoginInv
<1> SUFFICES ASSUME LoginInit PROVE LoginInv
  OBVIOUS
<1>1. LoginTypes
  BY DEF LoginInit, LoginTypes
<1>2. RegistryIsKnown /\ ProcessIsKnown
  BY DEF LoginInit, RegistryIsKnown, ProcessIsKnown
<1>3. CodesAreKnown /\ CodesAreWhole
  BY DEF LoginInit, CodesAreKnown, CodesAreWhole
<1> QED
  BY <1>1, <1>2, <1>3 DEF LoginInv

(* Every step of a login and of a shutdown keeps the invariant.            *)
LEMMA LoginStepInv ==
  ASSUME LoginInv, [LoginNext]_loginVars
  PROVE  LoginInv'
<1>0. LoginTypes /\ RegistryIsKnown /\ ProcessIsKnown /\ CodesAreKnown /\ CodesAreWhole
  BY DEF LoginInv
<1>codes. ASSUME UNCHANGED typed, activeLogin' \subseteq activeLogin,
                 \A a \in Attempts : attempt'[a] \in {"none", "launching"} => attempt[a] \in {"none", "launching"}
          PROVE  CodesAreKnown' /\ CodesAreWhole'
  BY <1>codes, <1>0 DEF CodesAreKnown, CodesAreWhole
<1>1. CASE UNCHANGED loginVars
  BY <1>1, <1>0 DEF loginVars, LoginInv, LoginTypes, RegistryIsKnown, ProcessIsKnown, CodesAreKnown, CodesAreWhole
<1>2. ASSUME NEW a \in Attempts, LaunchLogin(a) PROVE LoginInv'
  <2>1. LoginTypes'
    BY <1>2, <1>0 DEF LaunchLogin, LoginTypes
  <2>2. RegistryIsKnown' /\ ProcessIsKnown'
    BY <1>2, <1>0 DEF LaunchLogin, LoginTypes, RegistryIsKnown, ProcessIsKnown
  <2>3. CodesAreKnown' /\ CodesAreWhole'
    BY <1>2, <1>0, <1>codes DEF LaunchLogin, LoginTypes
  <2> QED
    BY <2>1, <2>2, <2>3 DEF LoginInv
<1>3. ASSUME NEW a \in Attempts, LaunchFails(a) PROVE LoginInv'
  <2>1. LoginTypes'
    BY <1>3, <1>0 DEF LaunchFails, LoginTypes, KilledGroups
  <2>2. RegistryIsKnown' /\ ProcessIsKnown'
    BY <1>3, <1>0 DEF LaunchFails, LoginTypes, RegistryIsKnown, ProcessIsKnown, KilledGroups
  <2>3. CodesAreKnown' /\ CodesAreWhole'
    BY <1>3, <1>0, <1>codes DEF LaunchFails, LoginTypes
  <2> QED
    BY <2>1, <2>2, <2>3 DEF LoginInv
<1>4. ASSUME NEW a \in Attempts, RegisterLogin(a) PROVE LoginInv'
  <2>1. LoginTypes'
    BY <1>4, <1>0 DEF RegisterLogin, LoginTypes, KilledGroups
  <2>2. RegistryIsKnown'
    BY <1>4, <1>0 DEF RegisterLogin, LoginTypes, RegistryIsKnown, KilledGroups
  <2>3. ProcessIsKnown'
    BY <1>4, <1>0 DEF RegisterLogin, LoginTypes, ProcessIsKnown, KilledGroups
  <2>4. CodesAreKnown' /\ CodesAreWhole'
    BY <1>4, <1>0 DEF RegisterLogin, LoginTypes, CodesAreKnown, CodesAreWhole
  <2> QED
    BY <2>1, <2>2, <2>3, <2>4 DEF LoginInv
<1>5. ASSUME NEW a \in Attempts, LoginExits(a) PROVE LoginInv'
  <2>1. LoginTypes'
    BY <1>5, <1>0 DEF LoginExits, LoginTypes
  <2>2. RegistryIsKnown' /\ ProcessIsKnown'
    BY <1>5, <1>0 DEF LoginExits, LoginTypes, RegistryIsKnown, ProcessIsKnown
  <2>3. CodesAreKnown' /\ CodesAreWhole'
    BY <1>5, <1>0, <1>codes DEF LoginExits
  <2> QED
    BY <2>1, <2>2, <2>3 DEF LoginInv
<1>6. ASSUME NEW a \in Attempts, ReapLogin(a) \/ LoginTimesOut(a) PROVE LoginInv'
  <2>1. LoginTypes'
    BY <1>6, <1>0 DEF ReapLogin, LoginTimesOut, LoginTypes, KilledGroups
  <2>2. RegistryIsKnown' /\ ProcessIsKnown'
    BY <1>6, <1>0 DEF ReapLogin, LoginTimesOut, LoginTypes, RegistryIsKnown, ProcessIsKnown, KilledGroups
  <2>3. CodesAreKnown' /\ CodesAreWhole'
    BY <1>6, <1>0, <1>codes DEF ReapLogin, LoginTimesOut, LoginTypes
  <2> QED
    BY <2>1, <2>2, <2>3 DEF LoginInv
<1>7. ASSUME NEW a \in Attempts, UnregisterLogin(a) PROVE LoginInv'
  <2>1. LoginTypes'
    BY <1>7, <1>0 DEF UnregisterLogin, LoginTypes
  <2>2. RegistryIsKnown'
    BY <1>7, <1>0 DEF UnregisterLogin, LoginTypes, RegistryIsKnown
  <2>3. ProcessIsKnown'
    BY <1>7, <1>0 DEF UnregisterLogin, LoginTypes, RegistryIsKnown, ProcessIsKnown
  <2>4. CodesAreKnown' /\ CodesAreWhole'
    BY <1>7, <1>0, <1>codes DEF UnregisterLogin, LoginTypes
  <2> QED
    BY <2>1, <2>2, <2>3, <2>4 DEF LoginInv
<1>8. ASSUME NEW a \in Attempts, VerifyLogin(a) PROVE LoginInv'
  <2>1. LoginTypes'
    BY <1>8, <1>0 DEF VerifyLogin, LoginTypes
  <2>2. RegistryIsKnown' /\ ProcessIsKnown'
    BY <1>8, <1>0 DEF VerifyLogin, LoginTypes, RegistryIsKnown, ProcessIsKnown
  <2>3. CodesAreKnown' /\ CodesAreWhole'
    BY <1>8, <1>0, <1>codes DEF VerifyLogin, LoginTypes
  <2> QED
    BY <2>1, <2>2, <2>3 DEF LoginInv
<1>oust. ASSUME OustLogins, UNCHANGED <<attempt, verified, shutdown>>
         PROVE  /\ process' \in [Attempts -> {"none", "running", "succeeded", "failed"}]
                /\ RegistryIsKnown' /\ ProcessIsKnown'
  <2>1. process' \in [Attempts -> {"none", "running", "succeeded", "failed"}]
    BY <1>oust, <1>0 DEF OustLogins, KilledGroups, LoginTypes
  <2>2. RegistryIsKnown'
    BY <1>oust, <1>0 DEF OustLogins, KilledGroups, LoginTypes, RegistryIsKnown
  <2>3. ProcessIsKnown'
    BY <1>oust, <1>0 DEF OustLogins, KilledGroups, LoginTypes, ProcessIsKnown, RegistryIsKnown
  <2> QED
    BY <2>1, <2>2, <2>3
<1>9. CASE SubmitCode
  <2>1. PICK a \in activeLogin, line \in {"whole", "partial"} :
          /\ typed' = [typed EXCEPT ![a] = Append(@, line)]
          /\ IF line = "partial" THEN OustLogins ELSE UNCHANGED <<process, activeLogin, ousted>>
    BY <1>9 DEF SubmitCode
  <2>2. a \in Attempts /\ typed[a] \in Seq({"whole", "partial"})
    BY <1>0 DEF LoginTypes
  <2>3. typed' \in [Attempts -> Seq({"whole", "partial"})]
    BY <2>1, <2>2, <1>0 DEF LoginTypes
  <2>4. Len(typed'[a]) = Len(typed[a]) + 1 /\ Len(typed[a]) \in Nat
        /\ (\A i \in 1 .. Len(typed[a]) : typed'[a][i] = typed[a][i]) /\ typed'[a][Len(typed[a]) + 1] = line
    BY <2>1, <2>2, <1>0 DEF LoginTypes
  <2>5. \A b \in Attempts : b # a => typed'[b] = typed[b]
    BY <2>1, <1>0 DEF LoginTypes
  <2>6. UNCHANGED <<attempt, verified, shutdown>>
    BY <1>9 DEF SubmitCode
  <2>7. CodesAreWhole'
    BY <2>2, <2>4, <2>5, <1>0 DEF CodesAreWhole, CodesAreKnown
  <2>8. \A b \in Attempts : attempt'[b] \in {"none", "launching"} => typed'[b] = <<>>
    BY <2>2, <2>5, <2>6, <1>0 DEF CodesAreKnown, RegistryIsKnown
  <2>9. CASE line = "partial"
    <3>1. OustLogins
      BY <2>1, <2>9
    <3>2. RegistryIsKnown' /\ ProcessIsKnown' /\ process' \in [Attempts -> {"none", "running", "succeeded", "failed"}]
      BY <3>1, <2>6, <1>oust
    <3>3. LoginTypes'
      BY <3>1, <3>2, <2>3, <2>6, <1>0 DEF LoginTypes, OustLogins
    <3>4. CodesAreKnown'
      BY <3>1, <2>8 DEF CodesAreKnown, OustLogins
    <3> QED
      BY <3>2, <3>3, <3>4, <2>7 DEF LoginInv
  <2>10. CASE line = "whole"
    <3>1. UNCHANGED <<process, activeLogin, ousted>>
      BY <2>1, <2>10
    <3>2. LoginTypes' /\ RegistryIsKnown' /\ ProcessIsKnown'
      BY <3>1, <2>3, <2>6, <1>0 DEF LoginTypes, RegistryIsKnown, ProcessIsKnown
    <3>3. \A i \in 1 .. Len(typed'[a]) : typed'[a][i] # "partial"
      BY <2>2, <2>4, <2>10, <1>0 DEF CodesAreKnown
    <3>4. CodesAreKnown'
      BY <3>1, <3>3, <2>5, <2>8, <1>0 DEF CodesAreKnown
    <3> QED
      BY <3>2, <3>4, <2>7 DEF LoginInv
  <2> QED
    BY <2>9, <2>10
<1>10. CASE CancelLogin \/ CancelAllLogins
  <2>1. OustLogins /\ UNCHANGED <<attempt, verified, typed>>
    BY <1>10 DEF CancelLogin, CancelAllLogins
  <2>2. shutdown' = shutdown \/ (shutdown = "stopping" /\ shutdown' = "cancelled")
    BY <1>10 DEF CancelLogin, CancelAllLogins
  <2>3. LoginTypes'
    BY <2>1, <2>2, <1>0 DEF OustLogins, KilledGroups, LoginTypes
  <2>4. RegistryIsKnown'
    BY <2>1, <2>2, <1>0 DEF OustLogins, KilledGroups, LoginTypes, RegistryIsKnown
  <2>5. ProcessIsKnown'
    BY <2>1, <2>2, <1>0 DEF OustLogins, KilledGroups, LoginTypes, ProcessIsKnown, RegistryIsKnown
  <2>6. CodesAreKnown' /\ CodesAreWhole'
    BY <2>1, <1>codes DEF OustLogins
  <2> QED
    BY <2>3, <2>4, <2>5, <2>6 DEF LoginInv
<1>11. CASE BeginShutdown
  BY <1>11, <1>0 DEF BeginShutdown, LoginInv, LoginTypes, RegistryIsKnown, ProcessIsKnown, CodesAreKnown, CodesAreWhole
<1>12. CASE ExitDaemon
  <2>1. LoginTypes'
    BY <1>12, <1>0 DEF ExitDaemon, LoginTypes
  <2>2. RegistryIsKnown' /\ ProcessIsKnown'
    BY <1>12, <1>0 DEF ExitDaemon, LoginTypes, RegistryIsKnown, ProcessIsKnown
  <2>3. CodesAreKnown' /\ CodesAreWhole'
    BY <1>12, <1>0, <1>codes DEF ExitDaemon
  <2> QED
    BY <2>1, <2>2, <2>3 DEF LoginInv
<1> QED
  BY <1>1, <1>2, <1>3, <1>4, <1>5, <1>6, <1>7, <1>8, <1>9, <1>10, <1>11, <1>12 DEF LoginNext

(* What is true of sign-ins whatever is replaced, cancelled, late or       *)
(* typed (launchers.rs).                                                   *)
THEOREM LoginInvariant == LoginSpec => []LoginInv
<1>1. LoginInit => LoginInv
  BY LoginInitInv
<1>2. LoginInv /\ [LoginNext]_loginVars => LoginInv'
  BY LoginStepInv
<1> QED
  BY <1>1, <1>2, PTL DEF LoginSpec

(* Of the logins that threads wait for one runs at most, codes are whole,  *)
(* no success goes unverified and none outlives its end, for any number of *)
(* attempts (launchers.rs).                                                *)
THEOREM SignInsAreSafe == LoginSpec => []LoginsSafe
<1>1. ASSUME LoginInv PROVE LoginsSafe
  <2>1. OnlyOneLogin
    BY <1>1 DEF LoginInv, LoginTypes, RegistryIsKnown, OnlyOneLogin
  <2>2. SuccessIsVerified
    BY <1>1 DEF LoginInv, ProcessIsKnown, SuccessIsVerified
  <2>3. ShutdownEndsLogins
    BY <1>1 DEF LoginInv, LoginTypes, RegistryIsKnown, ShutdownEndsLogins
  <2> QED
    BY <1>1, <2>1, <2>2, <2>3 DEF LoginInv, LoginsSafe
<1> QED
  BY <1>1, LoginInvariant, PTL
-----------------------------------------------------------------------------
(* Imports.  Nothing is imported before a job runs; while it runs, what it *)
(* has imported is in the profile, and the manifests follow it in turn.    *)
ImportPlaces == ImportStarted \union {"out", "refused", "admitted", "planned", "completed", "failed"}

ImportTypes ==
  /\ import \in [ImportRequests ->
       [pc : ImportPlaces, mode : Modes, left : SUBSET ImportFiles, done : SUBSET ImportFiles]]
  /\ activeImport \subseteq ImportRequests
  /\ present \subseteq ImportFiles /\ recorded \subseteq ImportFiles
  /\ saved \subseteq ImportFiles /\ authored \subseteq ImportFiles
  /\ profile \in BOOLEAN

ProgressIsKnown ==
  \A r \in ImportRequests :
    /\ import[r].pc \in {"out", "admitted", "planned", "queued"} => import[r].done = {}
    /\ import[r].pc \in {"copying", "persisting", "completing"} /\ profile => import[r].done \subseteq present
    /\ import[r].pc = "persisting" /\ profile /\ import[r].done # {} => recorded = import[r].done
    /\ import[r].pc = "completing" /\ profile /\ import[r].done # {} =>
         recorded = import[r].done /\ saved = import[r].done

AuthorsAreKnown == recorded \subseteq authored /\ \A r \in ImportRequests : import[r].done \subseteq authored

ImportInv == ImportTypes /\ OneImport /\ ProgressIsKnown /\ AuthorsAreKnown

(* No import runs when the daemon starts.                                  *)
LEMMA ImportInitInv == ImportInit => ImportInv
<1> SUFFICES ASSUME ImportInit PROVE ImportInv
  OBVIOUS
<1>1. ImportTypes
  BY DEF ImportInit, ImportTypes, ImportPlaces, ImportStarted, Modes
<1>2. OneImport /\ ProgressIsKnown /\ AuthorsAreKnown
  BY DEF ImportInit, OneImport, ProgressIsKnown, AuthorsAreKnown, ImportStarted
<1> QED
  BY <1>1, <1>2 DEF ImportInv

(* Every step of an import, of an author and of a deletion keeps the       *)
(* invariant.                                                              *)
LEMMA ImportStepInv ==
  ASSUME ImportInv, [ImportNext]_importVars
  PROVE  ImportInv'
<1>0. ImportTypes /\ OneImport /\ ProgressIsKnown /\ AuthorsAreKnown
  BY DEF ImportInv
<1>1. CASE UNCHANGED importVars
  BY <1>1, <1>0 DEF importVars, jobVars, dirVars, ImportInv, ImportTypes, OneImport, ProgressIsKnown, AuthorsAreKnown
\* A request that moves on its own and writes nothing.
<1>move. ASSUME NEW r \in ImportRequests, NEW to \in ImportPlaces, Moves(r, to), UNCHANGED <<dirVars, profile>>
         PROVE  /\ import' \in [ImportRequests ->
                     [pc : ImportPlaces, mode : Modes, left : SUBSET ImportFiles, done : SUBSET ImportFiles]]
                /\ import'[r].pc = to /\ import'[r].done = import[r].done /\ import'[r].left = import[r].left
                /\ import'[r].mode = import[r].mode
                /\ \A q \in ImportRequests : q # r => import'[q] = import[q]
                /\ AuthorsAreKnown'
  <2>1. /\ import' \in [ImportRequests ->
              [pc : ImportPlaces, mode : Modes, left : SUBSET ImportFiles, done : SUBSET ImportFiles]]
        /\ import'[r].pc = to /\ import'[r].done = import[r].done /\ import'[r].left = import[r].left
        /\ import'[r].mode = import[r].mode
        /\ \A q \in ImportRequests : q # r => import'[q] = import[q]
    BY <1>move, <1>0 DEF Moves, ImportTypes
  <2> QED
    BY <2>1, <1>move, <1>0 DEF AuthorsAreKnown, dirVars
<1>2. ASSUME NEW r \in ImportRequests, RequestImport(r) PROVE ImportInv'
  <2>1. PICK to \in {"admitted", "refused"} : Moves(r, to)
    BY <1>2 DEF RequestImport
  <2>2. /\ import' \in [ImportRequests ->
             [pc : ImportPlaces, mode : Modes, left : SUBSET ImportFiles, done : SUBSET ImportFiles]]
        /\ import'[r].pc = to /\ import'[r].done = import[r].done
        /\ \A q \in ImportRequests : q # r => import'[q] = import[q]
        /\ AuthorsAreKnown'
    BY <2>1, <1>2, <1>move DEF RequestImport, ImportPlaces
  <2> QED
    BY <2>2, <1>2, <1>0 DEF RequestImport, jobVars, dirVars, ImportInv, ImportTypes, OneImport, ProgressIsKnown, ImportStarted
<1>3. ASSUME NEW r \in ImportRequests, PlanImport(r) PROVE ImportInv'
  <2>1. /\ import' \in [ImportRequests ->
             [pc : ImportPlaces, mode : Modes, left : SUBSET ImportFiles, done : SUBSET ImportFiles]]
        /\ import'[r].pc \in {"planned", "refused"} /\ import'[r].done = {}
        /\ \A q \in ImportRequests : q # r => import'[q] = import[q]
    BY <1>3, <1>0 DEF PlanImport, Moves, ImportTypes, ImportPlaces, ProgressIsKnown
  <2> QED
    BY <2>1, <1>3, <1>0 DEF PlanImport, jobVars, dirVars, ImportInv, ImportTypes, OneImport, ProgressIsKnown, AuthorsAreKnown, ImportStarted
<1>4. ASSUME NEW r \in ImportRequests, StartImport(r) PROVE ImportInv'
  <2>1. PICK to \in {"queued", "refused"} : Moves(r, to)
    BY <1>4 DEF StartImport
  <2>2. /\ import' \in [ImportRequests ->
             [pc : ImportPlaces, mode : Modes, left : SUBSET ImportFiles, done : SUBSET ImportFiles]]
        /\ import'[r].pc = to /\ import'[r].done = import[r].done
        /\ \A q \in ImportRequests : q # r => import'[q] = import[q]
        /\ AuthorsAreKnown'
    BY <2>1, <1>4, <1>move DEF StartImport, ImportPlaces, ImportStarted
  <2>3. OneImport'
    <3>1. CASE activeImport # {}
      <4>1. UNCHANGED activeImport /\ Moves(r, "refused")
        BY <3>1, <1>4 DEF StartImport
      <4>2. import'[r].pc = "refused"
        BY <4>1, <1>0 DEF Moves, ImportTypes
      <4> QED
        BY <4>1, <4>2, <2>2, <1>4, <1>0 DEF StartImport, OneImport, ImportStarted
    <3>2. CASE activeImport = {}
      <4>1. activeImport' = {r} /\ Moves(r, "queued")
        BY <3>2, <1>4 DEF StartImport
      <4>2. import'[r].pc = "queued"
        BY <4>1, <1>0 DEF Moves, ImportTypes
      <4> QED
        BY <3>2, <4>1, <4>2, <2>2, <1>0 DEF OneImport, ImportStarted
    <3> QED
      BY <3>1, <3>2
  <2>4. ImportTypes' /\ ProgressIsKnown'
    BY <2>2, <1>4, <1>0 DEF StartImport, jobVars, dirVars, ImportTypes, ProgressIsKnown
  <2> QED
    BY <2>2, <2>3, <2>4 DEF ImportInv
<1>5. ASSUME NEW r \in ImportRequests, RunImport(r) PROVE ImportInv'
  <2>1. PICK to \in {"persisting", "copying", "failing"} : Moves(r, to)
    BY <1>5 DEF RunImport
  <2>2. /\ import' \in [ImportRequests ->
             [pc : ImportPlaces, mode : Modes, left : SUBSET ImportFiles, done : SUBSET ImportFiles]]
        /\ import'[r].pc = to /\ import'[r].done = {}
        /\ \A q \in ImportRequests : q # r => import'[q] = import[q]
        /\ AuthorsAreKnown'
    BY <2>1, <1>5, <1>0, <1>move DEF RunImport, ImportPlaces, ImportStarted, ProgressIsKnown
  <2> QED
    BY <2>2, <1>5, <1>0 DEF RunImport, jobVars, dirVars, ImportInv, ImportTypes, OneImport, ProgressIsKnown, ImportStarted
\* While a request runs, no other one does.
<1>alone. ASSUME NEW r \in ImportRequests, import[r].pc \in ImportStarted,
                 NEW q \in ImportRequests, q # r
          PROVE  import[q].pc \notin ImportStarted
  BY <1>alone, <1>0 DEF OneImport
<1>6. ASSUME NEW r \in ImportRequests, ImportFile(r) PROVE ImportInv'
  <2>1. PICK f \in import[r].left :
          \/ /\ present' = present \union {f} /\ authored' = authored \union {f}
             /\ import' = [import EXCEPT ![r].left = @ \ {f}, ![r].done = @ \union {f}]
          \/ /\ import' = [import EXCEPT ![r].left = @ \ {f}]
             /\ UNCHANGED <<present, authored>>
          \/ Moves(r, "failing") /\ UNCHANGED <<present, authored>>
    BY <1>6 DEF ImportFile
  <2>2. f \in ImportFiles
    BY <2>1, <1>0 DEF ImportTypes
  <2>3. /\ import' \in [ImportRequests ->
             [pc : ImportPlaces, mode : Modes, left : SUBSET ImportFiles, done : SUBSET ImportFiles]]
        /\ import'[r].pc \in {"copying", "failing"}
        /\ \A q \in ImportRequests : q # r => import'[q] = import[q]
    BY <2>1, <2>2, <1>6, <1>0 DEF ImportFile, Moves, ImportTypes, ImportPlaces, ImportStarted
  <2>4. \/ present' = present \union {f} /\ authored' = authored \union {f} /\ import'[r].done = import[r].done \union {f}
        \/ UNCHANGED <<present, authored>> /\ import'[r].done = import[r].done
    BY <2>1, <1>0 DEF Moves, ImportTypes
  <2>5. ImportTypes'
    BY <2>2, <2>3, <2>4, <1>6, <1>0 DEF ImportFile, jobVars, ImportTypes
  <2>6. OneImport'
    BY <2>3, <1>6, <1>0 DEF ImportFile, jobVars, OneImport, ImportStarted
  <2>7. ProgressIsKnown'
    BY <2>3, <2>4, <1>6, <1>0, <1>alone DEF ImportFile, ProgressIsKnown, ImportStarted
  <2>8. AuthorsAreKnown'
    BY <2>3, <2>4, <1>6, <1>0 DEF ImportFile, AuthorsAreKnown
  <2> QED
    BY <2>5, <2>6, <2>7, <2>8 DEF ImportInv
<1>7. ASSUME NEW r \in ImportRequests, ConcludeImport(r) PROVE ImportInv'
  <2>1. PICK to \in {"persisting", "failing"} : Moves(r, to)
    BY <1>7 DEF ConcludeImport
  <2>2. /\ import' \in [ImportRequests ->
             [pc : ImportPlaces, mode : Modes, left : SUBSET ImportFiles, done : SUBSET ImportFiles]]
        /\ import'[r].pc = to /\ import'[r].done = import[r].done
        /\ \A q \in ImportRequests : q # r => import'[q] = import[q]
    BY <2>1, <1>0 DEF Moves, ImportTypes, ImportPlaces, ImportStarted
  <2>3. /\ present' \subseteq present
        /\ import[r].done \subseteq present => import[r].done \subseteq present'
        /\ recorded' \in {recorded, import[r].done}
        /\ to = "persisting" => recorded' = import[r].done
    <3>1. CASE import[r].done = {}
      <4>1. Moves(r, "failing") /\ UNCHANGED <<present, recorded>>
        BY <3>1, <1>7 DEF ConcludeImport
      <4>2. import'[r].pc = "failing"
        BY <4>1, <1>0 DEF Moves, ImportTypes
      <4> QED
        BY <4>1, <4>2, <2>2
    <3>2. CASE import[r].done # {}
      <4>1. /\ present' = IF import[r].mode = "Replace" THEN present \ StalePaths(r) ELSE present
            /\ \/ recorded' = import[r].done
               \/ UNCHANGED recorded /\ Moves(r, "failing")
        BY <3>2, <1>7 DEF ConcludeImport
      <4>2. Moves(r, "failing") => import'[r].pc = "failing"
        BY <1>0 DEF Moves, ImportTypes
      <4> QED
        BY <4>1, <4>2, <2>2 DEF StalePaths
    <3> QED
      BY <3>1, <3>2
  <2>4. ImportTypes'
    BY <2>2, <2>3, <1>7, <1>0 DEF ConcludeImport, jobVars, ImportTypes
  <2>5. OneImport'
    BY <2>2, <1>7, <1>0 DEF ConcludeImport, jobVars, OneImport, ImportStarted
  <2>6. ProgressIsKnown'
    BY <2>2, <2>3, <1>7, <1>0, <1>alone DEF ConcludeImport, ProgressIsKnown, ImportStarted
  <2>7. AuthorsAreKnown'
    BY <2>2, <2>3, <1>7, <1>0 DEF ConcludeImport, AuthorsAreKnown
  <2> QED
    BY <2>4, <2>5, <2>6, <2>7 DEF ImportInv
<1>8. ASSUME NEW r \in ImportRequests, PersistImport(r) PROVE ImportInv'
  <2>1. PICK to \in {"completing", "failing"} : Moves(r, to)
    BY <1>8 DEF PersistImport
  <2>2. /\ import' \in [ImportRequests ->
             [pc : ImportPlaces, mode : Modes, left : SUBSET ImportFiles, done : SUBSET ImportFiles]]
        /\ import'[r].pc = to /\ import'[r].done = import[r].done
        /\ \A q \in ImportRequests : q # r => import'[q] = import[q]
    BY <2>1, <1>0 DEF Moves, ImportTypes, ImportPlaces, ImportStarted
  <2>3. saved' \in {saved, import[r].done} /\ (to = "completing" => saved' = import[r].done)
    <3>1. Moves(r, "failing") => import'[r].pc = "failing"
      BY <1>0 DEF Moves, ImportTypes
    <3> QED
      BY <3>1, <2>2, <1>8 DEF PersistImport
  <2>4. ImportTypes'
    BY <2>2, <2>3, <1>8, <1>0 DEF PersistImport, jobVars, ImportTypes
  <2>5. OneImport'
    BY <2>2, <1>8, <1>0 DEF PersistImport, jobVars, OneImport, ImportStarted
  <2>6. ProgressIsKnown'
    BY <2>2, <2>3, <1>8, <1>0, <1>alone DEF PersistImport, ProgressIsKnown, ImportStarted
  <2>7. AuthorsAreKnown'
    BY <2>2, <1>8, <1>0 DEF PersistImport, AuthorsAreKnown
  <2> QED
    BY <2>4, <2>5, <2>6, <2>7 DEF ImportInv
<1>9. ASSUME NEW r \in ImportRequests, FinishImport(r) PROVE ImportInv'
  <2>1. PICK to \in {"completed", "failed"} : Moves(r, to)
    BY <1>9 DEF FinishImport
  <2>2. /\ import' \in [ImportRequests ->
             [pc : ImportPlaces, mode : Modes, left : SUBSET ImportFiles, done : SUBSET ImportFiles]]
        /\ import'[r].pc = to /\ import'[r].done = import[r].done
        /\ \A q \in ImportRequests : q # r => import'[q] = import[q]
        /\ AuthorsAreKnown'
    BY <2>1, <1>9, <1>move DEF FinishImport, ImportPlaces
  <2>3. OneImport'
    BY <2>2, <1>9, <1>alone DEF FinishImport, OneImport, ImportStarted
  <2>4. ImportTypes' /\ ProgressIsKnown'
    BY <2>2, <1>9, <1>0 DEF FinishImport, dirVars, ImportTypes, ProgressIsKnown
  <2> QED
    BY <2>2, <2>3, <2>4 DEF ImportInv
<1>10. CASE AuthorFile
  BY <1>10, <1>0 DEF AuthorFile, jobVars, ImportInv, ImportTypes, OneImport, ProgressIsKnown, AuthorsAreKnown
<1>11. CASE DeleteProfile
  BY <1>11, <1>0 DEF DeleteProfile, jobVars, ImportInv, ImportTypes, OneImport, ProgressIsKnown, AuthorsAreKnown
<1> QED
  BY <1>1, <1>2, <1>3, <1>4, <1>5, <1>6, <1>7, <1>8, <1>9, <1>10, <1>11 DEF ImportNext

(* An import that runs has its account to itself, and how far it is tells  *)
(* what it left (ImportJobManager::run, execute_plan).                     *)
THEOREM ImportInvariant == ImportSpec => []ImportInv
  BY ImportInitInv, ImportStepInv, PTL DEF ImportSpec

(* However imports, their failures and a deletion of the profile           *)
(* interleave: one import at a time, one that completes left its files and *)
(* noted the same in both places.                                          *)
THEOREM ImportsAreSafe == ImportSpec => []ImportsSafe
<1>1. ImportInv => ImportsSafe
  BY DEF ImportInv, ImportsSafe, ProgressIsKnown, ManifestsAgree, ImportedIsThere
<1> QED
  BY <1>1, ImportInvariant, PTL

(* An import takes no file away that no import wrote                       *)
(* (cleanup_stale_replace_paths).                                          *)
THEOREM ForeignFilesAreKept == ImportSpec => ForeignKept
<1> DEFINE Kept == \A f \in ImportFiles : f \in present /\ f \notin present' /\ profile' => f \in authored
<1>1. ImportInv /\ [ImportNext]_importVars => [Kept]_importVars
  <2> SUFFICES ASSUME ImportInv, ImportNext PROVE Kept
    OBVIOUS
  <2>1. recorded \subseteq authored
    BY DEF ImportInv, AuthorsAreKnown
  <2>2. CASE \E r \in ImportRequests : ConcludeImport(r)
    BY <2>1, <2>2 DEF ConcludeImport, StalePaths
  <2>3. CASE \E r \in ImportRequests : ImportFile(r)
    BY <2>3 DEF ImportFile
  <2>4. CASE \E r \in ImportRequests :
                RequestImport(r) \/ PlanImport(r) \/ StartImport(r) \/ RunImport(r) \/ PersistImport(r) \/ FinishImport(r)
    BY <2>4 DEF RequestImport, PlanImport, StartImport, RunImport, PersistImport, FinishImport, dirVars
  <2>5. CASE AuthorFile
    BY <2>5 DEF AuthorFile
  <2>6. CASE DeleteProfile
    BY <2>6 DEF DeleteProfile
  <2> QED
    BY <2>2, <2>3, <2>4, <2>5, <2>6 DEF ImportNext
<1>2. [][Kept]_importVars => ForeignKept
  BY PTL DEF ForeignKept
<1> QED
  BY <1>1, <1>2, ImportInvariant, PTL DEF ImportSpec
-----------------------------------------------------------------------------
(* The database.  While the tables of a legacy schema are dropped, those   *)
(* named before are gone; what is migrated is empty or of its version.     *)
LegacyTables == {"data", "usage_snapshots", "accounts", "usage_schema_migrations", "schema_migrations"}
ForeignTables == {{"other"}, {"other", "accounts"}, {"usage_snapshots"}}

MigrationsTypes ==
  /\ origin \in {"empty", "legacy", "foreign", "ours"}
  /\ ours \in BOOLEAN /\ version \in 0 .. Latest + 1
  /\ journal \in {"delete", "wal"} /\ private \in BOOLEAN
  /\ opening \in {"start", "opened", "examining", "resetting", "migrating", "ready", "refused"}
  /\ current \in 0 .. Latest + 1 /\ dropped \in 0 .. 5
  /\ interrupted \in BOOLEAN

(* A file of ours has the tables of its version; one that is not yet is of *)
(* version 0, unless it belongs to somebody else.                          *)
FileIsKnown ==
  /\ ours => origin # "foreign" /\ version # 0 /\ SchemaOf(version) \subseteq tables
  /\ ~ours => origin # "ours"
  /\ ~ours /\ origin # "foreign" => version = 0
  /\ ~ours /\ origin = "empty" => tables = {}
  /\ ~ours /\ origin = "legacy" => tables \subseteq LegacyTables
  /\ origin = "foreign" => tables \in ForeignTables

(* What Storage::open knows of the file at each of its stages.             *)
Unexamined == {"start", "opened", "examining"}

StageIsKnown ==
  /\ opening # "start" => journal = "wal"
  /\ opening \notin {"start", "opened"} => private
  /\ opening \in Unexamined => dropped = 0
  /\ opening = "resetting" => /\ origin = "legacy" /\ ~ours /\ current = 0 /\ dropped < 5
                              /\ \A i \in 1 .. dropped : LegacySchema[i] \notin tables
  /\ opening = "migrating" => /\ origin # "foreign" /\ version <= Latest /\ current = version
                              /\ ~ours => tables = {}
  /\ opening = "ready" => ours /\ version = Latest
  /\ opening \in Unexamined \union {"refused"} /\ origin = "legacy" /\ ~ours /\ ~interrupted =>
       opening \in Unexamined /\ (HasLegacySchema \/ tables = {})
  /\ opening = "refused" => origin = "foreign" \/ version > Latest \/ interrupted

MigrationsInv == MigrationsTypes /\ FileIsKnown /\ StageIsKnown

(* The reset drops what a legacy schema has, and nothing else has a name.  *)
LEMMA ResetDropsLegacy ==
  /\ Len(LegacySchema) = 5
  /\ \A i \in 1 .. 5 : LegacySchema[i] \in LegacyTables
  /\ \A t \in LegacyTables : \E i \in 1 .. 5 : LegacySchema[i] = t
<1>1. LegacySchema[1] = "data" /\ LegacySchema[2] = "usage_snapshots" /\ LegacySchema[3] = "accounts"
      /\ LegacySchema[4] = "usage_schema_migrations" /\ LegacySchema[5] = "schema_migrations"
  BY DEF LegacySchema
<1>2. Len(LegacySchema) = 5
  BY DEF LegacySchema
<1>3. \A i \in 1 .. 5 : i = 1 \/ i = 2 \/ i = 3 \/ i = 4 \/ i = 5
  OBVIOUS
<1> QED
  BY <1>1, <1>2, <1>3 DEF LegacyTables

(* A migration starts with the database found.                             *)
LEMMA MigrationsInitInv == MigrationsInit => MigrationsInv
<1> SUFFICES ASSUME MigrationsInit PROVE MigrationsInv
  OBVIOUS
<1> PICK f \in Files : origin = f.origin /\ tables = f.tables /\ ours = f.ours /\ version = f.version
  BY DEF MigrationsInit
<1>1. /\ opening = "start" /\ current = 0 /\ dropped = 0 /\ interrupted = FALSE
      /\ journal \in {"delete", "wal"} /\ private \in BOOLEAN
  BY DEF MigrationsInit
<1>2. \/ origin = "empty" /\ ours = FALSE /\ version = 0 /\ tables = {}
      \/ /\ origin = "legacy" /\ ours = FALSE /\ version = 0
         /\ tables \in {{"data", "usage_snapshots", "accounts"}, {"usage_snapshots", "accounts", "schema_migrations"},
                       {"usage_snapshots", "accounts", "usage_schema_migrations"}}
      \/ origin = "foreign" /\ ours = FALSE /\ version \in {0, Latest} /\ tables \in ForeignTables
      \/ origin = "ours" /\ ours = TRUE /\ version \in 1 .. Latest + 1 /\ tables = SchemaOf(version)
  <2>1. CASE f \in [origin : {"empty"}, tables : {{}}, ours : {FALSE}, version : {0}]
    BY <2>1
  <2>2. CASE f \in [origin : {"legacy"}, ours : {FALSE}, version : {0},
                    tables : {{"data", "usage_snapshots", "accounts"}, {"usage_snapshots", "accounts", "schema_migrations"},
                              {"usage_snapshots", "accounts", "usage_schema_migrations"}}]
    BY <2>2
  <2>3. CASE f \in [origin : {"foreign"}, ours : {FALSE}, version : {0, Latest},
                    tables : {{"other"}, {"other", "accounts"}, {"usage_snapshots"}}]
    BY <2>3 DEF ForeignTables
  <2>4. ASSUME NEW v \in 1 .. Latest + 1,
               f = [origin |-> "ours", ours |-> TRUE, version |-> v, tables |-> SchemaOf(v)]
        PROVE  origin = "ours" /\ ours = TRUE /\ version \in 1 .. Latest + 1 /\ tables = SchemaOf(version)
    BY <2>4
  <2> QED
    BY <2>1, <2>2, <2>3, <2>4 DEF Files
<1>3. MigrationsTypes
  <2>1. Latest \in Nat /\ Latest # 0 /\ version \in 0 .. Latest + 1
    BY <1>2, MigrationsAssumption
  <2>2. origin \in {"empty", "legacy", "foreign", "ours"} /\ ours \in BOOLEAN
    BY <1>2
  <2>3. current \in 0 .. Latest + 1 /\ dropped \in 0 .. 5
    BY <1>1, <2>1
  <2> QED
    BY <1>1, <2>1, <2>2, <2>3 DEF MigrationsTypes
<1>4. FileIsKnown
  <2>1. CASE origin = "ours"
    BY <1>2, <2>1, MigrationsAssumption DEF FileIsKnown
  <2>2. CASE origin = "legacy"
    <3>1. ours = FALSE /\ version = 0 /\ tables \subseteq LegacyTables
      BY <1>2, <2>2 DEF LegacyTables
    <3> QED
      BY <3>1, <2>2 DEF FileIsKnown
  <2>3. CASE origin \in {"empty", "foreign"}
    BY <1>2, <2>3 DEF FileIsKnown
  <2> QED
    BY <2>1, <2>2, <2>3, <1>3 DEF MigrationsTypes
<1>5. origin = "legacy" => HasLegacySchema
  <2>1. origin = "legacy" => "accounts" \in tables /\ "usage_snapshots" \in tables
    BY <1>2
  <2> QED
    BY <2>1 DEF HasLegacySchema
<1>6. StageIsKnown
  BY <1>1, <1>5 DEF StageIsKnown, Unexamined
<1> QED
  BY <1>3, <1>4, <1>6 DEF MigrationsInv

(* Every step of an opening, and a restart in between, keeps the           *)
(* invariant.                                                              *)
LEMMA MigrationsStepInv ==
  ASSUME MigrationsInv, [MigrationsNext]_migrationVars
  PROVE  MigrationsInv'
<1> USE MigrationsAssumption
<1>0. MigrationsTypes /\ FileIsKnown /\ StageIsKnown
  BY DEF MigrationsInv
<1>1. CASE UNCHANGED migrationVars
  BY <1>1, <1>0 DEF migrationVars, MigrationsInv, MigrationsTypes, FileIsKnown, StageIsKnown, Unexamined, HasLegacySchema
<1>2. CASE Examine
  <2>0. opening = "examining" /\ journal' = "wal" /\ private' = TRUE
    BY <1>2, <1>0 DEF Examine, StageIsKnown, MigrationsTypes
  <2>1. MigrationsTypes'
    BY <1>2, <1>0 DEF Examine, MigrationsTypes
  <2>2. FileIsKnown'
    BY <1>2, <1>0 DEF Examine, FileIsKnown
  <2>3. CASE MustReset
    <3>1. opening' = "resetting" /\ current' = 0 /\ UNCHANGED <<origin, tables, ours, version, journal, private, interrupted, dropped>>
      BY <1>2, <2>3 DEF Examine
    <3>2. origin = "legacy"
      BY <1>0, <2>3 DEF MustReset, HasLegacySchema, FileIsKnown, ForeignTables, MigrationsTypes
    <3>3. dropped' = 0
      BY <3>1, <1>2, <1>0 DEF Examine, StageIsKnown, Unexamined
    <3> QED
      BY <3>1, <3>2, <3>3, <2>0, <2>1, <2>2, <2>3 DEF MigrationsInv, StageIsKnown, Unexamined, MustReset
  <2>4. CASE ~MustReset /\ ((~ours /\ tables # {}) \/ version > Latest)
    <3>1. opening' = "refused" /\ UNCHANGED <<origin, tables, ours, version, journal, private, interrupted>>
      BY <1>2, <2>4 DEF Examine
    <3>2. origin = "foreign" \/ version > Latest \/ interrupted
      <4>1. CASE version > Latest
        BY <4>1
      <4>2. CASE ~ours /\ tables # {} /\ ~HasLegacySchema
        BY <1>0, <1>2, <4>2 DEF Examine, FileIsKnown, StageIsKnown, Unexamined, MigrationsTypes
      <4> QED
        BY <2>4, <4>1, <4>2 DEF MustReset
    <3>3. origin = "legacy" /\ ~ours => interrupted
      BY <1>0, <3>2, MigrationsAssumption DEF FileIsKnown
    <3> QED
      BY <3>1, <3>2, <3>3, <2>0, <2>1, <2>2 DEF MigrationsInv, StageIsKnown, Unexamined
  <2>5. CASE ~MustReset /\ ~((~ours /\ tables # {}) \/ version > Latest)
    <3>1. opening' = "migrating" /\ current' = version /\ UNCHANGED <<origin, tables, ours, version, journal, private, interrupted>>
      BY <1>2, <2>5 DEF Examine
    <3>2. origin # "foreign"
      BY <1>0, <2>5 DEF FileIsKnown, ForeignTables
    <3>3. version <= Latest /\ (~ours => tables = {})
      BY <1>0, <2>5 DEF MigrationsTypes
    <3> QED
      BY <3>1, <3>2, <3>3, <2>0, <2>1, <2>2 DEF MigrationsInv, StageIsKnown, Unexamined
  <2> QED
    BY <2>3, <2>4, <2>5
<1>3. CASE DropTable
  <2>1. /\ opening = "resetting" /\ dropped' = dropped + 1 /\ dropped' \in 1 .. 5
        /\ tables' = tables \ {LegacySchema[dropped']}
        /\ opening' = IF dropped' = 5 THEN "migrating" ELSE "resetting"
        /\ UNCHANGED <<origin, ours, version, journal, private, current, interrupted>>
    BY <1>3, <1>0, ResetDropsLegacy DEF DropTable, StageIsKnown, Unexamined, MigrationsTypes
  <2>2. origin = "legacy" /\ ~ours /\ version = 0 /\ current = 0 /\ journal = "wal" /\ private
    BY <2>1, <1>0 DEF StageIsKnown, Unexamined, FileIsKnown
  <2>3. MigrationsTypes'
    BY <2>1, <1>0 DEF MigrationsTypes
  <2>4. FileIsKnown'
    BY <2>1, <2>2, <1>0 DEF FileIsKnown
  <2>5. \A i \in 1 .. dropped' : LegacySchema[i] \notin tables'
    BY <2>1, <1>0 DEF StageIsKnown, Unexamined, MigrationsTypes
  <2>6. dropped' = 5 => tables' = {}
    BY <2>4, <2>5, <2>1, <2>2, ResetDropsLegacy DEF FileIsKnown
  <2>7. StageIsKnown'
    BY <2>1, <2>2, <2>5, <2>6 DEF StageIsKnown, Unexamined
  <2> QED
    BY <2>3, <2>4, <2>7 DEF MigrationsInv
<1>4. CASE Migrate
  <2>1. MigrationsTypes'
    BY <1>4, <1>0 DEF Migrate, MigrationsTypes
  <2>2. FileIsKnown'
    BY <1>4, <1>0 DEF Migrate, FileIsKnown, StageIsKnown, Unexamined, MigrationsTypes
  <2>3. StageIsKnown'
    BY <1>4, <1>0 DEF Migrate, StageIsKnown, Unexamined, MigrationsTypes
  <2> QED
    BY <2>1, <2>2, <2>3 DEF MigrationsInv
<1>5. CASE Opened
  <2>1. ours /\ version = Latest
    BY <1>5, <1>0 DEF Opened, StageIsKnown, Unexamined, FileIsKnown, MigrationsTypes
  <2>2. MigrationsTypes' /\ FileIsKnown'
    BY <1>5, <1>0 DEF Opened, MigrationsTypes, FileIsKnown
  <2> QED
    BY <2>1, <2>2, <1>5 DEF Opened, StageIsKnown, Unexamined, MigrationsInv
<1>6. CASE Restart
  <2>1. MigrationsTypes' /\ FileIsKnown'
    BY <1>6, <1>0 DEF Restart, MigrationsTypes, FileIsKnown
  <2>2. origin = "legacy" /\ ~ours /\ ~interrupted' => HasLegacySchema' \/ tables' = {}
    BY <1>6, <1>0 DEF Restart, StageIsKnown, Unexamined, MigrationsTypes, HasLegacySchema
  <2> QED
    BY <2>1, <2>2, <1>6 DEF Restart, StageIsKnown, Unexamined, MigrationsInv
<1>7. CASE OpenWriter
  BY <1>7, <1>0 DEF OpenWriter, MigrationsInv, MigrationsTypes, FileIsKnown, StageIsKnown, Unexamined, HasLegacySchema
<1>8. CASE ProtectFile
  BY <1>8, <1>0 DEF ProtectFile, MigrationsInv, MigrationsTypes, FileIsKnown, StageIsKnown, Unexamined, HasLegacySchema
<1> QED
  BY <1>1, <1>2, <1>3, <1>4, <1>5, <1>6, <1>7, <1>8 DEF MigrationsNext

(* Wherever the daemon dies, the file is empty, of a known legacy schema,  *)
(* somebody else's, or has all tables of its version (migrate).            *)
THEOREM MigrationsInvariant == MigrationsSpec => []MigrationsInv
<1>1. MigrationsInit => MigrationsInv
  BY MigrationsInitInv
<1>2. MigrationsInv /\ [MigrationsNext]_migrationVars => MigrationsInv'
  BY MigrationsStepInv
<1> QED
  BY <1>1, <1>2, PTL DEF MigrationsSpec

(* A database that opens is complete, and one of the daemon's own is not   *)
(* refused, for any number of migrations and any crashes (migrate).        *)
THEOREM DatabaseIsOpened == MigrationsSpec => []DatabaseOpens
<1>1. ASSUME MigrationsInv PROVE DatabaseOpens
  BY <1>1 DEF MigrationsInv, FileIsKnown, StageIsKnown, DatabaseOpens, OpensComplete, OwnIsOpened
<1> QED
  BY <1>1, MigrationsInvariant, PTL

(* The tables of a database that is somebody else's, and what it says of   *)
(* its owner and version, are kept by every step, those included that set  *)
(* its journal mode and its permissions before it is examined (migrate).   *)
THEOREM ForeignTablesAreKept == MigrationsSpec => ForeignTablesKept
<1>1. ASSUME MigrationsInv, [MigrationsNext]_migrationVars
      PROVE  [origin = "foreign" => UNCHANGED <<tables, ours, version>>]_migrationVars
  BY <1>1 DEF MigrationsNext, MigrationsInv, StageIsKnown, OpenWriter, ProtectFile, Examine, DropTable, Migrate, Opened, Restart
<1> QED
  BY <1>1, MigrationsInvariant, PTL DEF MigrationsSpec, ForeignTablesKept
-----------------------------------------------------------------------------
(* The configuration.  At each stage of a change it is known what the file *)
(* says and what each subscriber sees, and that a deletion deletes no      *)
(* alert; an account that is gone stays unconfigured.                      *)
ChangeStages == {"persist", "install", "effects", "commit", "restore", "reinstall", "remanage"}

ConfigTypes ==
  /\ file \in Configs /\ acked \in Configs /\ runtime["live"] \in Configs
  /\ runtime = [s \in Everyone |-> runtime[s]]
  /\ \/ change = NoChange
     \/ change \in [stage : ChangeStages, edit : AllEdits, previous : Configs, updated : Configs, next : 1 .. 4]
  /\ row \in BOOLEAN /\ folder \in BOOLEAN /\ discarded \in BOOLEAN /\ torn \in BOOLEAN
  /\ torn => change = NoChange

Manages(c) == runtime["manager"] = View("manager", c)

\* The first n - 1 subscribers see the one configuration and the others the other.
Following(n, new, old) ==
  \A i \in 1 .. 4 : runtime[Subscribers[i]] = View(Subscribers[i], IF i < n THEN new ELSE old)
Follow(c) == Following(1, c, c)

StagesAreKnown ==
  /\ At("none") => file = acked /\ Follow(acked) /\ Manages(acked) /\ ~discarded
  /\ ~At("none") => change.previous = acked /\ change.updated \in Edited(change.edit, acked)
  /\ At("persist") => file = change.previous /\ Follow(acked) /\ Manages(acked) /\ change.next = 1
  /\ At("install") =>
       file = change.updated /\ Following(change.next, change.updated, change.previous) /\ Manages(change.previous)
  /\ At("effects") => file = change.updated /\ Follow(change.updated) /\ Manages(change.previous) /\ change.next = 1
  /\ At("commit") => file = change.updated /\ Follow(change.updated) /\ Manages(change.updated) /\ change.next = 1
  /\ At("restore") => file = change.updated /\ Follow(change.updated) /\ change.next = 1
  /\ At("reinstall") => file = change.previous /\ Following(change.next, change.previous, change.updated)
  /\ At("remanage") => file = change.previous /\ Follow(change.previous)
  /\ discarded => At("commit") /\ change.edit # "delete"

AccountIsKnown ==
  /\ ~row => acked.profile = "deleted"
  /\ ~folder => ~row

ConfigInv == ConfigTypes /\ (~torn => StagesAreKnown /\ AccountIsKnown)

\* An edit yields a configuration, and none brings a deleted profile back.
LEMMA EditYieldsConfig ==
  ASSUME NEW e \in AllEdits, NEW c \in Configs, NEW u \in Edited(e, c)
  PROVE  /\ u \in Configs
         /\ c.profile = "deleted" => u.profile = "deleted"
         /\ e = "delete" => u.profile = "deleted" /\ u.alerts = c.alerts
<1>0. /\ c.interval \in {60, 300} /\ c.enabled \in BOOLEAN /\ c.profile \in {"kept", "deleted"}
      /\ c.alerts \in BOOLEAN /\ c.ladder \in {1, 2}
  BY DEF Configs
<1>1. CASE e = "interval"
  <2>1. u = [c EXCEPT !.interval = 360 - @]
    BY <1>1 DEF Edited
  <2> QED
    BY <1>0, <1>1, <2>1 DEF Configs
<1>2. CASE e = "toggle"
  <2>1. PICK b \in BOOLEAN : u = [c EXCEPT !.enabled = b]
    <3>1. u = [c EXCEPT !.enabled = ~c.enabled]
      BY <1>2 DEF Edited
    <3> QED
      BY <3>1, Zenon
  <2>2. u \in Configs
    BY <2>1 DEF Configs
  <2>3. u.profile = c.profile
    BY <2>1 DEF Configs
  <2> QED
    BY <1>2, <2>2, <2>3
<1>3. CASE e = "silence"
  <2>1. PICK b \in BOOLEAN : u = [c EXCEPT !.alerts = b]
    <3>1. u = [c EXCEPT !.alerts = ~c.alerts]
      BY <1>3 DEF Edited
    <3> QED
      BY <3>1, Zenon
  <2>2. u \in Configs
    BY <2>1 DEF Configs
  <2>3. u.profile = c.profile
    BY <2>1 DEF Configs
  <2> QED
    BY <1>3, <2>2, <2>3
<1>4. CASE e = "ladder"
  <2>1. PICK a \in BOOLEAN : u = [c EXCEPT !.ladder = 3 - @, !.alerts = a]
    BY <1>4 DEF Edited
  <2>2. 3 - c.ladder \in {1, 2}
    BY <1>0
  <2> QED
    BY <1>0, <1>4, <2>1, <2>2, ZenonT(60) DEF Configs
<1>5. CASE e = "delete"
  <2>1. u = [c EXCEPT !.profile = "deleted"]
    BY <1>5 DEF Edited
  <2> QED
    BY <1>0, <1>5, <2>1 DEF Configs
<1> QED
  BY <1>1, <1>2, <1>3, <1>4, <1>5 DEF AllEdits

\* What subscribers see of a configuration that they were started with.
LEMMA StartedFollows ==
  ASSUME NEW c, runtime = Started(c)
  PROVE  Follow(c) /\ Manages(c) /\ runtime = [s \in Everyone |-> runtime[s]] /\ runtime["live"] = c
<1>1. \A s \in Everyone : runtime[s] = View(s, c)
  BY DEF Started
<1>2. View("live", c) = c
  BY DEF View
<1> QED
  BY <1>1, <1>2 DEF Follow, Following, Manages, Subscribers, Everyone, Started

(* Subscribers that all follow a configuration are what a start makes them.*)
LEMMA FollowingIsStarted ==
  ASSUME NEW c, Follow(c), Manages(c), runtime = [s \in Everyone |-> runtime[s]]
  PROVE  runtime = Started(c)
<1>1. \A i \in 1 .. 4 : runtime[Subscribers[i]] = View(Subscribers[i], c)
  BY DEF Follow, Following
<1>2. \A s \in Everyone : runtime[s] = View(s, c)
  BY <1>1 DEF Subscribers, Everyone, Manages
<1> QED
  BY <1>2 DEF Started

(* The daemon starts with the file, its copy and what follows it in        *)
(* agreement.                                                              *)
LEMMA ConfigInitInv == ConfigInit => ConfigInv
<1> SUFFICES ASSUME ConfigInit PROVE ConfigInv
  OBVIOUS
<1>1. Follow(file) /\ Manages(file) /\ runtime = [s \in Everyone |-> runtime[s]] /\ runtime["live"] = file
  BY StartedFollows DEF ConfigInit
<1>2. ConfigTypes
  BY <1>1 DEF ConfigInit, ConfigTypes
<1>3. StagesAreKnown /\ AccountIsKnown
  BY <1>1 DEF ConfigInit, StagesAreKnown, AccountIsKnown, At, NoChange
<1> QED
  BY <1>2, <1>3 DEF ConfigInv

\* One more subscriber is given the configuration c.
LEMMA PublishedFollows ==
  ASSUME ConfigTypes, change # NoChange, NEW c \in Configs, NEW old, NEW then \in ChangeStages,
         Published(c, then), Following(change.next, c, old)
  PROVE  /\ runtime' = [s \in Everyone |-> runtime'[s]] /\ runtime'["live"] \in Configs
         /\ runtime'["manager"] = runtime["manager"]
         /\ change'.edit = change.edit /\ change'.previous = change.previous /\ change'.updated = change.updated
         /\ change' \in [stage : ChangeStages, edit : AllEdits, previous : Configs, updated : Configs, next : 1 .. 4]
         /\ \/ /\ change'.stage = then /\ change'.next = 1
               /\ \A i \in 1 .. 4 : runtime'[Subscribers[i]] = View(Subscribers[i], c)
            \/ /\ change'.stage = change.stage
               /\ \A i \in 1 .. 4 :
                    runtime'[Subscribers[i]] = View(Subscribers[i], IF i < change'.next THEN c ELSE old)
<1> DEFINE n == change.next
           s == Subscribers[n]
<1>1. /\ n \in 1 .. 4
      /\ change \in [stage : ChangeStages, edit : AllEdits, previous : Configs, updated : Configs, next : 1 .. 4]
  BY DEF ConfigTypes
<1>2. s \in {"logs", "live", "collectors", "schedule"} /\ s \in Everyone
  BY <1>1 DEF Subscribers, Everyone
<1>3. \A i \in 1 .. 4 : Subscribers[i] \in Everyone /\ (Subscribers[i] = s <=> i = n)
  BY <1>1 DEF Subscribers, Everyone
<1>4. runtime' = [runtime EXCEPT ![s] = View(s, c)]
  BY DEF Published
<1>5. runtime = [x \in Everyone |-> runtime[x]]
  BY DEF ConfigTypes
<1>6. /\ runtime' = [x \in Everyone |-> runtime'[x]]
      /\ \A x \in Everyone : runtime'[x] = IF x = s THEN View(s, c) ELSE runtime[x]
  BY <1>2, <1>4, <1>5
<1>7. runtime'["manager"] = runtime["manager"]
  BY <1>2, <1>6 DEF Everyone
<1>8. runtime'["live"] \in Configs
  <2>1. View("live", c) = c
    BY DEF View
  <2> QED
    BY <2>1, <1>6 DEF Everyone, ConfigTypes
<1>9. \A i \in 1 .. 4 : runtime'[Subscribers[i]] = View(Subscribers[i], IF i < n + 1 THEN c ELSE old)
  BY <1>1, <1>3, <1>6 DEF Following
<1>10. CASE n = 4
  <2>1. change' = [change EXCEPT !.stage = then, !.next = 1]
    BY <1>10 DEF Published
  <2>2. \A i \in 1 .. 4 : runtime'[Subscribers[i]] = View(Subscribers[i], c)
    BY <1>9, <1>10
  <2>3. /\ change'.edit = change.edit /\ change'.previous = change.previous /\ change'.updated = change.updated
        /\ change'.stage = then /\ change'.next = 1
    BY <2>1, <1>1
  <2>4. change' \in [stage : ChangeStages, edit : AllEdits, previous : Configs, updated : Configs, next : 1 .. 4]
    <3>1. 1 \in 1 .. 4
      OBVIOUS
    <3> HIDE DEF n
    <3> QED
      BY <2>1, <1>1, <3>1, Zenon
  <2> QED
    BY <2>2, <2>3, <2>4, <1>6, <1>7, <1>8
<1>11. CASE n # 4
  <2>1. change' = [change EXCEPT !.next = @ + 1]
    BY <1>11 DEF Published
  <2>2. change'.next = n + 1 /\ n + 1 \in 1 .. 4
    BY <2>1, <1>1, <1>11
  <2>3. /\ change'.edit = change.edit /\ change'.previous = change.previous /\ change'.updated = change.updated
        /\ change'.stage = change.stage
        /\ change' \in [stage : ChangeStages, edit : AllEdits, previous : Configs, updated : Configs, next : 1 .. 4]
    BY <2>1, <2>2, <1>1
  <2> QED
    BY <2>2, <2>3, <1>6, <1>7, <1>8, <1>9
<1> QED
  BY <1>10, <1>11

(* Every step of a change, its rollback and a crash keeps the invariant.   *)
LEMMA ConfigStepInv ==
  ASSUME ConfigInv, [ConfigNext]_configVars
  PROVE  ConfigInv'
<1>0. ConfigTypes /\ (~torn => StagesAreKnown /\ AccountIsKnown)
  BY DEF ConfigInv
<1>1. CASE UNCHANGED configVars
  BY <1>1, <1>0 DEF configVars, ConfigInv, ConfigTypes, StagesAreKnown, AccountIsKnown, At, Manages, Follow, Following
<1>change. ASSUME ~At("none")
           PROVE  /\ ~torn /\ StagesAreKnown /\ AccountIsKnown
                  /\ change \in [stage : ChangeStages, edit : AllEdits, previous : Configs, updated : Configs, next : 1 .. 4]
                  /\ change.previous = acked /\ change.updated \in Edited(change.edit, acked)
                  /\ change.previous.profile = "deleted" => change.updated.profile = "deleted"
                  /\ change.edit = "delete" => change.updated.profile = "deleted" /\ ~Disabled
  <2>1. change # NoChange
    BY <1>change DEF At, NoChange
  <2>2. /\ change \in [stage : ChangeStages, edit : AllEdits, previous : Configs, updated : Configs, next : 1 .. 4]
        /\ ~torn /\ StagesAreKnown /\ AccountIsKnown
    BY <2>1, <1>0 DEF ConfigTypes
  <2>3. change.previous = acked /\ change.updated \in Edited(change.edit, acked)
    BY <2>2, <1>change DEF StagesAreKnown
  <2> QED
    BY <2>2, <2>3, <1>0, EditYieldsConfig DEF Disabled, ConfigTypes
\* A stage that only moves the change on.
<1>goes. ASSUME NEW to \in ChangeStages, ~At("none"), GoTo(to)
         PROVE  /\ change' \in [stage : ChangeStages, edit : AllEdits, previous : Configs, updated : Configs, next : 1 .. 4]
                /\ change'.stage = to /\ change'.edit = change.edit /\ change'.previous = change.previous
                /\ change'.updated = change.updated /\ change'.next = change.next
  BY <1>goes, <1>change DEF GoTo
\* A torn change ends; nothing is claimed of what it leaves.
<1>tears. ASSUME torn', change' = NoChange, file' \in Configs, acked' \in Configs,
                 UNCHANGED <<runtime, row, folder>>, discarded' \in BOOLEAN, torn' \in BOOLEAN
          PROVE  ConfigInv'
  BY <1>tears, <1>0 DEF ConfigInv, ConfigTypes
<1>2. CASE BeginChange
  <2>1. ~torn /\ At("none") /\ StagesAreKnown /\ AccountIsKnown
    BY <1>2, <1>0 DEF BeginChange
  <2>2. file = acked /\ Follow(acked) /\ Manages(acked) /\ ~discarded
    BY <2>1 DEF StagesAreKnown
  <2>3. runtime["live"] = acked
    <3>1. View("live", acked) = acked
      BY DEF View
    <3>2. runtime[Subscribers[2]] = View(Subscribers[2], acked)
      BY <2>2 DEF Follow, Following
    <3> QED
      BY <3>1, <3>2 DEF Subscribers
  <2>e. PICK e \in Edits : \E updated \in Edited(e, acked) :
          change' = [stage |-> "persist", edit |-> e, previous |-> acked, updated |-> updated, next |-> 1]
    BY <1>2, <2>3 DEF BeginChange
  <2>4. PICK updated \in Edited(e, acked) :
          change' = [stage |-> "persist", edit |-> e, previous |-> acked, updated |-> updated, next |-> 1]
    BY <2>e
  <2>5. e \in AllEdits /\ updated \in Configs
    BY <1>0, <2>4, ConfigCommitAssumption, EditYieldsConfig DEF ConfigTypes
  <2>6. /\ change' \in [stage : ChangeStages, edit : AllEdits, previous : Configs, updated : Configs, next : 1 .. 4]
        /\ change'.stage = "persist" /\ change'.edit = e /\ change'.previous = acked /\ change'.updated = updated
        /\ change'.next = 1
    BY <2>4, <2>5, <1>0 DEF ConfigTypes, ChangeStages
  <2>7. ConfigTypes'
    BY <2>6, <2>1, <1>2, <1>0 DEF BeginChange, ConfigTypes
  <2>8. StagesAreKnown'
    BY <2>1, <2>2, <2>4, <2>6, <1>2 DEF BeginChange, StagesAreKnown, At, Follow, Following, Manages
  <2>9. AccountIsKnown'
    BY <2>1, <1>2 DEF BeginChange, AccountIsKnown
  <2> QED
    BY <2>7, <2>8, <2>9 DEF ConfigInv
<1>3. CASE Persist
  <2>1. At("persist") /\ ~At("none")
    BY <1>3 DEF Persist, At
  <2>2. file = change.previous /\ Follow(acked) /\ Manages(acked) /\ change.next = 1 /\ ~discarded
    BY <2>1, <1>change DEF StagesAreKnown, At
  <2>3. CASE file' = change.updated /\ UNCHANGED torn /\ GoTo("install")
    <3>1. ConfigTypes'
      BY <2>1, <2>3, <1>change, <1>goes, <1>3, <1>0 DEF Persist, ConfigTypes, ChangeStages
    <3>2. change'.stage = "install" /\ UNCHANGED <<change.edit, change.previous, change.updated, change.next>>
      BY <2>1, <2>3, <1>goes DEF ChangeStages
    <3>3. Following(1, change.updated, acked) /\ Following(1, change.updated, acked)'
      <4>1. \A i \in 1 .. 4 : ~(i < 1)
        OBVIOUS
      <4> QED
        BY <4>1, <2>1, <2>2, <3>2, <1>3 DEF Follow, Following, Persist
    <3>4. StagesAreKnown'
      BY <2>1, <2>2, <2>3, <3>2, <3>3, <1>change, <1>3 DEF StagesAreKnown, At, Persist, Manages
    <3>5. AccountIsKnown'
      BY <2>1, <1>change, <1>3 DEF AccountIsKnown, Persist
    <3> QED
      BY <3>1, <3>4, <3>5 DEF ConfigInv
  <2>4. CASE UNCHANGED <<file, torn>> /\ change' = NoChange
    <3>1. ConfigTypes'
      BY <2>1, <2>4, <1>change, <1>3, <1>0 DEF Persist, ConfigTypes
    <3>2. StagesAreKnown' /\ AccountIsKnown'
      BY <2>1, <2>2, <2>4, <1>change, <1>3
      DEF Persist, StagesAreKnown, AccountIsKnown, At, NoChange, Follow, Following, Manages
    <3> QED
      BY <3>1, <3>2 DEF ConfigInv
  <2>5. CASE file' = change.updated /\ torn' = TRUE /\ change' = NoChange
    BY <2>1, <2>5, <1>3, <1>0, <1>change, <1>tears DEF Persist, ConfigTypes
  <2> QED
    BY <2>3, <2>4, <2>5, <1>3 DEF Persist, Written
<1>4. CASE Unchanged
  <2>1. At("persist") /\ ~At("none")
    BY <1>4 DEF Unchanged, At
  <2>2. /\ file = change.previous /\ Follow(acked) /\ Manages(acked) /\ change.next = 1 /\ ~discarded
        /\ change.updated = acked
    BY <2>1, <1>4, <1>change DEF StagesAreKnown, At, Unchanged
  <2>3. /\ change' \in [stage : ChangeStages, edit : AllEdits, previous : Configs, updated : Configs, next : 1 .. 4]
        /\ change'.stage = "commit" /\ change'.edit = change.edit /\ change'.previous = change.previous
        /\ change'.updated = change.updated /\ change'.next = change.next
    BY <2>1, <1>4, <1>goes DEF Unchanged, ChangeStages
  <2>4. ConfigTypes'
    BY <2>1, <2>3, <1>change, <1>4, <1>0 DEF Unchanged, ConfigTypes
  <2>5. StagesAreKnown' /\ AccountIsKnown'
    BY <2>1, <2>2, <2>3, <1>4, <1>change
    DEF Unchanged, StagesAreKnown, AccountIsKnown, At, Follow, Following, Manages
  <2> QED
    BY <2>4, <2>5 DEF ConfigInv
<1>5. CASE Install
  <2>1. At("install") /\ ~At("none") /\ change # NoChange
    BY <1>5 DEF Install, At, NoChange
  <2>2. /\ file = change.updated /\ Following(change.next, change.updated, change.previous)
        /\ Manages(change.previous) /\ ~discarded
    BY <2>1, <1>change DEF StagesAreKnown, At
  <2>3. /\ runtime' = [s \in Everyone |-> runtime'[s]] /\ runtime'["live"] \in Configs
        /\ runtime'["manager"] = runtime["manager"]
        /\ change'.edit = change.edit /\ change'.previous = change.previous /\ change'.updated = change.updated
        /\ change' \in [stage : ChangeStages, edit : AllEdits, previous : Configs, updated : Configs, next : 1 .. 4]
        /\ \/ /\ change'.stage = "effects" /\ change'.next = 1
              /\ \A i \in 1 .. 4 : runtime'[Subscribers[i]] = View(Subscribers[i], change.updated)
           \/ /\ change'.stage = change.stage
              /\ \A i \in 1 .. 4 : runtime'[Subscribers[i]] =
                                      View(Subscribers[i], IF i < change'.next THEN change.updated ELSE change.previous)
    BY <2>1, <2>2, <1>5, <1>0, <1>change, PublishedFollows DEF Install, ChangeStages
  <2>4. ConfigTypes'
    BY <2>1, <2>3, <1>change, <1>5, <1>0 DEF Install, ConfigTypes
  <2>5. StagesAreKnown'
    BY <2>1, <2>2, <2>3, <1>5, <1>change DEF Install, StagesAreKnown, At, Follow, Following, Manages
  <2>6. AccountIsKnown'
    BY <2>1, <1>5, <1>change DEF Install, AccountIsKnown
  <2> QED
    BY <2>4, <2>5, <2>6 DEF ConfigInv
<1>6. CASE NotificationEffects
  <2>1. At("effects") /\ ~At("none")
    BY <1>6 DEF NotificationEffects, At
  <2>2. /\ file = change.updated /\ Follow(change.updated) /\ Manages(change.previous) /\ change.next = 1 /\ ~discarded
    BY <2>1, <1>change DEF StagesAreKnown, At
  <2>3. AccountIsKnown'
    BY <2>1, <1>6, <1>change DEF NotificationEffects, AccountIsKnown
  <2>4. CASE /\ discarded' = Disabled /\ runtime' = [runtime EXCEPT !["manager"] = View("manager", change.updated)]
             /\ GoTo("commit")
    <3>1. /\ change' \in [stage : ChangeStages, edit : AllEdits, previous : Configs, updated : Configs, next : 1 .. 4]
          /\ change'.stage = "commit" /\ change'.edit = change.edit /\ change'.previous = change.previous
          /\ change'.updated = change.updated /\ change'.next = change.next
      BY <2>1, <2>4, <1>goes DEF ChangeStages
    <3>2. /\ runtime' = [s \in Everyone |-> runtime'[s]]
          /\ runtime'["manager"] = View("manager", change.updated)
          /\ \A s \in Everyone : s # "manager" => runtime'[s] = runtime[s]
      BY <2>4, <1>0 DEF ConfigTypes, Everyone
    <3>3. /\ \A i \in 1 .. 4 : runtime'[Subscribers[i]] = runtime[Subscribers[i]]
          /\ runtime'["live"] = runtime["live"]
      BY <3>2 DEF Subscribers, Everyone
    <3>4. discarded' \in BOOLEAN
      BY <2>4 DEF Disabled
    <3>5. ConfigTypes'
      BY <2>1, <3>1, <3>2, <3>3, <3>4, <1>change, <1>6, <1>0 DEF NotificationEffects, ConfigTypes
    <3>6. Follow(change.updated)' /\ Manages(change.updated)'
      BY <2>2, <3>1, <3>2, <3>3 DEF Follow, Following, Manages
    <3>7. discarded' => change.edit # "delete"
      BY <2>1, <2>4, <1>change
    <3>8. StagesAreKnown'
      BY <2>1, <2>2, <3>1, <3>6, <3>7, <1>6, <1>change DEF NotificationEffects, StagesAreKnown, At
    <3> QED
      BY <2>3, <3>5, <3>8 DEF ConfigInv
  <2>5. CASE GoTo("restore") /\ UNCHANGED <<runtime, discarded>>
    <3>1. /\ change' \in [stage : ChangeStages, edit : AllEdits, previous : Configs, updated : Configs, next : 1 .. 4]
          /\ change'.stage = "restore" /\ change'.edit = change.edit /\ change'.previous = change.previous
          /\ change'.updated = change.updated /\ change'.next = change.next
      BY <2>1, <2>5, <1>goes DEF ChangeStages
    <3>2. ConfigTypes'
      BY <2>1, <2>5, <3>1, <1>change, <1>6, <1>0 DEF NotificationEffects, ConfigTypes
    <3>3. StagesAreKnown'
      BY <2>1, <2>2, <2>5, <3>1, <1>6, <1>change DEF NotificationEffects, StagesAreKnown, At, Follow, Following
    <3> QED
      BY <2>3, <3>2, <3>3 DEF ConfigInv
  <2> QED
    BY <2>4, <2>5, <1>6 DEF NotificationEffects
<1>7. CASE Commit
  <2>1. At("commit") /\ ~At("none")
    BY <1>7 DEF Commit, At
  <2>2. /\ file = change.updated /\ Follow(change.updated) /\ Manages(change.updated) /\ change.next = 1
        /\ discarded => change.edit # "delete"
    BY <2>1, <1>change DEF StagesAreKnown, At
  <2>3. CASE row' = (row /\ change.edit # "delete") /\ acked' = change.updated /\ discarded' = FALSE /\ change' = NoChange
    <3>1. ConfigTypes'
      BY <2>1, <2>3, <1>change, <1>7, <1>0 DEF Commit, ConfigTypes
    <3>2. StagesAreKnown'
      BY <2>1, <2>2, <2>3, <1>7 DEF Commit, StagesAreKnown, At, NoChange, Follow, Following, Manages
    <3>3. AccountIsKnown'
      BY <2>1, <2>3, <1>7, <1>change DEF Commit, AccountIsKnown
    <3> QED
      BY <3>1, <3>2, <3>3 DEF ConfigInv
  <2>4. CASE change.edit = "delete" /\ UNCHANGED <<row, acked, discarded>> /\ change.previous = change.updated /\ change' = NoChange
    <3>1. ConfigTypes'
      BY <2>1, <2>4, <1>change, <1>7, <1>0 DEF Commit, ConfigTypes
    <3>2. StagesAreKnown' /\ AccountIsKnown'
      BY <2>1, <2>2, <2>4, <1>7, <1>change
      DEF Commit, StagesAreKnown, AccountIsKnown, At, NoChange, Follow, Following, Manages
    <3> QED
      BY <3>1, <3>2 DEF ConfigInv
  <2>5. CASE change.edit = "delete" /\ UNCHANGED <<row, acked, discarded>> /\ GoTo("restore")
    <3>1. /\ change' \in [stage : ChangeStages, edit : AllEdits, previous : Configs, updated : Configs, next : 1 .. 4]
          /\ change'.stage = "restore" /\ change'.edit = change.edit /\ change'.previous = change.previous
          /\ change'.updated = change.updated /\ change'.next = change.next
      BY <2>1, <2>5, <1>goes DEF ChangeStages
    <3>2. ConfigTypes'
      BY <2>1, <2>5, <3>1, <1>change, <1>7, <1>0 DEF Commit, ConfigTypes
    <3>3. StagesAreKnown' /\ AccountIsKnown'
      BY <2>1, <2>2, <2>5, <3>1, <1>7, <1>change DEF Commit, StagesAreKnown, AccountIsKnown, At, Follow, Following
    <3> QED
      BY <3>2, <3>3 DEF ConfigInv
  <2> QED
    BY <2>3, <2>4, <2>5, <1>7 DEF Commit
<1>8. CASE RestoreFile
  <2>1. At("restore") /\ ~At("none")
    BY <1>8 DEF RestoreFile, At
  <2>2. file = change.updated /\ Follow(change.updated) /\ change.next = 1 /\ ~discarded
    BY <2>1, <1>change DEF StagesAreKnown, At
  <2>3. CASE file' = change.previous /\ UNCHANGED torn /\ GoTo("reinstall")
    <3>1. /\ change' \in [stage : ChangeStages, edit : AllEdits, previous : Configs, updated : Configs, next : 1 .. 4]
          /\ change'.stage = "reinstall" /\ change'.edit = change.edit /\ change'.previous = change.previous
          /\ change'.updated = change.updated /\ change'.next = change.next
      BY <2>1, <2>3, <1>goes DEF ChangeStages
    <3>2. ConfigTypes'
      BY <2>1, <2>3, <3>1, <1>change, <1>8, <1>0 DEF RestoreFile, ConfigTypes
    <3>3. Following(1, change.previous, change.updated)'
      <4>1. \A i \in 1 .. 4 : ~(i < 1)
        OBVIOUS
      <4> QED
        BY <4>1, <2>2, <3>1, <1>8 DEF Follow, Following, RestoreFile
    <3>4. StagesAreKnown' /\ AccountIsKnown'
      BY <2>1, <2>2, <2>3, <3>1, <3>3, <1>8, <1>change DEF RestoreFile, StagesAreKnown, AccountIsKnown, At
    <3> QED
      BY <3>2, <3>4 DEF ConfigInv
  <2>4. CASE file' \in {file, change.previous} /\ torn' = TRUE /\ change' = NoChange
    BY <2>1, <2>4, <1>8, <1>0, <1>change, <1>tears DEF RestoreFile, ConfigTypes
  <2> QED
    BY <2>3, <2>4, <1>8 DEF RestoreFile
<1>9. CASE Reinstall
  <2>1. At("reinstall") /\ ~At("none") /\ change # NoChange
    BY <1>9 DEF Reinstall, At, NoChange
  <2>2. file = change.previous /\ Following(change.next, change.previous, change.updated) /\ ~discarded
    BY <2>1, <1>change DEF StagesAreKnown, At
  <2>3. /\ runtime' = [s \in Everyone |-> runtime'[s]] /\ runtime'["live"] \in Configs
        /\ change'.edit = change.edit /\ change'.previous = change.previous /\ change'.updated = change.updated
        /\ change' \in [stage : ChangeStages, edit : AllEdits, previous : Configs, updated : Configs, next : 1 .. 4]
        /\ \/ /\ change'.stage = "remanage" /\ change'.next = 1
              /\ \A i \in 1 .. 4 : runtime'[Subscribers[i]] = View(Subscribers[i], change.previous)
           \/ /\ change'.stage = change.stage
              /\ \A i \in 1 .. 4 : runtime'[Subscribers[i]] =
                                      View(Subscribers[i], IF i < change'.next THEN change.previous ELSE change.updated)
    BY <2>1, <2>2, <1>9, <1>0, <1>change, PublishedFollows DEF Reinstall, ChangeStages
  <2>4. ConfigTypes'
    BY <2>1, <2>3, <1>change, <1>9, <1>0 DEF Reinstall, ConfigTypes
  <2>5. StagesAreKnown' /\ AccountIsKnown'
    BY <2>1, <2>2, <2>3, <1>9, <1>change DEF Reinstall, StagesAreKnown, AccountIsKnown, At, Follow, Following
  <2> QED
    BY <2>4, <2>5 DEF ConfigInv
<1>10. CASE RestoreManager
  <2>1. At("remanage") /\ ~At("none")
    BY <1>10 DEF RestoreManager, At
  <2>2. file = change.previous /\ Follow(change.previous) /\ ~discarded
    BY <2>1, <1>change DEF StagesAreKnown, At
  <2>3. /\ runtime' = [s \in Everyone |-> runtime'[s]]
        /\ runtime'["manager"] = View("manager", change.previous)
        /\ \A s \in Everyone : s # "manager" => runtime'[s] = runtime[s]
    BY <1>10, <1>0 DEF RestoreManager, ConfigTypes, Everyone
  <2>4. /\ \A i \in 1 .. 4 : runtime'[Subscribers[i]] = runtime[Subscribers[i]]
        /\ runtime'["live"] = runtime["live"]
    BY <2>3 DEF Subscribers, Everyone
  <2>5. ConfigTypes'
    BY <2>1, <2>3, <2>4, <1>change, <1>10, <1>0 DEF RestoreManager, ConfigTypes
  <2>6. Follow(acked)' /\ Manages(acked)'
    BY <2>1, <2>2, <2>3, <2>4, <1>change, <1>10 DEF RestoreManager, Follow, Following, Manages
  <2>7. StagesAreKnown' /\ AccountIsKnown'
    BY <2>1, <2>2, <2>6, <1>10, <1>change DEF RestoreManager, StagesAreKnown, AccountIsKnown, At, NoChange
  <2> QED
    BY <2>5, <2>7 DEF ConfigInv
<1>11. CASE RemoveFolder
  <2>1. ConfigTypes' /\ (~torn' => StagesAreKnown' /\ AccountIsKnown')
    BY <1>11, <1>0, ZenonT(60)
    DEF RemoveFolder, ConfigTypes, StagesAreKnown, AccountIsKnown, At, Follow, Following, Manages
  <2> QED
    BY <2>1 DEF ConfigInv
<1>12. CASE RestartDaemon
  <2>1. /\ Follow(file)' /\ Manages(file)' /\ runtime' = [s \in Everyone |-> runtime'[s]] /\ runtime'["live"] = file
    <3>1. \A s \in Everyone : runtime'[s] = View(s, file)
      BY <1>12 DEF RestartDaemon, Started
    <3>2. View("live", file) = file
      BY DEF View
    <3> QED
      BY <3>1, <3>2, <1>12 DEF RestartDaemon, Follow, Following, Manages, Subscribers, Everyone, Started
  <2>2. ConfigTypes'
    BY <2>1, <1>12, <1>0 DEF RestartDaemon, ConfigTypes
  <2>3. CASE ~torn
    <3>1. StagesAreKnown'
      BY <2>1, <1>12 DEF RestartDaemon, StagesAreKnown, At, NoChange, Follow, Following, Manages
    <3>2. ~row => file.profile = "deleted"
      <4>1. CASE At("none")
        BY <4>1, <2>3, <1>0 DEF StagesAreKnown, AccountIsKnown
      <4>2. CASE ~At("none")
        <5>1. file \in {change.previous, change.updated}
          BY <4>2, <1>change DEF StagesAreKnown, At, ChangeStages
        <5> QED
          BY <5>1, <4>2, <1>change DEF AccountIsKnown
      <4> QED
        BY <4>1, <4>2
    <3>3. AccountIsKnown'
      BY <3>2, <2>3, <1>12, <1>0 DEF RestartDaemon, AccountIsKnown
    <3> QED
      BY <2>2, <3>1, <3>3 DEF ConfigInv
  <2>4. CASE torn
    BY <2>2, <2>4, <1>12 DEF RestartDaemon, ConfigInv
  <2> QED
    BY <2>3, <2>4
<1> QED
  BY <1>1, <1>2, <1>3, <1>4, <1>5, <1>6, <1>7, <1>8, <1>9, <1>10, <1>11, <1>12 DEF ConfigNext

(* As long as no rollback failed as well, the stage of a change tells what *)
(* file, live copy and subscribers hold (commit_config_change).            *)
THEOREM ConfigInvariant == ConfigSpec => []ConfigInv
  BY ConfigInitInv, ConfigStepInv, PTL DEF ConfigSpec

(* Whatever fails and whenever the daemon dies: between changes the file,  *)
(* the live copy and everything derived from it are what callers were told *)
(* of; a crash finds the old or the new configuration; an account that is  *)
(* gone is not configured; and a rollback discards no alert                *)
(* (commit_config_change).                                                 *)
THEOREM ConfigStaysConsistent == ConfigSpec => []ConfigConsistent
<1>1. ConfigInv => ConfigConsistent
  <2> SUFFICES ASSUME ConfigInv PROVE ConfigConsistent
    OBVIOUS
  <2>1. ConfigTypes /\ (~torn => StagesAreKnown /\ AccountIsKnown)
    BY DEF ConfigInv
  <2>2. ConfigSettles
    <3> SUFFICES ASSUME At("none"), ~torn PROVE file = acked /\ runtime = Started(acked)
      BY DEF ConfigSettles
    <3> QED
      BY <2>1, FollowingIsStarted DEF StagesAreKnown, ConfigTypes
  <2>3. FileIsOldOrNew
    BY <2>1 DEF FileIsOldOrNew, StagesAreKnown, At, ConfigTypes, ChangeStages, NoChange
  <2>4. DeletionIsOrdered
    <3> SUFFICES ASSUME ~torn, ~row PROVE file.profile = "deleted"
      BY <2>1 DEF DeletionIsOrdered, AccountIsKnown
    <3>1. acked.profile = "deleted"
      BY <2>1 DEF AccountIsKnown
    <3>2. file = acked \/ (~At("none") /\ file = change.updated)
      BY <2>3 DEF FileIsOldOrNew
    <3>3. CASE ~At("none") /\ file = change.updated
      <4>1. change.updated \in Edited(change.edit, acked) /\ change # NoChange
        BY <2>1, <3>3 DEF StagesAreKnown, At, NoChange
      <4>2. change.edit \in AllEdits /\ acked \in Configs
        BY <2>1, <4>1 DEF ConfigTypes
      <4> QED
        BY <4>1, <4>2, <3>1, <3>3, EditYieldsConfig
    <3> QED
      BY <3>1, <3>2, <3>3
  <2>5. RollbackKeepsAlerts
    BY <2>1 DEF RollbackKeepsAlerts, StagesAreKnown
  <2> QED
    BY <2>2, <2>3, <2>4, <2>5 DEF ConfigConsistent
<1> QED
  BY <1>1, ConfigInvariant, PTL

(* The file, the live copy and what callers were told of are               *)
(* configurations, and no subscriber is lost, when steps fail as well      *)
(* (install_config).                                                       *)
THEOREM ConfigTypeCorrect == ConfigSpec => []ConfigTypeOK
<1>1. ConfigInv => ConfigTypeOK
  BY DEF ConfigInv, ConfigTypes, ConfigTypeOK
<1> QED
  BY <1>1, ConfigInvariant, PTL
-----------------------------------------------------------------------------
(* Profiles.  Only the default profile uses the tool's own home, a deleted *)
(* one has none, and ids are taken for good.                               *)
AnyId == ProfileIds \union {Default}
ConfiguredProfile == [id : AnyId, home : AnyId \union {Local, NoHome}, owns : BOOLEAN, live : BOOLEAN, deleted : BOOLEAN]
ProfileSound(p) ==
  /\ p.live <=> ~p.deleted
  /\ p.live => p.home \in {p.id, Local} /\ (p.home = Local => p.id = Default)
  /\ ~p.live => p.home = NoHome /\ ~p.owns

ProfilesKnown ==
  /\ kind \in Kinds
  /\ profiles \in Seq(ConfiguredProfile) /\ Len(profiles) <= MaxProfiles
  /\ \A i \in DOMAIN profiles : ProfileSound(profiles[i])
  /\ \A i, j \in DOMAIN profiles : profiles[i].id = profiles[j].id => i = j
  /\ kind # "claude" /\ profiles # <<>> => Default \in IdsOf(profiles)

(* What requests read, and the directories they are still to remove.       *)
Seen(k) == IF asks[k].at = "add" THEN asks[k].seen ELSE {}
Removed(k) == IF asks[k].at = "remove" THEN asks[k].homes ELSE {}
Gone(h) == h \in AnyId /\ \E i \in DOMAIN profiles : profiles[i].id = h /\ profiles[i].home # h

RequestsKnown ==
  /\ DOMAIN asks = Askers
  /\ \A k \in Askers : \A h \in Removed(k) : Gone(h)

HomesOnDisk == \A i \in Live(profiles) : Managed(profiles[i]) => profiles[i].home \in homes

(* Accounts are of profiles that were configured once or of the implicit   *)
(* one; those that were read and are gone have left a tombstone.           *)
AccountsKnown ==
  /\ rows \subseteq IdsOf(profiles) \union {Default}
  /\ \A k \in Askers : Seen(k) \subseteq IdsOf(profiles) \union rows

IsTakenOver(i) == TakenOver(profiles[i])

(* A managed profile with an account has credentials, unless it has taken  *)
(* over the account of the implicit one.                                   *)
SeenAreSigned ==
  \A i \in Waiting : profiles[i].id \notin rows /\ \A k \in Askers : profiles[i].id \notin Seen(k)

WaitingIsShared == SeenAreSigned /\ \A i, j \in Waiting : i = j

Owning == {i \in Live(profiles) : profiles[i].owns}
OwnerIsOne == \A i, j \in Owning : i = j

ProfilesInv ==
  /\ ProfilesKnown /\ RequestsKnown /\ HomesOnDisk /\ AccountsKnown
  /\ WaitingIsShared /\ OwnerIsOne /\ AccountsKept

(* No profile is at home nowhere or in the home of its tool by its id.     *)
LEMMA HomesApart == Local \notin AnyId /\ NoHome \notin AnyId /\ Default \in AnyId /\ Local # NoHome
BY DEF AnyId, ProfileIds, Local, NoHome, Default

(* Every profile has an id.                                                *)
LEMMA IdsAreKnown ==
  ASSUME ProfilesKnown
  PROVE  \A i \in DOMAIN profiles : profiles[i].id \in AnyId
<1>1. profiles \in Seq(ConfiguredProfile)
  BY DEF ProfilesKnown
<1>2. \A i \in DOMAIN profiles : profiles[i] \in ConfiguredProfile
  BY <1>1
<1> QED
  BY <1>2 DEF ConfiguredProfile

(* A set of naturals has a least element.                                  *)
LEMMA LeastNatural ==
  ASSUME NEW T \in SUBSET Nat, T # {}
  PROVE  \E x \in T : \A y \in T : x <= y
<1> DEFINE R == StrictSubsetOrdering(Nat)
           U == {0 .. n : n \in T}
<1>1. IsWellFoundedOn(R, FiniteSubsetsOf(Nat))
  BY FS_StrictSubsetOrderingWellFounded
<1>2. U \subseteq FiniteSubsetsOf(Nat) /\ U # {}
  <2>1. \A n \in T : IsFiniteSet(0 .. n)
    BY FS_Interval
  <2>2. \A n \in T : 0 .. n \in SUBSET Nat
    OBVIOUS
  <2> QED
    BY <2>1, <2>2 DEF FiniteSubsetsOf
<1> HIDE DEF R
<1>3. \E x \in U : \A y \in U : <<y, x>> \notin R
  BY <1>1, <1>2, WFMin
<1>4. PICK n \in T : \A m \in T : <<0 .. m, 0 .. n>> \notin R
  BY <1>3
<1>5. ASSUME NEW m \in T, m < n PROVE FALSE
  <2>1. 0 .. m \in SUBSET Nat /\ 0 .. n \in SUBSET Nat /\ 0 .. m \subseteq 0 .. n /\ n \in 0 .. n /\ n \notin 0 .. m
    BY <1>5
  <2>2. <<0 .. m, 0 .. n>> \in R
    BY <2>1 DEF R, StrictSubsetOrdering
  <2> QED
    BY <2>2, <1>4, <1>5
<1> QED
  BY <1>5, <1>4

(* A new id is one that no profile has or had.                             *)
LEMMA UniqueIdIsNew ==
  ASSUME NEW ps \in Seq(ConfiguredProfile), Len(ps) < MaxProfiles, NEW base \in Bases
  PROVE  UniqueId(ps, base) \in ProfileIds /\ UniqueId(ps, base) \notin IdsOf(ps) /\ UniqueId(ps, base)[1] = base
<1> DEFINE S == 1 .. MaxProfiles + 1
           T == {n \in S : <<base, n>> \notin IdsOf(ps)}
<1>0. MaxProfiles \in Nat /\ Len(ps) \in Nat /\ DOMAIN ps = 1 .. Len(ps)
  BY ProfilesAssumption
<1>1. T # {}
  <2> SUFFICES ASSUME T = {} PROVE FALSE
    OBVIOUS
  <2> DEFINE f == [n \in S |-> CHOOSE i \in DOMAIN ps : ps[i].id = <<base, n>>]
  <2>1. ASSUME NEW n \in S PROVE f[n] \in DOMAIN ps /\ ps[f[n]].id = <<base, n>>
    <3>1. \E i \in DOMAIN ps : ps[i].id = <<base, n>>
      BY DEF IdsOf
    <3> QED
      BY <3>1
  <2>2. f \in [S -> DOMAIN ps]
    BY <2>1
  <2>3. IsFiniteSet(S) /\ Cardinality(S) = MaxProfiles + 1
    BY <1>0, FS_Interval
  <2>4. IsFiniteSet(DOMAIN ps) /\ Cardinality(DOMAIN ps) = Len(ps)
    <3>1. \A m \in Nat : IsFiniteSet(1 .. m) /\ Cardinality(1 .. m) = m
      BY FS_Interval
    <3> QED
      BY <1>0, <3>1, Zenon
  <2>5. Cardinality(DOMAIN ps) < Cardinality(S)
    BY <1>0, <2>3, <2>4
  <2> HIDE DEF f, S
  <2>6. PICK x, y \in S : x # y /\ f[x] = f[y]
    BY <2>2, <2>3, <2>4, <2>5, FS_PigeonHole
  <2>7. <<base, x>> = <<base, y>>
    BY <2>1, <2>6
  <2> QED
    BY <2>6, <2>7
<1>2. PICK n \in T : \A m \in T : n <= m
  <2>1. T \in SUBSET Nat
    OBVIOUS
  <2> HIDE DEF T
  <2> QED
    BY <1>1, <2>1, LeastNatural
<1>3. \A m \in 1 .. n - 1 : <<base, m>> \in IdsOf(ps)
  BY <1>0, <1>2
<1> DEFINE P(i) == <<base, i>> \notin IdsOf(ps) /\ \A m \in 1 .. i - 1 : <<base, m>> \in IdsOf(ps)
           c == CHOOSE i \in S : P(i)
<1>4. c \in S /\ P(c)
  BY <1>2, <1>3
<1>5. UniqueId(ps, base) = <<base, c>>
  BY DEF UniqueId
<1>6. <<base, c>> \in ProfileIds /\ <<base, c>> \notin IdsOf(ps)
  <2> HIDE DEF c
  <2> QED
    BY <1>4 DEF ProfileIds
<1> HIDE DEF c
<1> QED
  BY <1>5, <1>6

(* What requests make of the profiles: none are new, the implicit one is   *)
(* made explicit, the default one is revived, or a managed one is added.   *)
TheDefault == Profile(Default, Local, FALSE)
Explicit(ps) == ps = profiles \/ (profiles = <<>> /\ ps = <<TheDefault>>)
IsRevived(qs) ==
  /\ qs \in Seq(ConfiguredProfile) /\ Len(qs) = Len(profiles)
  /\ \E i \in DOMAIN profiles :
       /\ profiles[i].id = Default /\ \A j \in DOMAIN profiles : j # i => qs[j] = profiles[j]
       /\ qs[i].id = Default /\ qs[i].live /\ ~qs[i].deleted /\ qs[i].owns = profiles[i].owns
       /\ qs[i].home = IF profiles[i].home = NoHome THEN Local ELSE profiles[i].home
IsAdded(k, ps, id, owns, to) ==
  /\ Explicit(ps) /\ owns \in BOOLEAN /\ (owns => Live(ps) = {})
  /\ to = [profiles |-> Append(ps, Profile(id, id, owns)), target |-> Profile(id, id, owns)]
  /\ id \in ProfileIds /\ id \notin IdsOf(ps)
  /\ kind # "claude" => Default \in IdsOf(ps)
  /\ \A i \in Live(ps) : Managed(ps[i]) => ps[i].home \in signed \/ ps[i].id \in Seen(k)

(* An explicit profile is one of those in effect.                          *)
LEMMA ExplicitIsKnown ==
  ASSUME ProfilesKnown, NEW ps, Explicit(ps)
  PROVE  /\ ps \in Seq(ConfiguredProfile)
         /\ \A i \in DOMAIN ps : ProfileSound(ps[i])
         /\ \A i, j \in DOMAIN ps : ps[i].id = ps[j].id => i = j
         /\ IdsOf(ps) \subseteq IdsOf(profiles) \union {Default} /\ IdsOf(profiles) \subseteq IdsOf(ps)
         /\ \A i \in DOMAIN profiles : i \in DOMAIN ps /\ ps[i] = profiles[i]
         /\ \A i \in Live(ps) : Managed(ps[i]) => i \in Live(profiles) /\ ps[i] = profiles[i]
         /\ \A i \in Live(ps) : ps[i].owns => i \in Live(profiles) /\ ps[i] = profiles[i]
         /\ kind # "claude" /\ ps # <<>> => Default \in IdsOf(ps)
<1>1. CASE ps = profiles
  BY <1>1 DEF ProfilesKnown, Live, Managed
<1>2. CASE profiles = <<>> /\ ps = <<TheDefault>>
  <2>1. TheDefault \in ConfiguredProfile /\ ProfileSound(TheDefault) /\ ~Managed(TheDefault) /\ ~TheDefault.owns /\ TheDefault.id = Default
    BY HomesApart DEF TheDefault, Profile, ConfiguredProfile, ProfileSound, Managed
  <2>2. ps \in Seq(ConfiguredProfile) /\ DOMAIN ps = {1} /\ ps[1] = TheDefault /\ DOMAIN profiles = {}
    BY <1>2, <2>1
  <2> QED
    BY <2>1, <2>2 DEF IdsOf, Live
<1> QED
  BY <1>1, <1>2 DEF Explicit

Settled(k, ps) == \A i \in Live(ps) : Managed(ps[i]) => ps[i].home \in signed \/ ps[i].id \in Seen(k)

(* What create_managed_profile adds.                                       *)
LEMMA ManagedIsAdded ==
  ASSUME ProfilesKnown, NEW k \in Askers, NEW ps, Explicit(ps), NEW base \in Bases, NEW to,
         to = To(WithManaged(ps, base), Len(ps) + 1), Len(to.profiles) <= MaxProfiles,
         kind # "claude" => ps # <<>>, Settled(k, ps)
  PROVE  \E id, owns : IsAdded(k, ps, id, owns, to)
<1> DEFINE id == UniqueId(ps, base)
           owns == kind = "claude" /\ Live(ps) = {}
           p == Profile(id, id, owns)
<1>1. ps \in Seq(ConfiguredProfile) /\ (kind # "claude" => Default \in IdsOf(ps))
  BY ExplicitIsKnown
<1>2. to = [profiles |-> Append(ps, p), target |-> Append(ps, p)[Len(ps) + 1]]
  BY DEF To, WithManaged
<1> HIDE DEF id, owns, p
<1>3. to = [profiles |-> Append(ps, p), target |-> p]
  BY <1>1, <1>2
<1>4. Len(ps) < MaxProfiles
  BY <1>1, <1>3, ProfilesAssumption
<1>5. id \in ProfileIds /\ id \notin IdsOf(ps) /\ id[1] \in Bases
  BY <1>1, <1>4, UniqueIdIsNew DEF id
<1>6. owns \in BOOLEAN /\ (owns => Live(ps) = {})
  BY DEF owns
<1> QED
  BY <1>1, <1>3, <1>5, <1>6 DEF IsAdded, Settled, p

(* A profile that waits for its sign-in is taken, or one is added.         *)
LEMMA LatestIsKnown ==
  ASSUME ProfilesKnown, NEW k \in Askers, NEW ps, Explicit(ps), NEW pending, NEW base \in Bases, NEW to,
         to = LatestOrManaged(ps, pending, base), Len(to.profiles) <= MaxProfiles,
         kind # "claude" => ps # <<>>, pending = {} => Settled(k, ps), pending # {} => ps = profiles
  PROVE  to.profiles = profiles \/ \E id, owns : IsAdded(k, ps, id, owns, to)
<1>1. CASE pending # {}
  BY <1>1 DEF LatestOrManaged, To
<1>2. CASE pending = {}
  BY <1>2, ManagedIsAdded DEF LatestOrManaged
<1> QED
  BY <1>1, <1>2

(* The default profile is named once.                                      *)
LEMMA FirstIsNamed ==
  ASSUME ProfilesKnown, NEW i \in DOMAIN profiles
  PROVE  Named(profiles, profiles[i].id) = {i} /\ First({i}) = i
<1>1. Named(profiles, profiles[i].id) = {i}
  BY DEF ProfilesKnown, Named
<1>2. i \in Nat
  BY DEF ProfilesKnown
<1> QED
  BY <1>1, <1>2 DEF First

(* What ensure_login_profile makes of the default profile.                 *)
LEMMA DefaultIsRevived ==
  ASSUME ProfilesKnown, profiles = <<>> \/ Named(profiles, Default) # {}
  PROVE  \/ profiles = <<>> /\ Revived(profiles) = <<TheDefault>>
         \/ profiles # <<>> /\ IsRevived(Revived(profiles))
<1>1. CASE profiles = <<>>
  BY <1>1 DEF Revived, TheDefault
<1>2. CASE profiles # <<>>
  <2>1. PICK i \in DOMAIN profiles : profiles[i].id = Default
    BY <1>2 DEF Named
  <2> DEFINE p == Profile(Default, IF profiles[i].home = NoHome THEN Local ELSE profiles[i].home, profiles[i].owns)
  <2>2. First(Named(profiles, Default)) = i
    BY <2>1, FirstIsNamed
  <2>3. Revived(profiles) = [profiles EXCEPT ![i] = p]
    BY <1>2, <2>2 DEF Revived
  <2>4. profiles \in Seq(ConfiguredProfile) /\ profiles[i] \in ConfiguredProfile
    BY DEF ProfilesKnown
  <2>5. /\ p \in ConfiguredProfile /\ p.id = Default /\ p.live /\ ~p.deleted /\ p.owns = profiles[i].owns
        /\ p.home = IF profiles[i].home = NoHome THEN Local ELSE profiles[i].home
    BY <2>1, <2>2, <2>4, HomesApart DEF ConfiguredProfile, Profile
  <2> HIDE DEF p
  <2>6. /\ Revived(profiles) \in Seq(ConfiguredProfile) /\ Len(Revived(profiles)) = Len(profiles)
        /\ Revived(profiles)[i] = p /\ \A j \in DOMAIN profiles : j # i => Revived(profiles)[j] = profiles[j]
    BY <2>2, <2>3, <2>4, <2>5
  <2> QED
    BY <1>2, <2>1, <2>5, <2>6 DEF IsRevived
<1> QED
  BY <1>1, <1>2

(* What requests are told to sign in to.                                   *)
Targeted(k, to) ==
  \/ to.profiles = profiles
  \/ profiles = <<>> /\ to.profiles = <<TheDefault>> /\ ~Managed(to.target)
  \/ IsRevived(to.profiles)
  \/ \E ps, id, owns : IsAdded(k, ps, id, owns, to)

LEMMA DefaultIsUnmanaged == ~Managed(TheDefault) /\ TheDefault.live /\ TheDefault.id = Default /\ ~TheDefault.owns
BY HomesApart DEF TheDefault, Profile, Managed

(* To the default profile.                                                 *)
LEMMA ToDefaultIsKnown ==
  ASSUME ProfilesKnown, NEW k \in Askers, profiles = <<>> \/ Named(profiles, Default) # {}
  PROVE  Targeted(k, ToDefault(profiles))
<1>1. ToDefault(profiles).profiles = Revived(profiles)
  BY DEF ToDefault, To
<1>2. CASE profiles # <<>> /\ IsRevived(Revived(profiles))
  BY <1>1, <1>2 DEF Targeted
<1>3. CASE profiles = <<>> /\ Revived(profiles) = <<TheDefault>>
  <2>1. Named(<<TheDefault>>, Default) = {1}
    BY DefaultIsUnmanaged DEF Named
  <2>2. First({1}) = 1
    BY DEF First
  <2>3. ToDefault(profiles).target = TheDefault
    <3>1. ToDefault(profiles) = To(<<TheDefault>>, 1)
      BY <1>3, <2>1, <2>2, Zenon DEF ToDefault
    <3> QED
      BY <3>1 DEF To
  <2> QED
    BY <1>1, <1>3, <2>3, DefaultIsUnmanaged DEF Targeted
<1> QED
  BY <1>2, <1>3, DefaultIsRevived

(* What adding an account makes of the profiles (add_account).             *)
LEMMA AddingIsKnown ==
  ASSUME ProfilesKnown, AccountsKnown, NEW k \in Askers, NEW base \in Bases,
         asks[k].at = "add", NEW to \in AddTargets(asks[k].seen, base), Len(to.profiles) <= MaxProfiles
  PROVE  Targeted(k, to)
<1> DEFINE noticed == asks[k].seen
<1>0. Seen(k) = noticed /\ noticed \subseteq IdsOf(profiles) \union {Default} /\ kind \in {"codex", "claude", "grok"}
  BY ProfilesAssumption DEF AccountsKnown, ProfilesKnown, Seen
<1>00. ASSUME NEW i \in Live(<<TheDefault>>) PROVE <<TheDefault>>[i] = TheDefault
  BY DEF Live
<1>1. CASE kind = "codex"
  <2> DEFINE ps == IF profiles = <<>> THEN <<TheDefault>> ELSE profiles
  <2>1. to = LatestOrManaged(ps, PendingCodex(ps), base)
    BY <1>1 DEF AddTargets, AddCodex, TheDefault
  <2>2. Explicit(ps) /\ ps # <<>>
    BY DEF Explicit
  <2>3. PendingCodex(ps) = {} => Settled(k, ps)
    BY DEF PendingCodex, Settled
  <2>4. PendingCodex(ps) # {} => ps = profiles
    <3>1. PendingCodex(<<TheDefault>>) = {}
      BY <1>00, DefaultIsUnmanaged DEF PendingCodex
    <3> QED
      BY <3>1
  <2> HIDE DEF ps
  <2> QED
    BY <2>1, <2>2, <2>3, <2>4, LatestIsKnown DEF Targeted
<1>2. CASE kind = "claude"
  <2>1. to = LatestOrManaged(profiles, PendingClaude(profiles, noticed), base)
    BY <1>2 DEF AddTargets, AddClaude
  <2>2. PendingClaude(profiles, noticed) = {} => Settled(k, profiles)
    BY <1>0 DEF PendingClaude, Settled
  <2> QED
    BY <1>2, <2>1, <2>2, LatestIsKnown DEF Targeted, Explicit
<1>3. CASE kind = "grok"
  <2> DEFINE ps == Materialized(profiles, noticed)
  <2>0. profiles = <<>> => IdsOf(profiles) = {}
    BY DEF IdsOf
  <2>1. CASE noticed = {} /\ (profiles = <<>> \/ Named(profiles, Default) # {}) /\ to = ToDefault(profiles)
    BY <2>1, ToDefaultIsKnown
  <2>2. CASE to \in AddGrok(noticed, base)
    <3>1. CASE profiles = <<>> /\ Default \in noticed
      <4>1. ps = <<TheDefault>> /\ Explicit(ps) /\ ps # <<>>
        BY <3>1 DEF Materialized, TheDefault, Explicit
      <4>2. PendingGrok(ps, noticed) = {}
        BY <1>00, <3>1, <4>1, DefaultIsUnmanaged DEF PendingGrok
      <4>3. to = LatestOrManaged(ps, PendingGrok(ps, noticed), base)
        BY <2>2, <3>1 DEF AddGrok
      <4>4. Settled(k, ps)
        BY <1>00, <4>1, DefaultIsUnmanaged DEF Settled
      <4> HIDE DEF ps, noticed
      <4>5. to.profiles = profiles \/ \E id, owns : IsAdded(k, ps, id, owns, to)
        BY <4>1, <4>2, <4>3, <4>4, LatestIsKnown
      <4> QED
        BY <4>5 DEF Targeted
    <3>2. CASE ~(profiles = <<>> /\ Default \in noticed)
      <4>1. ps = profiles
        BY <3>2 DEF Materialized
      <4>2. CASE PendingGrok(profiles, noticed) = {} /\ noticed = {} /\ (profiles = <<>> \/ Named(profiles, Default) # {})
        <5>1. to = ToDefault(profiles)
          BY <2>2, <4>1, <4>2 DEF AddGrok
        <5> QED
          BY <2>1, <4>2, <5>1
      <4>3. CASE ~(PendingGrok(profiles, noticed) = {} /\ noticed = {} /\ (profiles = <<>> \/ Named(profiles, Default) # {}))
        <5>1. to = LatestOrManaged(profiles, PendingGrok(profiles, noticed), base)
          BY <2>2, <4>1, <4>3 DEF AddGrok
        <5>2. PendingGrok(profiles, noticed) = {} => Settled(k, profiles)
          BY <1>0 DEF PendingGrok, Settled
        <5>3. profiles # <<>>
          <6>1. ASSUME profiles = <<>> PROVE FALSE
            <7>1. noticed = {}
              BY <1>0, <2>0, <3>2, <6>1
            <7>2. PendingGrok(profiles, noticed) = {}
              BY <6>1 DEF PendingGrok, Live
            <7> QED
              BY <4>3, <6>1, <7>1, <7>2
          <6> QED
            BY <6>1
        <5> QED
          BY <5>1, <5>2, <5>3, LatestIsKnown DEF Targeted, Explicit
      <4> QED
        BY <4>2, <4>3
    <3> QED
      BY <3>1, <3>2
  <2>3. CASE to \in AddGrokInBrowser(noticed)
    BY <2>1, <2>3 DEF AddGrokInBrowser
  <2> QED
    BY <1>3, <2>2, <2>3 DEF AddTargets
<1> QED
  BY <1>0, <1>1, <1>2, <1>3

(* What ensure_login_profile makes of the profiles.                        *)
LEMMA RepairManagedIsKnown ==
  ASSUME ProfilesKnown, NEW k \in Askers, NEW ps, Explicit(ps), kind # "claude" => ps # <<>>,
         NEW id, NEW to \in RepairManaged(ps, id), Len(to.profiles) <= MaxProfiles
  PROVE  Targeted(k, to)
<1>0. ps = profiles \/ (profiles = <<>> /\ ps = <<TheDefault>> /\ \A i \in DOMAIN ps : i = 1 /\ ps[i] = TheDefault)
  BY DEF Explicit
<1>1. ASSUME NEW i \in DOMAIN ps, to.profiles = ps, to.target = ps[i] PROVE Targeted(k, to)
  BY <1>0, <1>1, DefaultIsUnmanaged DEF Targeted
<1>2. CASE id # NoHome
  <2>1. PICK i \in Named(ps, id) : ~ps[i].deleted /\ to = To([ps EXCEPT ![i].live = TRUE], i)
    BY <1>2 DEF RepairManaged
  <2>2. i \in DOMAIN ps /\ ps \in Seq(ConfiguredProfile) /\ ps[i] \in ConfiguredProfile /\ ps[i].live
    BY <2>1, ExplicitIsKnown DEF Named, ProfileSound
  <2>3. [ps EXCEPT ![i].live = TRUE] = ps
    <3>1. [ps[i] EXCEPT !.live = TRUE] = ps[i]
      BY <2>2 DEF ConfiguredProfile
    <3> QED
      BY <2>2, <3>1
  <2>4. to.profiles = ps /\ to.target = ps[i]
    BY <2>1, <2>3 DEF To
  <2> QED
    BY <1>1, <2>2, <2>4
<1>3. CASE id = NoHome /\ Live(ps) # {}
  <2>1. to = To(ps, First(Live(ps)))
    BY <1>3 DEF RepairManaged
  <2>2. CASE ps = profiles
    BY <2>1, <2>2 DEF To, Targeted
  <2>3. CASE profiles = <<>> /\ ps = <<TheDefault>>
    <3>1. Live(ps) = {1} /\ DOMAIN ps = {1}
      BY <2>3, DefaultIsUnmanaged DEF Live
    <3>2. First({1}) = 1
      BY DEF First
    <3>3. to.profiles = ps /\ to.target = ps[1]
      BY <2>1, <3>1, <3>2 DEF To
    <3> QED
      BY <1>1, <3>1, <3>3
  <2> QED
    BY <2>2, <2>3 DEF Explicit
<1>4. CASE id = NoHome /\ Live(ps) = {}
  <2>1. to = To(WithManaged(ps, "account"), Len(ps) + 1)
    BY <1>4 DEF RepairManaged
  <2>2. Settled(k, ps) /\ "account" \in Bases
    BY <1>4, ProfilesAssumption DEF Settled
  <2> QED
    BY <2>1, <2>2, ManagedIsAdded DEF Targeted
<1> QED
  BY <1>2, <1>3, <1>4

(* What a repair makes of the profiles.                                    *)
LEMMA RepairingIsKnown ==
  ASSUME ProfilesKnown, NEW k \in Askers, NEW id, NEW to \in RepairTargets(id), Len(to.profiles) <= MaxProfiles
  PROVE  Targeted(k, to)
<1>0. kind \in {"codex", "claude", "grok"}
  BY ProfilesAssumption DEF ProfilesKnown
<1>1. CASE kind = "codex"
  BY <1>1 DEF RepairTargets, RepairCodex, Targeted
<1>2. CASE kind = "claude"
  <2>1. CASE profiles = <<>> /\ id = Default
    BY <1>2, <2>1 DEF RepairTargets, RepairClaude, Targeted
  <2>2. CASE ~(profiles = <<>> /\ id = Default)
    <3>1. to \in RepairManaged(profiles, id)
      BY <1>2, <2>2 DEF RepairTargets, RepairClaude
    <3> QED
      BY <1>2, <3>1, RepairManagedIsKnown DEF Explicit
  <2> QED
    BY <2>1, <2>2
<1>3. CASE kind = "grok"
  <2> DEFINE ps == IF profiles = <<>> THEN Revived(profiles) ELSE profiles
  <2>1. CASE id = Default /\ (profiles = <<>> \/ Named(profiles, id) # {})
    BY <1>3, <2>1, ToDefaultIsKnown DEF RepairTargets, RepairGrok
  <2>2. CASE ~(id = Default /\ (profiles = <<>> \/ Named(profiles, id) # {}))
    <3>1. to \in RepairManaged(ps, id)
      BY <1>3, <2>2 DEF RepairTargets, RepairGrok
    <3>2. Explicit(ps) /\ ps # <<>>
      BY DEF Explicit, Revived, TheDefault
    <3> HIDE DEF ps
    <3> QED
      BY <3>1, <3>2, RepairManagedIsKnown
  <2> QED
    BY <2>1, <2>2
<1> QED
  BY <1>0, <1>1, <1>2, <1>3

(* A step of a request that takes away no home, nor what others have read. *)
Gentle ==
  /\ kind' = kind /\ signed' = signed /\ rows' = rows /\ homes \subseteq homes' /\ (on => on')
  /\ DOMAIN asks' = Askers
  /\ \A l \in Askers : Seen(l)' \subseteq Seen(l) /\ Removed(l)' \subseteq Removed(l)

(* Accounts stay in effect with their profiles.                            *)
LEMMA EffectStays ==
  ASSUME ProfilesKnown, AccountsKept, kind' = kind, rows' \subseteq rows, on => on',
         \A i \in Live(profiles) : \E j \in Live(profiles') : profiles'[j].id = profiles[i].id,
         kind # "claude" /\ profiles = <<>> => profiles' = <<>> \/ \E j \in Live(profiles') : profiles'[j].id = Default
  PROVE  AccountsKept'
<1> SUFFICES ASSUME kind # "claude", NEW id \in rows PROVE on' /\ \E p \in InEffect' : p.id = id
  BY DEF AccountsKept
<1>1. on /\ \E p \in InEffect : p.id = id
  BY DEF AccountsKept
<1>2. CASE profiles = <<>>
  <2>1. id = Default
    BY <1>1, <1>2 DEF InEffect, Profile
  <2>2. CASE profiles' = <<>>
    BY <1>1, <2>1, <2>2 DEF InEffect, Profile
  <2>3. CASE \E j \in Live(profiles') : profiles'[j].id = Default
    <3>1. profiles' # <<>>
      BY <2>3 DEF Live
    <3> QED
      BY <1>1, <2>1, <2>3, <3>1 DEF InEffect
  <2> QED
    BY <1>2, <2>2, <2>3
<1>3. CASE profiles # <<>>
  <2>1. PICK i \in Live(profiles) : profiles[i].id = id
    BY <1>1, <1>3 DEF InEffect
  <2>2. PICK j \in Live(profiles') : profiles'[j].id = id
    BY <2>1
  <2>3. profiles' # <<>>
    BY <2>2 DEF Live
  <2> QED
    BY <1>1, <2>2, <2>3 DEF InEffect
<1> QED
  BY <1>2, <1>3

(* Removals stay of profiles that are gone while ids persist and none of   *)
(* the gone gets a home by its id.                                         *)
LEMMA RequestsStay ==
  ASSUME RequestsKnown, Gentle,
         \A i \in DOMAIN profiles : \E j \in DOMAIN profiles' :
           profiles'[j].id = profiles[i].id /\ (profiles[i].home # profiles[i].id => profiles'[j].home # profiles[i].id)
  PROVE  RequestsKnown'
<1>1. ASSUME NEW h, Gone(h) PROVE Gone(h)'
  BY <1>1 DEF Gone
<1> QED
  BY <1>1 DEF RequestsKnown, Gentle

(* Profiles that stay, or become the explicit default one.                 *)
LEMMA ExplicitKeeps ==
  ASSUME ProfilesInv, Gentle, Explicit(profiles'), Len(profiles') <= MaxProfiles
  PROVE  ProfilesInv'
<1>0. /\ ProfilesKnown /\ RequestsKnown /\ HomesOnDisk /\ AccountsKnown
      /\ WaitingIsShared /\ OwnerIsOne /\ AccountsKept
  BY DEF ProfilesInv
<1>1. /\ profiles' \in Seq(ConfiguredProfile)
      /\ \A i \in DOMAIN profiles' : ProfileSound(profiles'[i])
      /\ \A i, j \in DOMAIN profiles' : profiles'[i].id = profiles'[j].id => i = j
      /\ IdsOf(profiles) \subseteq IdsOf(profiles')
      /\ \A i \in DOMAIN profiles : i \in DOMAIN profiles' /\ profiles'[i] = profiles[i]
      /\ \A i \in Live(profiles') : Managed(profiles'[i]) => i \in Live(profiles) /\ profiles'[i] = profiles[i]
      /\ \A i \in Live(profiles') : profiles'[i].owns => i \in Live(profiles) /\ profiles'[i] = profiles[i]
      /\ kind # "claude" /\ profiles' # <<>> => Default \in IdsOf(profiles')
  BY <1>0, ExplicitIsKnown
<1>2. ProfilesKnown'
  BY <1>0, <1>1 DEF ProfilesKnown, Gentle, ProfileSound
<1>3. RequestsKnown'
  BY <1>0, <1>1, RequestsStay
<1>4. HomesOnDisk'
  BY <1>0, <1>1 DEF HomesOnDisk, Gentle
<1>5. AccountsKnown'
  BY <1>0, <1>1 DEF AccountsKnown, Gentle
<1>6. Waiting' \subseteq Waiting /\ \A i \in Waiting' : profiles'[i] = profiles[i]
  BY <1>1 DEF Waiting, TakenOver, Gentle
<1>7. WaitingIsShared'
  BY <1>0, <1>6 DEF WaitingIsShared, SeenAreSigned, Gentle
<1>8. OwnerIsOne'
  BY <1>0, <1>1 DEF OwnerIsOne, Owning, Live
<1>9. AccountsKept'
  <2>1. \A i \in Live(profiles) : \E j \in Live(profiles') : profiles'[j].id = profiles[i].id
    BY <1>1 DEF Live
  <2>2. profiles = <<>> => profiles' = <<>> \/ \E j \in Live(profiles') : profiles'[j].id = Default
    <3>1. ASSUME profiles' = <<TheDefault>> PROVE 1 \in Live(profiles') /\ profiles'[1].id = Default
      BY <3>1, DefaultIsUnmanaged DEF Live
    <3> QED
      BY <3>1 DEF Explicit
  <2> QED
    BY <1>0, <2>1, <2>2, EffectStays DEF Gentle
<1> QED
  BY <1>2, <1>3, <1>4, <1>5, <1>7, <1>8, <1>9 DEF ProfilesInv

(* The default profile that is revived uses the tool's own home.           *)
LEMMA RevivingKeeps ==
  ASSUME ProfilesInv, Gentle, IsRevived(profiles')
  PROVE  ProfilesInv'
<1>0. /\ ProfilesKnown /\ RequestsKnown /\ HomesOnDisk /\ AccountsKnown
      /\ WaitingIsShared /\ OwnerIsOne /\ AccountsKept
  BY DEF ProfilesInv
<1>1. PICK i \in DOMAIN profiles :
        /\ profiles[i].id = Default /\ \A j \in DOMAIN profiles : j # i => profiles'[j] = profiles[j]
        /\ profiles'[i].id = Default /\ profiles'[i].live /\ ~profiles'[i].deleted /\ profiles'[i].owns = profiles[i].owns
        /\ profiles'[i].home = IF profiles[i].home = NoHome THEN Local ELSE profiles[i].home
  BY DEF IsRevived
<1>2. /\ profiles' \in Seq(ConfiguredProfile) /\ Len(profiles') = Len(profiles) /\ DOMAIN profiles' = DOMAIN profiles
      /\ \A j \in DOMAIN profiles : profiles'[j].id = profiles[j].id /\ profiles'[j].owns = profiles[j].owns
  BY <1>0, <1>1 DEF IsRevived, ProfilesKnown
<1>3. /\ profiles[i].live => profiles'[i].home = profiles[i].home
      /\ ~profiles[i].live => profiles'[i].home = Local /\ ~profiles'[i].owns
      /\ ProfileSound(profiles'[i])
  BY <1>0, <1>1, HomesApart DEF ProfilesKnown, ProfileSound
<1>4. ProfilesKnown'
  <2>1. \A j \in DOMAIN profiles' : ProfileSound(profiles'[j])
    BY <1>0, <1>1, <1>2, <1>3 DEF ProfilesKnown, ProfileSound
  <2>2. Default \in IdsOf(profiles')
    BY <1>1, <1>2 DEF IdsOf
  <2> QED
    BY <1>0, <1>2, <2>1, <2>2 DEF ProfilesKnown, Gentle, ProfileSound
<1>5. RequestsKnown'
  BY <1>0, <1>1, <1>2, HomesApart, RequestsStay
<1>6. \A j \in Live(profiles') : Managed(profiles'[j]) => j \in Live(profiles) /\ profiles'[j].home = profiles[j].home
  BY <1>1, <1>2, <1>3, HomesApart DEF Live, Managed
<1>7. HomesOnDisk'
  BY <1>0, <1>2, <1>6 DEF HomesOnDisk, Gentle, Managed, Live
<1>8. AccountsKnown'
  <2>1. IdsOf(profiles') = IdsOf(profiles)
    BY <1>2 DEF IdsOf
  <2> QED
    BY <1>0, <2>1 DEF AccountsKnown, Gentle
<1>9. Waiting' \subseteq Waiting /\ \A j \in Waiting' : profiles'[j].id = profiles[j].id
  BY <1>2, <1>6 DEF Waiting, TakenOver, Gentle, Managed, Live
<1>10. WaitingIsShared'
  BY <1>0, <1>9 DEF WaitingIsShared, SeenAreSigned, Gentle
<1>11. OwnerIsOne'
  <2>1. Owning' \subseteq Owning
    BY <1>1, <1>2, <1>3 DEF Owning, Live
  <2> QED
    BY <1>0, <2>1 DEF OwnerIsOne
<1>12. AccountsKept'
  <2>1. \A j \in Live(profiles) : j \in Live(profiles') /\ profiles'[j].id = profiles[j].id
    BY <1>1, <1>2 DEF Live
  <2>2. profiles # <<>>
    BY <1>1
  <2> QED
    BY <1>0, <2>1, <2>2, EffectStays DEF Gentle
<1> QED
  BY <1>4, <1>5, <1>7, <1>8, <1>10, <1>11, <1>12 DEF ProfilesInv

(* A managed profile that is added is the only one that waits.             *)
LEMMA AddingKeeps ==
  ASSUME ProfilesInv, Gentle, NEW k \in Askers, NEW ps, NEW id, NEW owns, NEW to, IsAdded(k, ps, id, owns, to),
         profiles' = to.profiles, Len(profiles') <= MaxProfiles, id \in homes'
  PROVE  ProfilesInv'
<1> DEFINE p == Profile(id, id, owns)
           n == Len(ps) + 1
<1>0. /\ ProfilesKnown /\ RequestsKnown /\ HomesOnDisk /\ AccountsKnown
      /\ WaitingIsShared /\ OwnerIsOne /\ AccountsKept
  BY DEF ProfilesInv
<1>1. /\ ps \in Seq(ConfiguredProfile)
      /\ \A i \in DOMAIN ps : ProfileSound(ps[i])
      /\ \A i, j \in DOMAIN ps : ps[i].id = ps[j].id => i = j
      /\ IdsOf(ps) \subseteq IdsOf(profiles) \union {Default} /\ IdsOf(profiles) \subseteq IdsOf(ps)
      /\ \A i \in DOMAIN profiles : i \in DOMAIN ps /\ ps[i] = profiles[i]
      /\ \A i \in Live(ps) : Managed(ps[i]) => i \in Live(profiles) /\ ps[i] = profiles[i]
      /\ \A i \in Live(ps) : ps[i].owns => i \in Live(profiles) /\ ps[i] = profiles[i]
  BY <1>0, ExplicitIsKnown DEF IsAdded
<1>2. /\ p \in ConfiguredProfile /\ ProfileSound(p) /\ p.live /\ Managed(p) /\ p.id = id /\ p.home = id /\ p.owns = owns
      /\ id \in AnyId /\ id \notin IdsOf(ps) /\ owns \in BOOLEAN /\ (owns => Live(ps) = {})
  BY HomesApart DEF IsAdded, Profile, ConfiguredProfile, ProfileSound, Managed, AnyId
<1>3. profiles' = Append(ps, p)
  BY DEF IsAdded
<1> HIDE DEF p
<1>4. /\ profiles' \in Seq(ConfiguredProfile) /\ n \notin DOMAIN ps /\ DOMAIN profiles' = DOMAIN ps \union {n}
      /\ profiles'[n] = p /\ \A i \in DOMAIN ps : profiles'[i] = ps[i]
  BY <1>1, <1>2, <1>3
<1> HIDE DEF n
<1>5. \A i \in DOMAIN ps : ps[i].id # id
  BY <1>2 DEF IdsOf
<1>6. IdsOf(profiles') = IdsOf(ps) \union {id}
  BY <1>2, <1>4 DEF IdsOf
<1>7. Live(profiles') = Live(ps) \union {n}
  BY <1>2, <1>4 DEF Live
<1>8. ProfilesKnown'
  <2>1. \A i \in DOMAIN profiles' : ProfileSound(profiles'[i])
    BY <1>1, <1>2, <1>4
  <2>2. \A i, j \in DOMAIN profiles' : profiles'[i].id = profiles'[j].id => i = j
    BY <1>1, <1>2, <1>4, <1>5
  <2>3. kind # "claude" => Default \in IdsOf(profiles')
    BY <1>6 DEF IsAdded
  <2> QED
    BY <1>0, <1>4, <2>1, <2>2, <2>3 DEF ProfilesKnown, Gentle, ProfileSound
<1>9. RequestsKnown'
  BY <1>0, <1>1, <1>4, RequestsStay
<1>10. HomesOnDisk'
  <2>1. ASSUME NEW i \in Live(ps), Managed(ps[i]) PROVE ps[i].home \in homes'
    BY <1>0, <1>1, <2>1 DEF HomesOnDisk, Gentle
  <2>2. ASSUME NEW i \in Live(profiles'), Managed(profiles'[i]) PROVE profiles'[i].home \in homes'
    BY <1>2, <1>4, <1>7, <2>1, <2>2 DEF Live
  <2> QED
    BY <2>2 DEF HomesOnDisk, Managed
<1>11. AccountsKnown'
  BY <1>0, <1>1, <1>6 DEF AccountsKnown, Gentle
<1>12. WaitingIsShared'
  <2>1. \A i \in Waiting : profiles[i].id \notin Seen(k)
    BY <1>0 DEF WaitingIsShared, SeenAreSigned
  <2>2. ASSUME NEW i \in Live(ps), Managed(ps[i]) PROVE ps[i].home \in signed \/ TakenOver(ps[i])
    <3>1. i \in Live(profiles) /\ ps[i] = profiles[i] /\ (ps[i].home \in signed \/ ps[i].id \in Seen(k))
      BY <1>1, <2>2 DEF IsAdded
    <3> QED
      BY <2>1, <2>2, <3>1 DEF Waiting
  <2>3. Waiting' \subseteq {n}
    <3>1. ASSUME NEW i \in Live(ps) PROVE i \notin Waiting'
      <4>1. i \in DOMAIN ps /\ profiles'[i] = ps[i]
        BY <1>4 DEF Live
      <4>2. Managed(ps[i]) => ps[i].home \in signed' \/ IsTakenOver(i)'
        BY <2>2, <4>1 DEF IsTakenOver, TakenOver, Gentle
      <4> QED
        BY <4>1, <4>2 DEF Waiting, IsTakenOver
    <3>2. Waiting' \subseteq Live(profiles')
      BY DEF Waiting
    <3> QED
      BY <1>7, <3>1, <3>2
  <2>4. n \in Waiting' => id \notin rows
    <3> SUFFICES ASSUME n \in Waiting', id \in rows PROVE FALSE
      OBVIOUS
    <3>1. id = Default /\ kind = "claude"
      BY <1>0, <1>1, <1>2 DEF AccountsKnown, IsAdded
    <3>2. IsTakenOver(n)'
      BY <1>2, <1>4, <3>1 DEF IsTakenOver, TakenOver, Gentle
    <3> QED
      BY <3>2 DEF Waiting, IsTakenOver
  <2>5. n \in Waiting' => \A l \in Askers : id \notin Seen(l)
    BY <1>0, <1>1, <1>2, <2>4 DEF AccountsKnown
  <2>6. SeenAreSigned'
    BY <1>2, <1>4, <2>3, <2>4, <2>5 DEF SeenAreSigned, Gentle
  <2> QED
    BY <2>3, <2>6 DEF WaitingIsShared
<1>13. OwnerIsOne'
  <2>1. CASE owns
    <3>1. Live(profiles') = {n}
      BY <1>2, <1>7, <2>1
    <3> QED
      BY <3>1 DEF OwnerIsOne, Owning
  <2>2. CASE ~owns
    <3>1. Owning' \subseteq Owning
      BY <1>1, <1>2, <1>4, <1>7, <2>2 DEF Owning, Live
    <3> QED
      BY <1>0, <3>1 DEF OwnerIsOne
  <2> QED
    BY <2>1, <2>2
<1>14. AccountsKept'
  <2>1. \A i \in Live(profiles) : i \in Live(profiles') /\ profiles'[i].id = profiles[i].id
    BY <1>1, <1>4 DEF Live
  <2>2. kind # "claude" /\ profiles = <<>> => \E j \in Live(profiles') : profiles'[j].id = Default
    <3> SUFFICES ASSUME kind # "claude", profiles = <<>> PROVE \E j \in Live(profiles') : profiles'[j].id = Default
      OBVIOUS
    <3>1. ps # <<>>
      BY DEF IsAdded, IdsOf
    <3>2. ps = <<TheDefault>>
      BY <3>1 DEF IsAdded, Explicit
    <3>3. 1 \in DOMAIN ps /\ ps[1] = TheDefault
      BY <3>2
    <3> QED
      BY <1>4, <3>3, DefaultIsUnmanaged DEF Live
  <2> QED
    BY <1>0, <2>1, <2>2, EffectStays DEF Gentle
<1> QED
  BY <1>8, <1>9, <1>10, <1>11, <1>12, <1>13, <1>14 DEF ProfilesInv

(* Choosing a target keeps the invariant, whether the file is written.     *)
LEMMA ChooseTargetKeeps ==
  ASSUME ProfilesInv, NEW k \in Askers, ChooseTarget(k)
  PROVE  ProfilesInv'
<1>0. ProfilesKnown /\ RequestsKnown /\ AccountsKnown
  BY DEF ProfilesInv
<1>b. PICK base \in Bases :
        \E to \in IF asks[k].at = "add" THEN AddTargets(asks[k].seen, base) ELSE RepairTargets(asks[k].id) :
          /\ Len(to.profiles) <= MaxProfiles
          /\ homes' = homes \union (IF Len(to.profiles) > Len(profiles) /\ Managed(to.target) THEN {to.target.home} ELSE {})
          /\ \/ /\ profiles' = to.profiles /\ on' = (on \/ kind # "codex" \/ asks[k].at = "add")
                /\ Now(k, [at |-> "login", home |-> IF to.target.home = NoHome THEN Local ELSE to.target.home])
             \/ UNCHANGED <<profiles, on>> /\ Finish(k)
  BY DEF ChooseTarget
<1>1. PICK to \in IF asks[k].at = "add" THEN AddTargets(asks[k].seen, base) ELSE RepairTargets(asks[k].id) :
        /\ Len(to.profiles) <= MaxProfiles
        /\ homes' = homes \union (IF Len(to.profiles) > Len(profiles) /\ Managed(to.target) THEN {to.target.home} ELSE {})
        /\ \/ /\ profiles' = to.profiles /\ on' = (on \/ kind # "codex" \/ asks[k].at = "add")
              /\ Now(k, [at |-> "login", home |-> IF to.target.home = NoHome THEN Local ELSE to.target.home])
           \/ UNCHANGED <<profiles, on>> /\ Finish(k)
  BY <1>b
<1>2. Gentle
  <2>1. DOMAIN asks' = Askers /\ (asks'[k].at \in {"login", "idle"}) /\ \A l \in Askers : l # k => asks'[l] = asks[l]
    BY <1>0, <1>1 DEF RequestsKnown, Now, Finish
  <2>2. \A l \in Askers : Seen(l)' \subseteq Seen(l) /\ Removed(l)' \subseteq Removed(l)
    BY <2>1 DEF Seen, Removed
  <2>3. kind' = kind /\ signed' = signed /\ rows' = rows
    BY DEF ChooseTarget
  <2>4. homes \subseteq homes'
    BY <1>1, Zenon
  <2>5. on' = (on \/ kind # "codex" \/ asks[k].at = "add") \/ on' = on
    BY <1>1, Zenon
  <2>6. on => on'
    BY <2>5, Zenon
  <2> QED
    BY <2>1, <2>2, <2>3, <2>4, <2>6 DEF Gentle
<1>3. Targeted(k, to)
  BY <1>0, <1>1, AddingIsKnown, RepairingIsKnown DEF ChooseTarget
<1>4. CASE profiles' = profiles
  BY <1>0, <1>2, <1>4, ExplicitKeeps DEF Explicit, ProfilesKnown
<1>5. CASE profiles' = to.profiles
  <2>1. CASE profiles = <<>> /\ to.profiles = <<TheDefault>>
    BY <1>1, <1>2, <1>5, <2>1, ExplicitKeeps DEF Explicit
  <2>2. CASE IsRevived(to.profiles)
    BY <1>2, <1>5, <2>2, RevivingKeeps
  <2>3. ASSUME NEW ps, NEW id, NEW owns, IsAdded(k, ps, id, owns, to) PROVE ProfilesInv'
    <3>1. to.target = Profile(id, id, owns) /\ Managed(to.target) /\ to.target.home = id
      BY <2>3 DEF IsAdded, Profile, Managed
    <3>2. Len(to.profiles) > Len(profiles)
      <4>1. ps \in Seq(ConfiguredProfile) /\ profiles \in Seq(ConfiguredProfile) /\ Len(ps) >= Len(profiles)
        BY <1>0, <2>3, ExplicitIsKnown DEF IsAdded, Explicit, ProfilesKnown
      <4>2. to.profiles = Append(ps, Profile(id, id, owns))
        BY <2>3 DEF IsAdded
      <4> QED
        BY <4>1, <4>2
    <3>3. id \in homes'
      BY <1>1, <3>1, <3>2
    <3> QED
      BY <1>1, <1>2, <1>5, <2>3, <3>3, AddingKeeps
  <2> QED
    BY <1>3, <1>4, <1>5, <2>1, <2>2, <2>3 DEF Targeted
<1> QED
  BY <1>1, <1>4, <1>5

(* What says nothing of requests and directories stays with the profiles.  *)
LEMMA ConfigurationStays ==
  ASSUME ProfilesKnown, OwnerIsOne, AccountsKept, UNCHANGED <<kind, on, profiles, rows>>
  PROVE  ProfilesKnown' /\ OwnerIsOne' /\ AccountsKept'
<1>1. ProfilesKnown'
  BY DEF ProfilesKnown, ProfileSound
<1>2. OwnerIsOne'
  BY DEF OwnerIsOne, Owning, Live
<1>3. InEffect' = InEffect
  BY DEF InEffect, Live, Profile
<1>4. AccountsKept'
  BY <1>3, Zenon DEF AccountsKept
<1> QED
  BY <1>1, <1>2, <1>4

(* Other steps of requests that leave the profiles alone.                  *)
LEMMA ReadAccountsKeeps ==
  ASSUME ProfilesInv, NEW k \in Askers, ReadAccounts(k)
  PROVE  ProfilesInv'
<1>0. /\ ProfilesKnown /\ RequestsKnown /\ HomesOnDisk /\ AccountsKnown
      /\ WaitingIsShared /\ OwnerIsOne /\ AccountsKept
  BY DEF ProfilesInv
<1>1. /\ DOMAIN asks' = Askers /\ \A l \in Askers : l # k => asks'[l] = asks[l]
      /\ asks'[k].at \in {"add", "delete", "repair"} /\ (asks'[k].at = "add" => asks'[k].seen = rows)
  BY <1>0 DEF RequestsKnown, ReadAccounts, Now
<1>2. \A l \in Askers : Seen(l)' \subseteq Seen(l) \union rows /\ Removed(l)' \subseteq Removed(l)
  BY <1>1 DEF Seen, Removed
<1>3. UNCHANGED <<kind, on, profiles, homes, signed, rows>>
  BY DEF ReadAccounts
<1>4. ProfilesKnown' /\ HomesOnDisk' /\ OwnerIsOne' /\ AccountsKept'
  <2>1. ProfilesKnown' /\ OwnerIsOne' /\ AccountsKept'
    BY <1>0, <1>3, ConfigurationStays
  <2>2. HomesOnDisk'
    BY <1>0, <1>3 DEF HomesOnDisk, Live, Managed
  <2> QED
    BY <2>1, <2>2
<1>5. RequestsKnown'
  BY <1>0, <1>1, <1>2, <1>3 DEF RequestsKnown, Gone
<1>6. AccountsKnown'
  BY <1>0, <1>2, <1>3 DEF AccountsKnown
<1>7. Waiting' = Waiting
  BY <1>3 DEF Waiting, TakenOver
<1>8. WaitingIsShared'
  BY <1>0, <1>2, <1>3, <1>7 DEF WaitingIsShared, SeenAreSigned
<1> QED
  BY <1>4, <1>5, <1>6, <1>8 DEF ProfilesInv

(* A request without a target ends.                                        *)
LEMMA NoTargetKeeps ==
  ASSUME ProfilesInv, NEW k \in Askers, NoTarget(k)
  PROVE  ProfilesInv'
<1>0. ProfilesKnown /\ RequestsKnown
  BY DEF ProfilesInv
<1>1. DOMAIN asks' = Askers /\ asks'[k].at = "idle" /\ \A l \in Askers : l # k => asks'[l] = asks[l]
  BY <1>0 DEF RequestsKnown, NoTarget, Now, Finish
<1>2. Gentle
  BY <1>1 DEF Gentle, NoTarget, Seen, Removed
<1> QED
  BY <1>0, <1>2, ExplicitKeeps DEF NoTarget, Explicit, ProfilesKnown

(* Signing in gives a profile credentials, and a home if it has none.      *)
LEMMA EndLoginKeeps ==
  ASSUME ProfilesInv, NEW k \in Askers, EndLogin(k)
  PROVE  ProfilesInv'
<1>0. /\ ProfilesKnown /\ RequestsKnown /\ HomesOnDisk /\ AccountsKnown
      /\ WaitingIsShared /\ OwnerIsOne /\ AccountsKept
  BY DEF ProfilesInv
<1>1. DOMAIN asks' = Askers /\ asks'[k].at = "idle" /\ \A l \in Askers : l # k => asks'[l] = asks[l]
  BY <1>0 DEF RequestsKnown, EndLogin, Now, Finish
<1>2. \A l \in Askers : Seen(l)' \subseteq Seen(l) /\ Removed(l)' \subseteq Removed(l)
  BY <1>1 DEF Seen, Removed
<1>3. UNCHANGED <<kind, on, profiles, rows>> /\ homes \subseteq homes' /\ signed \subseteq signed'
  BY DEF EndLogin
<1>4. ProfilesKnown' /\ HomesOnDisk' /\ OwnerIsOne' /\ AccountsKept'
  <2>1. ProfilesKnown' /\ OwnerIsOne' /\ AccountsKept'
    BY <1>0, <1>3, ConfigurationStays
  <2>2. HomesOnDisk'
    BY <1>0, <1>3 DEF HomesOnDisk, Live, Managed
  <2> QED
    BY <2>1, <2>2
<1>5. RequestsKnown'
  BY <1>0, <1>1, <1>2, <1>3 DEF RequestsKnown, Gone
<1>6. AccountsKnown'
  BY <1>0, <1>2, <1>3 DEF AccountsKnown
<1>7. Waiting' \subseteq Waiting
  BY <1>3 DEF Waiting, TakenOver
<1>8. WaitingIsShared'
  BY <1>0, <1>2, <1>3, <1>7 DEF WaitingIsShared, SeenAreSigned
<1> QED
  BY <1>4, <1>5, <1>6, <1>8 DEF ProfilesInv

(* An account is connected that is of a profile with credentials.          *)
LEMMA ConnectKeeps ==
  ASSUME ProfilesInv, Connect
  PROVE  ProfilesInv'
<1>0. /\ ProfilesKnown /\ RequestsKnown /\ HomesOnDisk /\ AccountsKnown
      /\ WaitingIsShared /\ OwnerIsOne /\ AccountsKept
  BY DEF ProfilesInv
<1>1. PICK p \in InEffect : p.home \in signed /\ rows' = rows \union {p.id}
  BY DEF Connect
<1>2. UNCHANGED <<kind, on, profiles, homes, signed, asks>> /\ on
  BY DEF Connect
<1>3. ProfilesKnown' /\ RequestsKnown' /\ HomesOnDisk' /\ OwnerIsOne'
  BY <1>0, <1>2 DEF ProfilesKnown, RequestsKnown, Removed, Gone, HomesOnDisk, OwnerIsOne, Owning, ProfileSound
<1>4. CASE profiles = <<>>
  <2>1. p.id = Default /\ Waiting = {} /\ Waiting' = {}
    BY <1>1, <1>2, <1>4 DEF InEffect, Profile, Waiting, Live
  <2>2. AccountsKnown' /\ WaitingIsShared'
    BY <1>0, <1>1, <1>2, <2>1 DEF AccountsKnown, WaitingIsShared, SeenAreSigned, Seen
  <2>3. AccountsKept'
    BY <1>0, <1>1, <1>2 DEF AccountsKept, InEffect
  <2> QED
    BY <1>3, <2>2, <2>3 DEF ProfilesInv
<1>5. CASE profiles # <<>>
  <2>1. PICK i \in Live(profiles) : p = profiles[i]
    BY <1>1, <1>5 DEF InEffect
  <2>2. AccountsKnown'
    BY <1>0, <1>1, <1>2, <2>1 DEF AccountsKnown, IdsOf, Live, Seen
  <2>3. Waiting' \subseteq Waiting /\ \A j \in Waiting : profiles[j].id # p.id
    <3>1. Waiting' \subseteq Waiting
      BY <1>1, <1>2 DEF Waiting, TakenOver
    <3>2. ASSUME NEW j \in Waiting PROVE profiles[j].id # p.id
      BY <1>0, <1>1, <2>1 DEF Waiting, Live, ProfilesKnown
    <3> QED
      BY <3>1, <3>2
  <2>4. WaitingIsShared'
    BY <1>0, <1>1, <1>2, <2>3 DEF WaitingIsShared, SeenAreSigned, Seen
  <2>5. AccountsKept'
    BY <1>0, <1>1, <1>2 DEF AccountsKept, InEffect
  <2> QED
    BY <1>3, <2>2, <2>4, <2>5 DEF ProfilesInv
<1> QED
  BY <1>4, <1>5

(* Directories that are removed are of profiles that are gone.             *)
LEMMA RemoveHomeKeeps ==
  ASSUME ProfilesInv, NEW k \in Askers, RemoveHome(k)
  PROVE  ProfilesInv'
<1>0. /\ ProfilesKnown /\ RequestsKnown /\ HomesOnDisk /\ AccountsKnown
      /\ WaitingIsShared /\ OwnerIsOne /\ AccountsKept
  BY DEF ProfilesInv
<1>1. DOMAIN asks' = Askers /\ asks'[k].at = "idle" /\ \A l \in Askers : l # k => asks'[l] = asks[l]
  BY <1>0 DEF RequestsKnown, RemoveHome, Now, Finish
<1>2. \A l \in Askers : Seen(l)' \subseteq Seen(l) /\ Removed(l)' \subseteq Removed(l)
  BY <1>1 DEF Seen, Removed
<1>3. UNCHANGED <<kind, on, profiles, rows>> /\ homes \ Removed(k) \subseteq homes' /\ signed \ Removed(k) \subseteq signed'
  BY DEF RemoveHome, Removed
<1>4. ASSUME NEW i \in Live(profiles), Managed(profiles[i]) PROVE profiles[i].home \notin Removed(k)
  <2>1. Gone(profiles[i].home) => FALSE
    BY <1>0, <1>4 DEF Gone, ProfilesKnown, Live, Managed
  <2> QED
    BY <1>0, <2>1 DEF RequestsKnown
<1>5. ProfilesKnown' /\ OwnerIsOne' /\ AccountsKept'
  BY <1>0, <1>3, ConfigurationStays
<1>6. HomesOnDisk'
  BY <1>0, <1>3, <1>4 DEF HomesOnDisk
<1>7. RequestsKnown'
  BY <1>0, <1>1, <1>2, <1>3 DEF RequestsKnown, Gone
<1>8. AccountsKnown'
  BY <1>0, <1>2, <1>3 DEF AccountsKnown
<1>9. Waiting' \subseteq Waiting
  BY <1>3, <1>4 DEF Waiting, TakenOver
<1>10. WaitingIsShared'
  BY <1>0, <1>2, <1>3, <1>9 DEF WaitingIsShared, SeenAreSigned
<1> QED
  BY <1>5, <1>6, <1>7, <1>8, <1>10 DEF ProfilesInv

(* What a deletion makes of the profiles: a tombstone for the id.          *)
LEMMA BuriedIs ==
  ASSUME ProfilesKnown, NEW id \in AnyId
  PROVE  /\ Buried(id) \in Seq(ConfiguredProfile)
         /\ \A i \in DOMAIN profiles : i \in DOMAIN Buried(id) /\ (profiles[i].id # id => Buried(id)[i] = profiles[i])
         /\ \E n \in DOMAIN Buried(id) :
              /\ Buried(id)[n] = Tombstone(id) /\ DOMAIN Buried(id) = DOMAIN profiles \union {n}
              /\ \A i \in DOMAIN Buried(id) : i # n => Buried(id)[i] = profiles[i] /\ i \in DOMAIN profiles /\ profiles[i].id # id
              /\ n \in DOMAIN profiles => profiles[n].id = id
<1>0. profiles \in Seq(ConfiguredProfile) /\ \A i, j \in DOMAIN profiles : profiles[i].id = profiles[j].id => i = j
  BY DEF ProfilesKnown
<1>1. Tombstone(id) \in ConfiguredProfile
  BY DEF Tombstone, ConfiguredProfile
<1>2. CASE Named(profiles, id) = {}
  <2>1. Buried(id) = Append(profiles, Tombstone(id))
    BY <1>2 DEF Buried
  <2>2. \A i \in DOMAIN profiles : profiles[i].id # id
    BY <1>2 DEF Named
  <2>3. /\ Append(profiles, Tombstone(id)) \in Seq(ConfiguredProfile)
        /\ DOMAIN Append(profiles, Tombstone(id)) = DOMAIN profiles \union {Len(profiles) + 1}
        /\ Append(profiles, Tombstone(id))[Len(profiles) + 1] = Tombstone(id)
        /\ \A i \in DOMAIN profiles : Append(profiles, Tombstone(id))[i] = profiles[i] /\ i # Len(profiles) + 1
    BY <1>0, <1>1
  <2> QED
    BY <2>1, <2>2, <2>3
<1>3. CASE Named(profiles, id) # {}
  <2>1. PICK n \in DOMAIN profiles : profiles[n].id = id
    BY <1>3 DEF Named
  <2>2. First(Named(profiles, id)) = n
    BY <2>1, FirstIsNamed
  <2>3. Buried(id) = [profiles EXCEPT ![n] = Tombstone(id)]
    BY <1>3, <2>2 DEF Buried
  <2>4. /\ Buried(id) \in Seq(ConfiguredProfile) /\ DOMAIN Buried(id) = DOMAIN profiles
        /\ Buried(id)[n] = Tombstone(id) /\ \A i \in DOMAIN profiles : i # n => Buried(id)[i] = profiles[i]
    BY <1>0, <1>1, <2>3
  <2> QED
    BY <1>0, <2>1, <2>4
<1> QED
  BY <1>2, <1>3

(* A profile is buried: its directory is gone with it, its id is not.      *)
LEMMA BuryProfileKeeps ==
  ASSUME ProfilesInv, NEW k \in Askers, BuryProfile(k)
  PROVE  ProfilesInv'
<1>0. /\ ProfilesKnown /\ RequestsKnown /\ HomesOnDisk /\ AccountsKnown
      /\ WaitingIsShared /\ OwnerIsOne /\ AccountsKept
  BY DEF ProfilesInv
<1>1. CASE UNCHANGED <<profiles, rows, on>> /\ Finish(k)
  <2>1. DOMAIN asks' = Askers /\ asks'[k].at = "idle" /\ \A l \in Askers : l # k => asks'[l] = asks[l]
    BY <1>0, <1>1 DEF RequestsKnown, Now, Finish
  <2>2. Gentle
    BY <1>1, <2>1 DEF Gentle, BuryProfile, Seen, Removed
  <2> QED
    BY <1>0, <1>1, <2>2, ExplicitKeeps DEF Explicit, ProfilesKnown
<1>2. CASE /\ asks[k].id \in rows /\ Len(Buried(asks[k].id)) <= MaxProfiles
           /\ profiles' = Buried(asks[k].id) /\ rows' = rows \ {asks[k].id}
           /\ on' = (on /\ Live(profiles') # {})
           /\ Now(k, [at |-> "remove", homes |-> Candidate(asks[k].id)])
  <2>0. PICK id : id = asks[k].id
    OBVIOUS
  <2>1. id \in AnyId /\ id \in rows
    <3>1. \A i \in DOMAIN profiles : profiles[i].id \in AnyId
      BY <1>0, IdsAreKnown
    <3> QED
      BY <1>0, <1>2, <2>0, <3>1, HomesApart DEF AccountsKnown, IdsOf
  <2>2. /\ profiles' \in Seq(ConfiguredProfile)
        /\ \A i \in DOMAIN profiles : i \in DOMAIN profiles' /\ (profiles[i].id # id => profiles'[i] = profiles[i])
    BY <1>0, <1>2, <2>0, <2>1, BuriedIs
  <2>3. PICK n \in DOMAIN profiles' :
          /\ profiles'[n] = Tombstone(id) /\ DOMAIN profiles' = DOMAIN profiles \union {n}
          /\ \A i \in DOMAIN profiles' : i # n => profiles'[i] = profiles[i] /\ i \in DOMAIN profiles /\ profiles[i].id # id
          /\ n \in DOMAIN profiles => profiles[n].id = id
    <3>1. profiles' = Buried(id)
      BY <1>2, <2>0
    <3> QED
      BY <1>0, <2>1, <3>1, BuriedIs, ZenonT(60)
  <2>4. LET t == profiles'[n] IN t.id = id /\ t.home = NoHome /\ ~t.owns /\ ~t.live /\ t.deleted /\ ProfileSound(t)
    BY <2>3 DEF Tombstone, ProfileSound
  <2>5. kind' = kind /\ signed' = signed /\ homes' = homes /\ (on' => on) /\ rows' = rows \ {id}
    BY <1>2, <2>0 DEF BuryProfile
  <2>6. Live(profiles') \subseteq Live(profiles) /\ \A i \in Live(profiles') : profiles'[i] = profiles[i] /\ profiles[i].id # id
    BY <2>3, <2>4 DEF Live
  <2>7. IdsOf(profiles') = IdsOf(profiles) \union {id}
    BY <2>2, <2>3, <2>4 DEF IdsOf
  <2>8. ProfilesKnown'
    <3>1. \A i \in DOMAIN profiles' : ProfileSound(profiles'[i])
      BY <1>0, <2>3, <2>4 DEF ProfilesKnown
    <3>2. \A i, j \in DOMAIN profiles' : profiles'[i].id = profiles'[j].id => i = j
      BY <1>0, <2>3, <2>4 DEF ProfilesKnown
    <3>3. kind # "claude" => Default \in IdsOf(profiles')
      <4>1. profiles = <<>> => id = Default
        BY <1>0, <2>1 DEF AccountsKnown, IdsOf
      <4> QED
        BY <1>0, <2>7, <4>1 DEF ProfilesKnown
    <3> QED
      BY <1>0, <1>2, <2>2, <2>5, <3>1, <3>2, <3>3 DEF ProfilesKnown, ProfileSound
  <2>9. /\ DOMAIN asks' = Askers /\ \A l \in Askers : l # k => asks'[l] = asks[l]
        /\ asks'[k].at = "remove" /\ asks'[k].homes = Candidate(id)
    BY <1>0, <1>2, <2>0 DEF RequestsKnown, Now
  <2>10. RequestsKnown'
    <3>1. ASSUME NEW h, Gone(h) PROVE Gone(h)'
      BY <2>2, <2>3, <2>4, <3>1, HomesApart DEF Gone
    <3>2. ASSUME NEW h \in Candidate(id) PROVE h = id
      BY <3>2 DEF Candidate, Named, Managed
    <3>3. Gone(id)'
      BY <2>1, <2>3, <2>4, HomesApart DEF Gone
    <3>4. ASSUME NEW l \in Askers, NEW h \in Removed(l)' PROVE Gone(h)'
      <4>1. CASE l = k
        BY <2>9, <3>2, <3>3, <3>4, <4>1 DEF Removed
      <4>2. CASE l # k
        BY <1>0, <2>9, <3>1, <3>4, <4>2 DEF Removed, RequestsKnown
      <4> QED
        BY <4>1, <4>2
    <3> QED
      BY <2>9, <3>4 DEF RequestsKnown
  <2>11. HomesOnDisk'
    BY <1>0, <2>5, <2>6 DEF HomesOnDisk
  <2>12. AccountsKnown'
    <3>1. \A l \in Askers : Seen(l)' \subseteq Seen(l)
      BY <2>9 DEF Seen
    <3> QED
      BY <1>0, <2>5, <2>7, <3>1 DEF AccountsKnown
  <2>13. WaitingIsShared'
    <3>1. Waiting' \subseteq Waiting /\ \A i \in Waiting' : profiles'[i] = profiles[i]
      <4>1. ASSUME NEW i \in Live(profiles'), IsTakenOver(i) PROVE IsTakenOver(i)'
        BY <2>5, <2>6, <4>1 DEF IsTakenOver, TakenOver
      <4> QED
        BY <2>5, <2>6, <4>1 DEF Waiting, IsTakenOver
    <3>2. \A l \in Askers : Seen(l)' \subseteq Seen(l)
      BY <2>9 DEF Seen
    <3> QED
      BY <1>0, <2>5, <3>1, <3>2 DEF WaitingIsShared, SeenAreSigned
  <2>14. OwnerIsOne'
    BY <1>0, <2>6 DEF OwnerIsOne, Owning
  <2>15. AccountsKept'
    <3> SUFFICES ASSUME kind # "claude", NEW other \in rows \ {id} PROVE on' /\ \E p \in InEffect' : p.id = other
      BY <2>5 DEF AccountsKept
    <3>1. on /\ \E p \in InEffect : p.id = other
      BY <1>0 DEF AccountsKept
    <3>2. profiles # <<>>
      BY <1>0, <2>1 DEF AccountsKnown, IdsOf
    <3>3. PICK i \in Live(profiles) : profiles[i].id = other
      BY <3>1, <3>2 DEF InEffect
    <3>4. i \in Live(profiles') /\ profiles'[i].id = other
      BY <2>2, <3>3 DEF Live
    <3>5. profiles' # <<>>
      BY <3>4 DEF Live
    <3>6. on'
      BY <1>2, <3>1, <3>4
    <3> QED
      BY <3>4, <3>5, <3>6 DEF InEffect
  <2> QED
    BY <2>8, <2>10, <2>11, <2>12, <2>13, <2>14, <2>15 DEF ProfilesInv
<1> QED
  BY <1>1, <1>2 DEF BuryProfile

(* A start gives at most one profile the local logs.                       *)
LEMMA RestartKeeps ==
  ASSUME ProfilesInv, RestartProvider
  PROVE  ProfilesInv'
<1>0. /\ ProfilesKnown /\ RequestsKnown /\ HomesOnDisk /\ AccountsKnown
      /\ WaitingIsShared /\ OwnerIsOne /\ AccountsKept
  BY DEF ProfilesInv
<1>1. Gentle
  <2>1. asks' = [l \in Askers |-> [at |-> "idle"]] /\ UNCHANGED <<kind, on, homes, signed, rows>>
    BY DEF RestartProvider
  <2>2. \A l \in Askers : Seen(l)' = {} /\ Removed(l)' = {}
    BY <2>1 DEF Seen, Removed
  <2> QED
    BY <2>1, <2>2 DEF Gentle
<1>2. CASE UNCHANGED profiles
  BY <1>0, <1>1, <1>2, ExplicitKeeps DEF Explicit, ProfilesKnown
<1>3. ASSUME NEW i \in ClaudeOwner \union CodexOwners, profiles' = [profiles EXCEPT ![i].owns = TRUE]
      PROVE  ProfilesInv'
  <2>1. i \in Live(profiles) /\ i \in DOMAIN profiles /\ \A j \in Live(profiles) : profiles[j].owns => j = i
    BY <1>3 DEF ClaudeOwner, CodexOwners, Live
  <2>2. profiles \in Seq(ConfiguredProfile) /\ profiles[i] \in ConfiguredProfile /\ profiles[i].live
    BY <1>0, <2>1 DEF ProfilesKnown, Live
  <2> DEFINE p == [profiles[i] EXCEPT !.owns = TRUE]
  <2>3. p \in ConfiguredProfile /\ p.owns /\ p.id = profiles[i].id /\ p.home = profiles[i].home /\ p.live = profiles[i].live /\ p.deleted = profiles[i].deleted
    BY <2>2 DEF ConfiguredProfile
  <2>4. profiles' = [profiles EXCEPT ![i] = p]
    BY <1>3
  <2> HIDE DEF p
  <2>5. /\ profiles' \in Seq(ConfiguredProfile) /\ Len(profiles') = Len(profiles) /\ DOMAIN profiles' = DOMAIN profiles
        /\ profiles'[i] = p /\ \A j \in DOMAIN profiles : j # i => profiles'[j] = profiles[j]
    BY <2>1, <2>2, <2>3, <2>4
  <2>6. \A j \in DOMAIN profiles :
          /\ profiles'[j].id = profiles[j].id /\ profiles'[j].home = profiles[j].home
          /\ (profiles'[j].live <=> profiles[j].live) /\ (profiles'[j].deleted <=> profiles[j].deleted)
          /\ j # i => (profiles'[j].owns <=> profiles[j].owns)
    BY <2>3, <2>5
  <2>7. Live(profiles') = Live(profiles) /\ IdsOf(profiles') = IdsOf(profiles)
    BY <2>5, <2>6 DEF Live, IdsOf
  <2>8. ProfilesKnown'
    <3>1. \A j \in DOMAIN profiles' : ProfileSound(profiles'[j])
      BY <1>0, <2>2, <2>5, <2>6 DEF ProfilesKnown, ProfileSound
    <3> QED
      BY <1>0, <1>1, <2>5, <2>6, <2>7, <3>1 DEF ProfilesKnown, Gentle, ProfileSound
  <2>9. RequestsKnown'
    BY <1>0, <1>1, <2>5, <2>6, RequestsStay
  <2>10. HomesOnDisk'
    BY <1>0, <1>1, <2>5, <2>6, <2>7 DEF HomesOnDisk, Gentle, Managed, Live
  <2>11. AccountsKnown'
    BY <1>0, <1>1, <2>7 DEF AccountsKnown, Gentle
  <2>12. Waiting' = Waiting /\ \A j \in Waiting : profiles'[j].id = profiles[j].id
    BY <1>1, <2>5, <2>6, <2>7 DEF Waiting, TakenOver, Gentle, Managed, Live
  <2>13. WaitingIsShared'
    BY <1>0, <1>1, <2>12 DEF WaitingIsShared, SeenAreSigned, Gentle
  <2>14. OwnerIsOne'
    BY <2>1, <2>6, <2>7 DEF OwnerIsOne, Owning, Live
  <2>15. AccountsKept'
    <3>1. \A j \in Live(profiles) : j \in Live(profiles') /\ profiles'[j].id = profiles[j].id
      BY <2>6, <2>7 DEF Live
    <3>2. profiles # <<>>
      BY <2>1
    <3> QED
      BY <1>0, <1>1, <3>1, <3>2, EffectStays DEF Gentle
  <2> QED
    BY <2>8, <2>9, <2>10, <2>11, <2>13, <2>14, <2>15 DEF ProfilesInv
<1> QED
  BY <1>2, <1>3 DEF RestartProvider

(* No profile is configured at first, and nothing is asked.                *)
LEMMA ProfilesStart == ASSUME ProfilesInit PROVE ProfilesInv
<1>1. profiles = <<>> /\ Live(profiles) = {} /\ DOMAIN profiles = {} /\ IdsOf(profiles) = {}
  BY DEF ProfilesInit, Live, IdsOf
<1>2. ProfilesKnown
  BY <1>1, ProfilesAssumption DEF ProfilesInit, ProfilesKnown
<1>3. DOMAIN asks = Askers /\ \A k \in Askers : Seen(k) = {} /\ Removed(k) = {}
  BY DEF ProfilesInit, Seen, Removed
<1>4. RequestsKnown /\ HomesOnDisk /\ OwnerIsOne
  BY <1>1, <1>3 DEF RequestsKnown, HomesOnDisk, OwnerIsOne, Owning
<1>5. AccountsKnown /\ AccountsKept
  BY <1>1, <1>3 DEF ProfilesInit, AccountsKnown, AccountsKept, InEffect, Profile
<1>6. WaitingIsShared
  BY <1>1 DEF WaitingIsShared, SeenAreSigned, Waiting
<1> QED
  BY <1>2, <1>4, <1>5, <1>6 DEF ProfilesInv

(* Every step of requests, flights and starts keeps the invariant.         *)
LEMMA ProfilesStep ==
  ASSUME ProfilesInv, [ProfilesNext]_profileVars
  PROVE  ProfilesInv'
<1>1. CASE \E k \in Askers : ReadAccounts(k)
  BY <1>1, ReadAccountsKeeps
<1>2. CASE \E k \in Askers : ChooseTarget(k)
  BY <1>2, ChooseTargetKeeps
<1>3. CASE \E k \in Askers : NoTarget(k)
  BY <1>3, NoTargetKeeps
<1>4. CASE \E k \in Askers : EndLogin(k)
  BY <1>4, EndLoginKeeps
<1>5. CASE \E k \in Askers : BuryProfile(k)
  BY <1>5, BuryProfileKeeps
<1>6. CASE \E k \in Askers : RemoveHome(k)
  BY <1>6, RemoveHomeKeeps
<1>7. CASE Connect
  BY <1>7, ConnectKeeps
<1>8. CASE RestartProvider
  BY <1>8, RestartKeeps
<1>9. CASE UNCHANGED profileVars
  <2>1. ProfilesKnown /\ RequestsKnown
    BY DEF ProfilesInv
  <2>2. Gentle
    BY <1>9, <2>1 DEF profileVars, Gentle, Seen, Removed, RequestsKnown
  <2> QED
    BY <1>9, <2>1, <2>2, ExplicitKeeps DEF profileVars, Explicit, ProfilesKnown
<1> QED
  BY <1>1, <1>2, <1>3, <1>4, <1>5, <1>6, <1>7, <1>8, <1>9 DEF ProfilesNext

(* A set whose elements are all one has at most one.                       *)
LEMMA AtMostOne ==
  ASSUME NEW S, \A x, y \in S : x = y
  PROVE  Cardinality(S) <= 1
<1>1. CASE S = {}
  BY <1>1, FS_EmptySet
<1>2. CASE S # {}
  <2>1. PICK x \in S : S = {x}
    BY <1>2
  <2> QED
    BY <2>1, FS_Singleton
<1> QED
  BY <1>1, <1>2

(* Ids are taken for good, the default profile alone uses the tool's home, *)
(* what is removed belongs to profiles that are gone, and what has an      *)
(* account has credentials (unique_profile_id, pending_profile,            *)
(* plan_profile_deletion).                                                 *)
THEOREM ProfilesInvariant == ProfilesSpec => []ProfilesInv
<1>1. ProfilesInit => ProfilesInv
  BY ProfilesStart
<1>2. ProfilesInv /\ [ProfilesNext]_profileVars => ProfilesInv'
  BY ProfilesStep
<1> QED
  BY <1>1, <1>2, PTL DEF ProfilesSpec

(* A profile keeps its directory however late another's is removed, the    *)
(* logs of this machine have one owner, and adding an account leaves the   *)
(* others configured, whatever requests read before they took the lock.    *)
THEOREM HomesAndAccountsAreKept == ProfilesSpec => [](HomesKept /\ OneOwner /\ AccountsKept)
<1>1. ProfilesInv => HomesKept /\ OneOwner /\ AccountsKept
  <2> SUFFICES ASSUME ProfilesInv PROVE HomesKept /\ OneOwner /\ AccountsKept
    OBVIOUS
  <2>1. ProfilesKnown /\ RequestsKnown /\ HomesOnDisk /\ OwnerIsOne /\ AccountsKept
    BY DEF ProfilesInv
  <2>2. ASSUME NEW k \in Askers, asks[k].at = "remove", NEW i \in Live(profiles) PROVE profiles[i].home \notin asks[k].homes
    <3>1. \A h \in asks[k].homes : Gone(h)
      BY <2>1, <2>2 DEF RequestsKnown, Removed
    <3>2. ProfileSound(profiles[i]) /\ profiles[i].live /\ i \in DOMAIN profiles
      BY <2>1 DEF ProfilesKnown, Live
    <3>3. ~Gone(profiles[i].home)
      BY <2>1, <3>2, HomesApart DEF Gone, ProfileSound, ProfilesKnown
    <3> QED
      BY <3>1, <3>3
  <2>3. ASSUME NEW i \in Live(profiles), NEW j \in Live(profiles), profiles[i].home = profiles[j].home PROVE i = j
    <3>1. \A l \in {i, j} : ProfileSound(profiles[l]) /\ profiles[l].live /\ l \in DOMAIN profiles /\ profiles[l].id \in AnyId
      <4>1. \A l \in DOMAIN profiles : ProfileSound(profiles[l]) /\ profiles[l].id \in AnyId
        BY <2>1, IdsAreKnown DEF ProfilesKnown
      <4> QED
        BY <4>1 DEF Live
    <3>2. profiles[i].id = profiles[j].id
      BY <2>3, <3>1, HomesApart DEF ProfileSound
    <3> QED
      BY <2>1, <3>1, <3>2 DEF ProfilesKnown
  <2>4. HomesKept
    BY <2>1, <2>2, <2>3 DEF HomesKept, HomesOnDisk, ProfilesKnown
  <2>5. OneOwner
    BY <2>1, AtMostOne DEF OneOwner, OwnerIsOne, Owning
  <2> QED
    BY <2>1, <2>4, <2>5
<1> QED
  BY <1>1, ProfilesInvariant, PTL

(* And requests share the profile that waits for its sign-in               *)
(* (pending_profile), whatever accounts are named.                         *)
THEOREM ProfilesAreSound == ProfilesSpec => []ProfilesSound
<1>1. ProfilesInv => OnePending
  BY AtMostOne DEF ProfilesInv, WaitingIsShared, OnePending
<1>2. HomesKept /\ OneOwner /\ AccountsKept /\ OnePending => ProfilesSound
  BY DEF ProfilesSound
<1> QED
  BY <1>1, <1>2, HomesAndAccountsAreKept, ProfilesInvariant, PTL
-----------------------------------------------------------------------------
(* What others own, as MCParts runs imports and migrations.                *)
LEMMA OwnersRest ==
  ASSUME [PartsNext]_allPartsVars
  PROVE  [MigrationsNext]_migrationVars /\ [ImportNext]_importVars
<1>1. CASE UNCHANGED allPartsVars
  BY <1>1, SMTT(60) DEF allPartsVars
<1>2. CASE PartsNext
  BY <1>2 DEF PartsNext, OthersRest
<1> QED
  BY <1>1, <1>2

(* Whichever part of the daemon runs, it neither changes the tables, owner *)
(* or version of a database of somebody else's (migrate) nor takes away a  *)
(* file that no import wrote (cleanup_stale_replace_paths).                *)
THEOREM StrangersAreKept == PartsSpec => StrangersKept
<1>1. PartsInit => MigrationsInit /\ ImportInit
  BY DEF PartsInit
<1>2. [PartsNext]_allPartsVars => [MigrationsNext]_migrationVars /\ [ImportNext]_importVars
  BY OwnersRest
<1>3. PartsSpec => MigrationsSpec /\ ImportSpec
  BY <1>1, <1>2, PTL DEF PartsSpec, MigrationsSpec, ImportSpec
<1> QED
  BY <1>3, ForeignTablesAreKept, ForeignFilesAreKept, PTL DEF StrangersKept
=============================================================================
