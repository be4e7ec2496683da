--------------------------- MODULE RefreshService ---------------------------
(***************************************************************************)
(* What the refresh coordinator promises its clients                       *)
(* (docs/api/refresh-jobs.md), with no registry, lock or task in sight:    *)
(* an accepted job ends and its end is final; a provider is called by at   *)
(* most one flight at a time; a completed job reports only accounts it has *)
(* already listed as discovered.                                           *)
(***************************************************************************)
EXTENDS Naturals

CONSTANTS Providers, Accounts, Jobs

VARIABLES
  phase,    \* of each job: "none", "pending", "completed", "failed"
  listed,   \* the accounts a poller of the job is shown
  reported, \* the accounts in the job's results
  calls     \* flights calling each provider

vars == <<phase, listed, reported, calls>>

Init ==
  /\ phase    = [j \in Jobs |-> "none"]
  /\ listed   = [j \in Jobs |-> {}]
  /\ reported = [j \in Jobs |-> {}]
  /\ calls    = [p \in Providers |-> 0]

Accept(j) ==
  /\ phase[j] = "none"
  /\ phase' = [phase EXCEPT ![j] = "pending"]
  /\ UNCHANGED <<listed, reported, calls>>

(* The listing of a job that exists may grow at any time, even late.       *)
List(j, accounts) ==
  /\ phase[j] # "none"
  /\ listed' = [listed EXCEPT ![j] = @ \union accounts]
  /\ UNCHANGED <<phase, reported, calls>>

Call(p) ==
  /\ calls[p] = 0
  /\ calls' = [calls EXCEPT ![p] = 1]
  /\ UNCHANGED <<phase, listed, reported>>

Return(p) ==
  /\ calls[p] = 1
  /\ calls' = [calls EXCEPT ![p] = 0]
  /\ UNCHANGED <<phase, listed, reported>>

Complete(j, accounts) ==
  /\ phase[j] = "pending"
  /\ accounts \subseteq listed[j]
  /\ phase' = [phase EXCEPT ![j] = "completed"]
  /\ reported' = [reported EXCEPT ![j] = accounts]
  /\ UNCHANGED <<listed, calls>>

Fail(j) ==
  /\ phase[j] = "pending"
  /\ phase' = [phase EXCEPT ![j] = "failed"]
  /\ UNCHANGED <<listed, reported, calls>>

End(j) == Fail(j) \/ \E accounts \in SUBSET Accounts : Complete(j, accounts)

Next ==
  \/ \E j \in Jobs : Accept(j) \/ End(j) \/ \E accounts \in SUBSET Accounts : List(j, accounts)
  \/ \E p \in Providers : Call(p) \/ Return(p)

Spec == Init /\ [][Next]_vars

(* Every accepted job ends, and a provider's call returns.                 *)
FairSpec ==
  /\ Spec
  /\ \A j \in Jobs : WF_vars(End(j))
  /\ \A p \in Providers : WF_vars(Return(p))
=============================================================================
