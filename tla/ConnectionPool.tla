--------------------------- MODULE ConnectionPool ---------------------------
(***************************************************************************)
(* The pool of SQLite connections (ConnectionPool in                       *)
(* usage-daemon/src/storage.rs): permits, connections, operations that     *)
(* panic, connections that cannot be reopened, and callers aborted by the  *)
(* shutdown while their operation goes on.  The writer is a pool of one.   *)
(***************************************************************************)
EXTENDS Integers, FiniteSets

CONSTANTS
  Borrowers,  \* the callers of execute
  PoolSize    \* 1 for the writer, READ_POOL_SIZE for the readers

ASSUME ConnectionPoolAssumption == IsFiniteSet(Borrowers) /\ PoolSize \in Nat \ {0}

VARIABLES
  borrower,  \* where each caller is
  permits,   \* of the semaphore
  idle,      \* connections in the pool
  orphans,   \* operations that outlived their caller
  lost       \* history: connections dropped and not reopened

poolVars == <<borrower, permits, idle, orphans, lost>>

In(pc) == {b \in Borrowers : borrower[b] = pc}
Goes(b, pc) == borrower' = [borrower EXCEPT ![b] = pc]

PoolInit ==
  /\ borrower = [b \in Borrowers |-> "out"]
  /\ permits = PoolSize /\ idle = PoolSize
  /\ orphans = 0 /\ lost = 0

Execute(b) ==
  /\ borrower[b] = "out"
  /\ Goes(b, "waiting")
  /\ UNCHANGED <<permits, idle, orphans, lost>>

Acquire(b) ==
  /\ borrower[b] = "waiting" /\ permits > 0
  /\ Goes(b, "granted") /\ permits' = permits - 1
  /\ UNCHANGED <<idle, orphans, lost>>

Checkout(b) ==
  /\ borrower[b] = "granted" /\ idle > 0
  /\ Goes(b, "running") /\ idle' = idle - 1
  /\ UNCHANGED <<permits, orphans, lost>>

(* No connection is left: another one is opened, or the call fails.        *)
Reopen(b) ==
  /\ borrower[b] = "granted" /\ idle = 0
  /\ \/ Goes(b, "running") /\ lost' = lost - 1
     \/ Goes(b, "leaving") /\ UNCHANGED lost
  /\ UNCHANGED <<permits, idle, orphans>>

(* The operation returns and its connection goes back before the permit.   *)
Checkin(b) ==
  /\ borrower[b] = "running"
  /\ Goes(b, "leaving") /\ idle' = idle + 1
  /\ UNCHANGED <<permits, orphans, lost>>

(* Mutant: what the panic took is not replaced and keeps the permit.       *)
PanicWithPermit(b) ==
  /\ borrower[b] = "running"
  /\ Goes(b, "out") /\ lost' = lost + 1
  /\ UNCHANGED <<permits, idle, orphans>>

(* The operation panics and drops its connection; another one is opened if *)
(* that is possible.                                                       *)
Panic(b) ==
  /\ borrower[b] = "running"
  /\ Goes(b, "leaving")
  /\ \/ idle' = idle + 1 /\ UNCHANGED lost
     \/ lost' = lost + 1 /\ UNCHANGED idle
  /\ UNCHANGED <<permits, orphans>>

Leave(b) ==
  /\ borrower[b] = "leaving"
  /\ Goes(b, "out") /\ permits' = permits + 1
  /\ UNCHANGED <<idle, orphans, lost>>

(* The shutdown aborts a caller where it waits: the permit comes back, the *)
(* operation goes on with its connection.                                  *)
Abort(b) ==
  /\ \/ /\ borrower[b] = "waiting"
        /\ UNCHANGED <<permits, orphans, lost>>
     \/ /\ borrower[b] = "running"
        /\ permits' = permits + 1 /\ orphans' = orphans + 1 /\ lost' = lost + 1
  /\ Goes(b, "aborted")
  /\ UNCHANGED idle

OrphanEnds ==
  /\ orphans > 0
  /\ orphans' = orphans - 1
  /\ UNCHANGED <<borrower, permits, idle, lost>>

PoolNext ==
  \/ OrphanEnds
  \/ \E b \in Borrowers :
       \/ Execute(b) \/ Acquire(b) \/ Checkout(b) \/ Reopen(b)
       \/ Checkin(b) \/ Panic(b) \/ Leave(b) \/ Abort(b)

PoolSpec == PoolInit /\ [][PoolNext]_poolVars
-----------------------------------------------------------------------------
PoolTypeOK ==
  /\ borrower \in [Borrowers -> {"out", "waiting", "granted", "running", "leaving", "aborted"}]
  /\ permits \in 0 .. PoolSize /\ idle \in 0 .. PoolSize
  /\ orphans \in Nat /\ lost \in Nat

Holders == In("granted") \union In("running") \union In("leaving")

(* "The permit guarantees an idle connection": as long as no connection    *)
(* was lost, a caller with a permit finds one, and however many were lost, *)
(* reopening never leaves more than the pool's size.  No permit is lost,   *)
(* whatever panicked, could not be reopened or was aborted: whoever waits  *)
(* while there is none waits for somebody who returns one (execute).       *)
PermitGuaranteesConnection ==
  /\ Cardinality(In("granted")) + permits <= idle + lost
  /\ idle + Cardinality(In("running")) + lost = PoolSize
  /\ permits + Cardinality(Holders) = PoolSize
=============================================================================
