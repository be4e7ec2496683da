---------------------------- MODULE ServicesProofs ----------------------------
(***************************************************************************)
(* Proofs about the services of the daemon that never end: that one flight *)
(* neither loses nor doubles an account (AccountCollection); that a permit *)
(* of the storage's pool guarantees a connection; that the socket's slots  *)
(* and answers are accounted for; that polling is neither early nor late;  *)
(* that a change of a local log is covered until it is stored; that        *)
(* whichever of the loops runs keeps what the services run checks          *)
(* (LoopsSound); and that the history of usage agrees with its days and    *)
(* totals (UsageEvents).                                                   *)
(***************************************************************************)
EXTENDS MCServices, ConnectionPool, UsageEvents,
        SequenceTheorems, FiniteSetTheorems, FunctionTheorems, WellFoundedInduction, TLAPS

(* The collection of accounts, for any profiles, ids, identities and       *)
(* backoff ladder, with storage faults and crashes.                        *)
USE DEF Account, Target

(* The rung a rate limit ends up on exists, and so does its wait.          *)
LEMMA LadderTyped ==
  ASSUME TypeOK, NEW i \in Ids, NEW n \in NextFailures(i)
  PROVE  n \in 1 .. Len(Ladder) /\ Ladder[n] \in Nat
PROOF
  <1>1. Ladder \in Seq(Nat) /\ Len(Ladder) \in Nat \ {0}
    BY ConstantsAssumption DEF ConstantsAssumption
  <1>2. failures[i] \in 0 .. Len(Ladder)
    BY DEF TypeOK
  <1>3. LastRung(failures[i] + 1) \in 1 .. Len(Ladder) /\ 1 \in 1 .. Len(Ladder)
    BY <1>1, <1>2 DEF LastRung
  <1>4. n \in 1 .. Len(Ladder)
    BY <1>3 DEF NextFailures
  <1> QED
    BY <1>1, <1>4

(* A rate limit keeps the types of the backoff table.                      *)
LEMMA LimitRateTyped ==
  ASSUME TypeOK, NEW i \in Ids, LimitRate(i)
  PROVE  /\ failures' \in [Ids -> 0 .. Len(Ladder)]
         /\ wait' \in [Ids -> Nat]
         /\ \E n \in 1 .. Len(Ladder) : failures' = [failures EXCEPT ![i] = n]
PROOF
  <1>1. PICK n \in NextFailures(i) :
          /\ failures' = [failures EXCEPT ![i] = n]
          /\ \E ticks \in {Ladder[n]} \union (Ladder[n] .. MaxRetryAfter) :
               wait' = [wait EXCEPT ![i] = ticks]
    BY DEF LimitRate
  <1>2. n \in 1 .. Len(Ladder) /\ Ladder[n] \in Nat
    BY LadderTyped
  <1>3. Len(Ladder) \in Nat /\ MaxRetryAfter \in Nat
    BY ConstantsAssumption DEF ConstantsAssumption
  <1>4. failures' \in [Ids -> 0 .. Len(Ladder)]
    BY <1>1, <1>2, <1>3 DEF TypeOK
  <1>5. PICK ticks \in {Ladder[n]} \union (Ladder[n] .. MaxRetryAfter) :
          wait' = [wait EXCEPT ![i] = ticks]
    BY <1>1
  <1>6. ticks \in Nat
    BY <1>2, <1>3
  <1>7. wait' \in [Ids -> Nat]
    BY <1>5, <1>6 DEF TypeOK
  <1> QED
    BY <1>1, <1>2, <1>4, <1>7

(* Clearing a backoff keeps the types of the table.                        *)
LEMMA ClearTyped ==
  ASSUME TypeOK, NEW i
  PROVE  /\ [failures EXCEPT ![i] = 0] \in [Ids -> 0 .. Len(Ladder)]
         /\ [wait EXCEPT ![i] = 0] \in [Ids -> Nat]
PROOF
  <1>1. Len(Ladder) \in Nat
    BY ConstantsAssumption DEF ConstantsAssumption
  <1>2. 0 \in 0 .. Len(Ladder)
    BY <1>1
  <1>3. failures \in [Ids -> 0 .. Len(Ladder)] /\ wait \in [Ids -> Nat]
    BY DEF TypeOK
  <1>4. [failures EXCEPT ![i] = 0] \in [Ids -> 0 .. Len(Ladder)]
    BY <1>2, <1>3
  <1> QED
    BY <1>3, <1>4

(* The id of a stored row is an id.                                        *)
LEMMA StoredIsId ==
  ASSUME TypeOK, NEW i, Stored(i)
  PROVE  i \in Ids
PROOF
  BY DEF TypeOK, Stored, Rows

(* Types and the copies that futures and deletions hold, initially.        *)
LEMMA InitTyped == Init => TypeOK /\ CopiesHeld
PROOF
  <1> SUFFICES ASSUME Init PROVE TypeOK /\ CopiesHeld
    OBVIOUS
  <1>1. Len(Ladder) \in Nat
    BY ConstantsAssumption DEF ConstantsAssumption
  <1>2. TypeOK
    BY <1>1 DEF Init, TypeOK
  <1>3. CopiesHeld
    BY DEF Init, CopiesHeld
  <1> QED
    BY <1>2, <1>3

Steady == TypeOK /\ CopiesHeld

(* The steps of the flight as a whole keep types and copies.               *)
LEMMA FlightTyped ==
  ASSUME Steady,
         BeginFlight \/ (\E bad \in SUBSET Profiles : Discover(bad)) \/ AbortFlight \/ FinishCollecting
           \/ (\E p \in Profiles : RecordDiscoveryFailure(p)) \/ EndFlight
  PROVE  Steady'
PROOF
  <1> USE DEF Steady, TypeOK, CopiesHeld, dbVars, flightVars, adminVars, UpsertHealth
  <1>1. CASE BeginFlight
    BY <1>1 DEF BeginFlight
  <1>2. CASE \E bad \in SUBSET Profiles : Discover(bad)
    BY <1>2 DEF Discover
  <1>3. CASE AbortFlight
    BY <1>3 DEF AbortFlight
  <1>4. CASE FinishCollecting
    BY <1>4 DEF FinishCollecting
  <1>5. CASE \E p \in Profiles : RecordDiscoveryFailure(p)
    BY <1>5, ZenonT(60) DEF RecordDiscoveryFailure
  <1>6. CASE EndFlight
    BY <1>6 DEF EndFlight
  <1> QED
    BY <1>1, <1>2, <1>3, <1>4, <1>5, <1>6

(* The steps of one account keep types and copies.                         *)
LEMMA AccountTyped ==
  ASSUME Steady, NEW p \in Profiles, AccountStep(p)
  PROVE  Steady'
PROOF
  <1> USE DEF Steady, TypeOK, CopiesHeld, dbVars, flightVars, adminVars, UpsertHealth
  <1>0. Len(Ladder) \in Nat
    BY ConstantsAssumption DEF ConstantsAssumption
  <1>1. CASE UpsertAccount(p)
    BY <1>1, NoAccountAssumption, SMTT(60) DEF UpsertAccount
  <1>2. CASE RejectAccount(p)
    BY <1>2 DEF RejectAccount
  <1>3. CASE ClearPaused(p)
    <2>1. failures' \in [Ids -> 0 .. Len(Ladder)] /\ wait' \in [Ids -> Nat]
      <3>1. \/ failures' = [failures EXCEPT ![copy[p].id] = 0] /\ wait' = [wait EXCEPT ![copy[p].id] = 0]
            \/ UNCHANGED <<failures, wait>>
        BY <1>3 DEF ClearPaused
      <3>2. failures \in [Ids -> 0 .. Len(Ladder)] /\ wait \in [Ids -> Nat]
        OBVIOUS
      <3>3. CASE failures' = [failures EXCEPT ![copy[p].id] = 0] /\ wait' = [wait EXCEPT ![copy[p].id] = 0]
        BY <3>3, ClearTyped
      <3>4. CASE UNCHANGED <<failures, wait>>
        BY <3>2, <3>4
      <3> QED
        BY <3>1, <3>3, <3>4
    <2>2. at' = [at EXCEPT ![p] = "paused"] /\ at[p] = "stored"
          /\ UNCHANGED <<login, accounts, used, usage, health, config, deletion, target, previous,
                         flight, seen, copy, failed, listed>>
      BY <1>3 DEF ClearPaused
    <2> QED
      BY <2>1, <2>2
  <1>4. CASE RecordDisabled(p)
    BY <1>4 DEF RecordDisabled
  <1>5. CASE CheckBackoff(p)
    BY <1>5 DEF CheckBackoff
  <1>6. CASE RecordBackingOff(p)
    BY <1>6 DEF RecordBackingOff
  <1>7. ASSUME NEW outcome \in {"clear", "preserve", "set"}, Collect(p, outcome)
        PROVE  Steady'
    <2> DEFINE i == copy[p].id
    <2>1. i \in Ids
      BY <1>7, StoredIsId DEF Collect, References
    <2>2. failures' \in [Ids -> 0 .. Len(Ladder)] /\ wait' \in [Ids -> Nat]
      <3>1. CASE outcome = "set"
        BY <1>7, <2>1, <3>1, LimitRateTyped DEF Collect
      <3>2. CASE outcome = "clear"
        <4>1. failures' = [failures EXCEPT ![i] = 0] /\ wait' = [wait EXCEPT ![i] = 0]
          BY <1>7, <3>2 DEF Collect
        <4> QED
          BY <4>1, ClearTyped
      <3>3. CASE outcome = "preserve"
        BY <1>7, <3>3 DEF Collect
      <3> QED
        BY <1>7, <3>1, <3>2, <3>3
    <2>3. health' \in [Ids -> {"none", "ok", "disabled", "backing_off", "error"}] /\ usage' \in SUBSET Ids
      BY <1>7, <2>1 DEF Collect
    <2>4. at' = [at EXCEPT ![p] = "done"]
          /\ UNCHANGED <<login, accounts, used, config, deletion, target, previous, flight, seen, copy, failed, listed>>
      BY <1>7 DEF Collect
    <2> QED
      BY <2>2, <2>3, <2>4
  <1>8. CASE LoseCollection(p)
    BY <1>8 DEF LoseCollection
  <1>9. CASE NoteRateLimit(p)
    <2>1. failures' \in [Ids -> 0 .. Len(Ladder)] /\ wait' \in [Ids -> Nat]
      BY <1>9, StoredIsId, LimitRateTyped DEF NoteRateLimit, References
    <2>2. at' = [at EXCEPT ![p] = "rejected"] /\ at[p] = "calling"
          /\ UNCHANGED <<login, accounts, used, usage, health, config, deletion, target, previous,
                         flight, seen, copy, failed, listed>>
      BY <1>9 DEF NoteRateLimit
    <2> QED
      BY <2>1, <2>2
  <1>10. CASE RecordFailure(p)
    BY <1>10 DEF RecordFailure
  <1> QED
    BY <1>1, <1>2, <1>3, <1>4, <1>5, <1>6, <1>7, <1>8, <1>9, <1>10 DEF AccountStep

(* Administration, sign-ins, time and crashes keep types and copies.       *)
LEMMA AdministrationTyped ==
  ASSUME Steady,
         Administration \/ (\E p \in Profiles, external \in Externals : SignIn(p, external)) \/ Tick \/ Crash
  PROVE  Steady'
PROOF
  <1> USE DEF Steady, TypeOK, CopiesHeld, dbVars, flightVars, adminVars
  <1>1. ASSUME NEW p \in Profiles, NEW enabled \in BOOLEAN, SetEnabled(p, enabled)
        PROVE  Steady'
    <2>1. accounts' \in [Profiles -> Account \union {NoAccount}]
      <3>1. accounts[p] \in Account
        BY <1>1 DEF SetEnabled, Rows
      <3>2. [accounts[p] EXCEPT !.enabled = enabled] \in Account
        BY <3>1
      <3>3. accounts' = [accounts EXCEPT ![p] = [accounts[p] EXCEPT !.enabled = enabled]]
        BY <1>1 DEF SetEnabled
      <3> QED
        BY <3>2, <3>3
    <2> QED
      BY <1>1, <2>1 DEF SetEnabled
  <1>2. ASSUME NEW d \in Deleters, NEW p \in Profiles, LookUpAccount(d, p)
        PROVE  Steady'
    <2>1. target' \in [Deleters -> Target \union {NoAccount}]
      BY <1>2 DEF LookUpAccount, Rows
    <2>2. target'[d] # NoAccount
      BY <1>2, NoAccountAssumption DEF LookUpAccount, Rows
    <2> QED
      BY <1>2, <2>1, <2>2 DEF LookUpAccount
  <1>3. ASSUME NEW d \in Deleters, TombstoneProfile(d)
        PROVE  Steady'
    BY <1>3 DEF TombstoneProfile
  <1>4. ASSUME NEW d \in Deleters, AbandonDeletion(d)
        PROVE  Steady'
    BY <1>4 DEF AbandonDeletion, EndDeletion
  <1>5. ASSUME NEW d \in Deleters, DeleteRow(d)
        PROVE  Steady'
    <2>1. failures' \in [Ids -> 0 .. Len(Ladder)] /\ wait' \in [Ids -> Nat]
      BY <1>5, ClearTyped DEF DeleteRow
    <2>2. accounts' \in [Profiles -> Account \union {NoAccount}]
      BY <1>5 DEF DeleteRow
    <2> QED
      BY <1>5, <2>1, <2>2 DEF DeleteRow, EndDeletion
  <1>6. ASSUME NEW d \in Deleters, RollBackDeletion(d)
        PROVE  Steady'
    BY <1>6 DEF RollBackDeletion, EndDeletion
  <1>7. ASSUME NEW p \in Profiles, AddProfile(p)
        PROVE  Steady'
    BY <1>7 DEF AddProfile
  <1>8. CASE \E p \in Profiles, external \in Externals : SignIn(p, external)
    BY <1>8 DEF SignIn
  <1>9. CASE Tick
    BY <1>9 DEF Tick
  <1>10. CASE Crash
    BY <1>10 DEF Crash
  <1> QED
    BY <1>1, <1>2, <1>3, <1>4, <1>5, <1>6, <1>7, <1>8, <1>9, <1>10 DEF Administration, DeletionStep

(* Types and copies are invariant.                                         *)
LEMMA StepTyped == Steady /\ [Next]_vars => Steady'
PROOF
  <1> SUFFICES ASSUME Steady, [Next]_vars PROVE Steady'
    OBVIOUS
  <1>1. CASE UNCHANGED vars
    BY <1>1 DEF vars, dbVars, flightVars, adminVars, Steady, TypeOK, CopiesHeld
  <1>2. CASE Next
    BY <1>2, FlightTyped, AccountTyped, AdministrationTyped DEF Next, FlightStep
  <1> QED
    BY <1>1, <1>2

THEOREM TypeCorrect == Spec => []TypeOK
PROOF
  <1>1. Init => Steady
    BY InitTyped DEF Steady
  <1>2. Steady => TypeOK
    BY DEF Steady
  <1> QED
    BY <1>1, <1>2, StepTyped, PTL DEF Spec
-----------------------------------------------------------------------------
(* Rows, history and the ledger.                                           *)

Books == RowsDistinct /\ HistoryStored /\ UsageBacksHealth
LedgerStep == [Ledger!Next]_(Ledger!vars)

life == [i \in Ids |-> IF Stored(i) THEN "open" ELSE IF i \in used THEN "closed" ELSE "unborn"]
limited == {i \in Ids : failures[i] > 0}

(* With the same rows the same ids are stored.                             *)
LEMMA StoredSame ==
  ASSUME UNCHANGED accounts
  PROVE  /\ Rows' = Rows
         /\ \A i : Stored(i)' <=> Stored(i)
PROOF
  BY DEF Stored, Rows

(* A step that touches no row and no usage, and adds neither a backoff nor *)
(* an ok, keeps the books.                                                 *)
LEMMA QuietBooks ==
  ASSUME Books, UNCHANGED <<accounts, used, usage>>,
         \A i \in Ids : failures'[i] > 0 => failures[i] > 0,
         \A i \in Ids : health'[i] = "ok" => health[i] = "ok"
  PROVE  Books'
PROOF
  <1>1. RowsDistinct'
    BY StoredSame DEF Books, RowsDistinct
  <1>2. HistoryStored'
    BY StoredSame DEF Books, HistoryStored
  <1>3. UsageBacksHealth'
    BY StoredSame DEF Books, UsageBacksHealth
  <1> QED
    BY <1>1, <1>2, <1>3 DEF Books

(* ... and the ledger sees nothing, or a backoff forgotten.                *)
LEMMA QuietLedger ==
  ASSUME TypeOK, UNCHANGED <<accounts, used, usage>>,
         failures' = failures \/ \E i \in Ids : failures' = [failures EXCEPT ![i] = 0]
  PROVE  LedgerStep
PROOF
  <1>1. life' = life
    BY StoredSame DEF life
  <1>2. CASE failures' = failures
    <2>1. limited' = limited
      BY <1>2 DEF limited
    <2> QED
      BY <1>1, <2>1 DEF LedgerStep, Ledger!vars, life, limited
  <1>3. ASSUME NEW i \in Ids, failures' = [failures EXCEPT ![i] = 0]
        PROVE  LedgerStep
    <2>1. \A k \in Ids : failures'[k] = IF k = i THEN 0 ELSE failures[k]
      BY <1>3 DEF TypeOK
    <2>2. limited' = limited \ {i}
      BY <2>1 DEF limited
    <2>3. Ledger!Forget(i)
      BY <1>1, <2>2 DEF Ledger!Forget, life, limited
    <2> QED
      BY <2>3 DEF LedgerStep, Ledger!Next
  <1> QED
    BY <1>2, <1>3

(* A stored account records usage, a rate limit, or both.                  *)
LEMMA RecordLedger ==
  ASSUME TypeOK, NEW i \in Ids, Stored(i), UNCHANGED <<accounts, used>>,
         usage' \in {usage, usage \union {i}},
         failures' \in [Ids -> 0 .. Len(Ladder)],
         \A k \in Ids \ {i} : failures'[k] = failures[k]
  PROVE  LedgerStep
PROOF
  <1>1. life' = life /\ life[i] = "open"
    BY StoredSame DEF life
  <1>2. limited' \in {limited, limited \ {i}, limited \union {i}}
    <2>1. CASE failures'[i] > 0
      <3>1. limited' = limited \union {i}
        BY <2>1 DEF limited
      <3> QED
        BY <3>1
    <2>2. CASE ~(failures'[i] > 0)
      <3>1. limited' = limited \ {i}
        BY <2>2 DEF limited
      <3> QED
        BY <3>1
    <2> QED
      BY <2>1, <2>2
  <1>3. Ledger!Record(i)
    BY <1>1, <1>2 DEF Ledger!Record, life, limited
  <1> QED
    BY <1>3 DEF LedgerStep, Ledger!Next

(* upsert_account keeps a row's id or opens a new one.                     *)
LEMMA UpsertKeeps ==
  ASSUME TypeOK, Books, NEW p \in Profiles, UpsertAccount(p)
  PROVE  Books' /\ LedgerStep
PROOF
  <1>1. PICK row \in Account :
          /\ IF p \in Rows THEN row.id = accounts[p].id /\ row.enabled = accounts[p].enabled
                           ELSE NewId(row.id) /\ row.enabled
          /\ accounts' = [accounts EXCEPT ![p] = row]
          /\ used' = used \union {row.id}
    BY DEF UpsertAccount
  <1>2. UNCHANGED <<usage, health, failures>>
    BY DEF UpsertAccount
  <1>3. Rows' = Rows \union {p}
    BY <1>1, NoAccountAssumption DEF TypeOK, Rows
  <1>4. \A q \in Rows' : accounts'[q].id = IF q = p THEN row.id ELSE accounts[q].id
    BY <1>1, <1>3 DEF TypeOK, Rows
  <1>5. row.id \in Ids
    BY <1>1
  <1>6. CASE p \in Rows
    <2>1. Rows' = Rows /\ \A q \in Rows : accounts'[q].id = accounts[q].id
      BY <1>1, <1>3, <1>4, <1>6
    <2>2. used' = used
      BY <1>1, <1>6 DEF Books, RowsDistinct
    <2>3. \A i : Stored(i)' <=> Stored(i)
      BY <2>1 DEF Stored
    <2>4. Books'
      BY <1>2, <2>1, <2>2, <2>3 DEF Books, RowsDistinct, HistoryStored, UsageBacksHealth
    <2>5. life' = life /\ limited' = limited
      BY <1>2, <2>2, <2>3 DEF life, limited
    <2> QED
      BY <1>2, <2>4, <2>5 DEF LedgerStep, Ledger!vars, life, limited
  <1>7. CASE p \notin Rows
    <2>1. row.id \notin used
      BY <1>1, <1>7 DEF NewId
    <2>2. ~Stored(row.id)
      BY <2>1 DEF Stored, Books, RowsDistinct
    <2>3. \A i : Stored(i)' <=> Stored(i) \/ i = row.id
      BY <1>3, <1>4, <1>7 DEF Stored
    <2>4. RowsDistinct'
      BY <1>1, <1>3, <1>4, <1>7, <2>1 DEF Books, RowsDistinct
    <2>5. Books'
      BY <1>2, <2>3, <2>4 DEF Books, HistoryStored, UsageBacksHealth
    <2>6. life[row.id] = "unborn"
      BY <1>5, <2>1, <2>2 DEF life
    <2>7. life' = [life EXCEPT ![row.id] = "open"]
      BY <1>1, <1>5, <2>3 DEF life
    <2>8. limited' = limited
      BY <1>2 DEF limited
    <2>9. Ledger!Open(row.id)
      BY <1>2, <2>6, <2>7, <2>8 DEF Ledger!Open, life, limited
    <2> QED
      BY <1>5, <2>5, <2>9 DEF LedgerStep, Ledger!Next
  <1> QED
    BY <1>6, <1>7

(* A collection is recorded for a stored account, its ok on top of usage.  *)
LEMMA CollectKeeps ==
  ASSUME TypeOK, Books, NEW p \in Profiles, NEW outcome \in {"clear", "preserve", "set"}, Collect(p, outcome)
  PROVE  Books' /\ LedgerStep
PROOF
  <1> DEFINE i == copy[p].id
  <1>1. Stored(i) /\ i \in Ids
    BY StoredIsId DEF Collect, References
  <1>2. UNCHANGED <<accounts, used>> /\ usage' = usage \union {i}
    BY DEF Collect
  <1>3. failures' \in [Ids -> 0 .. Len(Ladder)] /\ \A k \in Ids \ {i} : failures'[k] = failures[k]
    <2>1. CASE outcome = "set"
      <3>1. LimitRate(i)
        BY <2>1 DEF Collect
      <3> QED
        BY <1>1, <3>1, LimitRateTyped DEF TypeOK
    <2>2. CASE outcome = "clear"
      <3>1. failures' = [failures EXCEPT ![i] = 0]
        BY <2>2 DEF Collect
      <3> QED
        BY <3>1, ClearTyped DEF TypeOK
    <2>3. CASE outcome = "preserve"
      BY <2>3 DEF Collect, TypeOK
    <2> QED
      BY <2>1, <2>2, <2>3
  <1>4. LedgerStep
    BY <1>1, <1>2, <1>3, RecordLedger
  <1>5. RowsDistinct'
    BY <1>2, StoredSame DEF Books, RowsDistinct
  <1>6. HistoryStored'
    BY <1>1, <1>2, <1>3, StoredSame DEF Books, HistoryStored
  <1>7. \A k \in Ids \ {i} : health'[k] = health[k]
    BY DEF Collect, TypeOK
  <1>8. UsageBacksHealth'
    BY <1>1, <1>2, <1>7, StoredSame DEF Books, UsageBacksHealth
  <1> QED
    BY <1>4, <1>5, <1>6, <1>8 DEF Books

(* A rate limit is noted for a stored account, or not at all.              *)
LEMMA NoteKeeps ==
  ASSUME TypeOK, Books, NEW p \in Profiles, NoteRateLimit(p)
  PROVE  Books' /\ LedgerStep
PROOF
  <1> DEFINE i == copy[p].id
  <1>1. UNCHANGED <<accounts, used, usage, health>>
    BY DEF NoteRateLimit
  <1>2. CASE References(i) /\ LimitRate(i)
    <2>1. Stored(i) /\ i \in Ids
      BY <1>2, StoredIsId DEF References
    <2>2. failures' \in [Ids -> 0 .. Len(Ladder)] /\ \A k \in Ids \ {i} : failures'[k] = failures[k]
      BY <1>2, <2>1, LimitRateTyped DEF TypeOK
    <2>3. LedgerStep
      BY <1>1, <2>1, <2>2, RecordLedger
    <2>4. RowsDistinct' /\ UsageBacksHealth'
      BY <1>1, StoredSame DEF Books, RowsDistinct, UsageBacksHealth
    <2>5. HistoryStored'
      BY <1>1, <2>1, <2>2, StoredSame DEF Books, HistoryStored
    <2> QED
      BY <2>3, <2>4, <2>5 DEF Books
  <1>3. CASE failures' = failures
    BY <1>1, <1>3, QuietBooks, QuietLedger
  <1> QED
    BY <1>2, <1>3 DEF NoteRateLimit

(* Pausing an account changes neither its id nor its history.              *)
LEMMA SetEnabledKeeps ==
  ASSUME TypeOK, Books, NEW p \in Profiles, NEW enabled \in BOOLEAN, SetEnabled(p, enabled)
  PROVE  Books' /\ LedgerStep
PROOF
  <1>1. UNCHANGED <<used, usage, health, failures>>
    BY DEF SetEnabled
  <1>2. accounts[p] \in Account
    BY DEF SetEnabled, Rows, TypeOK
  <1>3. accounts' = [accounts EXCEPT ![p] = [accounts[p] EXCEPT !.enabled = enabled]]
    BY DEF SetEnabled
  <1>4. [accounts[p] EXCEPT !.enabled = enabled] \in Account
        /\ [accounts[p] EXCEPT !.enabled = enabled].id = accounts[p].id
    BY <1>2
  <1>5. Rows' = Rows /\ \A q \in Rows : accounts'[q].id = accounts[q].id
    <2>1. p \in Rows /\ accounts'[p] # NoAccount /\ accounts'[p].id = accounts[p].id
      BY <1>3, <1>4, NoAccountAssumption DEF SetEnabled, TypeOK
    <2>2. \A q \in Profiles \ {p} : accounts'[q] = accounts[q]
      BY <1>3 DEF TypeOK
    <2> QED
      BY <2>1, <2>2 DEF Rows
  <1>6. \A i : Stored(i)' <=> Stored(i)
    BY <1>5 DEF Stored
  <1>7. Books'
    BY <1>1, <1>5, <1>6 DEF Books, RowsDistinct, HistoryStored, UsageBacksHealth
  <1>8. life' = life /\ limited' = limited
    BY <1>1, <1>6 DEF life, limited
  <1> QED
    BY <1>1, <1>7, <1>8 DEF LedgerStep, Ledger!vars, life, limited

(* A deletion takes the row and everything that refers to it.              *)
LEMMA DeleteKeeps ==
  ASSUME TypeOK, Books, NEW d \in Deleters, DeleteRow(d)
  PROVE  Books' /\ LedgerStep
PROOF
  <1>0. Stored(target[d].id) /\ target[d].id \in Ids
    BY StoredIsId DEF DeleteRow
  <1> PICK i \in Ids : i = target[d].id
    BY <1>0
  <1>1. Stored(i)
    BY <1>0
  <1>2. used' = used /\ usage' = usage \ {i}
    BY DEF DeleteRow
  <1>3. \A k \in Ids : /\ health'[k] = IF k = i THEN "none" ELSE health[k]
                       /\ failures'[k] = IF k = i THEN 0 ELSE failures[k]
    BY DEF DeleteRow, TypeOK
  <1>4. Rows' = {q \in Rows : accounts[q].id # i} /\ \A q \in Rows' : accounts'[q] = accounts[q]
    BY DEF DeleteRow, Rows
  <1>5. \A k : Stored(k)' <=> Stored(k) /\ k # i
    BY <1>4 DEF Stored
  <1>6. Books'
    BY <1>2, <1>3, <1>4, <1>5 DEF Books, RowsDistinct, HistoryStored, UsageBacksHealth
  <1>7. i \in used
    BY <1>1 DEF Stored, Books, RowsDistinct
  <1>8. life[i] = "open" /\ life' = [life EXCEPT ![i] = "closed"]
    BY <1>1, <1>2, <1>5, <1>7 DEF life
  <1>9. limited' = limited \ {i}
    BY <1>3 DEF limited
  <1>10. Ledger!Close(i)
    BY <1>2, <1>8, <1>9 DEF Ledger!Close, life, limited
  <1>11. Ledger!Next
    BY <1>10 DEF Ledger!Next
  <1> QED
    BY <1>6, <1>11 DEF LedgerStep

(* Any other write of health is not an ok.                                 *)
LEMMA NoOk ==
  ASSUME TypeOK, NEW i, NEW status \in {"disabled", "backing_off", "error"}, UpsertHealth(i, status)
  PROVE  \A k \in Ids : health'[k] = "ok" => health[k] = "ok"
PROOF
  BY DEF UpsertHealth, TypeOK

(* One account's steps keep the books and the ledger.                      *)
LEMMA AccountKeeps ==
  ASSUME Steady, Books, NEW p \in Profiles, AccountStep(p)
  PROVE  Books' /\ LedgerStep
PROOF
  <1> USE DEF dbVars, adminVars
  <1>0. TypeOK
    BY DEF Steady
  <1>1. CASE UpsertAccount(p)
    BY <1>0, <1>1, UpsertKeeps
  <1>2. CASE RejectAccount(p)
    BY <1>0, <1>2, QuietBooks, QuietLedger DEF RejectAccount
  <1>3. CASE ClearPaused(p)
    <2>1. copy[p].id \in Ids
      BY <1>0, <1>3 DEF ClearPaused, Steady, CopiesHeld, TypeOK
    <2>2. UNCHANGED <<accounts, used, usage, health>>
      BY <1>3 DEF ClearPaused
    <2>3. failures' = failures \/ failures' = [failures EXCEPT ![copy[p].id] = 0]
      BY <1>3 DEF ClearPaused
    <2>4. \A i \in Ids : failures'[i] \in {0, failures[i]}
      BY <1>0, <2>3 DEF TypeOK
    <2>5. \A i \in Ids : failures'[i] > 0 => failures[i] > 0
      BY <2>4
    <2> QED
      BY <1>0, <2>1, <2>2, <2>3, <2>5, QuietBooks, QuietLedger
  <1>4. CASE RecordDisabled(p)
    BY <1>0, <1>4, NoOk, QuietBooks, QuietLedger DEF RecordDisabled
  <1>5. CASE CheckBackoff(p)
    BY <1>0, <1>5, QuietBooks, QuietLedger DEF CheckBackoff
  <1>6. CASE RecordBackingOff(p)
    BY <1>0, <1>6, NoOk, QuietBooks, QuietLedger DEF RecordBackingOff
  <1>7. CASE \E outcome \in {"clear", "preserve", "set"} : Collect(p, outcome)
    BY <1>0, <1>7, CollectKeeps
  <1>8. CASE LoseCollection(p)
    BY <1>0, <1>8, QuietBooks, QuietLedger DEF LoseCollection
  <1>9. CASE NoteRateLimit(p)
    BY <1>0, <1>9, NoteKeeps
  <1>10. CASE RecordFailure(p)
    <2>1. \A k \in Ids : health'[k] = "ok" => health[k] = "ok"
      BY <1>0, <1>10, NoOk DEF RecordFailure
    <2> QED
      BY <1>0, <1>10, <2>1, QuietBooks, QuietLedger DEF RecordFailure
  <1> QED
    BY <1>1, <1>2, <1>3, <1>4, <1>5, <1>6, <1>7, <1>8, <1>9, <1>10 DEF AccountStep

(* Every step keeps the books and is a step of the ledger, or none.        *)
LEMMA StepKeeps == Steady /\ Books /\ [Next]_vars => Books' /\ LedgerStep
PROOF
  <1> SUFFICES ASSUME Steady, Books, [Next]_vars PROVE Books' /\ LedgerStep
    OBVIOUS
  <1> USE DEF dbVars, flightVars, adminVars
  <1>0. TypeOK
    BY DEF Steady
  <1>1. CASE UNCHANGED vars
    BY <1>0, <1>1, QuietBooks, QuietLedger DEF vars
  <1>2. CASE BeginFlight \/ AbortFlight \/ FinishCollecting \/ EndFlight \/ \E bad \in SUBSET Profiles : Discover(bad)
    <2>1. UNCHANGED dbVars
      BY <1>2 DEF BeginFlight, AbortFlight, FinishCollecting, EndFlight, Discover
    <2> QED
      BY <1>0, <2>1, QuietBooks, QuietLedger
  <1>3. CASE \E p \in Profiles : AccountStep(p)
    BY <1>3, AccountKeeps
  <1>4. ASSUME NEW p \in Profiles, RecordDiscoveryFailure(p)
        PROVE  Books' /\ LedgerStep
    <2>1. \A k \in Ids : health'[k] = "ok" => health[k] = "ok"
      BY <1>0, <1>4, NoOk DEF RecordDiscoveryFailure
    <2>2. UNCHANGED <<accounts, used, usage, failures>>
      BY <1>4 DEF RecordDiscoveryFailure
    <2> QED
      BY <1>0, <2>1, <2>2, QuietBooks, QuietLedger
  <1>5. CASE Administration
    <2>1. ASSUME NEW p \in Profiles, NEW enabled \in BOOLEAN, SetEnabled(p, enabled)
          PROVE  Books' /\ LedgerStep
      BY <1>0, <2>1, SetEnabledKeeps
    <2>2. ASSUME NEW d \in Deleters, DeleteRow(d)
          PROVE  Books' /\ LedgerStep
      BY <1>0, <2>2, DeleteKeeps
    <2>3. CASE \/ \E d \in Deleters, p \in Profiles : LookUpAccount(d, p)
               \/ \E d \in Deleters : TombstoneProfile(d) \/ AbandonDeletion(d) \/ RollBackDeletion(d)
               \/ \E p \in Profiles : AddProfile(p)
      <3>1. UNCHANGED dbVars
        BY <2>3 DEF LookUpAccount, TombstoneProfile, AbandonDeletion, RollBackDeletion, AddProfile
      <3> QED
        BY <1>0, <3>1, QuietBooks, QuietLedger
    <2> QED
      BY <1>5, <2>1, <2>2, <2>3 DEF Administration, DeletionStep
  <1>6. CASE Tick \/ Crash \/ \E p \in Profiles, external \in Externals : SignIn(p, external)
    <2>1. UNCHANGED <<accounts, used, usage, health, failures>>
      BY <1>6 DEF Tick, Crash, SignIn
    <2> QED
      BY <1>0, <2>1, QuietBooks, QuietLedger
  <1> QED
    BY <1>1, <1>2, <1>3, <1>4, <1>5, <1>6 DEF Next, FlightStep

LEMMA InitBooks == Init => Books /\ Ledger!Init
PROOF
  <1> SUFFICES ASSUME Init PROVE Books /\ Ledger!Init
    OBVIOUS
  <1>1. Rows = {} /\ \A i : ~Stored(i)
    BY DEF Init, Rows, Stored
  <1>2. Books
    BY <1>1 DEF Init, Books, RowsDistinct, HistoryStored, UsageBacksHealth
  <1>3. Ledger!Init
    BY <1>1 DEF Init, Ledger!Init
  <1> QED
    BY <1>2, <1>3

(* The inductive invariant: rows have distinct ids that were handed out,   *)
(* history is stored only with its row, health says ok only with usage.    *)
THEOREM AccountInvariant == Spec => []AccountInv
PROOF
  <1>1. Init => Steady /\ Books
    BY InitTyped, InitBooks DEF Steady
  <1>2. Steady /\ Books /\ [Next]_vars => (Steady /\ Books)'
    BY StepTyped, StepKeeps
  <1>3. Steady /\ Books => AccountInv
    BY DEF Steady, Books, AccountInv
  <1> QED
    BY <1>1, <1>2, <1>3, PTL DEF Spec

(* An account whose health says ok has stored usage, whatever refreshes    *)
(* with older copies of it, deletions and crashes interleave.              *)
THEOREM OkHasUsage == Spec => []UsageBacksHealth
PROOF
  <1>1. AccountInv => UsageBacksHealth
    BY DEF AccountInv
  <1> QED
    BY <1>1, AccountInvariant, PTL

(* The database under flights, pauses, deletions and crashes implements    *)
(* the ledger: history for stored accounts only, gone with the account,    *)
(* and a deleted id never comes back.                                      *)
THEOREM ImplementsLedger == Spec => KeepsLedger
PROOF
  <1>1. Init => Steady /\ Books /\ Ledger!Init
    BY InitTyped, InitBooks DEF Steady
  <1>2. Steady /\ Books /\ [Next]_vars => (Steady /\ Books)' /\ [Ledger!Next]_(Ledger!vars)
    BY StepTyped, StepKeeps DEF LedgerStep
  <1> QED
    BY <1>1, <1>2, PTL DEF Spec, KeepsLedger, Ledger!Spec
-----------------------------------------------------------------------------
(* Who is signed in to the rows.                                           *)

(* Rows change when a future stores one, by a pause, and by a deletion.    *)
LEMMA RowSteps ==
  ASSUME [Next]_vars
  PROVE  \/ UNCHANGED accounts
         \/ \E p \in Profiles : UpsertAccount(p)
         \/ \E p \in Profiles, enabled \in BOOLEAN : SetEnabled(p, enabled)
         \/ \E d \in Deleters : DeleteRow(d)
PROOF
  <1> USE DEF dbVars, flightVars, adminVars
  <1>1. CASE BeginFlight \/ AbortFlight \/ Tick \/ Crash
    BY <1>1 DEF BeginFlight, AbortFlight, Tick, Crash
  <1>2. ASSUME FlightStep, ~\E p \in Profiles : UpsertAccount(p) PROVE UNCHANGED accounts
    BY <1>2 DEF FlightStep, AccountStep, Discover, FinishCollecting, RecordDiscoveryFailure, EndFlight,
       RejectAccount, ClearPaused, RecordDisabled, CheckBackoff, RecordBackingOff,
       Collect, LoseCollection, NoteRateLimit, RecordFailure
  <1>3. ASSUME Administration, ~\E p \in Profiles, enabled \in BOOLEAN : SetEnabled(p, enabled),
               ~\E d \in Deleters : DeleteRow(d)
        PROVE  UNCHANGED accounts
    BY <1>3 DEF Administration, DeletionStep, LookUpAccount, TombstoneProfile, AbandonDeletion,
       RollBackDeletion, AddProfile
  <1>4. ASSUME NEW p \in Profiles, NEW external \in Externals, SignIn(p, external)
        PROVE  UNCHANGED accounts
    BY <1>4 DEF SignIn
  <1>5. CASE UNCHANGED vars
    BY <1>5 DEF vars
  <1> QED
    BY <1>1, <1>2, <1>3, <1>4, <1>5 DEF Next

(* A future stores an identity that no other row has, or the one its row   *)
(* has already.                                                            *)
LEMMA UpsertIsUnique ==
  ASSUME TypeOK, NoSharedIdentity, NEW p \in Profiles, UpsertAccount(p)
  PROVE  NoSharedIdentity'
PROOF
  <1>1. PICK row \in Account : row.external = seen[p] /\ accounts' = [accounts EXCEPT ![p] = row]
    BY DEF UpsertAccount
  <1>2. ~Conflict(p) /\ row # NoAccount
    BY NoAccountAssumption DEF UpsertAccount
  <1>3. \A q \in Profiles : accounts'[q] = IF q = p THEN row ELSE accounts[q]
    BY <1>1 DEF TypeOK
  <1>4. Rows' = Rows \union {p}
    BY <1>2, <1>3 DEF Rows
  <1> SUFFICES ASSUME UniqueExternal, NEW q \in Rows, q # p PROVE accounts[q].external # seen[p]
    <2>1. ASSUME NEW q \in Rows', NEW r \in Rows', accounts'[q].external = accounts'[r].external,
                 UniqueExternal, \A s \in Rows : s # p => accounts[s].external # seen[p]
          PROVE  q = r
      <3>1. q \in Profiles /\ r \in Profiles
        BY DEF Rows
      <3>2. CASE q = p
        BY <1>1, <1>3, <1>4, <2>1, <3>1, <3>2
      <3>3. CASE r = p
        BY <1>1, <1>3, <1>4, <2>1, <3>1, <3>3
      <3>4. CASE q # p /\ r # p
        BY <1>3, <1>4, <2>1, <3>1, <3>4 DEF NoSharedIdentity
      <3> QED
        BY <3>2, <3>3, <3>4
    <2> QED
      BY <2>1 DEF NoSharedIdentity
  <1>5. CASE p \in Rows /\ accounts[p].external = seen[p]
    BY <1>5 DEF NoSharedIdentity
  <1>6. CASE ~(p \in Rows /\ accounts[p].external = seen[p])
    <2>1. p \in Rows => Adopts(accounts[p].external, seen[p])
      BY <1>2, <1>6 DEF Conflict, ProfileChanged
    <2>2. ~Taken(p, seen[p])
      BY <1>2, <2>1 DEF Conflict, DuplicateExternal
    <2> QED
      BY <2>2 DEF Taken
  <1> QED
    BY <1>5, <1>6

(* No two profiles are taken for the same user of the provider, for any    *)
(* number of profiles, identities and flights, with deletions, crashes and *)
(* sign-ins at any point: identities are compared when they are stored.    *)
THEOREM IdentitiesAreDistinct == Spec => []NoSharedIdentity
PROOF
  <1>1. Init => NoSharedIdentity
    BY DEF Init, NoSharedIdentity, Rows
  <1>2. TypeOK /\ NoSharedIdentity /\ [Next]_vars => NoSharedIdentity'
    <2> SUFFICES ASSUME TypeOK, NoSharedIdentity, [Next]_vars PROVE NoSharedIdentity'
      OBVIOUS
    <2>1. CASE UNCHANGED accounts
      BY <2>1 DEF NoSharedIdentity, Rows
    <2>2. ASSUME NEW p \in Profiles, NEW enabled \in BOOLEAN, SetEnabled(p, enabled)
          PROVE  NoSharedIdentity'
      <3>1. p \in Rows /\ accounts' = [accounts EXCEPT ![p].enabled = enabled]
        BY <2>2 DEF SetEnabled
      <3>2. \A q \in Profiles : q # p => accounts'[q] = accounts[q]
        BY <3>1 DEF TypeOK
      <3>3. accounts[p] \in Account
        BY <3>1 DEF TypeOK, Rows
      <3>4. accounts'[p] \in Account /\ accounts'[p].external = accounts[p].external
        BY <3>1, <3>3 DEF TypeOK, Rows
      <3>5. Rows' = Rows
        BY <3>1, <3>2, <3>4, NoAccountAssumption DEF Rows
      <3>6. \A q \in Rows : accounts'[q].external = accounts[q].external
        BY <3>2, <3>4 DEF Rows
      <3> QED
        BY <3>5, <3>6 DEF NoSharedIdentity
    <2>3. ASSUME NEW d \in Deleters, DeleteRow(d) PROVE NoSharedIdentity'
      <3>1. \A q \in Profiles : accounts'[q] \in {NoAccount, accounts[q]}
        BY <2>3 DEF DeleteRow
      <3>2. \A q \in Rows' : q \in Rows /\ accounts'[q] = accounts[q]
        BY <3>1 DEF Rows
      <3> QED
        BY <3>2 DEF NoSharedIdentity
    <2> QED
      BY <2>1, <2>2, <2>3, UpsertIsUnique, RowSteps
  <1> QED
    BY <1>1, <1>2, TypeCorrect, PTL DEF Spec
HIDE DEF Account, Target
-----------------------------------------------------------------------------
(* The pool: every permit is held by somebody or free, and so is every     *)
(* connection, but for those that are lost (ConnectionPool in storage.rs). *)
PoolTypes ==
  /\ borrower \in [Borrowers -> {"out", "waiting", "granted", "running", "leaving", "aborted"}]
  /\ permits \in Nat /\ idle \in Nat /\ orphans \in Nat /\ lost \in Nat

PoolInv ==
  /\ PoolTypes
  /\ permits + Cardinality(In("granted")) + Cardinality(In("running")) + Cardinality(In("leaving")) = PoolSize
  /\ idle + Cardinality(In("running")) + lost = PoolSize

(* The callers at a place can be counted.                                  *)
LEMMA InIsFinite ==
  ASSUME NEW pc
  PROVE  IsFiniteSet(In(pc)) /\ Cardinality(In(pc)) \in Nat
<1>1. IsFiniteSet(Borrowers)
  BY ConnectionPoolAssumption
<1>2. In(pc) \in SUBSET Borrowers
  BY DEF In
<1> QED
  BY <1>1, <1>2, FS_Subset, FS_CardinalityType

(* A caller that moves is counted where it goes and no longer where it was.*)
LEMMA GoesCounts ==
  ASSUME PoolTypes, NEW b \in Borrowers, NEW from, NEW to, NEW pc,
         borrower[b] = from, Goes(b, to), from # to
  PROVE  Cardinality(In(pc))' = IF pc = to THEN Cardinality(In(pc)) + 1
                                ELSE IF pc = from THEN Cardinality(In(pc)) - 1
                                ELSE Cardinality(In(pc))
<1>1. borrower' = [c \in Borrowers |-> IF c = b THEN to ELSE borrower[c]]
  BY DEF Goes, PoolTypes
<1>2. IsFiniteSet(In(pc)) /\ Cardinality(In(pc)) \in Nat
  BY InIsFinite
<1>3. CASE pc = to
  <2>1. In(pc)' = In(pc) \union {b} /\ b \notin In(pc)
    BY <1>1, <1>3 DEF In
  <2> QED
    BY <2>1, <1>2, <1>3, FS_AddElement
<1>4. CASE pc # to /\ pc = from
  <2>1. In(pc)' = In(pc) \ {b} /\ b \in In(pc)
    BY <1>1, <1>4 DEF In
  <2> QED
    BY <2>1, <1>2, <1>4, FS_RemoveElement
<1>5. CASE pc # to /\ pc # from
  <2>1. In(pc)' = In(pc)
    BY <1>1, <1>5 DEF In
  <2> QED
    BY <2>1, <1>5
<1> QED
  BY <1>3, <1>4, <1>5

(* Who runs is at least one, if somebody runs.                             *)
LEMMA SomebodyCounts ==
  ASSUME NEW b \in Borrowers, NEW pc, borrower[b] = pc
  PROVE  Cardinality(In(pc)) >= 1
<1>1. b \in In(pc)
  BY DEF In
<1>2. In(pc) # {}
  BY <1>1
<1> QED
  BY <1>2, InIsFinite, FS_EmptySet

(* The pool starts with all connections idle.                              *)
LEMMA PoolInitInv == PoolInit => PoolInv
<1> SUFFICES ASSUME PoolInit PROVE PoolInv
  OBVIOUS
<1>1. PoolTypes
  BY ConnectionPoolAssumption DEF PoolInit, PoolTypes
<1>2. \A pc \in {"granted", "running", "leaving"} : In(pc) = {}
  BY DEF PoolInit, In
<1>3. \A pc \in {"granted", "running", "leaving"} : Cardinality(In(pc)) = 0
  BY <1>2, FS_EmptySet
<1> QED
  BY <1>1, <1>3, ConnectionPoolAssumption DEF PoolInit, PoolInv

(* Every step of a borrower and of an orphaned query keeps the invariant.  *)
(* invariant.                                                              *)
LEMMA PoolStepInv ==
  ASSUME PoolInv, [PoolNext]_poolVars
  PROVE  PoolInv'
<1> DEFINE G == Cardinality(In("granted"))
           R == Cardinality(In("running"))
           L == Cardinality(In("leaving"))
<1>types. G \in Nat /\ R \in Nat /\ L \in Nat /\ PoolTypes /\ PoolSize \in Nat
  BY InIsFinite, ConnectionPoolAssumption DEF PoolInv
<1>sums. permits + G + R + L = PoolSize /\ idle + R + lost = PoolSize
  BY DEF PoolInv
<1>suffices. ASSUME PoolTypes', permits' + G' + R' + L' = PoolSize, idle' + R' + lost' = PoolSize
             PROVE  PoolInv'
  BY <1>suffices DEF PoolInv
<1> HIDE DEF G, R, L
<1>1. CASE UNCHANGED poolVars
  <2>1. G' = G /\ R' = R /\ L' = L /\ PoolTypes'
    BY <1>1, <1>types DEF poolVars, G, R, L, In, PoolTypes
  <2> QED
    BY <2>1, <1>1, <1>sums, <1>suffices DEF poolVars
<1>2. CASE OrphanEnds
  <2>1. G' = G /\ R' = R /\ L' = L
    BY <1>2 DEF OrphanEnds, G, R, L, In
  <2>2. PoolTypes'
    BY <1>2, <1>types DEF OrphanEnds, PoolTypes
  <2> QED
    BY <2>1, <2>2, <1>2, <1>sums, <1>suffices DEF OrphanEnds
<1>3. ASSUME NEW b \in Borrowers,
             \/ Execute(b) \/ Acquire(b) \/ Checkout(b) \/ Reopen(b)
             \/ Checkin(b) \/ Panic(b) \/ Leave(b) \/ Abort(b)
      PROVE  PoolInv'
  <2>moves. ASSUME NEW from, NEW to, borrower[b] = from, Goes(b, to), from # to,
                   to \in {"out", "waiting", "granted", "running", "leaving", "aborted"}
            PROVE  /\ G' = IF "granted" = to THEN G + 1 ELSE IF "granted" = from THEN G - 1 ELSE G
                   /\ R' = IF "running" = to THEN R + 1 ELSE IF "running" = from THEN R - 1 ELSE R
                   /\ L' = IF "leaving" = to THEN L + 1 ELSE IF "leaving" = from THEN L - 1 ELSE L
                   /\ borrower' \in [Borrowers -> {"out", "waiting", "granted", "running", "leaving", "aborted"}]
    <3>1. \A pc \in {"granted", "running", "leaving"} :
            Cardinality(In(pc))' = IF pc = to THEN Cardinality(In(pc)) + 1
                                   ELSE IF pc = from THEN Cardinality(In(pc)) - 1
                                   ELSE Cardinality(In(pc))
      BY <2>moves, <1>types, GoesCounts
    <3>2. borrower' \in [Borrowers -> {"out", "waiting", "granted", "running", "leaving", "aborted"}]
      BY <2>moves, <1>types DEF Goes, PoolTypes
    <3> QED
      BY <3>1, <3>2 DEF G, R, L
  <2>many. ASSUME NEW pc, borrower[b] = pc
           PROVE  Cardinality(In(pc)) >= 1
    BY <2>many, SomebodyCounts
  <2>1. CASE Execute(b)
    BY <2>1, <2>moves, <1>types, <1>sums, <1>suffices DEF Execute, PoolTypes
  <2>2. CASE Acquire(b)
    BY <2>2, <2>moves, <1>types, <1>sums, <1>suffices DEF Acquire, PoolTypes
  <2>3. CASE Checkout(b)
    BY <2>3, <2>moves, <1>types, <1>sums, <1>suffices DEF Checkout, PoolTypes
  <2>4. CASE Reopen(b)
    <3>1. G >= 1
      BY <2>4, <2>many DEF Reopen, G
    <3>2. lost >= 1
      BY <3>1, <2>4, <1>types, <1>sums DEF Reopen, PoolTypes
    <3> QED
      BY <3>2, <2>4, <2>moves, <1>types, <1>sums, <1>suffices DEF Reopen, PoolTypes
  <2>5. CASE Checkin(b)
    BY <2>5, <2>moves, <1>types, <1>sums, <1>suffices DEF Checkin, PoolTypes
  <2>6. CASE Panic(b)
    <3>1. G' = G /\ R' = R - 1 /\ L' = L + 1
      BY <2>6, <2>moves DEF Panic
    <3>2. borrower' \in [Borrowers -> {"out", "waiting", "granted", "running", "leaving", "aborted"}]
      BY <2>6, <2>moves DEF Panic
    <3>3. CASE idle' = idle + 1 /\ UNCHANGED lost
      BY <3>1, <3>2, <3>3, <2>6, <1>types, <1>sums, <1>suffices DEF Panic, PoolTypes
    <3>4. CASE lost' = lost + 1 /\ UNCHANGED idle
      BY <3>1, <3>2, <3>4, <2>6, <1>types, <1>sums, <1>suffices DEF Panic, PoolTypes
    <3> QED
      BY <3>3, <3>4, <2>6 DEF Panic
  <2>7. CASE Leave(b)
    BY <2>7, <2>moves, <1>types, <1>sums, <1>suffices DEF Leave, PoolTypes
  <2>8. CASE Abort(b)
    BY <2>8, <2>moves, <1>types, <1>sums, <1>suffices DEF Abort, PoolTypes
  <2> QED
    BY <1>3, <2>1, <2>2, <2>3, <2>4, <2>5, <2>6, <2>7, <2>8
<1> QED
  BY <1>1, <1>2, <1>3 DEF PoolNext

(* Three sets of callers that do not meet are counted together.            *)
LEMMA HoldersCount ==
  ASSUME PoolTypes
  PROVE  Cardinality(Holders) =
           Cardinality(In("granted")) + Cardinality(In("running")) + Cardinality(In("leaving"))
<1> DEFINE GR == In("granted") \union In("running")
<1>1. IsFiniteSet(In("granted")) /\ IsFiniteSet(In("running")) /\ IsFiniteSet(In("leaving"))
  BY InIsFinite
<1>2. In("granted") \intersect In("running") = {} /\ GR \intersect In("leaving") = {}
  BY DEF In
<1>3. IsFiniteSet(GR) /\ Cardinality(GR) = Cardinality(In("granted")) + Cardinality(In("running"))
  <2>1. Cardinality(GR) = Cardinality(In("granted")) + Cardinality(In("running"))
                          - Cardinality(In("granted") \intersect In("running"))
    BY <1>1, FS_Union
  <2>2. Cardinality(In("granted") \intersect In("running")) = 0
    BY <1>2, FS_EmptySet
  <2> QED
    BY <2>1, <2>2, <1>1, InIsFinite, FS_Union
<1>4. Cardinality(GR \union In("leaving")) = Cardinality(GR) + Cardinality(In("leaving"))
                                             - Cardinality(GR \intersect In("leaving"))
  BY <1>1, <1>3, FS_Union
<1>5. Cardinality(GR \intersect In("leaving")) = 0
  BY <1>2, FS_EmptySet
<1>6. Holders = GR \union In("leaving")
  BY DEF Holders
<1> QED
  BY <1>3, <1>4, <1>5, <1>6, InIsFinite

(* Every permit and every connection is accounted for at all times, for    *)
(* any number of callers and any size of the pool (execute).               *)
THEOREM PoolInvariant == PoolSpec => []PoolInv
<1>1. PoolInit => PoolInv
  BY PoolInitInv
<1>2. PoolInv /\ [PoolNext]_poolVars => PoolInv'
  BY PoolStepInv
<1> QED
  BY <1>1, <1>2, PTL DEF PoolSpec

(* The pool keeps its types: it never has more permits or idle connections *)
(* than its size.                                                          *)
THEOREM PoolTypeCorrect == PoolSpec => []PoolTypeOK
<1>1. ASSUME PoolInv PROVE PoolTypeOK
  <2>1. \A pc \in {"granted", "running", "leaving"} : Cardinality(In(pc)) \in Nat
    BY InIsFinite
  <2> QED
    BY <1>1, <2>1, ConnectionPoolAssumption DEF PoolInv, PoolTypes, PoolTypeOK
<1> QED
  BY <1>1, PoolInvariant, PTL

(* "The permit guarantees an idle connection" (execute), as long as none   *)
(* is lost; and no permit is ever lost.                                    *)
THEOREM PermitsGuarantee == PoolSpec => []PermitGuaranteesConnection
<1>1. ASSUME PoolInv PROVE PermitGuaranteesConnection
  <2>1. PoolTypes
    BY <1>1 DEF PoolInv
  <2>2. \A pc \in {"granted", "running", "leaving"} : Cardinality(In(pc)) \in Nat
    BY InIsFinite
  <2> QED
    BY <1>1, <2>1, <2>2, HoldersCount, ConnectionPoolAssumption DEF PoolInv, PoolTypes, PermitGuaranteesConnection
<1> QED
  BY <1>1, PoolInvariant, PTL
-----------------------------------------------------------------------------
(* The socket: what a connection, its frames and its task can be.          *)
Words == {"account", "health", "ok", "error", "too_large", "too_long"}
Frame == [kind : Frames, n : Nat]
HandlingTask == [at : {"handling"}, frame : Frame, step : {"first", "second"}, read : SUBSET {"health"}]
WritingTask == [at : {"writing"}, frame : Frame, answer : SUBSET Words, close : BOOLEAN]

ServerTypes ==
  /\ capacity \in Nat /\ slots \in Nat
  /\ links \in [Clients -> {"none", "open", "gone", "closed"}]
  /\ inbox \in [Clients -> Seq(Frame)] /\ sent \in [Clients -> Nat]
  /\ tasks \in [Clients -> {Idling, Reading} \union HandlingTask \union WritingTask]
  /\ replies \in [Clients -> Seq([n : Nat, deleted : BOOLEAN])]
  /\ store \in {"shown", "hidden", "deleted"}

(* A task of its own serves a connection, and a slot goes with it.         *)
Served == {c \in Clients : tasks[c].at # "none"}
SlotsFollowTasks ==
  /\ \A c \in Clients : links[c] = "none" => tasks[c] = Idling
  /\ slots + Cardinality(Served) = capacity

Busy(c) == tasks[c].at \in {"handling", "writing"}

(* What c was answered precedes the frame its task is busy with, and that  *)
(* precedes those which it has not read.                                   *)
InOrder(c) ==
  /\ \A i, j \in DOMAIN inbox[c] : i < j => inbox[c][i].n < inbox[c][j].n
  /\ \A i \in DOMAIN inbox[c] : inbox[c][i].n <= sent[c]
  /\ Busy(c) => tasks[c].frame.n <= sent[c]
  /\ Busy(c) => \A i \in DOMAIN inbox[c] : tasks[c].frame.n < inbox[c][i].n
  /\ Busy(c) => \A i \in DOMAIN replies[c] : replies[c][i].n < tasks[c].frame.n
  /\ \A i \in DOMAIN replies[c] : replies[c][i].n <= sent[c]
  /\ \A i \in DOMAIN replies[c], j \in DOMAIN inbox[c] : replies[c][i].n < inbox[c][j].n
  /\ \A i, j \in DOMAIN replies[c] : i < j => replies[c][i].n < replies[c][j].n

(* A client is told, or about to be told, that it has deleted the account. *)
Tells(c) == tasks[c].at = "writing" /\ tasks[c].frame.kind = "delete" /\ tasks[c].answer = {"ok"}
WasTold(c, i) == i \in DOMAIN replies[c] /\ replies[c][i].deleted
OneIsTold ==
  /\ \A c \in Clients : Tells(c) => store = "deleted"
  /\ \A c \in Clients : \A i : WasTold(c, i) => store = "deleted"
  /\ \A c, d \in Clients : Tells(c) /\ Tells(d) => c = d
  /\ \A c, d \in Clients : \A i : ~(Tells(c) /\ WasTold(d, i))
  /\ \A c, d \in Clients : \A i, j : WasTold(c, i) /\ WasTold(d, j) => c = d /\ i = j

FramesAreBounded == \A c \in Clients : sent[c] <= MaxFrames[c]

ServerInv ==
  /\ ServerTypes
  /\ FramesAreBounded
  /\ SlotsFollowTasks
  /\ \A c \in Clients : InOrder(c)
  /\ OneIsTold
  /\ StateOfOneMoment

LEMMA ServerInitInv == ServerInit => ServerInv
<1> SUFFICES ASSUME ServerInit PROVE ServerInv
  OBVIOUS
<1>1. \A c \in Clients : tasks[c] = Idling /\ tasks[c].at = "none" /\ inbox[c] = <<>> /\ replies[c] = <<>>
  BY DEF ServerInit, Idling
<1>2. ServerTypes
  BY ServerAssumption DEF ServerInit, ServerTypes
<1>3. Served = {} /\ slots = capacity
  BY <1>1 DEF Served, ServerInit
<1>4. SlotsFollowTasks
  BY <1>1, <1>2, <1>3, FS_EmptySet DEF SlotsFollowTasks, ServerTypes
<1>5. \A c \in Clients : InOrder(c)
  BY <1>1 DEF InOrder, Busy
<1>6. OneIsTold
  BY <1>1 DEF OneIsTold, Tells, WasTold
<1>7. StateOfOneMoment
  BY <1>1 DEF StateOfOneMoment
<1>8. FramesAreBounded
  BY ServerAssumption DEF ServerInit, FramesAreBounded
<1> QED
  BY <1>2, <1>4, <1>5, <1>6, <1>7, <1>8 DEF ServerInv

(* What a step may do to the connection of its client.                     *)
Holds(c) == UNCHANGED <<inbox, sent, replies>> /\ tasks'[c].at \in {"none", "reading"}
Sends(c) ==
  /\ \E f \in Frames : inbox'[c] = Append(inbox[c], [kind |-> f, n |-> sent[c] + 1])
  /\ sent'[c] = sent[c] + 1 /\ tasks' = tasks /\ replies' = replies
TakesUp(c) ==
  /\ tasks[c].at = "reading" /\ inbox[c] # <<>> /\ inbox'[c] = Tail(inbox[c])
  /\ tasks'[c].at = "reading" \/ (tasks'[c].at \in {"handling", "writing"} /\ tasks'[c].frame = Head(inbox[c]))
  /\ sent' = sent /\ replies' = replies
WorksOn(c) ==
  /\ tasks[c].at = "handling" /\ tasks'[c].at \in {"handling", "writing"} /\ tasks'[c].frame = tasks[c].frame
  /\ UNCHANGED <<inbox, sent, replies>>
Replies(c) ==
  /\ tasks[c].at = "writing" /\ tasks'[c].at \in {"none", "reading"}
  /\ replies'[c] = Append(replies[c], [n |-> tasks[c].frame.n, deleted |-> Tells(c)])
  /\ UNCHANGED <<inbox, sent>>

StepOf(c) == Accept(c) \/ SendFrame(c) \/ HangUp(c) \/ ServerStep(c)

LEMMA OthersKeep ==
  ASSUME ServerTypes, NEW c \in Clients, StepOf(c), NEW d \in Clients \ {c}
  PROVE  inbox'[d] = inbox[d] /\ sent'[d] = sent[d] /\ tasks'[d] = tasks[d] /\ replies'[d] = replies[d] /\ links'[d] = links[d]
<1>1. CASE Accept(c) \/ SendFrame(c) \/ HangUp(c)
  BY <1>1 DEF Accept, SendFrame, HangUp, ServerTypes
<1>2. CASE EndOfFrames(c) \/ WriteReply(c)
  BY <1>2 DEF EndOfFrames, WriteReply, EndTask, Received, ServerTypes
<1>3. CASE ReadFrame(c)
  BY <1>3 DEF ReadFrame, ServerTypes
<1>4. CASE GetState(c) \/ GetHealth(c) \/ RequireAccount(c) \/ ActOnAccount(c)
  BY <1>4 DEF GetState, GetHealth, RequireAccount, ActOnAccount, Answered, ServerTypes
<1> QED
  BY <1>1, <1>2, <1>3, <1>4 DEF StepOf, ServerStep

LEMMA TaskShapes ==
  ASSUME ServerTypes, NEW c \in Clients
  PROVE  /\ tasks[c].at \in {"none", "reading", "handling", "writing"}
         /\ tasks[c].at = "none" <=> tasks[c] = Idling
         /\ tasks[c].at = "reading" => tasks[c] = Reading
         /\ tasks[c].at = "handling" => tasks[c] \in HandlingTask
         /\ tasks[c].at = "writing" => tasks[c] \in WritingTask
  BY DEF ServerTypes, Idling, Reading, HandlingTask, WritingTask

(* What a handler that is done has left: an answer, or that it is too long.*)
LEMMA AnsweredWrites ==
  ASSUME ServerTypes, NEW c \in Clients, tasks[c].at = "handling", NEW answer \in SUBSET Words, Answered(c, answer)
  PROVE  /\ tasks'[c] \in WritingTask /\ tasks'[c].frame = tasks[c].frame
         /\ tasks'[c].answer \in {answer, {"too_long"}}
         /\ tasks' = [tasks EXCEPT ![c] = tasks'[c]]
<1>1. tasks[c] \in HandlingTask
  BY TaskShapes
<1>2. tasks[c].frame \in Frame
  BY <1>1 DEF HandlingTask
<1>3. CASE tasks' = [tasks EXCEPT ![c] = Writing(tasks[c].frame, answer, FALSE)]
  <2>1. tasks'[c] = Writing(tasks[c].frame, answer, FALSE)
    BY <1>3 DEF ServerTypes
  <2>2. Writing(tasks[c].frame, answer, FALSE) \in WritingTask
    BY <1>2 DEF Writing, WritingTask
  <2> QED
    BY <2>1, <2>2, <1>3 DEF Writing
<1>4. CASE tasks' = [tasks EXCEPT ![c] = Writing(tasks[c].frame, {"too_long"}, TRUE)]
  <2>1. tasks'[c] = Writing(tasks[c].frame, {"too_long"}, TRUE)
    BY <1>4 DEF ServerTypes
  <2>2. Writing(tasks[c].frame, {"too_long"}, TRUE) \in WritingTask
    BY <1>2 DEF Writing, WritingTask, Words
  <2> QED
    BY <2>1, <2>2, <1>4 DEF Writing
<1> QED
  BY <1>3, <1>4 DEF Answered

LEMMA ReadingTakesUp ==
  ASSUME ServerTypes, NEW c \in Clients, ReadFrame(c)
  PROVE  TakesUp(c)
<1> DEFINE f == Head(inbox[c])
<1>1. inbox'[c] = Tail(inbox[c])
  BY DEF ReadFrame, ServerTypes
<1>2. tasks'[c] = Reading \/ tasks'[c] = Writing(f, {"too_large"}, TRUE) \/ tasks'[c] = Decoded(f)
  BY DEF ReadFrame, ServerTypes
<1>3. Decoded(f).at \in {"handling", "writing"} /\ Decoded(f).frame = f
  BY DEF Decoded, Writing
<1>4. tasks'[c].at = "reading" \/ (tasks'[c].at \in {"handling", "writing"} /\ tasks'[c].frame = Head(inbox[c]))
  BY <1>2, <1>3 DEF Reading, Writing
<1> QED
  BY <1>1, <1>4 DEF ReadFrame, TakesUp

LEMMA HandlersWork ==
  ASSUME ServerTypes, NEW c \in Clients, GetState(c) \/ GetHealth(c) \/ RequireAccount(c) \/ ActOnAccount(c)
  PROVE  WorksOn(c)
<1>1. CASE GetState(c)
  <2>1. tasks'[c] \in WritingTask /\ tasks'[c].frame = tasks[c].frame
    BY <1>1, AnsweredWrites DEF GetState, Handling, Shown, Words
  <2> QED
    BY <2>1, <1>1 DEF GetState, Handling, WorksOn, WritingTask
<1>2. CASE GetHealth(c)
  <2>1. CASE Handling(c, {"health"}, "first") /\ tasks' = [tasks EXCEPT ![c].step = "second", ![c].read = IF Exists THEN {"health"} ELSE {}]
    <3>1. tasks[c] \in HandlingTask
      BY <2>1, TaskShapes DEF Handling
    <3>2. tasks'[c] = [[tasks[c] EXCEPT !.step = "second"] EXCEPT !.read = IF Exists THEN {"health"} ELSE {}]
      BY <2>1 DEF ServerTypes
    <3>3. tasks'[c].at = tasks[c].at /\ tasks'[c].frame = tasks[c].frame
      BY <3>1, <3>2 DEF HandlingTask
    <3> QED
      BY <3>3, <2>1, <1>2 DEF Handling, GetHealth, WorksOn
  <2>2. CASE Handling(c, {"health"}, "second") /\ Answered(c, IF store = "hidden" THEN {} ELSE tasks[c].read)
    <3>1. tasks[c].read \in SUBSET Words
      BY <2>2, TaskShapes DEF Handling, HandlingTask, Words
    <3>2. tasks'[c] \in WritingTask /\ tasks'[c].frame = tasks[c].frame
      BY <3>1, <2>2, AnsweredWrites DEF Handling
    <3> QED
      BY <3>2, <2>2, <1>2 DEF Handling, GetHealth, WorksOn, WritingTask
  <2> QED
    BY <2>1, <2>2, <1>2 DEF GetHealth
<1>3. CASE RequireAccount(c)
  <2>1. CASE tasks' = [tasks EXCEPT ![c].step = "second"]
    <3>1. tasks[c] \in HandlingTask
      BY <1>3, TaskShapes DEF RequireAccount, Handling
    <3>2. tasks'[c].at = tasks[c].at /\ tasks'[c].frame = tasks[c].frame
      BY <2>1, <3>1 DEF HandlingTask, ServerTypes
    <3> QED
      BY <3>2, <1>3 DEF RequireAccount, Handling, WorksOn
  <2>2. CASE Answered(c, {"error"})
    <3>1. tasks'[c] \in WritingTask /\ tasks'[c].frame = tasks[c].frame
      BY <1>3, <2>2, AnsweredWrites DEF RequireAccount, Handling, Words
    <3> QED
      BY <3>1, <1>3 DEF RequireAccount, Handling, WorksOn, WritingTask
  <2> QED
    BY <2>1, <2>2, <1>3 DEF RequireAccount
<1>4. CASE ActOnAccount(c)
  <2>1. Answered(c, {"ok"}) \/ Answered(c, {"error"})
    BY <1>4 DEF ActOnAccount
  <2>2. tasks'[c] \in WritingTask /\ tasks'[c].frame = tasks[c].frame
    BY <2>1, <1>4, AnsweredWrites DEF ActOnAccount, Handling, Words
  <2> QED
    BY <2>2, <1>4 DEF ActOnAccount, Handling, WorksOn, WritingTask
<1> QED
  BY <1>1, <1>2, <1>3, <1>4

LEMMA OwnStep ==
  ASSUME ServerTypes, SlotsFollowTasks, NEW c \in Clients, StepOf(c)
  PROVE  \/ UNCHANGED <<inbox, sent, tasks, replies>>
         \/ Holds(c) \/ Sends(c) \/ TakesUp(c) \/ WorksOn(c) \/ Replies(c)
<1>1. CASE Accept(c)
  <2>1. tasks' = tasks \/ tasks'[c] = Reading
    BY <1>1 DEF Accept, ServerTypes
  <2> QED
    BY <2>1, <1>1 DEF Accept, Holds, Reading
<1>2. CASE SendFrame(c)
  <2>1. sent'[c] = sent[c] + 1 /\ \E f \in Frames : inbox'[c] = Append(inbox[c], [kind |-> f, n |-> sent'[c]])
    BY <1>2 DEF SendFrame, ServerTypes
  <2>2. \E f \in Frames : inbox'[c] = Append(inbox[c], [kind |-> f, n |-> sent[c] + 1])
    BY <2>1
  <2> QED
    BY <2>1, <2>2, <1>2 DEF SendFrame, Sends
<1>3. CASE HangUp(c)
  BY <1>3 DEF HangUp
<1>4. CASE EndOfFrames(c)
  <2>1. tasks'[c] = Idling
    BY <1>4 DEF EndOfFrames, EndTask, ServerTypes
  <2> QED
    BY <2>1, <1>4 DEF EndOfFrames, Holds, Idling
<1>5. CASE ReadFrame(c)
  BY <1>5, ReadingTakesUp
<1>6. CASE GetState(c) \/ GetHealth(c) \/ RequireAccount(c) \/ ActOnAccount(c)
  BY <1>6, HandlersWork
<1>7. CASE WriteReply(c)
  <2>1. tasks'[c].at \in {"none", "reading"}
    BY <1>7 DEF WriteReply, EndTask, Idling, Reading, ServerTypes
  <2>2. replies' = replies \/ Received(c)
    BY <1>7 DEF WriteReply
  <2>3. CASE replies' = replies
    BY <2>1, <2>3, <1>7 DEF WriteReply, Holds
  <2>4. CASE Received(c)
    <3>1. replies'[c] = Append(replies[c], [n |-> tasks[c].frame.n,
                            deleted |-> tasks[c].frame.kind = "delete" /\ tasks[c].answer = {"ok"}])
      BY <2>4 DEF Received, ServerTypes
    <3>2. Tells(c) <=> tasks[c].frame.kind = "delete" /\ tasks[c].answer = {"ok"}
      BY <1>7 DEF WriteReply, Tells
    <3>3. (tasks[c].frame.kind = "delete" /\ tasks[c].answer = {"ok"}) = Tells(c)
      BY <3>2, Zenon DEF Tells
    <3> QED
      BY <3>1, <3>3, <2>1, <1>7 DEF WriteReply, Replies
  <2> QED
    BY <2>2, <2>3, <2>4
<1> QED
  BY <1>1, <1>2, <1>3, <1>4, <1>5, <1>6, <1>7 DEF StepOf, ServerStep

LEMMA FramesAreTaken ==
  ASSUME ServerTypes, NEW c \in Clients, inbox[c] # <<>>
  PROVE  /\ Head(inbox[c]) \in Frame /\ Tail(inbox[c]) \in Seq(Frame)
         /\ Head(inbox[c]) = inbox[c][1] /\ DOMAIN Tail(inbox[c]) = 1 .. Len(inbox[c]) - 1
         /\ \A i \in DOMAIN Tail(inbox[c]) : i + 1 \in DOMAIN inbox[c] /\ Tail(inbox[c])[i] = inbox[c][i + 1]
         /\ 1 \in DOMAIN inbox[c]
<1>1. inbox[c] \in Seq(Frame)
  BY DEF ServerTypes
<1> QED
  BY <1>1

LEMMA ServerTypesStep ==
  ASSUME ServerTypes, SlotsFollowTasks, NEW c \in Clients, StepOf(c)
  PROVE  ServerTypes'
<1> DEFINE Task == {Idling, Reading} \union HandlingTask \union WritingTask
<1>0. Idling \in Task /\ Reading \in Task /\ tasks[c] \in Task
  BY DEF ServerTypes
<1>a. tasks' \in [Clients -> Task] /\ UNCHANGED <<capacity, slots, links, inbox, sent, replies, store>> => ServerTypes'
  BY DEF ServerTypes
<1>1. CASE Accept(c)
  <2>1. CASE slots > 0
    <3>1. tasks' \in [Clients -> Task]
      BY <1>1, <2>1, <1>0 DEF Accept, ServerTypes
    <3>2. slots' = slots - 1 /\ links' = [links EXCEPT ![c] = "open"]
      BY <1>1, <2>1 DEF Accept
    <3>3. slots' \in Nat
      BY <3>2, <2>1 DEF ServerTypes
    <3>4. links' \in [Clients -> {"none", "open", "gone", "closed"}]
      BY <3>2 DEF ServerTypes
    <3> QED
      BY <3>1, <3>3, <3>4, <1>1 DEF Accept, ServerTypes
  <2>2. CASE ~ (slots > 0)
    BY <1>1, <2>2 DEF Accept, ServerTypes
  <2> QED
    BY <2>1, <2>2
<1>2. CASE SendFrame(c)
  <2>1. sent' \in [Clients -> Nat]
    BY <1>2 DEF SendFrame, ServerTypes
  <2>2. PICK f \in Frames : inbox' = [inbox EXCEPT ![c] = Append(@, [kind |-> f, n |-> sent'[c]])]
    BY <1>2 DEF SendFrame
  <2>3. [kind |-> f, n |-> sent'[c]] \in Frame
    BY <2>1 DEF Frame
  <2>4. inbox' \in [Clients -> Seq(Frame)]
    BY <2>2, <2>3 DEF ServerTypes
  <2> QED
    BY <2>1, <2>4, <1>2 DEF SendFrame, ServerTypes
<1>3. CASE HangUp(c)
  BY <1>3 DEF HangUp, ServerTypes
<1>e. ASSUME EndTask(c) PROVE slots' \in Nat /\ links' \in [Clients -> {"none", "open", "gone", "closed"}] /\ tasks' \in [Clients -> Task]
  BY <1>e, <1>0 DEF EndTask, ServerTypes
<1>4. CASE EndOfFrames(c)
  BY <1>4, <1>e DEF EndOfFrames, ServerTypes
<1>5. CASE ReadFrame(c)
  <2> DEFINE f == Head(inbox[c])
  <2>1. f \in Frame /\ Tail(inbox[c]) \in Seq(Frame)
    BY <1>5, FramesAreTaken DEF ReadFrame
  <2>2. Writing(f, {"too_large"}, TRUE) \in WritingTask /\ Writing(f, {"error"}, FALSE) \in WritingTask
    BY <2>1 DEF Writing, WritingTask, Words
  <2>3. [at |-> "handling", frame |-> f, step |-> "first", read |-> {}] \in HandlingTask
    BY <2>1 DEF HandlingTask
  <2>4. Decoded(f) \in Task
    BY <2>2, <2>3 DEF Decoded
  <2>5. tasks' \in [Clients -> Task]
    BY <1>5, <1>0, <2>2, <2>4 DEF ReadFrame, ServerTypes
  <2>6. inbox' \in [Clients -> Seq(Frame)]
    BY <1>5, <2>1 DEF ReadFrame, ServerTypes
  <2> QED
    BY <2>5, <2>6, <1>5 DEF ReadFrame, ServerTypes
<1>w. ASSUME NEW w \in WritingTask, tasks' = [tasks EXCEPT ![c] = w] PROVE tasks' \in [Clients -> Task]
  BY <1>w DEF ServerTypes
<1>h. ASSUME NEW w \in HandlingTask, tasks' = [tasks EXCEPT ![c] = w] PROVE tasks' \in [Clients -> Task]
  BY <1>h DEF ServerTypes
<1>6. CASE GetState(c)
  <2>1. tasks'[c] \in WritingTask /\ tasks' = [tasks EXCEPT ![c] = tasks'[c]]
    BY <1>6, AnsweredWrites DEF GetState, Handling, Shown, Words
  <2> QED
    BY <2>1, <1>w, <1>a, <1>6 DEF GetState
<1>7. CASE GetHealth(c)
  <2>1. CASE Handling(c, {"health"}, "first") /\ tasks' = [tasks EXCEPT ![c].step = "second", ![c].read = IF Exists THEN {"health"} ELSE {}]
    <3> DEFINE w == [[tasks[c] EXCEPT !.step = "second"] EXCEPT !.read = IF Exists THEN {"health"} ELSE {}]
    <3>1. tasks[c] \in HandlingTask
      BY <2>1, TaskShapes DEF Handling
    <3>2. w \in HandlingTask
      BY <3>1 DEF HandlingTask
    <3>3. tasks' = [tasks EXCEPT ![c] = w]
      BY <2>1 DEF ServerTypes
    <3> QED
      BY <3>2, <3>3, <1>h, <1>a, <1>7 DEF GetHealth
  <2>2. CASE Handling(c, {"health"}, "second") /\ Answered(c, IF store = "hidden" THEN {} ELSE tasks[c].read)
    <3>1. tasks[c].read \in SUBSET Words
      BY <2>2, TaskShapes DEF Handling, HandlingTask, Words
    <3>2. tasks'[c] \in WritingTask /\ tasks' = [tasks EXCEPT ![c] = tasks'[c]]
      BY <3>1, <2>2, AnsweredWrites DEF Handling
    <3> QED
      BY <3>2, <1>w, <1>a, <1>7 DEF GetHealth
  <2> QED
    BY <2>1, <2>2, <1>7 DEF GetHealth
<1>8. CASE RequireAccount(c)
  <2>1. CASE tasks' = [tasks EXCEPT ![c].step = "second"]
    <3> DEFINE w == [tasks[c] EXCEPT !.step = "second"]
    <3>1. tasks[c] \in HandlingTask
      BY <1>8, TaskShapes DEF RequireAccount, Handling
    <3>2. w \in HandlingTask
      BY <3>1 DEF HandlingTask
    <3>3. tasks' = [tasks EXCEPT ![c] = w]
      BY <2>1 DEF ServerTypes
    <3> QED
      BY <3>2, <3>3, <1>h, <1>a, <1>8 DEF RequireAccount
  <2>2. CASE Answered(c, {"error"})
    <3>1. tasks'[c] \in WritingTask /\ tasks' = [tasks EXCEPT ![c] = tasks'[c]]
      BY <1>8, <2>2, AnsweredWrites DEF RequireAccount, Handling, Words
    <3> QED
      BY <3>1, <1>w, <1>a, <1>8 DEF RequireAccount
  <2> QED
    BY <2>1, <2>2, <1>8 DEF RequireAccount
<1>9. CASE ActOnAccount(c)
  <2>1. Answered(c, {"ok"}) \/ Answered(c, {"error"})
    BY <1>9 DEF ActOnAccount
  <2>2. tasks'[c] \in WritingTask /\ tasks' = [tasks EXCEPT ![c] = tasks'[c]]
    BY <2>1, <1>9, AnsweredWrites DEF ActOnAccount, Handling, Words
  <2>3. tasks' \in [Clients -> Task]
    BY <2>2, <1>w
  <2>4. store' \in {"shown", "hidden", "deleted"}
    BY <1>9 DEF ActOnAccount, Becomes, ServerTypes
  <2> QED
    BY <2>3, <2>4, <1>9 DEF ActOnAccount, ServerTypes
<1>10. CASE WriteReply(c)
  <2>1. tasks[c] \in WritingTask
    BY <1>10, TaskShapes DEF WriteReply
  <2>2. tasks[c].frame.n \in Nat /\ tasks[c].frame.kind \in Frames
    BY <2>1 DEF WritingTask, Frame
  <2>3. PICK d \in BOOLEAN : d = (tasks[c].frame.kind = "delete" /\ tasks[c].answer = {"ok"})
    BY Zenon
  <2>4. [n |-> tasks[c].frame.n, deleted |-> d] \in [n : Nat, deleted : BOOLEAN]
    BY <2>2
  <2>5. ASSUME Received(c) PROVE replies' \in [Clients -> Seq([n : Nat, deleted : BOOLEAN])]
    <3>1. replies' = [replies EXCEPT ![c] = Append(@, [n |-> tasks[c].frame.n, deleted |-> d])]
      BY <2>5, <2>3, Zenon DEF Received
    <3> QED
      BY <3>1, <2>4 DEF ServerTypes
  <2>6. slots' \in Nat /\ links' \in [Clients -> {"none", "open", "gone", "closed"}] /\ tasks' \in [Clients -> Task]
    BY <1>10, <1>e, <1>0 DEF WriteReply, ServerTypes
  <2>7. replies' \in [Clients -> Seq([n : Nat, deleted : BOOLEAN])]
    BY <2>5, <1>10 DEF WriteReply, ServerTypes
  <2> QED
    BY <2>6, <2>7, <1>10 DEF WriteReply, ServerTypes
<1> QED
  BY <1>1, <1>2, <1>3, <1>4, <1>5, <1>6, <1>7, <1>8, <1>9, <1>10 DEF StepOf, ServerStep

(* A slot is taken with a task, and given back with it.                    *)
LEMMA SlotsStep ==
  ASSUME ServerTypes, SlotsFollowTasks, NEW c \in Clients, StepOf(c)
  PROVE  SlotsFollowTasks'
<1>0. IsFiniteSet(Served) /\ Cardinality(Served) \in Nat
  <2>1. Served \in SUBSET Clients
    BY DEF Served
  <2> QED
    BY <2>1, ServerAssumption, FS_Subset, FS_CardinalityType
<1>1. \A d \in Clients \ {c} : tasks'[d] = tasks[d] /\ links'[d] = links[d]
  BY OthersKeep
<1>2. ASSUME tasks[c].at # "none", tasks'[c].at = "none" PROVE Cardinality(Served)' = Cardinality(Served) - 1
  <2>1. Served' = Served \ {c} /\ c \in Served
    BY <1>1, <1>2 DEF Served
  <2> QED
    BY <2>1, <1>0, FS_RemoveElement
<1>3. ASSUME tasks[c].at = "none", tasks'[c].at # "none" PROVE Cardinality(Served)' = Cardinality(Served) + 1
  <2>1. Served' = Served \union {c} /\ c \notin Served
    BY <1>1, <1>3 DEF Served
  <2> QED
    BY <2>1, <1>0, FS_AddElement
<1>4. ASSUME tasks[c].at = "none" <=> tasks'[c].at = "none" PROVE Cardinality(Served)' = Cardinality(Served)
  <2>1. Served' = Served
    BY <1>1, <1>4 DEF Served
  <2> QED
    BY <2>1
<1>5. ASSUME EndTask(c), tasks[c].at # "none", capacity' = capacity PROVE SlotsFollowTasks'
  <2>1. tasks'[c] = Idling /\ tasks'[c].at = "none" /\ slots' = slots + 1
    BY <1>5 DEF EndTask, ServerTypes, Idling
  <2>2. slots' + Cardinality(Served)' = capacity'
    BY <2>1, <1>2, <1>5, <1>0 DEF SlotsFollowTasks, ServerTypes
  <2> QED
    BY <2>1, <2>2, <1>1 DEF SlotsFollowTasks
<1>6. ASSUME tasks[c].at # "none", tasks'[c].at # "none", UNCHANGED <<capacity, slots, links>> PROVE SlotsFollowTasks'
  <2>1. links'[c] # "none"
    BY <1>6 DEF SlotsFollowTasks, Idling
  <2> QED
    BY <2>1, <1>6, <1>4, <1>1 DEF SlotsFollowTasks
<1>7. CASE Accept(c)
  <2>1. tasks[c] = Idling /\ tasks[c].at = "none"
    BY <1>7 DEF Accept, SlotsFollowTasks, Idling
  <2>2. CASE slots > 0
    <3>1. tasks'[c] = Reading /\ tasks'[c].at # "none" /\ links'[c] = "open" /\ slots' = slots - 1 /\ capacity' = capacity
      BY <1>7, <2>2 DEF Accept, ServerTypes, Reading
    <3>2. slots' + Cardinality(Served)' = capacity'
      BY <3>1, <2>1, <1>3, <1>0 DEF SlotsFollowTasks, ServerTypes
    <3> QED
      BY <3>1, <3>2, <1>1 DEF SlotsFollowTasks
  <2>3. CASE ~ (slots > 0)
    <3>1. tasks' = tasks /\ slots' = slots /\ capacity' = capacity /\ links'[c] = "closed"
      BY <1>7, <2>3 DEF Accept, ServerTypes
    <3> QED
      BY <3>1, <1>1, <1>4 DEF SlotsFollowTasks
  <2> QED
    BY <2>2, <2>3
<1>8. CASE SendFrame(c) \/ HangUp(c)
  <2>1. tasks' = tasks /\ slots' = slots /\ capacity' = capacity /\ links[c] = "open" /\ links'[c] # "none"
    BY <1>8 DEF SendFrame, HangUp, ServerTypes
  <2> QED
    BY <2>1, <1>1, <1>4 DEF SlotsFollowTasks
<1>9. CASE EndOfFrames(c)
  BY <1>9, <1>5 DEF EndOfFrames
<1>10. CASE WriteReply(c)
  <2>1. CASE EndTask(c)
    BY <2>1, <1>5, <1>10 DEF WriteReply
  <2>2. CASE tasks' = [tasks EXCEPT ![c] = Reading] /\ UNCHANGED <<slots, links>>
    <3>1. tasks'[c].at # "none"
      BY <2>2 DEF ServerTypes, Reading
    <3> QED
      BY <3>1, <2>2, <1>6, <1>10 DEF WriteReply
  <2> QED
    BY <2>1, <2>2, <1>10 DEF WriteReply
<1>11. CASE ReadFrame(c) \/ GetState(c) \/ GetHealth(c) \/ RequireAccount(c) \/ ActOnAccount(c)
  <2>1. tasks[c].at # "none" /\ UNCHANGED <<capacity, slots, links>>
    BY <1>11 DEF ReadFrame, GetState, GetHealth, RequireAccount, ActOnAccount, Handling
  <2>2. TakesUp(c) \/ WorksOn(c)
    BY <1>11, ReadingTakesUp, HandlersWork
  <2> QED
    BY <2>1, <2>2, <1>6 DEF TakesUp, WorksOn
<1> QED
  BY <1>7, <1>8, <1>9, <1>10, <1>11 DEF StepOf, ServerStep

LEMMA InOrderStep ==
  ASSUME ServerTypes, SlotsFollowTasks, \A d \in Clients : InOrder(d), NEW c \in Clients, StepOf(c), NEW d \in Clients
  PROVE  InOrder(d)'
<1>1. CASE d # c
  <2>1. inbox'[d] = inbox[d] /\ sent'[d] = sent[d] /\ tasks'[d] = tasks[d] /\ replies'[d] = replies[d]
    BY <1>1, OthersKeep
  <2> QED
    BY <2>1 DEF InOrder, Busy
<1>2. CASE d = c
  <2>0. InOrder(c) /\ inbox[c] \in Seq(Frame) /\ sent[c] \in Nat /\ replies[c] \in Seq([n : Nat, deleted : BOOLEAN])
    BY DEF ServerTypes
  <2>0a. \A i \in DOMAIN inbox[c] : inbox[c][i].n \in Nat
    <3>1. \A i \in DOMAIN inbox[c] : inbox[c][i] \in Frame
      BY <2>0
    <3> QED
      BY <3>1 DEF Frame
  <2>0b. \A i \in DOMAIN replies[c] : replies[c][i].n \in Nat
    <3> DEFINE Reply == [n : Nat, deleted : BOOLEAN]
    <3>1. replies[c] \in Seq(Reply)
      BY <2>0
    <3> HIDE DEF Reply
    <3>2. \A i \in DOMAIN replies[c] : replies[c][i] \in Reply
      BY <3>1
    <3>3. \A r \in Reply : r.n \in Nat
      BY DEF Reply
    <3> QED
      BY <3>2, <3>3
  <2>0c. Busy(c) => tasks[c].frame.n \in Nat
    BY TaskShapes DEF Busy, HandlingTask, WritingTask, Frame
  <2>1. CASE UNCHANGED <<inbox, sent, tasks, replies>>
    BY <2>1, <2>0, <1>2 DEF InOrder, Busy
  <2>2. CASE Holds(c)
    <3>1. ~Busy(c)'
      BY <2>2 DEF Holds, Busy
    <3> QED
      BY <3>1, <2>2, <2>0, <1>2 DEF InOrder, Holds
  <2>3. CASE Sends(c)
    <3> DEFINE s == inbox[c]
               t == inbox'[c]
    <3>1. PICK f \in Frames : t = Append(s, [kind |-> f, n |-> sent[c] + 1])
      BY <2>3 DEF Sends
    <3>2. s \in Seq(Frame) /\ DOMAIN t = 1 .. Len(s) + 1 /\ DOMAIN s = 1 .. Len(s) /\ Len(s) \in Nat
      BY <3>1, <2>0
    <3>3. \A i \in DOMAIN s : t[i] = s[i]
      BY <3>1, <3>2
    <3>4. t[Len(s) + 1] = [kind |-> f, n |-> sent[c] + 1] /\ t[Len(s) + 1].n = sent[c] + 1
      BY <3>1, <3>2
    <3>5. \A i \in DOMAIN t : i \in DOMAIN s \/ i = Len(s) + 1
      BY <3>2
    <3>6. sent'[c] = sent[c] + 1 /\ tasks'[c] = tasks[c] /\ replies'[c] = replies[c] /\ (Busy(c)' <=> Busy(c))
      BY <2>3 DEF Sends, Busy
    <3> HIDE DEF s, t
    <3>a. /\ \A i \in DOMAIN s : s[i].n \in Nat /\ s[i].n <= sent[c]
          /\ \A i, j \in DOMAIN s : i < j => s[i].n < s[j].n
          /\ Busy(c) => tasks[c].frame.n <= sent[c] /\ (\A i \in DOMAIN s : tasks[c].frame.n < s[i].n)
          /\ \A i \in DOMAIN replies[c], j \in DOMAIN s : replies[c][i].n < s[j].n
      BY <2>0, <2>0a DEF InOrder, s
    <3>7. \A i, j \in DOMAIN t : i < j => t[i].n < t[j].n
      BY <3>a, <3>2, <3>3, <3>4, <3>5, <2>0
    <3>8. \A i \in DOMAIN t : t[i].n <= sent'[c]
      BY <3>a, <3>3, <3>4, <3>5, <3>6, <2>0
    <3>9. Busy(c)' => tasks'[c].frame.n <= sent'[c] /\ (\A i \in DOMAIN t : tasks'[c].frame.n < t[i].n)
      <4>1. SUFFICES ASSUME Busy(c)' PROVE tasks'[c].frame.n <= sent'[c] /\ (\A i \in DOMAIN t : tasks'[c].frame.n < t[i].n)
        OBVIOUS
      <4>2. Busy(c) /\ tasks'[c].frame.n = tasks[c].frame.n
        BY <4>1, <3>6
      <4> DEFINE m == tasks[c].frame.n
      <4>3. m \in Nat /\ m <= sent[c] /\ \A i \in DOMAIN s : m < s[i].n
        BY <4>2, <3>a, <2>0c
      <4> HIDE DEF m
      <4>4. m <= sent[c] + 1 /\ m < sent[c] + 1
        BY <4>3, <2>0
      <4>5. \A i \in DOMAIN t : m < t[i].n
        BY <4>3, <4>4, <3>3, <3>4, <3>5
      <4> QED
        BY <4>2, <4>4, <4>5, <3>6 DEF m
    <3>10. \A i \in DOMAIN replies'[c] : replies'[c][i].n <= sent'[c]
      BY <3>6, <2>0, <2>0b DEF InOrder
    <3>11. \A i \in DOMAIN replies'[c], j \in DOMAIN t : replies'[c][i].n < t[j].n
      BY <3>a, <3>3, <3>4, <3>5, <3>6, <2>0, <2>0b DEF InOrder
    <3>12. /\ Busy(c)' => \A i \in DOMAIN replies'[c] : replies'[c][i].n < tasks'[c].frame.n
           /\ \A i, j \in DOMAIN replies'[c] : i < j => replies'[c][i].n < replies'[c][j].n
      BY <3>6, <2>0 DEF InOrder
    <3> QED
      BY <3>7, <3>8, <3>9, <3>10, <3>11, <3>12, <1>2 DEF InOrder, t
  <2>4. CASE TakesUp(c)
    <3> DEFINE s == inbox[c]
               t == inbox'[c]
    <3>1. /\ s # <<>> /\ t = Tail(s) /\ Head(s) = s[1] /\ 1 \in DOMAIN s /\ DOMAIN s = 1 .. Len(s)
          /\ \A i \in DOMAIN t : i \in Nat /\ 1 < i + 1 /\ i + 1 \in DOMAIN s /\ t[i] = s[i + 1]
      BY <2>4, <2>0, FramesAreTaken DEF TakesUp
    <3>2. sent'[c] = sent[c] /\ replies'[c] = replies[c]
      BY <2>4 DEF TakesUp
    <3>3. Busy(c)' => tasks'[c].frame = s[1]
      BY <2>4, <3>1 DEF TakesUp, Busy
    <3> HIDE DEF s, t
    <3>a. /\ \A i \in DOMAIN s : s[i].n \in Nat /\ s[i].n <= sent[c]
          /\ \A i, j \in DOMAIN s : i < j => s[i].n < s[j].n
          /\ \A i \in DOMAIN replies[c], j \in DOMAIN s : replies[c][i].n < s[j].n
      BY <2>0, <2>0a DEF InOrder, s
    <3>4. \A i, j \in DOMAIN t : i < j => t[i].n < t[j].n
      <4>1. SUFFICES ASSUME NEW i \in DOMAIN t, NEW j \in DOMAIN t, i < j PROVE t[i].n < t[j].n
        OBVIOUS
      <4>2. i + 1 \in DOMAIN s /\ j + 1 \in DOMAIN s /\ i + 1 < j + 1 /\ t[i] = s[i + 1] /\ t[j] = s[j + 1]
        BY <3>1, <4>1
      <4> QED
        BY <4>2, <3>a
    <3>5. \A i \in DOMAIN t : t[i].n <= sent'[c]
      BY <3>a, <3>1, <3>2
    <3>6. Busy(c)' => tasks'[c].frame.n <= sent'[c]
      BY <3>a, <3>1, <3>2, <3>3
    <3>7. Busy(c)' => \A i \in DOMAIN t : tasks'[c].frame.n < t[i].n
      <4>1. SUFFICES ASSUME Busy(c)', NEW i \in DOMAIN t PROVE tasks'[c].frame.n < t[i].n
        OBVIOUS
      <4>2. i + 1 \in DOMAIN s /\ 1 \in DOMAIN s /\ 1 < i + 1 /\ t[i] = s[i + 1] /\ tasks'[c].frame = s[1]
        BY <3>1, <3>3, <4>1
      <4> QED
        BY <4>2, <3>a
    <3>8. Busy(c)' => \A i \in DOMAIN replies'[c] : replies'[c][i].n < tasks'[c].frame.n
      BY <3>a, <3>1, <3>2, <3>3
    <3>9. \A i \in DOMAIN replies'[c], j \in DOMAIN t : replies'[c][i].n < t[j].n
      BY <3>a, <3>1, <3>2
    <3>10. /\ \A i \in DOMAIN replies'[c] : replies'[c][i].n <= sent'[c]
           /\ \A i, j \in DOMAIN replies'[c] : i < j => replies'[c][i].n < replies'[c][j].n
      BY <3>2, <2>0 DEF InOrder
    <3> QED
      BY <3>4, <3>5, <3>6, <3>7, <3>8, <3>9, <3>10, <1>2 DEF InOrder, t
  <2>5. CASE WorksOn(c)
    <3>1. Busy(c) /\ tasks'[c].frame = tasks[c].frame /\ UNCHANGED <<inbox, sent, replies>>
      BY <2>5 DEF WorksOn, Busy
    <3> QED
      BY <3>1, <2>0, <1>2 DEF InOrder
  <2>6. CASE Replies(c)
    <3> DEFINE s == replies[c]
               t == replies'[c]
               n == tasks[c].frame.n
    <3>1. Busy(c) /\ ~Busy(c)' /\ inbox'[c] = inbox[c] /\ sent'[c] = sent[c] /\ n \in Nat
      BY <2>6, <2>0c DEF Replies, Busy
    <3>2. t = Append(s, [n |-> n, deleted |-> Tells(c)])
      BY <2>6 DEF Replies
    <3>3. DOMAIN t = 1 .. Len(s) + 1 /\ DOMAIN s = 1 .. Len(s) /\ Len(s) \in Nat
      BY <3>2, <2>0
    <3>4. \A i \in DOMAIN s : t[i] = s[i]
      BY <3>2, <3>3, <2>0
    <3>5. t[Len(s) + 1].n = n
      BY <3>2, <3>3, <2>0
    <3>6. \A i \in DOMAIN t : i \in DOMAIN s \/ i = Len(s) + 1
      BY <3>3
    <3> HIDE DEF s, t, n
    <3>a. /\ \A i \in DOMAIN s : s[i].n \in Nat /\ s[i].n < n /\ s[i].n <= sent[c]
          /\ n <= sent[c] /\ \A j \in DOMAIN inbox[c] : n < inbox[c][j].n
          /\ \A i, j \in DOMAIN s : i < j => s[i].n < s[j].n
          /\ \A i \in DOMAIN s, j \in DOMAIN inbox[c] : s[i].n < inbox[c][j].n
      BY <2>0, <2>0b, <3>1 DEF InOrder, s, n
    <3>7. \A i, j \in DOMAIN t : i < j => t[i].n < t[j].n
      BY <3>a, <3>3, <3>4, <3>5, <3>6
    <3>8. \A i \in DOMAIN t : t[i].n <= sent'[c]
      BY <3>a, <3>1, <3>4, <3>5, <3>6
    <3>9. \A i \in DOMAIN t, j \in DOMAIN inbox'[c] : t[i].n < inbox'[c][j].n
      BY <3>a, <3>1, <3>4, <3>5, <3>6
    <3>10. /\ \A i, j \in DOMAIN inbox'[c] : i < j => inbox'[c][i].n < inbox'[c][j].n
           /\ \A i \in DOMAIN inbox'[c] : inbox'[c][i].n <= sent'[c]
      BY <3>1, <2>0 DEF InOrder
    <3> QED
      BY <3>7, <3>8, <3>9, <3>10, <3>1, <1>2 DEF InOrder, t
  <2> QED
    BY <2>1, <2>2, <2>3, <2>4, <2>5, <2>6, OwnStep
<1> QED
  BY <1>1, <1>2

(* Only who has just deleted the account begins to tell so.                *)
LEMMA TellingBegins ==
  ASSUME ServerTypes, SlotsFollowTasks, NEW c \in Clients, StepOf(c), Tells(c)'
  PROVE  Tells(c) \/ (store # "deleted" /\ store' = "deleted")
<1>1. CASE Accept(c) \/ EndOfFrames(c)
  <2>1. tasks' = tasks \/ tasks'[c] \in {Idling, Reading}
    BY <1>1 DEF Accept, EndOfFrames, EndTask, ServerTypes
  <2> QED
    BY <2>1 DEF Tells, Idling, Reading
<1>2. CASE SendFrame(c) \/ HangUp(c)
  BY <1>2 DEF SendFrame, HangUp, Tells
<1>3. CASE ReadFrame(c)
  <2> DEFINE f == Head(inbox[c])
  <2>1. \/ tasks'[c] = Reading \/ tasks'[c] = Writing(f, {"too_large"}, TRUE)
        \/ tasks'[c] = Writing(f, {"error"}, FALSE) \/ tasks'[c].at = "handling"
    BY <1>3 DEF ReadFrame, Decoded, ServerTypes
  <2> QED
    BY <2>1 DEF Reading, Writing, Tells
<1>4. CASE GetState(c) \/ GetHealth(c)
  <2>1. WorksOn(c) /\ tasks[c].frame.kind # "delete"
    BY <1>4, HandlersWork DEF GetState, GetHealth, Handling
  <2> QED
    BY <2>1 DEF WorksOn, Tells
<1>5. CASE RequireAccount(c)
  <2>1. tasks[c].at = "handling" /\ tasks'[c].at = "writing"
    BY <1>5 DEF RequireAccount, Handling, Tells
  <2>2. CASE tasks' = [tasks EXCEPT ![c].step = "second"]
    <3>1. tasks[c] \in HandlingTask
      BY <2>1, TaskShapes
    <3>2. tasks'[c].at = "handling"
      BY <2>2, <3>1 DEF HandlingTask, ServerTypes
    <3> QED
      BY <3>2, <2>1
  <2>3. CASE Answered(c, {"error"})
    <3>1. tasks'[c].answer \in {{"error"}, {"too_long"}}
      BY <2>1, <2>3, AnsweredWrites DEF Words
    <3> QED
      BY <3>1 DEF Tells
  <2> QED
    BY <2>2, <2>3, <1>5 DEF RequireAccount
<1>6. CASE ActOnAccount(c)
  <2>1. tasks[c].at = "handling" /\ WorksOn(c)
    BY <1>6, HandlersWork DEF ActOnAccount, Handling
  <2>2. CASE Exists
    BY <2>1, <2>2, <1>6 DEF ActOnAccount, Becomes, Exists, Tells, WorksOn
  <2>3. CASE ~Exists
    <3>1. Answered(c, {"error"})
      BY <2>3, <1>6 DEF ActOnAccount
    <3>2. tasks'[c].answer \in {{"error"}, {"too_long"}}
      BY <2>1, <3>1, AnsweredWrites DEF Words
    <3> QED
      BY <3>2 DEF Tells
  <2> QED
    BY <2>2, <2>3
<1>7. CASE WriteReply(c)
  <2>1. tasks'[c] \in {Idling, Reading}
    BY <1>7 DEF WriteReply, EndTask, ServerTypes
  <2> QED
    BY <2>1 DEF Tells, Idling, Reading
<1> QED
  BY <1>1, <1>2, <1>3, <1>4, <1>5, <1>6, <1>7 DEF StepOf, ServerStep

LEMMA OneIsToldStep ==
  ASSUME ServerTypes, SlotsFollowTasks, OneIsTold, NEW c \in Clients, StepOf(c)
  PROVE  OneIsTold'
<1>1. store = "deleted" => store' = "deleted"
  BY DEF StepOf, ServerStep, Accept, SendFrame, HangUp, EndOfFrames, ReadFrame, GetState, GetHealth, RequireAccount,
         ActOnAccount, WriteReply, Exists
<1>2. \A d \in Clients : Tells(d)' => Tells(d) \/ (d = c /\ store # "deleted" /\ store' = "deleted")
  BY OthersKeep, TellingBegins DEF Tells
<1>3. \A d \in Clients : \A i : WasTold(d, i)' => WasTold(d, i) \/ (d = c /\ Tells(c) /\ ~Tells(c)' /\ i = Len(replies[c]) + 1)
  <2>1. CASE Replies(c)
    <3> DEFINE s == replies[c]
               r == [n |-> tasks[c].frame.n, deleted |-> Tells(c)]
    <3>1. s \in Seq([n : Nat, deleted : BOOLEAN]) /\ replies'[c] = Append(s, r) /\ ~Tells(c)'
      BY <2>1 DEF ServerTypes, Replies, Tells
    <3>2. r.deleted => Tells(c)
      OBVIOUS
    <3> HIDE DEF r
    <3>3. \A i \in DOMAIN replies'[c] : i = Len(s) + 1 \/ (i \in DOMAIN s /\ replies'[c][i] = s[i])
      BY <3>1
    <3>4. replies'[c][Len(s) + 1] = r
      BY <3>1
    <3>5. \A i : WasTold(c, i)' => WasTold(c, i) \/ (Tells(c) /\ i = Len(s) + 1)
      BY <3>2, <3>3, <3>4 DEF WasTold
    <3> QED
      BY <3>1, <3>5, OthersKeep DEF WasTold
  <2>2. CASE replies' = replies
    BY <2>2 DEF WasTold
  <2> QED
    BY <2>1, <2>2, OwnStep DEF Holds, Sends, TakesUp, WorksOn
<1>4. \A d \in Clients : Tells(d)' => store' = "deleted"
  BY <1>1, <1>2 DEF OneIsTold
<1>5. \A d \in Clients : \A i : WasTold(d, i)' => store' = "deleted"
  BY <1>1, <1>3 DEF OneIsTold
<1>6. \A d, e \in Clients : Tells(d)' /\ Tells(e)' => d = e
  BY <1>2 DEF OneIsTold
<1>7. \A d, e \in Clients : \A i : ~(Tells(d)' /\ WasTold(e, i)')
  BY <1>2, <1>3 DEF OneIsTold
<1>8. \A d, e \in Clients : \A i, j : WasTold(d, i)' /\ WasTold(e, j)' => d = e /\ i = j
  BY <1>3 DEF OneIsTold
<1> QED
  BY <1>4, <1>5, <1>6, <1>7, <1>8 DEF OneIsTold

LEMMA OneMomentStep ==
  ASSUME ServerTypes, SlotsFollowTasks, StateOfOneMoment, NEW c \in Clients, StepOf(c), NEW d \in Clients,
         tasks'[d].at = "writing", tasks'[d].frame.kind = "state"
  PROVE  "account" \in tasks'[d].answer <=> "health" \in tasks'[d].answer
<1>1. CASE tasks'[d] = tasks[d]
  BY <1>1 DEF StateOfOneMoment
<1>2. CASE ReadFrame(c) /\ d = c
  <2> DEFINE f == Head(inbox[c])
  <2>1. \/ tasks'[c] = Reading \/ tasks'[c] = Writing(f, {"too_large"}, TRUE)
        \/ tasks'[c] = Writing(f, {"error"}, FALSE) \/ tasks'[c].at = "handling"
    BY <1>2 DEF ReadFrame, Decoded, ServerTypes
  <2> QED
    BY <2>1, <1>2 DEF Reading, Writing
<1>3. CASE GetState(c) /\ d = c
  <2>1. tasks'[c].answer \in {Shown("account") \union Shown("health"), {"too_long"}}
    BY <1>3, AnsweredWrites DEF GetState, Handling, Shown, Words
  <2> QED
    BY <2>1, <1>3 DEF Shown
<1>4. CASE (GetHealth(c) \/ RequireAccount(c) \/ ActOnAccount(c)) /\ d = c
  <2>1. WorksOn(c) /\ tasks[c].frame.kind # "state"
    BY <1>4, HandlersWork DEF GetHealth, RequireAccount, ActOnAccount, Handling
  <2> QED
    BY <2>1, <1>4 DEF WorksOn
<1>5. CASE (Accept(c) \/ EndOfFrames(c) \/ WriteReply(c)) /\ d = c
  <2>1. tasks' = tasks \/ tasks'[c] \in {Idling, Reading}
    BY <1>5 DEF Accept, EndOfFrames, WriteReply, EndTask, ServerTypes
  <2> QED
    BY <2>1, <1>1, <1>5 DEF Idling, Reading
<1>6. CASE SendFrame(c) \/ HangUp(c)
  BY <1>6, <1>1 DEF SendFrame, HangUp
<1>7. CASE d # c
  BY <1>7, <1>1, OthersKeep
<1> QED
  BY <1>2, <1>3, <1>4, <1>5, <1>6, <1>7 DEF StepOf, ServerStep

LEMMA FramesBoundedStep ==
  ASSUME ServerTypes, FramesAreBounded, NEW c \in Clients, StepOf(c)
  PROVE  FramesAreBounded'
<1>1. CASE SendFrame(c)
  <2>1. sent[c] < MaxFrames[c] /\ sent' = [sent EXCEPT ![c] = @ + 1]
    BY <1>1 DEF SendFrame
  <2>2. sent \in [Clients -> Nat] /\ MaxFrames \in [Clients -> Nat]
    BY ServerAssumption DEF ServerTypes
  <2>3. sent[c] + 1 <= MaxFrames[c]
    BY <2>1, <2>2
  <2> QED
    BY <2>1, <2>2, <2>3 DEF FramesAreBounded
<1>2. CASE ~SendFrame(c)
  <2>1. sent' = sent
    BY <1>2 DEF StepOf, ServerStep, Accept, HangUp, EndOfFrames, ReadFrame, GetState, GetHealth, RequireAccount, ActOnAccount, WriteReply
  <2> QED
    BY <2>1 DEF FramesAreBounded
<1> QED
  BY <1>1, <1>2

LEMMA ServerStepInv == ServerInv /\ [ServerNext]_serverVars => ServerInv'
<1> SUFFICES ASSUME ServerInv, [ServerNext]_serverVars PROVE ServerInv'
  OBVIOUS
<1>0. ServerTypes /\ FramesAreBounded /\ SlotsFollowTasks /\ (\A d \in Clients : InOrder(d)) /\ OneIsTold /\ StateOfOneMoment
  BY DEF ServerInv
<1>1. CASE UNCHANGED serverVars
  <2>1. ServerTypes' /\ SlotsFollowTasks' /\ FramesAreBounded'
    BY <1>0, <1>1 DEF serverVars, ServerTypes, SlotsFollowTasks, Served, FramesAreBounded
  <2>2. \A d \in Clients : InOrder(d)'
    BY <1>0, <1>1 DEF serverVars, InOrder, Busy
  <2>3. OneIsTold' /\ StateOfOneMoment'
    BY <1>0, <1>1 DEF serverVars, OneIsTold, Tells, WasTold, StateOfOneMoment
  <2> QED
    BY <2>1, <2>2, <2>3 DEF ServerInv
<1>2. ASSUME NEW c \in Clients, StepOf(c) PROVE ServerInv'
  <2>1. ServerTypes' /\ SlotsFollowTasks' /\ OneIsTold'
    BY <1>0, <1>2, ServerTypesStep, SlotsStep, OneIsToldStep
  <2>2. \A d \in Clients : InOrder(d)'
    BY <1>0, <1>2, InOrderStep
  <2>3. StateOfOneMoment'
    BY <1>0, <1>2, OneMomentStep DEF StateOfOneMoment
  <2>4. FramesAreBounded'
    BY <1>0, <1>2, FramesBoundedStep
  <2> QED
    BY <2>1, <2>2, <2>3, <2>4 DEF ServerInv
<1> QED
  BY <1>1, <1>2 DEF ServerNext, StepOf

(* Whatever clients send, and however they or their connections end: slots *)
(* follow tasks, frames keep their order, and one deletion is confirmed    *)
(* (serve, handle_client).                                                 *)
THEOREM ServerInvariant == ServerSpec => []ServerInv
<1>1. ServerInit => ServerInv
  BY ServerInitInv
<1>2. ServerInv /\ [ServerNext]_serverVars => ServerInv'
  BY ServerStepInv
<1> QED
  BY <1>1, <1>2, PTL DEF ServerSpec

(* For any number of clients, slots and frames no slot is lost or given    *)
(* out twice, a deletion is confirmed once, a state is of one moment, and  *)
(* answers keep the order of the requests (server.rs).                     *)
THEOREM AnswersAreTrue == ServerSpec => []AnswersTrue
<1>1. ASSUME ServerInv PROVE AnswersTrue
  <2>1. SlotsAccounted
    BY <1>1 DEF ServerInv, SlotsFollowTasks, SlotsAccounted, Served
  <2>2. OneDeletion
    BY <1>1 DEF ServerInv, OneIsTold, WasTold, OneDeletion
  <2>3. AnswersInOrder
    BY <1>1 DEF ServerInv, InOrder, AnswersInOrder
  <2> QED
    BY <1>1, <2>1, <2>2, <2>3 DEF ServerInv, AnswersTrue
<1> QED
  BY <1>1, ServerInvariant, PTL

-----------------------------------------------------------------------------
(* A set of natural numbers has a least one.                               *)
LEMMA LeastNatural ==
  ASSUME NEW T \in SUBSET Nat, T # {}
  PROVE  \E x \in T : \A y \in T : x <= y
<1> DEFINE R == StrictSubsetOrdering(Nat)
           U == {0 .. n : n \in T}
<1>1. IsWellFoundedOn(R, FiniteSubsetsOf(Nat))
  BY FS_StrictSubsetOrderingWellFounded
<1>2. U \subseteq FiniteSubsetsOf(Nat) /\ U # {}
  <2>1. \A n \in T : IsFiniteSet(0 .. n)
    BY FS_Interval
  <2>2. \A n \in T : 0 .. n \in SUBSET Nat
    OBVIOUS
  <2> QED
    BY <2>1, <2>2 DEF FiniteSubsetsOf
<1> HIDE DEF R
<1>3. \E x \in U : \A y \in U : <<y, x>> \notin R
  BY <1>1, <1>2, WFMin
<1>4. PICK n \in T : \A m \in T : <<0 .. m, 0 .. n>> \notin R
  BY <1>3
<1>5. ASSUME NEW m \in T, m < n PROVE FALSE
  <2>1. 0 .. m \in SUBSET Nat /\ 0 .. n \in SUBSET Nat /\ 0 .. m \subseteq 0 .. n /\ n \in 0 .. n /\ n \notin 0 .. m
    BY <1>5
  <2>2. <<0 .. m, 0 .. n>> \in R
    BY <2>1 DEF R, StrictSubsetOrdering
  <2> QED
    BY <2>2, <1>4, <1>5
<1> QED
  BY <1>5, <1>4

(* A finite set of integers has a greatest one.                            *)
LEMMA GreatestOfFinite ==
  ASSUME NEW S \in SUBSET Int, IsFiniteSet(S), S # {}
  PROVE  \E x \in S : \A y \in S : y <= x
<1> DEFINE R == StrictSubsetOrdering(S)
           Above(n) == {y \in S : n < y}
           U == {Above(n) : n \in S}
<1>1. IsWellFoundedOn(R, FiniteSubsetsOf(S))
  BY FS_StrictSubsetOrderingWellFounded
<1>a. \A n \in S : Above(n) \in SUBSET S
  OBVIOUS
<1>b. \A n, m \in S : n < m => Above(m) \subseteq Above(n) /\ m \in Above(n) /\ m \notin Above(m)
  <2>1. SUFFICES ASSUME NEW n \in S, NEW m \in S, n < m
                 PROVE  Above(m) \subseteq Above(n) /\ m \in Above(n) /\ m \notin Above(m)
    OBVIOUS
  <2>2. n \in Int /\ m \in Int /\ \A y \in S : y \in Int
    OBVIOUS
  <2>3. \A y \in S : m < y => n < y
    BY <2>1, <2>2
  <2>4. ~ (m < m)
    BY <2>2
  <2> QED
    BY <2>1, <2>3, <2>4
<1> HIDE DEF Above
<1>2. U \subseteq FiniteSubsetsOf(S) /\ U # {}
  <2>1. \A n \in S : IsFiniteSet(Above(n))
    BY <1>a, FS_Subset
  <2> QED
    BY <2>1, <1>a DEF FiniteSubsetsOf
<1> HIDE DEF R
<1>3. \E x \in U : \A y \in U : <<y, x>> \notin R
  BY <1>1, <1>2, WFMin
<1>4. PICK n \in S : \A m \in S : <<Above(m), Above(n)>> \notin R
  BY <1>3
<1>5. ASSUME NEW m \in S, n < m PROVE FALSE
  <2>2. <<Above(m), Above(n)>> \in R
    BY <1>a, <1>b, <1>5 DEF R, StrictSubsetOrdering
  <2> QED
    BY <2>2, <1>4, <1>5
<1> QED
  BY <1>5, <1>4

LEMMA LeastOfFinite ==
  ASSUME NEW S \in SUBSET Int, IsFiniteSet(S), S # {}
  PROVE  \E x \in S : \A y \in S : x <= y
<1> DEFINE T == {-x : x \in S}
           f == [x \in S |-> -x]
<1>1. f \in Surjection(S, T)
  BY DEF Surjection
<1>2. IsFiniteSet(T)
  BY <1>1, FS_Surjection
<1>3. T \in SUBSET Int /\ T # {}
  <2>1. \A x \in S : -x \in Int
    OBVIOUS
  <2>2. T # {}
    OBVIOUS
  <2> QED
    BY <2>1, <2>2
<1> HIDE DEF T
<1>4. PICK t \in T : \A y \in T : y <= t
  BY <1>2, <1>3, GreatestOfFinite
<1>5. PICK x \in S : t = -x
  BY DEF T
<1>6. \A y \in S : -y <= -x
  BY <1>4, <1>5 DEF T
<1>7. \A y \in S : x <= y
  BY <1>6
<1> QED
  BY <1>7

LEMMA MaxIsGreatest ==
  ASSUME NEW S \in SUBSET Int, IsFiniteSet(S), S # {}
  PROVE  Max(S) \in S /\ \A y \in S : y <= Max(S)
<1>1. \E x \in S : \A y \in S : x >= y
  BY GreatestOfFinite
<1> QED
  BY <1>1 DEF Max

LEMMA MinIsLeast ==
  ASSUME NEW S \in SUBSET Int, IsFiniteSet(S), S # {}
  PROVE  Min(S) \in S /\ \A y \in S : Min(S) <= y
<1>1. \E x \in S : \A y \in S : x <= y
  BY LeastOfFinite
<1> QED
  BY <1>1 DEF Min

LEMMA MaxOfTwo ==
  ASSUME NEW a \in Int, NEW b \in Int
  PROVE  Max({a, b}) = IF a <= b THEN b ELSE a
<1>1. \E x \in {a, b} : \A y \in {a, b} : x >= y
  OBVIOUS
<1>2. Max({a, b}) \in {a, b} /\ \A y \in {a, b} : Max({a, b}) >= y
  BY <1>1 DEF Max
<1> QED
  BY <1>2

LEMMA MinOfTwo ==
  ASSUME NEW a \in Int, NEW b \in Int
  PROVE  Min({a, b}) = IF a <= b THEN a ELSE b
<1>1. \E x \in {a, b} : \A y \in {a, b} : x <= y
  OBVIOUS
<1>2. Min({a, b}) \in {a, b} /\ \A y \in {a, b} : Min({a, b}) <= y
  BY <1>1 DEF Min
<1> QED
  BY <1>2

(* The schedule: what every set of groups looks like.                      *)
LEMMA IntervalIsPositive ==
  ASSUME NEW p \in Pollable, NEW i \in PollIntervals
  PROVE  IntervalOf(p, i) \in Nat \ {0}
<1>1. i \in Nat \ {0} /\ MinimumInterval[p] \in Nat
  BY PollAssumption
<1> QED
  BY <1>1, MaxOfTwo DEF IntervalOf

LEMMA LongestIsLongest ==
  ASSUME Pollable # {}
  PROVE  /\ Longest \in Nat
         /\ \A p \in Pollable, i \in PollIntervals : IntervalOf(p, i) <= Longest
<1> DEFINE S == Pollable \X PollIntervals
           T == {IntervalOf(p, i) : p \in Pollable, i \in PollIntervals}
           f == [x \in S |-> IntervalOf(x[1], x[2])]
<1>1. IsFiniteSet(S)
  BY PollAssumption, FS_Product
<1>2. f \in Surjection(S, T)
  <2>1. f \in [S -> T]
    OBVIOUS
  <2>2. \A t \in T : \E x \in S : f[x] = t
    <3>1. SUFFICES ASSUME NEW t \in T PROVE \E x \in S : f[x] = t
      OBVIOUS
    <3>2. PICK p \in Pollable, i \in PollIntervals : t = IntervalOf(p, i)
      OBVIOUS
    <3>3. <<p, i>> \in S /\ f[<<p, i>>] = t
      BY <3>2
    <3> QED
      BY <3>3
  <2> QED
    BY <2>1, <2>2 DEF Surjection
<1>3. IsFiniteSet(T)
  BY <1>1, <1>2, FS_Surjection
<1>4. T # {}
  <2>1. PollIntervals # {}
    BY PollAssumption
  <2> QED
    BY <2>1
<1>5. T \in SUBSET Nat
  BY IntervalIsPositive
<1> HIDE DEF S, f
<1>6. Longest = Max(T)
  BY DEF Longest
<1>7. T \in SUBSET Int
  BY <1>5
<1> HIDE DEF T
<1>8. Longest \in T /\ \A y \in T : y <= Longest
  BY <1>3, <1>4, <1>6, <1>7, MaxIsGreatest
<1> QED
  BY <1>5, <1>8 DEF T

LEMMA GroupsAreKnown ==
  ASSUME NEW i \in PollIntervals, NEW e \in SUBSET Pollable
  PROVE  LET G == PollGroups(i, e) IN
         /\ IsFiniteSet(G)
         /\ \A g \in G : g.every \in Nat \ {0} /\ g.every <= Longest /\ Longest \in Nat /\ g.providers \subseteq e
         /\ \A g, h \in G : \A p \in g.providers : p \in h.providers => g = h
<1> DEFINE G == PollGroups(i, e)
           Group(k) == [every |-> k, providers |-> {p \in e : IntervalOf(p, i) = k}]
           f == [p \in e |-> Group(IntervalOf(p, i))]
<1>1. G = {Group(k) : k \in {IntervalOf(p, i) : p \in e}}
  BY DEF PollGroups
<1>2. f \in Surjection(e, G)
  BY <1>1 DEF Surjection
<1>3. IsFiniteSet(e)
  BY PollAssumption, FS_Subset
<1>4. IsFiniteSet(G)
  BY <1>2, <1>3, FS_Surjection
<1>5. ASSUME NEW g \in G
      PROVE  g.every \in Nat \ {0} /\ g.every <= Longest /\ Longest \in Nat /\ g.providers \subseteq e
  <2>1. PICK p \in e : g = Group(IntervalOf(p, i))
    BY <1>1
  <2>2. g.every = IntervalOf(p, i) /\ g.providers \subseteq e
    BY <2>1
  <2> QED
    BY <2>2, LongestIsLongest, IntervalIsPositive
<1>6. ASSUME NEW g \in G, NEW h \in G, NEW p \in g.providers, p \in h.providers PROVE g = h
  <2>1. PICK q \in e : g = Group(IntervalOf(q, i))
    BY <1>1
  <2>2. PICK r \in e : h = Group(IntervalOf(r, i))
    BY <1>1
  <2>3. IntervalOf(p, i) = IntervalOf(q, i) /\ IntervalOf(p, i) = IntervalOf(r, i)
    BY <2>1, <2>2, <1>6
  <2> QED
    BY <2>1, <2>2, <2>3
<1> QED
  BY <1>4, <1>5, <1>6

PollTypes ==
  /\ interval \in PollIntervals /\ polled \in SUBSET Pollable
  /\ unseen \in BOOLEAN /\ clockSet \in BOOLEAN
  /\ published = PollGroups(interval, polled)
  /\ \E i \in PollIntervals, e \in SUBSET Pollable : DOMAIN due = PollGroups(i, e)
  /\ due \in [DOMAIN due -> Int] /\ busy \subseteq DOMAIN due
  /\ timer \in 0 .. Recheck /\ disturbed \in 0 .. MaxEvents /\ late \in Nat
  /\ since \in [Pollable -> Nat]

DeadlinesAreNear == \A g \in DOMAIN due : -MaxShift <= due[g] /\ due[g] <= Longest + MaxShift * disturbed
SinceIsCapped == \A p \in Pollable : since[p] <= Longest

(* The timer fires before the loop is later than its bound.                *)
NotLate == IF busy = {} THEN late + timer <= Recheck ELSE late = 0

(* What is left of an interval has not passed since the last poll.         *)
LeftIsOwed ==
  clockSet \/ \A g \in DOMAIN due : \A p \in g.providers : g.every <= since[p] \/ g.every <= since[p] + due[g]

PollInv ==
  /\ PollTypes /\ DeadlinesAreNear /\ SinceIsCapped
  /\ NotLate /\ LeftIsOwed
  /\ ~unseen => DOMAIN due = published

LEMMA DomainIsKnown ==
  ASSUME PollTypes
  PROVE  /\ IsFiniteSet(DOMAIN due)
         /\ \A g \in DOMAIN due : /\ g.every \in Nat \ {0} /\ g.every <= Longest /\ Longest \in Nat
                                /\ g.providers \subseteq Pollable
         /\ \A g, h \in DOMAIN due : \A p \in g.providers : p \in h.providers => g = h
<1>1. PICK i \in PollIntervals, e \in SUBSET Pollable : DOMAIN due = PollGroups(i, e)
  BY DEF PollTypes
<1> QED
  BY <1>1, GroupsAreKnown

LEMMA WaitIsBounded ==
  ASSUME NEW d, IsFiniteSet(DOMAIN d), d \in [DOMAIN d -> Int]
  PROVE  Wait(d) \in 0 .. Recheck
<1> DEFINE T == {d[g] : g \in DOMAIN d}
           f == [g \in DOMAIN d |-> d[g]]
           S == T \union {Recheck}
<1>1. f \in Surjection(DOMAIN d, T)
  BY DEF Surjection
<1>2. IsFiniteSet(T)
  BY <1>1, FS_Surjection
<1>3. Recheck \in Nat
  BY PollAssumption
<1>4. IsFiniteSet(S)
  BY <1>2, FS_Singleton, FS_Union
<1>5. T \in SUBSET Int
  OBVIOUS
<1> HIDE DEF T
<1>6. S \in SUBSET Int /\ S # {} /\ Recheck \in S
  BY <1>5, <1>3
<1> HIDE DEF S
<1>7. Min(S) \in Int /\ Min(S) <= Recheck
  BY <1>4, <1>6, MinIsLeast
<1>8. Wait(d) = Max({0, Min(S)})
  BY DEF Wait, S, T
<1> QED
  BY <1>3, <1>7, <1>8, MaxOfTwo

LEMMA DeadlinesAreKnown ==
  ASSUME NEW i \in PollIntervals, NEW e \in SUBSET Pollable, NEW d, d = Deadlines(PollGroups(i, e))
  PROVE  /\ DOMAIN d = PollGroups(i, e) /\ d \in [DOMAIN d -> Int]
         /\ \A g \in DOMAIN d : d[g] = g.every /\ g.every \in Nat \ {0} /\ g.every <= Longest /\ Longest \in Nat
         /\ Wait(d) \in 0 .. Recheck
<1>1. DOMAIN d = PollGroups(i, e) /\ \A g \in DOMAIN d : d[g] = g.every
  BY DEF Deadlines
<1>2. \A g \in DOMAIN d : g.every \in Nat \ {0} /\ g.every <= Longest /\ Longest \in Nat
  BY <1>1, GroupsAreKnown
<1>3. d \in [DOMAIN d -> Int]
  BY <1>1, <1>2 DEF Deadlines
<1>4. IsFiniteSet(DOMAIN d)
  BY <1>1, GroupsAreKnown
<1> QED
  BY <1>1, <1>2, <1>3, <1>4, WaitIsBounded

LEMMA PollInitInv == PollInit => PollInv
<1> SUFFICES ASSUME PollInit PROVE PollInv
  OBVIOUS
<1>1. due = Deadlines(PollGroups(interval, polled)) /\ interval \in PollIntervals /\ polled \in SUBSET Pollable
  BY DEF PollInit
<1>2. /\ DOMAIN due = PollGroups(interval, polled) /\ due \in [DOMAIN due -> Int]
      /\ \A g \in DOMAIN due : due[g] = g.every /\ g.every \in Nat \ {0} /\ g.every <= Longest /\ Longest \in Nat
      /\ Wait(due) \in 0 .. Recheck
  BY <1>1, DeadlinesAreKnown
<1>3. Recheck \in Nat /\ MaxShift \in Nat /\ MaxEvents \in Nat
  BY PollAssumption
<1>4. PollTypes
  <2>1. \E i \in PollIntervals, e \in SUBSET Pollable : DOMAIN due = PollGroups(i, e)
    BY <1>1, <1>2
  <2>2. timer = Wait(due) /\ disturbed = 0 /\ late = 0 /\ since = [p \in Pollable |-> 0] /\ busy = {}
    BY DEF PollInit
  <2>3. timer \in 0 .. Recheck /\ disturbed \in 0 .. MaxEvents /\ late \in Nat /\ since \in [Pollable -> Nat]
    BY <2>2, <1>2, <1>3
  <2> QED
    BY <1>1, <1>2, <2>1, <2>2, <2>3 DEF PollInit, PollTypes
<1>5. DeadlinesAreNear
  <2>1. MaxShift * disturbed = 0
    BY <1>3 DEF PollInit
  <2>2. \A g \in DOMAIN due : -MaxShift <= due[g] /\ due[g] <= Longest + 0
    BY <1>2, <1>3
  <2> QED
    BY <2>1, <2>2 DEF DeadlinesAreNear
<1>6. SinceIsCapped
  <2>1. \A p \in Pollable : since[p] = 0
    BY DEF PollInit
  <2> QED
    BY <2>1, LongestIsLongest DEF SinceIsCapped
<1>7. NotLate
  BY <1>2, <1>3 DEF PollInit, NotLate
<1>8. LeftIsOwed
  <2>1. \A g \in DOMAIN due : \A p \in g.providers : since[p] = 0
    BY <1>4, DomainIsKnown DEF PollInit
  <2> QED
    BY <1>2, <2>1 DEF LeftIsOwed
<1> QED
  BY <1>2, <1>4, <1>5, <1>6, <1>7, <1>8 DEF PollInv, PollInit

(* Time passes, or the clock is set: deadlines come nearer or go away.     *)
LEMMA ShiftedIsNear ==
  ASSUME PollTypes, NEW k \in Int, due' = Shifted(due, k)
  PROVE  /\ DOMAIN due' = DOMAIN due /\ due' \in [DOMAIN due -> Int]
         /\ \A g \in DOMAIN due : -MaxShift <= due'[g] /\ due[g] - k <= due'[g] /\ due'[g] \in {-MaxShift, due[g] - k}
<1>1. MaxShift \in Nat /\ \A g \in DOMAIN due : due[g] \in Int
  BY PollAssumption DEF PollTypes
<1>2. \A g \in DOMAIN due : Max({-MaxShift, due[g] - k}) = IF -MaxShift <= due[g] - k THEN due[g] - k ELSE -MaxShift
  BY <1>1, MaxOfTwo
<1>3. DOMAIN due' = DOMAIN due /\ \A g \in DOMAIN due : due'[g] = IF -MaxShift <= due[g] - k THEN due[g] - k ELSE -MaxShift
  BY <1>2 DEF Shifted
<1>4. \A g \in DOMAIN due : -MaxShift <= due'[g] /\ due[g] - k <= due'[g] /\ due'[g] \in {-MaxShift, due[g] - k} /\ due'[g] \in Int
  BY <1>1, <1>3
<1>5. due' = [g \in DOMAIN due |-> due'[g]]
  BY DEF Shifted
<1> QED
  BY <1>3, <1>4, <1>5

LEMMA AgedIsCapped ==
  ASSUME PollTypes, SinceIsCapped, NEW k \in Nat, since' = Aged(k)
  PROVE  /\ since' \in [Pollable -> Nat]
         /\ \A p \in Pollable : since'[p] <= Longest /\ since[p] <= since'[p]
         /\ \A g \in DOMAIN due : \A p \in g.providers : since'[p] \in {since[p] + k, Longest}
<1>1. Pollable # {} => Longest \in Nat
  BY LongestIsLongest
<1>2. \A p \in Pollable : since[p] \in Nat /\ since[p] <= Longest /\ Longest \in Nat
  BY <1>1 DEF PollTypes, SinceIsCapped
<1>3. \A p \in Pollable : Min({since[p] + k, Longest}) = IF since[p] + k <= Longest THEN since[p] + k ELSE Longest
  BY <1>2, MinOfTwo
<1>4. \A p \in Pollable : since'[p] = IF p \in Members(DOMAIN due)
                                    THEN IF since[p] + k <= Longest THEN since[p] + k ELSE Longest ELSE since[p]
  BY <1>3 DEF Aged
<1>5. \A p \in Pollable : since'[p] \in Nat /\ since'[p] <= Longest /\ since[p] <= since'[p]
  BY <1>2, <1>4
<1>6. since' = [p \in Pollable |-> since'[p]]
  BY DEF Aged
<1>7. \A g \in DOMAIN due : \A p \in g.providers : p \in Members(DOMAIN due) /\ p \in Pollable
  BY DomainIsKnown DEF Members
<1> QED
  BY <1>4, <1>5, <1>6, <1>7

LEMMA PassingKeeps ==
  ASSUME PollInv, NEW k \in Nat, due' = Shifted(due, k), since' = Aged(k), clockSet' = clockSet,
         UNCHANGED <<interval, polled, published, unseen, busy>>,
         timer' \in 0 .. Recheck, disturbed' \in {disturbed, disturbed + 1}, disturbed' \in 0 .. MaxEvents, late' \in Nat, NotLate'
  PROVE  PollInv'
<1>0. PollTypes /\ DeadlinesAreNear /\ SinceIsCapped /\ LeftIsOwed /\ (~unseen => DOMAIN due = published)
  BY DEF PollInv
<1>1. /\ DOMAIN due' = DOMAIN due /\ due' \in [DOMAIN due -> Int]
      /\ \A g \in DOMAIN due : -MaxShift <= due'[g] /\ due[g] - k <= due'[g] /\ due'[g] \in {-MaxShift, due[g] - k}
  BY <1>0, ShiftedIsNear
<1>2. /\ since' \in [Pollable -> Nat]
      /\ \A p \in Pollable : since'[p] <= Longest /\ since[p] <= since'[p]
      /\ \A g \in DOMAIN due : \A p \in g.providers : since'[p] \in {since[p] + k, Longest}
  BY <1>0, AgedIsCapped
<1>3. \A g \in DOMAIN due : /\ g.every \in Nat \ {0} /\ g.every <= Longest /\ Longest \in Nat
                          /\ g.providers \subseteq Pollable /\ due[g] \in Int
  BY <1>0, DomainIsKnown DEF PollTypes
<1>4. PollTypes'
  BY <1>0, <1>1, <1>2 DEF PollTypes
<1>5. SinceIsCapped'
  BY <1>2 DEF SinceIsCapped
<1>6. LeftIsOwed'
  <2>1. SUFFICES ASSUME ~clockSet, NEW g \in DOMAIN due, NEW p \in g.providers
                 PROVE  g.every <= since'[p] \/ g.every <= since'[p] + due'[g]
    BY <1>1 DEF LeftIsOwed
  <2>2. p \in Pollable /\ since[p] \in Nat /\ since'[p] \in Nat /\ due'[g] \in Int
    BY <1>0, <1>1, <1>2, <1>3 DEF PollTypes
  <2>3. g.every <= since[p] \/ g.every <= since[p] + due[g]
    BY <1>0, <2>1 DEF LeftIsOwed
  <2>4. since'[p] \in {since[p] + k, Longest} /\ since[p] <= since'[p] /\ due[g] - k <= due'[g]
    BY <1>1, <1>2, <2>2
  <2> QED
    BY <2>2, <2>3, <2>4, <1>3
<1>7. DeadlinesAreNear'
  <2>1. SUFFICES ASSUME NEW g \in DOMAIN due PROVE due'[g] <= Longest + MaxShift * disturbed'
    BY <1>1 DEF DeadlinesAreNear
  <2>2. MaxShift \in Nat /\ disturbed \in Nat /\ disturbed' \in Nat
    BY <1>0, PollAssumption DEF PollTypes
  <2>3. MaxShift * disturbed \in Nat /\ MaxShift * disturbed' \in Nat /\ MaxShift * disturbed <= MaxShift * disturbed'
    <3>1. CASE disturbed' = disturbed
      BY <2>2, <3>1
    <3>2. CASE disturbed' = disturbed + 1
      <4>1. MaxShift * (disturbed + 1) = MaxShift * disturbed + MaxShift
        BY <2>2
      <4>2. MaxShift * disturbed \in Nat
        BY <2>2
      <4> QED
        BY <4>1, <4>2, <3>2, <2>2
    <3> QED
      BY <3>1, <3>2
  <2>4. due[g] <= Longest + MaxShift * disturbed /\ due'[g] \in {-MaxShift, due[g] - k}
    BY <1>0, <1>1 DEF DeadlinesAreNear
  <2> DEFINE a == MaxShift * disturbed
             b == MaxShift * disturbed'
  <2>5. a \in Nat /\ b \in Nat /\ a <= b /\ due[g] <= Longest + a
    BY <2>3, <2>4
  <2> HIDE DEF a, b
  <2>6. due'[g] <= Longest + b
    BY <2>2, <2>4, <2>5, <1>3
  <2> QED
    BY <2>6 DEF b
<1> QED
  BY <1>0, <1>1, <1>4, <1>5, <1>6, <1>7 DEF PollInv

LEMMA PollTickKeeps == ASSUME PollInv, PollTick PROVE PollInv'
<1>0. PollTypes /\ NotLate
  BY DEF PollInv
<1>1. due' = Shifted(due, 1) /\ since' = Aged(1) /\ UNCHANGED <<interval, polled, published, unseen, busy, disturbed, clockSet>>
  BY DEF PollTick
<1>2. timer \in 0 .. Recheck /\ Recheck \in Nat /\ late \in Nat
  BY <1>0, PollAssumption DEF PollTypes
<1>3. Overdue(due) # {} => due # <<>>
  BY DEF Overdue
<1>4. CASE Waiting /\ due # <<>>
  <2>1. timer > 0 /\ timer' = timer - 1 /\ late' \in {late, late + 1} /\ busy' = {} /\ busy = {}
    BY <1>4 DEF PollTick, Waiting
  <2>2. late + timer <= Recheck
    BY <1>0, <2>1 DEF NotLate
  <2>3a. late' \in Nat
    BY <1>2, <2>1
  <2>3b. timer' \in 0 .. Recheck
    BY <1>2, <2>1
  <2>3c. late' + timer' <= Recheck
    <3>1. timer \in Nat /\ late \in Nat /\ Recheck \in Nat
      BY <1>2
    <3>2. timer' = timer - 1
      BY <2>1
    <3>3. CASE late' = late
      BY <3>1, <3>2, <3>3, <2>2
    <3>4. CASE late' = late + 1
      BY <3>1, <3>2, <3>4, <2>2
    <3> QED
      BY <2>1, <3>3, <3>4
  <2>3. timer' \in 0 .. Recheck /\ late' \in Nat /\ late' + timer' <= Recheck
    BY <2>3a, <2>3b, <2>3c
  <2>4. NotLate'
    BY <2>1, <2>3 DEF NotLate
  <2>5. disturbed' \in {disturbed, disturbed + 1} /\ disturbed' \in 0 .. MaxEvents
    BY <1>0, <1>1 DEF PollTypes
  <2> QED
    BY <1>1, <2>3, <2>4, <2>5, PassingKeeps
<1>5. CASE ~ (Waiting /\ due # <<>>)
  <2>1. timer' = timer /\ late' = late
    BY <1>5, <1>3 DEF PollTick
  <2>2. NotLate'
    BY <2>1, <1>0, <1>1 DEF NotLate
  <2>5. disturbed' \in {disturbed, disturbed + 1} /\ disturbed' \in 0 .. MaxEvents
    BY <1>0, <1>1 DEF PollTypes
  <2> QED
    BY <1>1, <1>2, <2>1, <2>2, <2>5, PassingKeeps
<1> QED
  BY <1>4, <1>5

LEMMA DisturbIsBounded == ASSUME PollTypes, Disturb PROVE disturbed' = disturbed + 1 /\ disturbed' \in 0 .. MaxEvents
  BY PollAssumption DEF PollTypes, Disturb

LEMMA SleepKeeps == ASSUME PollInv, NEW k \in 1 .. MaxShift, MachineSleeps(k) PROVE PollInv'
<1>0. PollTypes /\ NotLate
  BY DEF PollInv
<1>1. /\ due' = Shifted(due, k) /\ since' = Aged(k)
      /\ UNCHANGED <<interval, polled, published, unseen, timer, busy, clockSet, late>> /\ Disturb
  BY DEF MachineSleeps
<1>2. disturbed' \in {disturbed, disturbed + 1} /\ disturbed' \in 0 .. MaxEvents
  BY <1>0, <1>1, DisturbIsBounded
<1>3. timer' \in 0 .. Recheck /\ late' \in Nat /\ NotLate' /\ k \in Nat
  BY <1>0, <1>1, PollAssumption DEF PollTypes, NotLate
<1> QED
  BY <1>1, <1>2, <1>3, PassingKeeps

LEMMA ClockKeeps == ASSUME PollInv, NEW k \in -MaxShift .. MaxShift, SetClock(k) PROVE PollInv'
<1>0. PollTypes /\ DeadlinesAreNear /\ SinceIsCapped /\ NotLate /\ (~unseen => DOMAIN due = published)
  BY DEF PollInv
<1>1. /\ due' = Shifted(due, k) /\ clockSet' = TRUE
      /\ UNCHANGED <<interval, polled, published, unseen, timer, busy, since, late>> /\ Disturb
  BY DEF SetClock
<1>2. MaxShift \in Nat /\ k \in Int /\ -k <= MaxShift
  BY PollAssumption
<1>3. /\ DOMAIN due' = DOMAIN due /\ due' \in [DOMAIN due -> Int]
      /\ \A g \in DOMAIN due : -MaxShift <= due'[g] /\ due[g] - k <= due'[g] /\ due'[g] \in {-MaxShift, due[g] - k}
  BY <1>0, <1>1, <1>2, ShiftedIsNear
<1>4. disturbed' = disturbed + 1 /\ disturbed' \in 0 .. MaxEvents
  BY <1>0, <1>1, DisturbIsBounded
<1>5. PollTypes'
  BY <1>0, <1>1, <1>3, <1>4 DEF PollTypes
<1>6. DeadlinesAreNear'
  <2>1. SUFFICES ASSUME NEW g \in DOMAIN due PROVE due'[g] <= Longest + MaxShift * disturbed'
    BY <1>3 DEF DeadlinesAreNear
  <2>2. Longest \in Nat /\ due[g] \in Int /\ disturbed \in Nat
    BY <1>0, DomainIsKnown DEF PollTypes
  <2> DEFINE a == MaxShift * disturbed
  <2>3. a \in Nat /\ MaxShift * (disturbed + 1) = a + MaxShift
    BY <1>2, <2>2
  <2>4. due[g] <= Longest + a /\ due'[g] \in {-MaxShift, due[g] - k}
    BY <1>0, <1>3 DEF DeadlinesAreNear
  <2> HIDE DEF a
  <2>5. due'[g] <= Longest + (a + MaxShift)
    BY <1>2, <2>2, <2>3, <2>4
  <2> QED
    BY <2>3, <2>5, <1>4
<1>7. NotLate' /\ SinceIsCapped' /\ LeftIsOwed' /\ (~unseen' => DOMAIN due' = published')
  BY <1>0, <1>1, <1>3 DEF NotLate, SinceIsCapped, LeftIsOwed
<1> QED
  BY <1>5, <1>6, <1>7 DEF PollInv

LEMMA NearerOrLater ==
  ASSUME PollTypes, disturbed' = disturbed + 1, NEW x \in Int, Longest \in Nat, x <= Longest + MaxShift * disturbed
  PROVE  x <= Longest + MaxShift * disturbed'
<1>1. MaxShift \in Nat /\ disturbed \in Nat
  BY PollAssumption DEF PollTypes
<1> DEFINE a == MaxShift * disturbed
<1>2. a \in Nat /\ MaxShift * (disturbed + 1) = a + MaxShift
  BY <1>1
<1> HIDE DEF a
<1>3. x <= Longest + a
  BY DEF a
<1>4. x <= Longest + (a + MaxShift)
  BY <1>1, <1>2, <1>3
<1> QED
  BY <1>2, <1>4

LEMMA ChangeKeeps ==
  ASSUME PollInv, NEW every \in PollIntervals, NEW enabled \in SUBSET Pollable, ChangePolling(every, enabled)
  PROVE  PollInv'
<1>0. PollTypes /\ DeadlinesAreNear /\ SinceIsCapped /\ NotLate /\ LeftIsOwed /\ (~unseen => DOMAIN due = published)
  BY DEF PollInv
<1> DEFINE next == IF PollingChanged(every, enabled) THEN PollGroups(every, enabled) ELSE published
<1>1. /\ interval' = every /\ polled' = enabled /\ published' = next /\ unseen' = (unseen \/ next # published)
      /\ UNCHANGED <<due, timer, busy, clockSet, since, late>> /\ Disturb
  BY DEF ChangePolling
<1>2. next = PollGroups(every, enabled)
  BY <1>0 DEF PollingChanged, PollTypes
<1>3. disturbed' = disturbed + 1 /\ disturbed' \in 0 .. MaxEvents
  BY <1>0, <1>1, DisturbIsBounded
<1> HIDE DEF next
<1>4. unseen' \in BOOLEAN /\ (~unseen' => ~unseen /\ next = published)
  BY <1>1, <1>0 DEF PollTypes
<1>5. PollTypes'
  BY <1>0, <1>1, <1>2, <1>3, <1>4 DEF PollTypes
<1>6. DeadlinesAreNear'
  <2>1. \A g \in DOMAIN due : due[g] \in Int /\ Longest \in Nat
    BY <1>0, DomainIsKnown DEF PollTypes
  <2> QED
    BY <2>1, <1>0, <1>1, <1>3, NearerOrLater DEF DeadlinesAreNear
<1>7. SinceIsCapped' /\ NotLate' /\ LeftIsOwed'
  BY <1>0, <1>1 DEF SinceIsCapped, NotLate, LeftIsOwed
<1>8. ~unseen' => DOMAIN due' = published'
  BY <1>0, <1>1, <1>4
<1> QED
  BY <1>5, <1>6, <1>7, <1>8 DEF PollInv

LEMMA FiringKeeps == ASSUME PollInv, TimerFires PROVE PollInv'
<1>0. PollTypes /\ DeadlinesAreNear /\ SinceIsCapped /\ NotLate /\ LeftIsOwed /\ (~unseen => DOMAIN due = published)
  BY DEF PollInv
<1>1. /\ busy' = Overdue(due) /\ timer' \in {timer, Wait(due)} /\ late' = 0
      /\ UNCHANGED <<interval, polled, published, unseen, due, disturbed, clockSet, since>>
  BY DEF TimerFires
<1>2. Wait(due) \in 0 .. Recheck
  BY <1>0, DomainIsKnown, WaitIsBounded DEF PollTypes
<1>3. timer' \in 0 .. Recheck /\ busy' \subseteq DOMAIN due /\ Recheck \in Nat
  BY <1>0, <1>1, <1>2, PollAssumption DEF PollTypes, Overdue
<1>4. PollTypes'
  BY <1>0, <1>1, <1>3 DEF PollTypes
<1>5. NotLate'
  <2>1. late' = 0 /\ timer' \in Nat /\ timer' <= Recheck
    BY <1>1, <1>3
  <2>2. late' + timer' <= Recheck
    BY <2>1
  <2> QED
    BY <2>1, <2>2, Zenon DEF NotLate
<1>6. DeadlinesAreNear' /\ SinceIsCapped' /\ LeftIsOwed' /\ (~unseen' => DOMAIN due' = published')
  BY <1>0, <1>1 DEF DeadlinesAreNear, SinceIsCapped, LeftIsOwed
<1> QED
  BY <1>4, <1>5, <1>6 DEF PollInv

LEMMA DoneKeeps == ASSUME PollInv, RefreshDone PROVE PollInv'
<1>0. PollTypes /\ DeadlinesAreNear /\ SinceIsCapped /\ NotLate /\ LeftIsOwed /\ (~unseen => DOMAIN due = published)
  BY DEF PollInv
<1>1. /\ due' = Rearmed(busy) /\ timer' = Wait(due') /\ busy' = {}
      /\ since' = [p \in Pollable |-> IF p \in Members(busy) THEN 0 ELSE since[p]]
      /\ UNCHANGED <<interval, polled, published, unseen, disturbed, clockSet, late>>
  BY DEF RefreshDone
<1>2. /\ IsFiniteSet(DOMAIN due)
      /\ \A g \in DOMAIN due : /\ g.every \in Nat \ {0} /\ g.every <= Longest /\ Longest \in Nat
                             /\ g.providers \subseteq Pollable /\ due[g] \in Int
      /\ \A g, h \in DOMAIN due : \A p \in g.providers : p \in h.providers => g = h
  BY <1>0, DomainIsKnown DEF PollTypes
<1>3. DOMAIN due' = DOMAIN due /\ \A g \in DOMAIN due : due'[g] = IF g \in busy THEN g.every ELSE due[g]
  BY <1>1 DEF Rearmed
<1>4. due' \in [DOMAIN due -> Int]
  BY <1>1, <1>2 DEF Rearmed
<1>5. timer' \in 0 .. Recheck
  BY <1>1, <1>2, <1>3, <1>4, WaitIsBounded
<1>6. \A p \in Pollable : since'[p] \in Nat /\ since'[p] <= Longest /\ since'[p] = IF p \in Members(busy) THEN 0 ELSE since[p]
  <2>1. Pollable # {} => Longest \in Nat
    BY LongestIsLongest
  <2> QED
    BY <2>1, <1>0, <1>1 DEF PollTypes, SinceIsCapped
<1>7. since' \in [Pollable -> Nat]
  BY <1>0, <1>1 DEF PollTypes
<1>8. PollTypes'
  BY <1>0, <1>1, <1>3, <1>4, <1>5, <1>7 DEF PollTypes
<1>9. NotLate'
  <2>1. late = 0 /\ Recheck \in Nat
    BY <1>0, PollAssumption DEF NotLate, RefreshDone, Waiting
  <2> QED
    BY <2>1, <1>1, <1>5 DEF NotLate
<1>10. DeadlinesAreNear'
  <2>1. MaxShift \in Nat /\ disturbed \in Nat
    BY <1>0, PollAssumption DEF PollTypes
  <2> DEFINE a == MaxShift * disturbed
  <2>2. a \in Nat
    BY <2>1
  <2>3. \A g \in DOMAIN due : -MaxShift <= due[g] /\ due[g] <= Longest + a
    BY <1>0 DEF DeadlinesAreNear
  <2> HIDE DEF a
  <2>4. \A g \in DOMAIN due : -MaxShift <= due'[g] /\ due'[g] <= Longest + a
    BY <2>1, <2>2, <2>3, <1>2, <1>3
  <2> QED
    BY <2>4, <1>1, <1>3 DEF DeadlinesAreNear, a
<1>11. LeftIsOwed'
  <2>1. SUFFICES ASSUME ~clockSet, NEW g \in DOMAIN due, NEW p \in g.providers
                 PROVE  g.every <= since'[p] \/ g.every <= since'[p] + due'[g]
    BY <1>1, <1>3 DEF LeftIsOwed
  <2>2. p \in Pollable /\ since'[p] \in Nat /\ g.every \in Nat
    BY <1>2, <1>6
  <2>3. CASE g \in busy
    BY <2>2, <2>3, <1>3
  <2>4. CASE g \notin busy
    <3>1. p \notin Members(busy)
      BY <2>4, <1>0, <1>2 DEF Members, PollTypes
    <3> QED
      BY <3>1, <2>4, <2>1, <2>2, <1>0, <1>3, <1>6 DEF LeftIsOwed
  <2> QED
    BY <2>3, <2>4
<1>12. SinceIsCapped' /\ (~unseen' => DOMAIN due' = published')
  BY <1>0, <1>1, <1>3, <1>6 DEF SinceIsCapped
<1> QED
  BY <1>8, <1>9, <1>10, <1>11, <1>12 DEF PollInv

LEMMA SeeingKeeps == ASSUME PollInv, SeeSchedule PROVE PollInv'
<1>0. PollTypes /\ SinceIsCapped
  BY DEF PollInv
<1>1. /\ busy = {} /\ unseen' = FALSE /\ due' = Deadlines(published) /\ timer' = Wait(due') /\ late' = 0
      /\ since' = [p \in Pollable |-> IF p \in Members(DOMAIN due) THEN since[p] ELSE 0]
      /\ UNCHANGED <<interval, polled, published, busy, disturbed, clockSet>>
  BY DEF SeeSchedule, Waiting
<1>2. published = PollGroups(interval, polled) /\ interval \in PollIntervals /\ polled \in SUBSET Pollable
  BY <1>0 DEF PollTypes
<1>3. /\ DOMAIN due' = published /\ due' \in [DOMAIN due' -> Int]
      /\ \A g \in DOMAIN due' : due'[g] = g.every /\ g.every \in Nat \ {0} /\ g.every <= Longest /\ Longest \in Nat
      /\ timer' \in 0 .. Recheck
  BY <1>1, <1>2, DeadlinesAreKnown
<1>4. \A p \in Pollable : since'[p] \in Nat /\ since'[p] <= Longest
  <2>1. Pollable # {} => Longest \in Nat
    BY LongestIsLongest
  <2> QED
    BY <2>1, <1>0, <1>1 DEF PollTypes, SinceIsCapped
<1>5. since' \in [Pollable -> Nat]
  BY <1>0, <1>1 DEF PollTypes
<1>6. PollTypes'
  <2>1. \E i \in PollIntervals, e \in SUBSET Pollable : DOMAIN due' = PollGroups(i, e)
    BY <1>2, <1>3
  <2> QED
    BY <2>1, <1>0, <1>1, <1>3, <1>5 DEF PollTypes
<1>7. NotLate'
  BY <1>1, <1>3, PollAssumption DEF NotLate
<1>8. DeadlinesAreNear'
  <2>1. MaxShift \in Nat /\ disturbed \in Nat
    BY <1>0, PollAssumption DEF PollTypes
  <2> DEFINE a == MaxShift * disturbed
  <2>2. a \in Nat
    BY <2>1
  <2> HIDE DEF a
  <2>3. \A g \in DOMAIN due' : -MaxShift <= due'[g] /\ due'[g] <= Longest + a
    BY <2>1, <2>2, <1>3
  <2> QED
    BY <2>3, <1>1 DEF DeadlinesAreNear, a
<1>9. LeftIsOwed'
  <2>1. \A g \in DOMAIN due' : g.providers \subseteq Pollable
    BY <1>2, <1>3, GroupsAreKnown
  <2> QED
    BY <2>1, <1>3, <1>4 DEF LeftIsOwed
<1> QED
  BY <1>1, <1>3, <1>4, <1>6, <1>7, <1>8, <1>9 DEF PollInv, SinceIsCapped

LEMMA PollStepInv == PollInv /\ [PollNext]_pollVars => PollInv'
<1> SUFFICES ASSUME PollInv, [PollNext]_pollVars PROVE PollInv'
  OBVIOUS
<1>1. CASE UNCHANGED pollVars
  BY <1>1 DEF pollVars, PollInv, PollTypes, DeadlinesAreNear, SinceIsCapped, NotLate, LeftIsOwed
<1>2. CASE PollNext
  BY <1>2, PollTickKeeps, FiringKeeps, DoneKeeps, SeeingKeeps, SleepKeeps, ClockKeeps, ChangeKeeps DEF PollNext, PollStep
<1> QED
  BY <1>1, <1>2

(* What is left of every deadline is known, however the schedule, the      *)
(* clock and the machine interfere (spawn_polling_loop_with_delay).        *)
THEOREM PollingInvariant == PollSpec => []PollInv
<1>1. PollInit => PollInv
  BY PollInitInv
<1>2. PollInv /\ [PollNext]_pollVars => PollInv'
  BY PollStepInv
<1> QED
  BY <1>1, <1>2, PTL DEF PollSpec

(* For any providers, intervals and bounds no provider is polled too early *)
(* or after it was seen to be disabled, no deadline is noticed later than  *)
(* a recheck after it passed, and the loop keeps the schedule it has seen  *)
(* (poll_wait, spawn_polling_loop_with_delay).                             *)
THEOREM PollsAreSound == PollSpec => PollsSound
<1>1. ASSUME PollInv PROVE OverdueNoticed /\ ScheduleKept
  <2>1. timer \in Nat /\ late \in Nat /\ Recheck \in Nat
    BY <1>1, PollAssumption DEF PollInv, PollTypes
  <2> QED
    BY <1>1, <2>1 DEF PollInv, PollTypes, NotLate, OverdueNoticed, ScheduleKept
<1>2. ASSUME PollInv, [PollNext]_pollVars
      PROVE  [Waiting /\ busy' # {} =>
                \A g \in busy' : \A p \in g.providers : (clockSet \/ since[p] >= g.every) /\ (unseen \/ p \in polled)]_pollVars
  <2>0. PollTypes /\ LeftIsOwed /\ (~unseen => DOMAIN due = published)
    BY <1>2 DEF PollInv
  <2>1. CASE TimerFires
    <3>1. SUFFICES ASSUME NEW g \in busy', NEW p \in g.providers
                   PROVE  (clockSet \/ since[p] >= g.every) /\ (unseen \/ p \in polled)
      OBVIOUS
    <3>2. g \in DOMAIN due /\ due[g] <= 0
      BY <2>1, <3>1 DEF TimerFires, Overdue
    <3>3. p \in Pollable /\ since[p] \in Nat /\ due[g] \in Int /\ g.every \in Nat
      BY <2>0, <3>1, <3>2, DomainIsKnown DEF PollTypes
    <3>4. clockSet \/ g.every <= since[p] \/ g.every <= since[p] + due[g]
      BY <2>0, <3>1, <3>2 DEF LeftIsOwed
    <3>5. unseen \/ p \in polled
      <4>1. SUFFICES ASSUME ~unseen PROVE p \in polled
        OBVIOUS
      <4>2. DOMAIN due = PollGroups(interval, polled) /\ interval \in PollIntervals /\ polled \in SUBSET Pollable
        BY <2>0, <4>1 DEF PollTypes
      <4> QED
        BY <4>2, <3>1, <3>2, GroupsAreKnown
    <3> QED
      BY <3>2, <3>3, <3>4, <3>5
  <2>2. CASE ~TimerFires /\ PollNext
    <3>1. Waiting => busy' = {}
      BY <2>2 DEF PollNext, PollStep, PollTick, RefreshDone, SeeSchedule, MachineSleeps, SetClock, ChangePolling, Waiting
    <3> QED
      BY <3>1
  <2> QED
    BY <1>2, <2>1, <2>2
<1> QED
  BY <1>1, <1>2, PollingInvariant, PTL DEF PollSpec, PollsSound, PollsSpaced

-----------------------------------------------------------------------------
(* Local logs: a refresh to come is neither later than the latency allows  *)
(* nor than the interval does, and it is not older than the last one.      *)
Lateness == Max({MaxLatency, MinInterval})
Refreshes == [first : 0 .. Lateness, left : 0 .. Max({Debounce, MinInterval})]
SinceLast == {Never} \union (0 .. MinInterval)
IsNear(refresh, ago) ==
  /\ refresh.first + refresh.left <= Lateness
  /\ ago # Never => refresh.first <= ago \/ ago = MinInterval
PendingIsNear == \A p \in pending : IsNear(p, last)

(* What is watched exists, and whatever a reading under way would store is *)
(* covered like what is stored.                                            *)
WatchedExists == watching = "root" => root
Settled == root /\ watching = "root" /\ active /\ targeted /\ ~changed /\ ~broken
Outdated == overlays # log \/ \E content \in reading : content # log
Noticed ==
  \/ Contains(changes, "log")
  \/ overflowed /\ (signalling \/ wakeup)
Covered == Noticed \/ pending # {} \/ waiting > 0 \/ reading = {log}

LocalInv ==
  /\ LocalTypeOK /\ PendingIsNear
  /\ WatchedExists
  /\ Settled /\ Outdated => Covered

LEMMA LimitsAreNatural ==
  /\ MaxLatency \in Nat /\ MinInterval \in Nat /\ Debounce \in Nat
  /\ Lateness \in Nat /\ MaxLatency <= Lateness /\ MinInterval <= Lateness
  /\ Max({Debounce, MinInterval}) \in Nat /\ Debounce <= Max({Debounce, MinInterval}) /\ MinInterval <= Max({Debounce, MinInterval})
<1>1. MaxLatency \in Nat /\ MinInterval \in Nat /\ Debounce \in Nat
  BY LocalUsageAssumption
<1>2. Max({MaxLatency, MinInterval}) = IF MaxLatency <= MinInterval THEN MinInterval ELSE MaxLatency
  BY <1>1, MaxOfTwo
<1>3. Max({Debounce, MinInterval}) = IF Debounce <= MinInterval THEN MinInterval ELSE Debounce
  BY <1>1, MaxOfTwo
<1> QED
  BY <1>1, <1>2, <1>3 DEF Lateness

(* What is scheduled is near again (schedule_providers).                   *)
LEMMA ScheduledIsNear ==
  ASSUME NEW p \in SUBSET Refreshes, NEW ago \in SinceLast, \A r \in p : IsNear(r, ago)
  PROVE  /\ Schedule(p, ago) \subseteq Refreshes /\ Schedule(p, ago) # {}
         /\ \A r \in Schedule(p, ago) : IsNear(r, ago)
<1> DEFINE f == IF p = {} THEN 0 ELSE (CHOOSE one \in p : TRUE).first
           y == IF ago = Never THEN 0 ELSE MinInterval - ago
           x == Min({Debounce, MaxLatency - f})
           l == Max({x, y})
<1>1. Schedule(p, ago) = {[first |-> f, left |-> l]}
  BY DEF Schedule, Scheduled
<1>2. f \in 0 .. Lateness /\ (ago # Never => f <= ago \/ ago = MinInterval)
  <2>1. CASE p = {}
    BY <2>1, LimitsAreNatural DEF SinceLast
  <2>2. CASE p # {}
    <3>1. PICK r \in p : f = r.first
      BY <2>2
    <3> QED
      BY <3>1 DEF Refreshes, IsNear
  <2> QED
    BY <2>1, <2>2
<1>3. y \in 0 .. MinInterval /\ (ago # Never => f <= MinInterval - y \/ y = 0) /\ (ago = Never => y = 0)
  BY <1>2, LimitsAreNatural DEF SinceLast, Never
<1> HIDE DEF f, y
<1>4. x = IF Debounce <= MaxLatency - f THEN Debounce ELSE MaxLatency - f
  BY <1>2, LimitsAreNatural, MinOfTwo
<1> HIDE DEF x
<1>5. x \in Int
  BY <1>2, <1>4, LimitsAreNatural
<1>6. l = IF x <= y THEN y ELSE x
  BY <1>3, <1>5, MaxOfTwo
<1> HIDE DEF l
<1>7. l \in 0 .. Max({Debounce, MinInterval})
  BY <1>2, <1>3, <1>4, <1>5, <1>6, LimitsAreNatural
<1>8. f + l <= Lateness
  <2>1. CASE x <= y
    BY <1>2, <1>3, <1>6, <2>1, LimitsAreNatural
  <2>2. CASE ~ (x <= y)
    BY <1>2, <1>4, <1>5, <1>6, <2>2, LimitsAreNatural
  <2> QED
    BY <2>1, <2>2
<1> QED
  BY <1>1, <1>2, <1>7, <1>8 DEF Refreshes, IsNear

(* An event is queued, or the queue is known to be full (spawn_watch_loop).*)
LEMMA EventsAreNoticed ==
  ASSUME LocalTypeOK, NEW event \in {"log", "other"}, Emit(event)
  PROVE  /\ changes' \in Seq({"log", "other"}) /\ Len(changes') <= Capacity
         /\ {overflowed', signalling', wakeup'} \subseteq BOOLEAN
         /\ Noticed \/ event = "log" => Noticed'
<1>1. changes \in Seq({"log", "other"}) /\ Len(changes) <= Capacity /\ Capacity \in Nat
  BY LocalUsageAssumption DEF LocalTypeOK
<1>2. {overflowed, signalling, wakeup} \subseteq BOOLEAN
  BY DEF LocalTypeOK
<1>3. CASE Len(changes) < Capacity
  <2>1. changes' = Append(changes, event) /\ UNCHANGED <<overflowed, signalling, wakeup>>
    BY <1>3 DEF Emit
  <2>2. Len(changes') = Len(changes) + 1 /\ changes' \in Seq({"log", "other"})
    BY <1>1, <2>1
  <2>3. changes'[Len(changes) + 1] = event /\ \A i \in 1 .. Len(changes) : changes'[i] = changes[i]
    BY <1>1, <2>1
  <2>4. Contains(changes, "log") \/ event = "log" => Contains(changes', "log")
    <3>1. CASE Contains(changes, "log")
      <4>1. PICK i \in 1 .. Len(changes) : changes[i] = "log"
        BY <3>1 DEF Contains
      <4>2. i \in 1 .. Len(changes') /\ changes'[i] = "log"
        BY <1>1, <4>1, <2>2, <2>3
      <4> QED
        BY <4>2 DEF Contains
    <3>2. CASE event = "log"
      <4>1. Len(changes) + 1 \in 1 .. Len(changes') /\ changes'[Len(changes) + 1] = "log"
        BY <3>2, <1>1, <2>2, <2>3
      <4> QED
        BY <4>1 DEF Contains
    <3> QED
      BY <3>1, <3>2
  <2>5. Len(changes') <= Capacity
    BY <1>1, <1>3, <2>2
  <2> QED
    BY <1>2, <2>1, <2>2, <2>4, <2>5 DEF Noticed
<1>4. CASE ~ (Len(changes) < Capacity)
  <2>1. overflowed' = TRUE /\ signalling' = TRUE /\ UNCHANGED <<changes, wakeup>>
    BY <1>4 DEF Emit
  <2> QED
    BY <1>1, <1>2, <2>1 DEF Noticed
<1> QED
  BY <1>3, <1>4

(* The head of the queue is taken.                                         *)
LEMMA HeadIsTaken ==
  ASSUME LocalTypeOK, changes # <<>>, changes' = Tail(changes)
  PROVE  /\ changes' \in Seq({"log", "other"}) /\ Len(changes') <= Capacity
         /\ Contains(changes, "log") => Head(changes) = "log" \/ Contains(changes', "log")
<1>1. changes \in Seq({"log", "other"}) /\ Len(changes) <= Capacity /\ Capacity \in Nat
  BY LocalUsageAssumption DEF LocalTypeOK
<1>2. changes' \in Seq({"log", "other"}) /\ Len(changes') = Len(changes) - 1 /\ Head(changes) = changes[1]
  BY <1>1
<1>3. \A i \in 1 .. Len(changes') : changes'[i] = changes[i + 1]
  BY <1>1
<1>4. ASSUME Contains(changes, "log"), Head(changes) # "log" PROVE Contains(changes', "log")
  <2>1. PICK i \in 1 .. Len(changes) : changes[i] = "log"
    BY <1>4 DEF Contains
  <2>2. i # 1
    BY <2>1, <1>2, <1>4
  <2>3. i - 1 \in 1 .. Len(changes') /\ (i - 1) + 1 = i
    BY <1>1, <1>2, <2>1, <2>2
  <2>4. changes'[i - 1] = "log"
    BY <2>1, <2>3, <1>3
  <2> QED
    BY <2>3, <2>4 DEF Contains
<1> QED
  BY <1>1, <1>2, <1>4


LEMMA LocalInitInv == LocalInit => LocalInv
<1> SUFFICES ASSUME LocalInit PROVE LocalInv
  OBVIOUS
<1>1. /\ log = [s \in Sources |-> 0] /\ overlays = [s \in Sources |-> 0] /\ reading = {}
      /\ writes = 0 /\ waiting = 0 /\ changes = <<>> /\ last = Never
      /\ {root, targeted, active, changed, overflowed, signalling, wakeup, broken} \subseteq BOOLEAN
      /\ watching = (IF ~active THEN "none" ELSE IF root THEN "root" ELSE "parent")
      /\ pending = (IF active THEN Schedule({}, Never) ELSE {})
  BY DEF LocalInit, Idle
<1>2. log \in Contents /\ overlays \in Contents /\ reading \subseteq Contents
  BY <1>1, LocalUsageAssumption DEF Contents
<1>3. pending \subseteq Refreshes /\ PendingIsNear
  <2>1. {} \in SUBSET Refreshes /\ Never \in SinceLast
    BY DEF SinceLast
  <2>2. Schedule({}, Never) \subseteq Refreshes /\ \A r \in Schedule({}, Never) : IsNear(r, Never)
    BY <2>1, ScheduledIsNear
  <2> QED
    BY <1>1, <2>2 DEF PendingIsNear
<1>4. changes \in Seq({"log", "other"}) /\ Len(changes) <= Capacity
  BY <1>1, LocalUsageAssumption
<1>5. LocalTypeOK
  <2>1. pending \subseteq [first : 0 .. Max({MaxLatency, MinInterval}), left : 0 .. Max({Debounce, MinInterval})]
    BY <1>3 DEF Refreshes, Lateness
  <2>2. writes \in 0 .. MaxWrites /\ waiting \in 0 .. MaxTasks /\ last \in {Never} \union (0 .. MinInterval)
    BY <1>1, LocalUsageAssumption
  <2>3. watching \in {"none", "parent", "root"}
    BY <1>1
  <2>4. {root, targeted, active, changed, overflowed, signalling, wakeup, broken} \subseteq BOOLEAN
    BY <1>1
  <2> QED
    BY <1>2, <1>4, <2>1, <2>2, <2>3, <2>4 DEF LocalTypeOK
<1>6. WatchedExists
  BY <1>1 DEF WatchedExists
<1>7. ~Outdated
  BY <1>1 DEF Outdated
<1> QED
  BY <1>3, <1>5, <1>6, <1>7 DEF LocalInv

(* What the types say of each part, in the form the steps need.            *)
FilesTyped == log \in Contents /\ writes \in 0 .. MaxWrites
FlagsTyped == watching \in {"none", "parent", "root"} /\ {root, targeted, active, changed, broken} \subseteq BOOLEAN
QueueTyped ==
  /\ changes \in Seq({"log", "other"}) /\ Len(changes) <= Capacity
  /\ {overflowed, signalling, wakeup} \subseteq BOOLEAN
TimesTyped == pending \in SUBSET Refreshes /\ last \in SinceLast /\ PendingIsNear
ReadsTyped == waiting \in 0 .. MaxTasks /\ reading \in SUBSET Contents /\ overlays \in Contents
LocalTypes == FilesTyped /\ FlagsTyped /\ QueueTyped /\ TimesTyped /\ ReadsTyped

LEMMA TypesSplit == LocalTypes <=> LocalTypeOK /\ PendingIsNear
<1>1. ASSUME LocalTypes PROVE LocalTypeOK /\ PendingIsNear
  <2>1. FilesTyped /\ FlagsTyped /\ QueueTyped /\ TimesTyped /\ ReadsTyped
    BY <1>1 DEF LocalTypes
  <2>2. log \in Contents /\ writes \in 0 .. MaxWrites /\ waiting \in 0 .. MaxTasks /\ reading \subseteq Contents /\ overlays \in Contents
    BY <2>1 DEF FilesTyped, ReadsTyped
  <2>3. /\ pending \subseteq [first : 0 .. Max({MaxLatency, MinInterval}), left : 0 .. Max({Debounce, MinInterval})]
        /\ last \in {Never} \union (0 .. MinInterval) /\ PendingIsNear
    BY <2>1 DEF TimesTyped, Refreshes, Lateness, SinceLast
  <2>4. {root, targeted, active, changed, overflowed, signalling, wakeup, broken} \subseteq BOOLEAN
    BY <2>1 DEF QueueTyped, FlagsTyped
  <2>5. watching \in {"none", "parent", "root"} /\ changes \in Seq({"log", "other"}) /\ Len(changes) <= Capacity
    BY <2>1 DEF QueueTyped, FlagsTyped
  <2> QED
    BY <2>2, <2>3, <2>4, <2>5 DEF LocalTypeOK
<1>2. ASSUME LocalTypeOK, PendingIsNear PROVE LocalTypes
  <2>1. {root, targeted, active, changed, broken} \subseteq BOOLEAN /\ {overflowed, signalling, wakeup} \subseteq BOOLEAN
    BY <1>2 DEF LocalTypeOK
  <2>2. TimesTyped
    BY <1>2 DEF LocalTypeOK, TimesTyped, Refreshes, Lateness, SinceLast
  <2> QED
    BY <1>2, <2>1, <2>2 DEF LocalTypeOK, LocalTypes, FilesTyped, FlagsTyped, QueueTyped, ReadsTyped
<1> QED
  BY <1>1, <1>2

(* Scheduling keeps what is pending near.                                  *)
LEMMA SchedulingKeeps ==
  ASSUME TimesTyped, last' = last,
         pending' = Schedule(pending, last)
  PROVE  TimesTyped' /\ pending' # {}
<1>1. pending \in SUBSET Refreshes /\ last \in SinceLast /\ \A r \in pending : IsNear(r, last)
  BY DEF TimesTyped, PendingIsNear
<1>2. Schedule(pending, last) \subseteq Refreshes /\ Schedule(pending, last) # {} /\ \A r \in Schedule(pending, last) : IsNear(r, last)
  BY <1>1, ScheduledIsNear
<1>3. PendingIsNear'
  BY <1>2 DEF PendingIsNear
<1> QED
  BY <1>1, <1>2, <1>3 DEF TimesTyped

LEMMA RestingKeeps == ASSUME UNCHANGED <<pending, last>>, TimesTyped PROVE TimesTyped'
<1>1. PendingIsNear'
  BY DEF PendingIsNear, TimesTyped
<1> QED
  BY <1>1 DEF TimesTyped

(* Time passes for what is pending.                                        *)
LEMMA LocalTickKeeps == ASSUME LocalTypes, LocalTick PROVE TimesTyped' /\ (pending # {} => pending' # {})
<1>1. pending \in SUBSET Refreshes /\ last \in SinceLast /\ \A r \in pending : IsNear(r, last)
  BY DEF LocalTypes, TimesTyped, PendingIsNear
<1>2. /\ \A p \in pending : p.left # 0
      /\ pending' = {[first |-> p.first + 1, left |-> p.left - 1] : p \in pending}
      /\ last' = IF last = Never THEN Never ELSE Min({last + 1, MinInterval})
  BY DEF LocalTick, Due
<1>3. last' \in SinceLast /\ (last' = Never <=> last = Never) /\ (last # Never => last' = IF last + 1 <= MinInterval THEN last + 1 ELSE MinInterval)
  <2>1. CASE last = Never
    BY <2>1, <1>2 DEF SinceLast
  <2>2. CASE last # Never
    <3>1. last \in 0 .. MinInterval /\ last' = Min({last + 1, MinInterval})
      BY <1>1, <1>2, <2>2 DEF SinceLast
    <3>2. last' = IF last + 1 <= MinInterval THEN last + 1 ELSE MinInterval
      BY <3>1, LimitsAreNatural, MinOfTwo
    <3> QED
      BY <2>2, <3>1, <3>2, LimitsAreNatural DEF SinceLast, Never
  <2> QED
    BY <2>1, <2>2
<1>4. ASSUME NEW p \in pending
      PROVE  LET r == [first |-> p.first + 1, left |-> p.left - 1] IN r \in Refreshes /\ IsNear(r, last')
  <2>1. p.first \in 0 .. Lateness /\ p.left \in 0 .. Max({Debounce, MinInterval}) /\ p.left # 0
    BY <1>1, <1>2 DEF Refreshes
  <2>2. p.first + p.left <= Lateness /\ (last # Never => p.first <= last \/ last = MinInterval)
    BY <1>1 DEF IsNear
  <2>3. p.first + 1 \in 0 .. Lateness /\ p.left - 1 \in 0 .. Max({Debounce, MinInterval}) /\ (p.first + 1) + (p.left - 1) <= Lateness
    BY <2>1, <2>2, LimitsAreNatural
  <2>4. last' # Never => p.first + 1 <= last' \/ last' = MinInterval
    <3> SUFFICES ASSUME last # Never PROVE p.first + 1 <= last' \/ last' = MinInterval
      BY <1>3
    <3>1. last \in 0 .. MinInterval
      BY <1>1 DEF SinceLast
    <3> QED
      BY <3>1, <1>3, <2>1, <2>2, LimitsAreNatural
  <2> QED
    BY <2>3, <2>4 DEF Refreshes, IsNear
<1>5. pending' \subseteq Refreshes /\ PendingIsNear'
  BY <1>2, <1>4 DEF PendingIsNear
<1> QED
  BY <1>2, <1>3, <1>5 DEF TimesTyped

LEMMA LocalTypesStep == ASSUME LocalTypes, LocalNext PROVE LocalTypes'
<1>0. LocalTypeOK /\ FilesTyped /\ FlagsTyped /\ QueueTyped /\ TimesTyped /\ ReadsTyped
  BY TypesSplit DEF LocalTypes
<1>a. ASSUME UNCHANGED queueVars PROVE QueueTyped'
  BY <1>0, <1>a DEF QueueTyped, queueVars
<1>b. ASSUME NEW event \in {"log", "other"}, Emit(event) PROVE QueueTyped'
  BY <1>0, <1>b, EventsAreNoticed DEF QueueTyped
<1>c. ASSUME UNCHANGED fileVars PROVE FilesTyped' /\ root' = root
  BY <1>0, <1>c DEF FilesTyped, fileVars
<1>d. ASSUME UNCHANGED loopVars PROVE TimesTyped' /\ UNCHANGED <<watching, targeted>>
  BY <1>0, <1>d, RestingKeeps DEF loopVars
<1>e. ASSUME UNCHANGED readVars PROVE ReadsTyped' /\ broken' = broken
  BY <1>0, <1>e DEF ReadsTyped, readVars
<1>1. ASSUME NEW s \in Sources, NEW content \in 0 .. MaxWrites, ChangeLog(s, content)
      PROVE  log' \in Contents /\ FlagsTyped' /\ QueueTyped' /\ TimesTyped' /\ ReadsTyped'
  <2>1. log' = [log EXCEPT ![s] = content] /\ broken' = FALSE /\ UNCHANGED <<root, active, changed, waiting, reading, overlays>> /\ UNCHANGED loopVars
    BY <1>1 DEF ChangeLog
  <2>2. log' \in Contents
    BY <1>0, <1>1, <2>1 DEF FilesTyped, Contents
  <2>3. QueueTyped'
    BY <1>1, <1>a, <1>b DEF ChangeLog
  <2> QED
    BY <1>0, <1>d, <2>1, <2>2, <2>3 DEF FlagsTyped, ReadsTyped
<1>2. ASSUME NEW s \in Sources, WriteLog(s) PROVE LocalTypes'
  <2>1. writes' = writes + 1 /\ writes < MaxWrites /\ writes \in 0 .. MaxWrites
    BY <1>0, <1>2 DEF WriteLog, FilesTyped
  <2>2. writes' \in 0 .. MaxWrites
    BY <2>1, LocalUsageAssumption
  <2>3. ChangeLog(s, writes')
    BY <1>2 DEF WriteLog
  <2> QED
    BY <2>2, <2>3, <1>1 DEF LocalTypes, FilesTyped
<1>3. ASSUME NEW s \in Sources, RemoveLog(s) PROVE LocalTypes'
  <2>1. writes' = writes /\ ChangeLog(s, 0) /\ 0 \in 0 .. MaxWrites
    BY <1>3, LocalUsageAssumption DEF RemoveLog
  <2> QED
    BY <1>0, <2>1, <1>1 DEF LocalTypes, FilesTyped
<1>4. CASE CreateRoot
  <2>1. root' = TRUE /\ UNCHANGED <<log, writes, active, changed>> /\ UNCHANGED loopVars /\ UNCHANGED readVars
    BY <1>4 DEF CreateRoot
  <2>2. QueueTyped'
    BY <1>4, <1>a, <1>b DEF CreateRoot
  <2> QED
    BY <1>0, <2>1, <2>2, <1>d, <1>e DEF LocalTypes, FilesTyped, FlagsTyped
<1>5. CASE OtherFile
  <2>1. UNCHANGED <<active, changed>> /\ UNCHANGED fileVars /\ UNCHANGED loopVars /\ UNCHANGED readVars /\ QueueTyped'
    BY <1>5, <1>b DEF OtherFile
  <2> QED
    BY <1>0, <2>1, <1>c, <1>d, <1>e DEF LocalTypes, FlagsTyped
<1>6. CASE Reconfigure
  <2>1. active' = ~active /\ changed' = TRUE /\ UNCHANGED fileVars /\ UNCHANGED loopVars /\ UNCHANGED readVars /\ UNCHANGED queueVars
    BY <1>6 DEF Reconfigure
  <2> QED
    BY <1>0, <2>1, <1>a, <1>c, <1>d, <1>e DEF LocalTypes, FlagsTyped
<1>7. CASE RefreshOffline
  <2>1. waiting' = waiting + 1 /\ waiting < MaxTasks /\ UNCHANGED <<active, changed, reading, overlays, broken>> /\ UNCHANGED fileVars /\ UNCHANGED loopVars /\ UNCHANGED queueVars
    BY <1>7 DEF RefreshOffline
  <2>2. waiting' \in 0 .. MaxTasks
    BY <1>0, <2>1, LocalUsageAssumption DEF ReadsTyped
  <2> QED
    BY <1>0, <2>1, <2>2, <1>a, <1>c, <1>d DEF LocalTypes, FlagsTyped, ReadsTyped
<1>8. CASE SignalOverflow
  <2>1. signalling' = FALSE /\ wakeup' = TRUE /\ UNCHANGED <<active, changed, changes, overflowed>> /\ UNCHANGED fileVars /\ UNCHANGED loopVars /\ UNCHANGED readVars
    BY <1>8 DEF SignalOverflow
  <2> QED
    BY <1>0, <2>1, <1>c, <1>d, <1>e DEF LocalTypes, FlagsTyped, QueueTyped
<1>9. CASE HandleEvent
  <2>1. /\ changes # <<>> /\ changes' = Tail(changes) /\ UNCHANGED <<targeted, last, active, changed, overflowed, signalling, wakeup>>
        /\ pending' \in {Schedule(pending, last), pending} /\ watching' \in {"root", "parent", watching}
        /\ UNCHANGED fileVars /\ UNCHANGED readVars
    BY <1>9 DEF HandleEvent, Sync
  <2>2. QueueTyped'
    BY <1>0, <2>1, HeadIsTaken DEF QueueTyped
  <2>3. TimesTyped'
    BY <1>0, <2>1, SchedulingKeeps, RestingKeeps
  <2> QED
    BY <1>0, <2>1, <2>2, <2>3, <1>c, <1>e DEF LocalTypes, FlagsTyped
<1>10. CASE HandleOverflow
  <2>1. /\ wakeup' = FALSE /\ overflowed' = FALSE /\ UNCHANGED <<watching, targeted, last, active, changed, changes, signalling>>
        /\ pending' \in {Schedule(pending, last), pending}
        /\ UNCHANGED fileVars /\ UNCHANGED readVars
    BY <1>10 DEF HandleOverflow
  <2>2. QueueTyped'
    BY <1>0, <2>1 DEF QueueTyped
  <2>3. TimesTyped'
    BY <1>0, <2>1, SchedulingKeeps, RestingKeeps
  <2> QED
    BY <1>0, <2>1, <2>2, <2>3, <1>c, <1>e DEF LocalTypes, FlagsTyped
<1>11. CASE HandleConfig
  <2>1. /\ changed' = FALSE /\ targeted' = active /\ active' = active /\ watching' \in {"root", "parent", "none"}
        /\ UNCHANGED fileVars /\ UNCHANGED readVars /\ UNCHANGED queueVars
    BY <1>11 DEF HandleConfig, Sync
  <2>2. TimesTyped'
    <3>1. CASE active
      <4>1. last' = last /\ pending' \in {Schedule(pending, last), pending}
        BY <1>11, <3>1 DEF HandleConfig
      <4> QED
        BY <1>0, <4>1, SchedulingKeeps, RestingKeeps
    <3>2. CASE ~active
      <4>1. last' = Never /\ pending' = {}
        BY <1>11, <3>2 DEF HandleConfig
      <4> QED
        BY <4>1 DEF TimesTyped, PendingIsNear, SinceLast
    <3> QED
      BY <3>1, <3>2
  <2> QED
    BY <1>0, <2>1, <2>2, <1>a, <1>c, <1>e DEF LocalTypes, FlagsTyped
<1>12. CASE FireDeadline
  <2>1. /\ pending' = {} /\ last' = 0 /\ waiting' = waiting + 1 /\ waiting < MaxTasks
        /\ UNCHANGED <<watching, targeted, active, changed, reading, overlays, broken>> /\ UNCHANGED fileVars /\ UNCHANGED queueVars
    BY <1>12 DEF FireDeadline
  <2>2. waiting' \in 0 .. MaxTasks
    BY <1>0, <2>1, LocalUsageAssumption DEF ReadsTyped
  <2>3. TimesTyped'
    BY <2>1, LimitsAreNatural DEF TimesTyped, PendingIsNear, SinceLast
  <2> QED
    BY <1>0, <2>1, <2>2, <2>3, <1>a, <1>c DEF LocalTypes, FlagsTyped, ReadsTyped
<1>13. CASE LocalTick
  <2>1. UNCHANGED <<watching, targeted, active, changed>> /\ UNCHANGED fileVars /\ UNCHANGED queueVars /\ UNCHANGED readVars
    BY <1>13 DEF LocalTick
  <2>2. TimesTyped'
    BY <1>13, LocalTickKeeps
  <2> QED
    BY <1>0, <2>1, <2>2, <1>a, <1>c, <1>e DEF LocalTypes, FlagsTyped
<1>14. CASE BeginReading
  <2>1. /\ waiting > 0 /\ waiting' = waiting - 1 /\ reading' = {log} /\ UNCHANGED <<active, changed, overlays, broken>>
        /\ UNCHANGED fileVars /\ UNCHANGED loopVars /\ UNCHANGED queueVars
    BY <1>14 DEF BeginReading
  <2>2. waiting' \in 0 .. MaxTasks /\ reading' \in SUBSET Contents
    BY <1>0, <2>1, LocalUsageAssumption DEF ReadsTyped, FilesTyped
  <2> QED
    BY <1>0, <2>1, <2>2, <1>a, <1>c, <1>d DEF LocalTypes, FlagsTyped, ReadsTyped
<1>15. CASE StoreReading
  <2>1. /\ overlays' \in reading /\ reading' = {} /\ UNCHANGED <<active, changed, waiting, broken>>
        /\ UNCHANGED fileVars /\ UNCHANGED loopVars /\ UNCHANGED queueVars
    BY <1>15 DEF StoreReading, Idle
  <2>2. ReadsTyped'
    BY <1>0, <2>1 DEF ReadsTyped
  <2> QED
    BY <1>0, <2>1, <2>2, <1>a, <1>c, <1>d DEF LocalTypes, FlagsTyped
<1>16. CASE FailReading
  <2>1. /\ reading' = {} /\ broken' = TRUE /\ UNCHANGED <<active, changed, waiting, overlays>>
        /\ UNCHANGED fileVars /\ UNCHANGED loopVars /\ UNCHANGED queueVars
    BY <1>16 DEF FailReading, Idle
  <2>2. ReadsTyped'
    BY <1>0, <2>1 DEF ReadsTyped
  <2> QED
    BY <1>0, <2>1, <2>2, <1>a, <1>c, <1>d DEF LocalTypes, FlagsTyped
<1> QED
  BY <1>2, <1>3, <1>4, <1>5, <1>6, <1>7, <1>8, <1>9, <1>10, <1>11, <1>12, <1>13, <1>14, <1>15, <1>16 DEF LocalNext, WatchStep, ReadStep


(* What is covered stays so while the logs and readings are as they were   *)
(* and nothing is taken away.                                              *)
LEMMA CoverStays ==
  ASSUME Settled /\ Outdated => Covered, UNCHANGED <<log, reading, overlays>>, Settled' => Settled,
         Noticed => Noticed' \/ (Settled' => pending' # {}), pending # {} /\ Settled' => pending' # {} \/ waiting' > 0, waiting' >= waiting, waiting \in Nat, waiting' \in Nat
  PROVE  (Settled /\ Outdated => Covered)'
<1> SUFFICES ASSUME Settled', Outdated' PROVE Covered'
  OBVIOUS
<1>1. Outdated
  BY DEF Outdated
<1>2. CASE waiting > 0
  <2>1. waiting' > 0
    BY <1>2
  <2> QED
    BY <2>1 DEF Covered
<1>3. CASE reading = {log}
  BY <1>3 DEF Covered
<1> QED
  BY <1>1, <1>2, <1>3 DEF Covered

LEMMA LocalStepInv == LocalInv /\ [LocalNext]_localVars => LocalInv'
<1> SUFFICES ASSUME LocalInv, [LocalNext]_localVars PROVE LocalInv'
  OBVIOUS
<1>0. LocalTypes /\ LocalTypeOK /\ WatchedExists /\ (Settled /\ Outdated => Covered)
  BY TypesSplit DEF LocalInv
<1>1. waiting \in Nat /\ FlagsTyped
  BY <1>0 DEF LocalTypes, ReadsTyped
<1>2. CASE UNCHANGED localVars
  <2>1. LocalTypeOK' /\ PendingIsNear' /\ WatchedExists'
    <3>1. UNCHANGED <<log, writes, root, watching, targeted, pending, last, active, changed, changes, overflowed, signalling, wakeup, waiting, reading, overlays, broken>>
      BY <1>2 DEF localVars, fileVars, loopVars, queueVars, readVars
    <3>2. LocalTypeOK'
      BY <3>1, <1>0 DEF LocalTypeOK
    <3>3. PendingIsNear'
      BY <3>1 DEF LocalInv, PendingIsNear
    <3> QED
      BY <3>1, <3>2, <3>3, <1>0 DEF WatchedExists
  <2>2. (Settled /\ Outdated => Covered)'
    BY <1>0, <1>2 DEF Settled, Outdated, Covered, Noticed, localVars, fileVars, loopVars, queueVars, readVars
  <2> QED
    BY <2>1, <2>2 DEF LocalInv
<1>3. CASE LocalNext
  <2>0. LocalTypes' /\ waiting' \in Nat
    <3>1. LocalTypes'
      BY <1>0, <1>3, LocalTypesStep
    <3> QED
      BY <3>1 DEF LocalTypes, ReadsTyped
  <2>z. LocalTypeOK' /\ PendingIsNear'
    BY <2>0, TypesSplit, PTL
  <2> SUFFICES WatchedExists' /\ (Settled /\ Outdated => Covered)'
    BY <2>z DEF LocalInv
  <2>a. ASSUME NEW s, NEW content, root, ChangeLog(s, content) PROVE WatchedExists' /\ (Settled /\ Outdated => Covered)'
    <3>1. WatchedExists'
      BY <2>a, <1>0 DEF ChangeLog, loopVars, WatchedExists
    <3>2. ASSUME Settled' PROVE Noticed'
      <4>1. watching = "root"
        BY <2>a, <3>2 DEF ChangeLog, loopVars, Settled
      <4>2. Emit("log")
        BY <2>a, <4>1 DEF ChangeLog
      <4> QED
        BY <4>2, <1>0, EventsAreNoticed
    <3> QED
      BY <3>1, <3>2 DEF Covered
  <2>b. ASSUME NEW event \in {"log", "other"}, Emit(event) PROVE Noticed => Noticed'
    BY <2>b, <1>0, EventsAreNoticed
  <2>c. ASSUME UNCHANGED queueVars PROVE Noticed => Noticed'
    BY <2>c DEF Noticed, queueVars
  <2>1. ASSUME NEW s \in Sources, WriteLog(s) PROVE WatchedExists' /\ (Settled /\ Outdated => Covered)'
    BY <2>1, <2>a DEF WriteLog
  <2>2. ASSUME NEW s \in Sources, RemoveLog(s) PROVE WatchedExists' /\ (Settled /\ Outdated => Covered)'
    <3>1. ChangeLog(s, 0)
      BY <2>2 DEF RemoveLog
    <3>2. CASE root
      BY <3>1, <3>2, <2>a
    <3>3. CASE ~root
      <4>1. ~root' /\ WatchedExists'
        BY <3>1, <3>3, <1>0 DEF ChangeLog, loopVars, WatchedExists
      <4> QED
        BY <4>1 DEF Settled
    <3> QED
      BY <3>2, <3>3
  <2>4. CASE CreateRoot
    <3>1. root' = TRUE /\ ~root /\ watching' = watching
      BY <2>4 DEF CreateRoot, loopVars
    <3>2. watching # "root"
      BY <3>1, <1>0 DEF WatchedExists
    <3> QED
      BY <3>1, <3>2 DEF WatchedExists, Settled
  <2>5. CASE OtherFile
    <3>1. /\ UNCHANGED <<log, root, watching, targeted, pending, active, changed, waiting, reading, overlays, broken>>
          /\ Emit("other")
      BY <2>5 DEF OtherFile, fileVars, loopVars, readVars
    <3>2. Noticed => Noticed'
      BY <3>1, <2>b
    <3>3. WatchedExists' /\ (Settled' => Settled) /\ waiting' >= waiting
      BY <3>1, <1>0, <1>1 DEF WatchedExists, Settled
    <3> QED
      BY <3>1, <3>2, <3>3, <1>0, <1>1, <2>0, CoverStays
  <2>6. CASE Reconfigure
    <3>1. changed' = TRUE /\ UNCHANGED <<root, watching>>
      BY <2>6 DEF Reconfigure, fileVars, loopVars
    <3> QED
      BY <3>1, <1>0 DEF WatchedExists, Settled
  <2>7. CASE RefreshOffline
    <3>1. waiting' = waiting + 1 /\ UNCHANGED <<root, watching>>
      BY <2>7 DEF RefreshOffline, fileVars, loopVars
    <3>2. waiting' > 0
      BY <3>1, <1>1
    <3> QED
      BY <3>1, <3>2, <1>0 DEF WatchedExists, Covered
  <2>8. CASE SignalOverflow
    <3>1. /\ UNCHANGED <<log, root, watching, targeted, pending, active, changed, waiting, reading, overlays, broken, changes, overflowed>>
          /\ wakeup' = TRUE
      BY <2>8 DEF SignalOverflow, fileVars, loopVars, readVars
    <3>2. Noticed => Noticed'
      BY <3>1 DEF Noticed
    <3>3. WatchedExists' /\ (Settled' => Settled) /\ waiting' >= waiting
      BY <3>1, <1>0, <1>1 DEF WatchedExists, Settled
    <3> QED
      BY <3>1, <3>2, <3>3, <1>0, <1>1, <2>0, CoverStays
  <2>9. CASE HandleEvent
    <3>1. /\ UNCHANGED <<log, root, targeted, last, active, changed, overflowed, signalling, wakeup, waiting, reading, overlays, broken>>
          /\ changes # <<>> /\ changes' = Tail(changes)
          /\ IF targeted THEN Sync(watching) ELSE UNCHANGED watching
          /\ pending' = IF targeted /\ (Head(changes) = "log" \/ NewlyAvailable(watching)) THEN Schedule(pending, last) ELSE pending
      BY <2>9 DEF HandleEvent, fileVars, readVars
    <3>2. pending # {} => pending' # {}
      BY <3>1, <1>0, SchedulingKeeps DEF LocalTypes
    <3>3. WatchedExists'
      BY <3>1, <1>0 DEF WatchedExists, Sync
    <3>4. targeted /\ (Head(changes) = "log" \/ NewlyAvailable(watching)) => pending' # {}
      BY <3>1, <1>0, SchedulingKeeps DEF LocalTypes
    <3>5. CASE watching' = "root" /\ watching # "root"
      <4>1. Settled' => pending' # {}
        BY <3>1, <3>4, <3>5 DEF Settled, NewlyAvailable
      <4> QED
        BY <3>3, <4>1 DEF Covered
    <3>6. CASE watching' = "root" => watching = "root"
      <4>1. Settled' => Settled
        BY <3>1, <3>6 DEF Settled
      <4>2. Noticed => Noticed' \/ (Settled' => pending' # {})
        <5>1. Contains(changes, "log") => Head(changes) = "log" \/ Contains(changes', "log")
          BY <3>1, <1>0, HeadIsTaken
        <5>2. Settled' => targeted
          BY <3>1 DEF Settled
        <5> QED
          BY <3>1, <3>4, <5>1, <5>2 DEF Noticed
      <4> QED
        BY <3>1, <3>2, <3>3, <4>1, <4>2, <1>0, <1>1, <2>0, CoverStays
    <3> QED
      BY <3>5, <3>6
  <2>10. CASE HandleOverflow
    <3>1. /\ UNCHANGED <<log, root, watching, targeted, last, active, changed, changes, signalling, waiting, reading, overlays, broken>>
          /\ pending' = IF overflowed /\ targeted THEN Schedule(pending, last) ELSE pending
      BY <2>10 DEF HandleOverflow, fileVars, readVars
    <3>2. (pending # {} => pending' # {}) /\ (overflowed /\ targeted => pending' # {})
      BY <3>1, <1>0, SchedulingKeeps DEF LocalTypes
    <3>3. WatchedExists' /\ (Settled' => Settled) /\ waiting' >= waiting
      BY <3>1, <1>0, <1>1 DEF WatchedExists, Settled
    <3>4. Noticed => Noticed' \/ (Settled' => pending' # {})
      BY <3>1, <3>2 DEF Noticed, Settled
    <3> QED
      BY <3>1, <3>2, <3>3, <3>4, <1>0, <1>1, <2>0, CoverStays
  <2>11. CASE HandleConfig
    <3>1. /\ root' = root /\ targeted' = active /\ active' = active /\ (active => Sync("none")) /\ (~active => watching' = "none")
          /\ (active => last' = last)
          /\ (active /\ NewlyAvailable("none") => pending' = Schedule(pending, last))
      BY <2>11 DEF HandleConfig, fileVars
    <3>2. WatchedExists'
      BY <3>1 DEF WatchedExists, Sync
    <3>3. Settled' => pending' # {}
      <4> SUFFICES ASSUME Settled' PROVE pending' # {}
        OBVIOUS
      <4>1. active /\ NewlyAvailable("none")
        BY <3>1 DEF Settled, NewlyAvailable
      <4> QED
        BY <4>1, <3>1, <1>0, SchedulingKeeps DEF LocalTypes
    <3> QED
      BY <3>2, <3>3 DEF Covered
  <2>12. CASE FireDeadline
    <3>1. waiting' = waiting + 1 /\ UNCHANGED <<root, watching>>
      BY <2>12 DEF FireDeadline, fileVars
    <3>2. waiting' > 0
      BY <3>1, <1>1
    <3> QED
      BY <3>1, <3>2, <1>0 DEF WatchedExists, Covered
  <2>13. CASE LocalTick
    <3>1. UNCHANGED <<log, root, watching, targeted, active, changed, waiting, reading, overlays, broken>> /\ UNCHANGED queueVars
      BY <2>13 DEF LocalTick, fileVars, readVars
    <3>2. pending # {} => pending' # {}
      BY <2>13, <1>0, LocalTickKeeps
    <3>3. WatchedExists' /\ (Settled' => Settled) /\ waiting' >= waiting
      BY <3>1, <1>0, <1>1 DEF WatchedExists, Settled
    <3> QED
      BY <3>1, <3>2, <3>3, <2>c, <1>0, <1>1, <2>0, CoverStays
  <2>14. CASE BeginReading
    <3>1. reading' = {log} /\ log' = log /\ UNCHANGED <<root, watching>>
      BY <2>14 DEF BeginReading, fileVars, loopVars
    <3> QED
      BY <3>1, <1>0 DEF WatchedExists, Covered
  <2>15. CASE StoreReading
    <3>1. /\ overlays' \in reading /\ reading' = {} /\ UNCHANGED <<log, root, watching, targeted, active, changed, broken, pending, waiting>> /\ UNCHANGED queueVars
      BY <2>15 DEF StoreReading, Idle, fileVars, loopVars
    <3>2. WatchedExists' /\ (Settled' => Settled)
      BY <3>1, <1>0 DEF WatchedExists, Settled
    <3>3. ASSUME Settled', Outdated' PROVE Covered'
      <4>1. overlays' # log
        BY <3>1, <3>3 DEF Outdated
      <4>2. Outdated /\ reading # {log}
        BY <3>1, <4>1 DEF Outdated
      <4>3. Noticed \/ pending # {} \/ waiting > 0
        BY <3>2, <3>3, <4>2, <1>0 DEF Covered
      <4> QED
        BY <4>3, <3>1, <2>c DEF Covered
    <3> QED
      BY <3>2, <3>3
  <2>16. CASE FailReading
    <3>1. broken' = TRUE /\ UNCHANGED <<root, watching>>
      BY <2>16 DEF FailReading, fileVars, loopVars
    <3> QED
      BY <3>1, <1>0 DEF WatchedExists, Settled
  <2> QED
    BY <1>3, <2>1, <2>2, <2>4, <2>5, <2>6, <2>7, <2>8, <2>9, <2>10, <2>11, <2>12, <2>13, <2>14, <2>15, <2>16 DEF LocalNext, WatchStep, ReadStep
<1> QED
  BY <1>2, <1>3

(* The local logs: types, schedules that are near, roots that exist when   *)
(* they are watched, and covered changes hold in every state.              *)
THEOREM LocalInvariant == LocalSpec => []LocalInv
<1>1. LocalInit => LocalInv
  BY LocalInitInv
<1>2. LocalInv /\ [LocalNext]_localVars => LocalInv'
  BY LocalStepInv
<1> QED
  BY <1>1, <1>2, PTL DEF LocalSpec

(* However many logs are written, removed and read again, and whatever     *)
(* happens to the queue: a change that is not stored yet will be read      *)
(* (spawn_change_log_loop, signal_queue_overflow, local_provider_locks).   *)
THEOREM ChangesAreCovered == LocalSpec => []ChangeCovered
<1>1. LocalInv => ChangeCovered
  BY DEF LocalInv, ChangeCovered, Settled, Outdated, Covered, Noticed
<1> QED
  BY <1>1, LocalInvariant, PTL

-----------------------------------------------------------------------------

(* The composition: one loop is chosen, and each keeps its invariant       *)
(* whatever the others do.                                                 *)
ServicesInv == Steady /\ LocalInv /\ ServerInv /\ PollInv /\ part \in {"accounts", "local", "server", "polling"}

LEMMA ServicesStepInv == ServicesInv /\ [ServicesNext]_allServicesVars => ServicesInv'
<1> SUFFICES ASSUME ServicesInv, [ServicesNext]_allServicesVars PROVE ServicesInv'
  OBVIOUS
<1>1. [Next]_vars /\ [LocalNext]_localVars /\ [ServerNext]_serverVars /\ [PollNext]_pollVars /\ part' = part
  BY Zenon DEF ServicesNext, OthersRest, allServicesVars
<1> QED
  BY <1>1, StepTyped, LocalStepInv, ServerStepInv, PollStepInv DEF ServicesInv

LEMMA PollsAreTyped == PollInv => PollTypeOK
<1> SUFFICES ASSUME PollInv PROVE PollTypeOK
  OBVIOUS
<1>1. PollTypes /\ DeadlinesAreNear /\ SinceIsCapped
  BY DEF PollInv
<1>2. published = PollGroups(interval, polled) /\ interval \in PollIntervals /\ polled \in SUBSET Pollable
  BY <1>1 DEF PollTypes
<1>3. Members(published) \subseteq Pollable
  BY <1>2 DEF Members, PollGroups
<1>4. ASSUME NEW g \in DOMAIN due PROVE due[g] \in -MaxShift .. Longest + MaxShift * MaxEvents
  <2> DEFINE a == MaxShift * disturbed
             b == MaxShift * MaxEvents
  <2>1. due[g] \in Int /\ disturbed \in 0 .. MaxEvents /\ MaxShift \in Nat /\ MaxEvents \in Nat /\ Longest \in Nat
    BY <1>1, DomainIsKnown, PollAssumption DEF PollTypes
  <2>2. a \in Nat /\ b \in Nat /\ a <= b
    BY <2>1
  <2>3. -MaxShift <= due[g] /\ due[g] <= Longest + a
    BY <1>1 DEF DeadlinesAreNear
  <2> HIDE DEF a, b
  <2>4. due[g] \in -MaxShift .. Longest + b
    BY <2>1, <2>2, <2>3
  <2> QED
    BY <2>4 DEF b
<1>5. since \in [Pollable -> 0 .. Longest]
  <2>1. ASSUME NEW p \in Pollable PROVE since[p] \in 0 .. Longest
    <3>1. Longest \in Nat
      BY LongestIsLongest
    <3> QED
      BY <3>1, <1>1 DEF PollTypes, SinceIsCapped
  <2> QED
    BY <2>1, <1>1 DEF PollTypes
<1> QED
  BY <1>1, <1>2, <1>3, <1>4, <1>5 DEF PollTypes, PollTypeOK

LEMMA ServersAreTyped == ServerInv => ServerTypeOK
<1> SUFFICES ASSUME ServerInv PROVE ServerTypeOK
  OBVIOUS
<1>1. ServerTypes /\ FramesAreBounded /\ SlotsFollowTasks
  BY DEF ServerInv
<1>2. Cardinality(Served) \in Nat
  BY ServerAssumption, FS_Subset, FS_CardinalityType DEF Served
<1>3. slots \in 0 .. capacity
  BY <1>1, <1>2 DEF ServerTypes, SlotsFollowTasks
<1>4. \A c \in Clients : sent[c] \in 0 .. MaxFrames[c]
  BY <1>1, ServerAssumption DEF ServerTypes, FramesAreBounded
<1>5. \A c \in Clients : tasks[c].at \in {"none", "reading", "handling", "writing"}
  BY <1>1, TaskShapes
<1> QED
  BY <1>1, <1>3, <1>4, <1>5 DEF ServerTypes, ServerTypeOK

(* Whichever loop runs, and whatever is in the queue or overdue: changes   *)
(* of the local logs are covered and each loop keeps its types.            *)
THEOREM LoopsAreSound == ServicesSpec => []LoopsSound
<1>1. ServicesInit => ServicesInv
  BY InitTyped, LocalInitInv, ServerInitInv, PollInitInv DEF ServicesInit, ServicesInv, Steady
<1>2. ServicesInv /\ [ServicesNext]_allServicesVars => ServicesInv'
  BY ServicesStepInv
<1>3. ServicesInv => LoopsSound
  <2> SUFFICES ASSUME ServicesInv PROVE LoopsSound
    OBVIOUS
  <2>1. LocalTypeOK /\ ChangeCovered
    BY DEF ServicesInv, LocalInv, ChangeCovered, Settled, Outdated, Covered, Noticed
  <2>2. PollTypeOK /\ ServerTypeOK /\ TypeOK
    BY PollsAreTyped, ServersAreTyped DEF ServicesInv, Steady
  <2> QED
    BY <2>1, <2>2 DEF LoopsSound
<1> QED
  BY <1>1, <1>2, <1>3, PTL DEF ServicesSpec
-----------------------------------------------------------------------------
(* Folds over finite sets (FoldSet): the function a fold is defined by      *)
(* exists, whatever is folded.  Step is what happens to one element.        *)
Pick(s) == CHOOSE x \in s : TRUE
Folds(g, S, base, step) ==
  \A s \in SUBSET S : g[s] = IF s = {} THEN base ELSE step[<<Pick(s), g[s \ {Pick(s)}]>>]

LEMMA PickIs == ASSUME NEW s, s # {} PROVE Pick(s) \in s
BY DEF Pick

LEMMA FoldExists ==
  ASSUME NEW S, IsFiniteSet(S), NEW V, NEW base \in V, NEW step \in [S \X V -> V]
  PROVE  \E g \in [SUBSET S -> V] : Folds(g, S, base, step)
<1> DEFINE Small(n) == {s \in SUBSET S : Cardinality(s) <= n}
           Def(g, s) == IF s = {} THEN base ELSE step[<<Pick(s), g[s \ {Pick(s)}]>>]
           Done(n) == \E g \in [Small(n) -> V] : \A s \in Small(n) : g[s] = Def(g, s)
           Bad == {n \in Nat : ~ Done(n)}
<1>1. \A s \in SUBSET S : IsFiniteSet(s) /\ Cardinality(s) \in Nat /\ (Cardinality(s) = 0 <=> s = {})
  BY FS_Subset, FS_CardinalityType, FS_EmptySet
<1>2. \A s \in SUBSET S : s # {} => /\ Pick(s) \in s /\ s \ {Pick(s)} \in SUBSET S
                                    /\ Cardinality(s \ {Pick(s)}) = Cardinality(s) - 1
  BY <1>1, PickIs, FS_RemoveElement
<1>3. Done(0)
  <2> DEFINE g == [s \in Small(0) |-> base]
  <2>1. \A s \in Small(0) : s = {}
    BY <1>1
  <2>2. \A s \in Small(0) : g[s] = Def(g, s)
    BY <2>1
  <2>3. g \in [Small(0) -> V]
    OBVIOUS
  <2> HIDE DEF Def, Small, g
  <2> QED
    BY <2>2, <2>3
<1>4. ASSUME NEW n \in Nat \ {0}, Done(n - 1) PROVE Done(n)
  <2>1. PICK g \in [Small(n - 1) -> V] : \A s \in Small(n - 1) : g[s] = Def(g, s)
    BY <1>4
  <2> DEFINE h == [s \in Small(n) |-> IF s \in Small(n - 1) THEN g[s] ELSE Def(g, s)]
  <2>2. ASSUME NEW s \in Small(n), s # {}
        PROVE  s \ {Pick(s)} \in Small(n - 1) /\ s \ {Pick(s)} \in Small(n) /\ Pick(s) \in S
    BY <1>1, <1>2, <2>2
  <2>3. \A s \in Small(n) : s # {} => h[s \ {Pick(s)}] = g[s \ {Pick(s)}] /\ g[s \ {Pick(s)}] \in V
    BY <2>2
  <2> HIDE DEF h
  <2>4. \A s \in Small(n) : Def(h, s) = Def(g, s)
    <3> HIDE DEF Small
    <3> QED
      BY <2>3
  <2> USE DEF h
  <2>5. \A s \in Small(n) : Def(g, s) \in V
    BY <2>2, <2>3
  <2>6. \A s \in Small(n) : h[s] = Def(h, s)
    BY <2>1, <2>4
  <2>7. h \in [Small(n) -> V]
    BY <2>5
  <2> HIDE DEF h, Def, Small
  <2> QED
    BY <2>6, <2>7
<1>5. Bad = {}
  <2> SUFFICES ASSUME Bad # {} PROVE FALSE
    OBVIOUS
  <2> HIDE DEF Done
  <2>1. PICK n \in Bad : \A m \in Bad : n <= m
    BY LeastNatural
  <2>2. n # 0 /\ n \in Nat
    BY <1>3
  <2>3. n - 1 \in Nat /\ n - 1 \notin Bad
    BY <2>1, <2>2
  <2>4. Done(n - 1)
    BY <2>3
  <2> QED
    BY <2>2, <2>4, <1>4
<1>6. Cardinality(S) \in Nat /\ Done(Cardinality(S))
  <2>1. Cardinality(S) \in Nat
    BY FS_CardinalityType
  <2> HIDE DEF Done
  <2> QED
    BY <2>1, <1>5
<1>7. Small(Cardinality(S)) = SUBSET S
  BY FS_Subset
<1>8. PICK g \in [SUBSET S -> V] : \A s \in SUBSET S : g[s] = Def(g, s)
  BY <1>6, <1>7
<1> QED
  BY <1>8 DEF Folds

(* The least set of some subsets of a finite set.                          *)
LEMMA LeastSubset ==
  ASSUME NEW S, IsFiniteSet(S), NEW T \in SUBSET (SUBSET S), T # {}
  PROVE  \E s \in T : \A r \in T : r \subseteq s => r = s
<1> DEFINE R == StrictSubsetOrdering(S)
<1>1. IsWellFoundedOn(R, FiniteSubsetsOf(S))
  BY FS_StrictSubsetOrderingWellFounded
<1>2. T \subseteq FiniteSubsetsOf(S)
  BY FS_Subset DEF FiniteSubsetsOf
<1> HIDE DEF R
<1>3. PICK s \in T : \A r \in T : <<r, s>> \notin R
  BY <1>1, <1>2, WFMin
<1> QED
  BY <1>3 DEF R, StrictSubsetOrdering

(* Two functions that fold alike are alike.                                *)
LEMMA FoldUnique ==
  ASSUME NEW S, IsFiniteSet(S), NEW base, NEW step, NEW step2, NEW g, NEW h, NEW T, S \subseteq T,
         Folds(g, S, base, step), Folds(h, T, base, step2),
         \A x \in S, r \in SUBSET S : step2[<<x, h[r]>>] = step[<<x, h[r]>>]
  PROVE  \A s \in SUBSET S : g[s] = h[s]
<1> DEFINE Bad == {s \in SUBSET S : g[s] # h[s]}
<1> SUFFICES ASSUME Bad # {} PROVE FALSE
  OBVIOUS
<1>a. Bad \in SUBSET (SUBSET S)
  OBVIOUS
<1>1. PICK s \in Bad : \A r \in Bad : r \subseteq s => r = s
  <2> HIDE DEF Bad
  <2> QED
    BY <1>a, LeastSubset
<1>2. CASE s = {}
  BY <1>2 DEF Folds
<1>3. CASE s # {}
  <2>1. Pick(s) \in s /\ s \in SUBSET S /\ s \ {Pick(s)} \in SUBSET S /\ s \ {Pick(s)} # s
    BY <1>3, PickIs
  <2>2. g[s \ {Pick(s)}] = h[s \ {Pick(s)}]
    BY <2>1, <1>1
  <2>3. g[s] = step[<<Pick(s), g[s \ {Pick(s)}]>>]
    BY <2>1, <1>3 DEF Folds
  <2>4. s \in SUBSET T
    BY <2>1
  <2>5. h[s] = step2[<<Pick(s), h[s \ {Pick(s)}]>>]
    BY <2>4, <1>3 DEF Folds
  <2> QED
    BY <2>1, <2>2, <2>3, <2>5
<1> QED
  BY <1>2, <1>3
-----------------------------------------------------------------------------
(* Sums: what is summed may be taken in any order.                         *)
Adding(f, S) == [p \in S \X Int |-> p[2] + f[p[1]]]

LEMMA TotalFolds ==
  ASSUME NEW S, IsFiniteSet(S), NEW f, \A d \in S : f[d] \in Int
  PROVE  \E g \in [SUBSET S -> Int] : Folds(g, S, 0, Adding(f, S)) /\ TokenSum(f, S) = g[S]
<1> DEFINE Body(g) == [s \in SUBSET S |-> IF s = {} THEN 0 ELSE g[s \ {Pick(s)}] + f[Pick(s)]]
           G == CHOOSE g : g = Body(g)
<1>1. Adding(f, S) \in [S \X Int -> Int]
  BY DEF Adding
<1>2. PICK g \in [SUBSET S -> Int] : Folds(g, S, 0, Adding(f, S))
  <2> HIDE DEF Body, G
  <2>1. 0 \in Int
    OBVIOUS
  <2> QED
    BY <1>1, <2>1, FoldExists, Zenon
<1>3. ASSUME NEW s \in SUBSET S, s # {}
      PROVE  Pick(s) \in S /\ s \ {Pick(s)} \in SUBSET S
  BY <1>3, PickIs
<1>4. ASSUME NEW s \in SUBSET S, s # {}, NEW h \in [SUBSET S -> Int]
      PROVE  Adding(f, S)[<<Pick(s), h[s \ {Pick(s)}]>>] = h[s \ {Pick(s)}] + f[Pick(s)]
  BY <1>4, <1>3 DEF Adding
<1>5. g = Body(g)
  BY <1>2, <1>4 DEF Folds
<1>6. G = Body(G)
  <2>1. \E h : h = Body(h)
    BY <1>5
  <2> HIDE DEF Body
  <2> QED
    BY <2>1
<1>7. TokenSum(f, S) = G[S]
  BY Zenon DEF TokenSum, FoldSet, MapThenFoldSet, Pick
<1> DEFINE Bad == {s \in SUBSET S : G[s] # g[s]}
<1>8. Bad = {}
  <2> SUFFICES ASSUME Bad # {} PROVE FALSE
    OBVIOUS
  <2>a. Bad \in SUBSET (SUBSET S)
    OBVIOUS
  <2> HIDE DEF G
  <2>1. PICK s \in Bad : \A r \in Bad : r \subseteq s => r = s
    <3> HIDE DEF Bad
    <3> QED
      BY <2>a, LeastSubset
  <2>2. CASE s = {}
    BY <2>2, <2>1, <1>5, <1>6
  <2>3. CASE s # {}
    <3>1. Pick(s) \in s /\ s \in SUBSET S /\ s \ {Pick(s)} \in SUBSET S /\ s \ {Pick(s)} # s
      BY <2>3, PickIs
    <3>2. G[s \ {Pick(s)}] = g[s \ {Pick(s)}]
      BY <3>1, <2>1
    <3> QED
      BY <3>1, <3>2, <2>1, <2>3, <1>5, <1>6
  <2> QED
    BY <2>2, <2>3
<1>9. G[S] = g[S]
  BY <1>8
<1> QED
  BY <1>2, <1>7, <1>9

LEMMA TotalType ==
  ASSUME NEW S, IsFiniteSet(S), NEW f, \A d \in S : f[d] \in Int
  PROVE  TokenSum(f, S) \in Int
<1>1. PICK g \in [SUBSET S -> Int] : Folds(g, S, 0, Adding(f, S)) /\ TokenSum(f, S) = g[S]
  BY TotalFolds
<1> QED
  BY <1>1

LEMMA TotalNone == ASSUME NEW f PROVE TokenSum(f, {}) = 0
<1>1. IsFiniteSet({})
  BY FS_EmptySet
<1>2. PICK g \in [SUBSET {} -> Int] : Folds(g, {}, 0, Adding(f, {})) /\ TokenSum(f, {}) = g[{}]
  BY <1>1, TotalFolds
<1> QED
  BY <1>2 DEF Folds

LEMMA TotalPick ==
  ASSUME NEW S, IsFiniteSet(S), NEW f, \A d \in S : f[d] \in Int, S # {}
  PROVE  TokenSum(f, S) = TokenSum(f, S \ {Pick(S)}) + f[Pick(S)]
<1> DEFINE T == S \ {Pick(S)}
<1>1. Pick(S) \in S /\ T \subseteq S /\ IsFiniteSet(T)
  BY PickIs, FS_Subset
<1>2. PICK g \in [SUBSET S -> Int] : Folds(g, S, 0, Adding(f, S)) /\ TokenSum(f, S) = g[S]
  BY TotalFolds
<1>3. PICK h \in [SUBSET T -> Int] : Folds(h, T, 0, Adding(f, T)) /\ TokenSum(f, T) = h[T]
  BY <1>1, TotalFolds
<1>4. \A x \in T, r \in SUBSET T : Adding(f, S)[<<x, g[r]>>] = Adding(f, T)[<<x, g[r]>>]
  BY <1>1 DEF Adding
<1>5. h[T] = g[T]
  <2> HIDE DEF T
  <2>1. \A s \in SUBSET T : h[s] = g[s]
    BY <1>1, <1>2, <1>3, <1>4, FoldUnique
  <2> QED
    BY <2>1
<1>6. g[S] = Adding(f, S)[<<Pick(S), g[T]>>] /\ g[T] \in Int
  BY <1>1, <1>2 DEF Folds
<1>7. Adding(f, S)[<<Pick(S), g[T]>>] = g[T] + f[Pick(S)]
  BY <1>1, <1>6 DEF Adding
<1> QED
  BY <1>2, <1>3, <1>5, <1>6, <1>7

LEMMA TotalWithout ==
  ASSUME NEW S, IsFiniteSet(S), NEW f, \A d \in S : f[d] \in Int, NEW x \in S
  PROVE  TokenSum(f, S) = TokenSum(f, S \ {x}) + f[x]
<1> DEFINE Splits(s) == \A y \in s : TokenSum(f, s) = TokenSum(f, s \ {y}) + f[y]
           Bad == {s \in SUBSET S : ~ Splits(s)}
<1>1. \A s \in SUBSET S : IsFiniteSet(s) /\ \A d \in s : f[d] \in Int
  BY FS_Subset
<1>2. Bad = {}
  <2> SUFFICES ASSUME Bad # {} PROVE FALSE
    OBVIOUS
  <2>a. Bad \in SUBSET (SUBSET S)
    OBVIOUS
  <2>1. PICK s \in Bad : \A r \in Bad : r \subseteq s => r = s
    <3> HIDE DEF Bad
    <3> QED
      BY <2>a, LeastSubset
  <2>2. PICK y \in s : TokenSum(f, s) # TokenSum(f, s \ {y}) + f[y]
    BY <2>1
  <2> DEFINE c == Pick(s)
  <2>3. c \in s /\ s \in SUBSET S /\ TokenSum(f, s) = TokenSum(f, s \ {c}) + f[c]
    BY <2>1, <2>2, <1>1, PickIs, TotalPick
  <2>4. c # y
    BY <2>2, <2>3
  <2> HIDE DEF c, Splits
  <2>5. Splits(s \ {c}) /\ Splits(s \ {y})
    BY <2>1, <2>2, <2>3
  <2>6. TokenSum(f, s \ {c}) = TokenSum(f, (s \ {c}) \ {y}) + f[y]
    BY <2>5, <2>4, <2>2 DEF Splits
  <2>7. TokenSum(f, s \ {y}) = TokenSum(f, (s \ {y}) \ {c}) + f[c]
    BY <2>5, <2>4, <2>3 DEF Splits
  <2> DEFINE rest == TokenSum(f, (s \ {c}) \ {y})
  <2>8. TokenSum(f, (s \ {y}) \ {c}) = rest
    <3>1. (s \ {y}) \ {c} = (s \ {c}) \ {y}
      OBVIOUS
    <3> QED
      BY <3>1, Zenon
  <2>9. rest \in Int /\ f[c] \in Int /\ f[y] \in Int
    <3>1. (s \ {c}) \ {y} \in SUBSET S /\ c \in S /\ y \in S
      BY <2>2, <2>3
    <3> QED
      BY <3>1, <1>1, TotalType
  <2>b. TokenSum(f, s) = (rest + f[y]) + f[c] /\ TokenSum(f, s \ {y}) = rest + f[c]
    BY <2>3, <2>6, <2>7, <2>8, Zenon
  <2> HIDE DEF rest
  <2> QED
    BY <2>2, <2>9, <2>b
<1>3. Splits(S)
  BY <1>2
<1> QED
  BY <1>3

LEMMA TotalSame ==
  ASSUME NEW S, IsFiniteSet(S), NEW f, NEW h, \A d \in S : f[d] \in Int /\ h[d] = f[d]
  PROVE  TokenSum(h, S) = TokenSum(f, S)
<1> DEFINE Bad == {s \in SUBSET S : TokenSum(h, s) # TokenSum(f, s)}
<1>1. \A s \in SUBSET S : IsFiniteSet(s) /\ (\A d \in s : f[d] \in Int) /\ (\A d \in s : h[d] \in Int)
  BY FS_Subset
<1>2. Bad = {}
  <2> SUFFICES ASSUME Bad # {} PROVE FALSE
    OBVIOUS
  <2>a. Bad \in SUBSET (SUBSET S)
    OBVIOUS
  <2>1. PICK s \in Bad : \A r \in Bad : r \subseteq s => r = s
    <3> HIDE DEF Bad
    <3> QED
      BY <2>a, LeastSubset
  <2>2. s # {}
    BY <2>1, TotalNone
  <2>3. Pick(s) \in s /\ s \ {Pick(s)} \in SUBSET S /\ s \ {Pick(s)} # s
    BY <2>1, <2>2, PickIs
  <2>4. TokenSum(h, s \ {Pick(s)}) = TokenSum(f, s \ {Pick(s)})
    BY <2>1, <2>3
  <2>5. TokenSum(h, s) = TokenSum(h, s \ {Pick(s)}) + h[Pick(s)] /\ TokenSum(f, s) = TokenSum(f, s \ {Pick(s)}) + f[Pick(s)]
    BY <2>1, <2>2, <1>1, TotalPick
  <2> QED
    BY <2>1, <2>3, <2>4, <2>5
<1>3. S \in SUBSET S
  OBVIOUS
<1> QED
  BY <1>2, <1>3

LEMMA TotalIsNat ==
  ASSUME NEW S, IsFiniteSet(S), NEW f, \A d \in S : f[d] \in Nat
  PROVE  TokenSum(f, S) \in Nat
<1> DEFINE Bad == {s \in SUBSET S : TokenSum(f, s) \notin Nat}
<1>1. \A s \in SUBSET S : IsFiniteSet(s) /\ (\A d \in s : f[d] \in Int)
  BY FS_Subset
<1>2. Bad = {}
  <2> SUFFICES ASSUME Bad # {} PROVE FALSE
    OBVIOUS
  <2>a. Bad \in SUBSET (SUBSET S)
    OBVIOUS
  <2>1. PICK s \in Bad : \A r \in Bad : r \subseteq s => r = s
    <3> HIDE DEF Bad
    <3> QED
      BY <2>a, LeastSubset
  <2>2. s # {}
    <3>1. TokenSum(f, {}) = 0 /\ 0 \in Nat
      BY TotalNone
    <3>2. TokenSum(f, s) \notin Nat
      BY <2>1
    <3> QED
      BY <3>1, <3>2
  <2>3. Pick(s) \in s /\ s \ {Pick(s)} \in SUBSET S /\ s \ {Pick(s)} # s
    BY <2>1, <2>2, PickIs
  <2>4. TokenSum(f, s \ {Pick(s)}) \in Nat
    BY <2>1, <2>3
  <2>5. TokenSum(f, s) = TokenSum(f, s \ {Pick(s)}) + f[Pick(s)]
    BY <2>1, <2>2, <1>1, TotalPick
  <2> QED
    BY <2>1, <2>3, <2>4, <2>5
<1>3. S \in SUBSET S
  OBVIOUS
<1> QED
  BY <1>2, <1>3
-----------------------------------------------------------------------------
(* The history.  What triggers do to the totals of a table, one row at a   *)
(* time, and so for all the rows that a collection replaces.               *)
Sums(tab) == [rows |-> Cardinality(DayRows(tab)), tokens |-> TokenSum(tab, DayRows(tab))]
Tables == [Days -> {NoRow} \union Nat]

LEMMA DaysAreFinite == Days \subseteq Int /\ IsFiniteSet(Days)
<1>1. Day(MaxTime) \in Int
  BY UsageEventsAssumption DEF UsageEventsAssumption, Day
<1> QED
  BY <1>1, FS_Interval DEF Days

LEMMA RowsAre ==
  ASSUME NEW tab \in Tables
  PROVE  /\ IsFiniteSet(DayRows(tab)) /\ DayRows(tab) \subseteq Days
         /\ \A d \in DayRows(tab) : tab[d] \in Nat /\ tab[d] \in Int
         /\ Cardinality(DayRows(tab)) \in Nat /\ TokenSum(tab, DayRows(tab)) \in Int
<1>1. DayRows(tab) \in SUBSET Days
  BY DEF DayRows
<1>2. IsFiniteSet(DayRows(tab))
  BY <1>1, DaysAreFinite, FS_Subset
<1>3. \A d \in DayRows(tab) : tab[d] \in Nat
  BY DEF DayRows, Tables, NoRow
<1>4. \A d \in DayRows(tab) : tab[d] \in Int
  BY <1>3
<1>5. Cardinality(DayRows(tab)) \in Nat /\ TokenSum(tab, DayRows(tab)) \in Int
  BY <1>2, <1>4, FS_CardinalityType, TotalType
<1> QED
  BY <1>1, <1>2, <1>3, <1>4, <1>5

(* The sums of a table that differs from another in one row at most.       *)
LEMMA SumsWithout ==
  ASSUME NEW tab \in Tables, NEW d \in Days, tab[d] # NoRow,
         NEW new, new = [tab EXCEPT ![d] = NoRow]
  PROVE  /\ new \in Tables
         /\ DayRows(new) = DayRows(tab) \ {d}
         /\ Cardinality(DayRows(tab)) = Cardinality(DayRows(new)) + 1
         /\ TokenSum(tab, DayRows(tab)) = TokenSum(new, DayRows(new)) + tab[d]
<1>1. new \in Tables
  BY DEF Tables
<1>2. DayRows(new) = DayRows(tab) \ {d} /\ d \in DayRows(tab) /\ \A e \in DayRows(new) : new[e] = tab[e]
  BY DEF DayRows, Tables
<1>3. /\ IsFiniteSet(DayRows(tab)) /\ Cardinality(DayRows(tab)) \in Nat
      /\ \A e \in DayRows(tab) : tab[e] \in Int
  BY RowsAre, Zenon
<1>b. IsFiniteSet(DayRows(new)) /\ \A e \in DayRows(new) : new[e] \in Int
  BY <1>1, RowsAre, Zenon
<1>4. Cardinality(DayRows(new)) = Cardinality(DayRows(tab)) - 1
  BY <1>2, <1>3, FS_RemoveElement
<1>5. TokenSum(tab, DayRows(tab)) = TokenSum(tab, DayRows(new)) + tab[d]
  <2>1. TokenSum(tab, DayRows(tab)) = TokenSum(tab, DayRows(tab) \ {d}) + tab[d]
    BY <1>2, <1>3, TotalWithout, ZenonT(60)
  <2> QED
    BY <2>1, <1>2
<1>6. TokenSum(tab, DayRows(new)) = TokenSum(new, DayRows(new))
  <2>1. \A e \in DayRows(new) : new[e] \in Int /\ tab[e] = new[e]
    BY <1>2, <1>b
  <2> QED
    BY <2>1, <1>b, TotalSame, Zenon
<1>7. Cardinality(DayRows(tab)) = Cardinality(DayRows(new)) + 1
  BY <1>3, <1>4
<1> QED
  BY <1>1, <1>2, <1>5, <1>6, <1>7

LEMMA DeletedSums ==
  ASSUME NEW tab \in Tables, NEW d \in Days
  PROVE  Deleted(tab[d], Sums(tab)) = Sums([tab EXCEPT ![d] = NoRow])
<1> DEFINE new == [tab EXCEPT ![d] = NoRow]
<1>1. CASE tab[d] = NoRow
  <2>1. new = tab
    BY <1>1 DEF Tables
  <2> QED
    BY <1>1, <2>1 DEF Deleted
<1>2. CASE tab[d] # NoRow
  <2> HIDE DEF new
  <2>1. /\ Cardinality(DayRows(tab)) = Cardinality(DayRows(new)) + 1
        /\ TokenSum(tab, DayRows(tab)) = TokenSum(new, DayRows(new)) + tab[d] /\ new \in Tables
    BY <1>2, SumsWithout DEF new
  <2>2. Cardinality(DayRows(new)) \in Nat /\ TokenSum(new, DayRows(new)) \in Int /\ tab[d] \in Nat
    BY <2>1, <1>2, RowsAre DEF Tables
  <2>3. Deleted(tab[d], Sums(tab)) = [rows |-> Cardinality(DayRows(tab)) - 1, tokens |-> TokenSum(tab, DayRows(tab)) - tab[d]]
    BY <1>2 DEF Deleted, DeleteTrigger, Sums
  <2>4. Cardinality(DayRows(tab)) - 1 = Cardinality(DayRows(new)) /\ TokenSum(tab, DayRows(tab)) - tab[d] = TokenSum(new, DayRows(new))
    BY <2>1, <2>2
  <2>5. Deleted(tab[d], Sums(tab)) = Sums(new)
    BY <2>3, <2>4 DEF Sums
  <2> QED
    BY <2>5 DEF new
<1> QED
  BY <1>1, <1>2

LEMMA UpsertedSums ==
  ASSUME NEW tab \in Tables, NEW d \in Days, NEW n \in Nat
  PROVE  Upserted(tab[d], n, Sums(tab)) = Sums([tab EXCEPT ![d] = n])
<1> DEFINE new == [tab EXCEPT ![d] = n]
           none == [tab EXCEPT ![d] = NoRow]
<1>1. new \in Tables /\ new[d] = n /\ n # NoRow /\ none = [new EXCEPT ![d] = NoRow]
  BY DEF Tables, NoRow
<1> HIDE DEF new, none
<1>2. /\ none \in Tables /\ Cardinality(DayRows(new)) = Cardinality(DayRows(none)) + 1
      /\ TokenSum(new, DayRows(new)) = TokenSum(none, DayRows(none)) + n
  <2>1. new[d] # NoRow
    BY <1>1
  <2>2. /\ none \in Tables /\ Cardinality(DayRows(new)) = Cardinality(DayRows(none)) + 1
        /\ TokenSum(new, DayRows(new)) = TokenSum(none, DayRows(none)) + new[d]
    BY <1>1, <2>1, SumsWithout, ZenonT(60)
  <2> QED
    BY <1>1, <2>2
<1>3. Cardinality(DayRows(none)) \in Nat /\ TokenSum(none, DayRows(none)) \in Int
  BY <1>2, RowsAre
<1>4. CASE tab[d] = NoRow
  <2>1. none = tab
    BY <1>4 DEF Tables, none
  <2>2. Upserted(tab[d], n, Sums(tab)) = [rows |-> Cardinality(DayRows(tab)) + 1, tokens |-> TokenSum(tab, DayRows(tab)) + n]
    BY <1>4 DEF Upserted, InsertTrigger, Sums
  <2>3. Upserted(tab[d], n, Sums(tab)) = Sums(new)
    BY <2>1, <2>2, <1>2 DEF Sums
  <2> QED
    BY <2>3 DEF new
<1>5. CASE tab[d] # NoRow
  <2>1. /\ Cardinality(DayRows(tab)) = Cardinality(DayRows(none)) + 1
        /\ TokenSum(tab, DayRows(tab)) = TokenSum(none, DayRows(none)) + tab[d] /\ tab[d] \in Nat
    BY <1>5, SumsWithout DEF none, Tables
  <2>2. CASE tab[d] = n
    <3>1. new = tab
      BY <2>2 DEF new, Tables
    <3> QED
      BY <3>1, <2>2, <1>5 DEF Upserted, new
  <2>3. CASE tab[d] # n
    <3>1. Upserted(tab[d], n, Sums(tab)) = [rows |-> Cardinality(DayRows(tab)), tokens |-> TokenSum(tab, DayRows(tab)) - tab[d] + n]
      BY <1>5, <2>3 DEF Upserted, UpdateTrigger, Sums
    <3>2. Cardinality(DayRows(tab)) = Cardinality(DayRows(new)) /\ TokenSum(tab, DayRows(tab)) - tab[d] + n = TokenSum(new, DayRows(new))
      BY <2>1, <1>2, <1>3
    <3>3. Upserted(tab[d], n, Sums(tab)) = Sums(new)
      BY <3>1, <3>2 DEF Sums
    <3> QED
      BY <3>3 DEF new
  <2> QED
    BY <2>2, <2>3
<1> QED
  BY <1>4, <1>5

(* All rows of some days are deleted, one after the other.                 *)
Cleared(tab, S) == [d \in Days |-> IF d \in S THEN NoRow ELSE tab[d]]
LEMMA AllDeleted ==
  ASSUME NEW tab \in Tables, NEW S \in SUBSET Days
  PROVE  RowsDeleted(tab, Sums(tab), S) = Sums(Cleared(tab, S))
<1> DEFINE V == [rows : Int, tokens : Int]
           Body(g) == [s \in SUBSET S |-> IF s = {} THEN Sums(tab) ELSE Deleted(tab[Pick(s)], g[s \ {Pick(s)}])]
           G == CHOOSE g : g = Body(g)
           step == [p \in S \X V |-> Deleted(tab[p[1]], p[2])]
<1>1. IsFiniteSet(S)
  BY DaysAreFinite, FS_Subset
<1>2. Sums(tab) \in V /\ step \in [S \X V -> V]
  <2>1. Sums(tab) \in V
    BY RowsAre DEF Sums
  <2>2. \A d \in S, v \in V : Deleted(tab[d], v) \in V
    BY DEF Deleted, DeleteTrigger, Tables
  <2> HIDE DEF V
  <2> QED
    BY <2>1, <2>2
<1>3. PICK g \in [SUBSET S -> V] : Folds(g, S, Sums(tab), step)
  <2> HIDE DEF V, step, G, Body
  <2> QED
    BY <1>1, <1>2, FoldExists
<1>4. ASSUME NEW s \in SUBSET S, s # {}
      PROVE  Pick(s) \in s /\ Pick(s) \in S /\ s \ {Pick(s)} \in SUBSET S /\ s \ {Pick(s)} # s
  BY <1>4, PickIs
<1>5. g = Body(g)
  <2>1. ASSUME NEW s \in SUBSET S, s # {}
        PROVE  step[<<Pick(s), g[s \ {Pick(s)}]>>] = Deleted(tab[Pick(s)], g[s \ {Pick(s)}])
    <3> HIDE DEF V
    <3> QED
      BY <2>1, <1>4
  <2> HIDE DEF step, V
  <2> QED
    BY <2>1, <1>3 DEF Folds
<1>6. G = Body(G)
  <2>1. \E h : h = Body(h)
    BY <1>5
  <2> HIDE DEF Body
  <2> QED
    BY <2>1
<1>7. RowsDeleted(tab, Sums(tab), S) = G[S]
  BY Zenon DEF RowsDeleted, RowsUpserted, FoldSet, MapThenFoldSet, Pick
<1> HIDE DEF G, step, V
<1> DEFINE Bad == {s \in SUBSET S : G[s] # Sums(Cleared(tab, s))}
<1>8. Bad = {}
  <2> SUFFICES ASSUME Bad # {} PROVE FALSE
    OBVIOUS
  <2>a. Bad \in SUBSET (SUBSET S)
    OBVIOUS
  <2>1. PICK s \in Bad : \A r \in Bad : r \subseteq s => r = s
    <3> HIDE DEF Bad
    <3> QED
      BY <1>1, <2>a, LeastSubset
  <2>2. s # {}
    <3>1. Cleared(tab, {}) = tab
      BY DEF Cleared, Tables
    <3>2. G[{}] = Sums(tab)
      BY <1>6
    <3> QED
      BY <3>1, <3>2, <2>1
  <2> DEFINE d == Pick(s)
             r == s \ {d}
  <2>3. d \in s /\ d \in Days /\ s \in SUBSET S /\ r \in SUBSET S /\ r # s
    BY <2>1, <2>2, <1>4
  <2>4. G[s] = Deleted(tab[d], G[r])
    BY <2>1, <2>2, <1>6
  <2> HIDE DEF d
  <2>5. G[r] = Sums(Cleared(tab, r))
    BY <2>3, <2>1
  <2>6. /\ Cleared(tab, r) \in Tables /\ Cleared(tab, r)[d] = tab[d]
        /\ [Cleared(tab, r) EXCEPT ![d] = NoRow] = Cleared(tab, s)
    BY <2>3 DEF Cleared, Tables
  <2>7. Deleted(Cleared(tab, r)[d], Sums(Cleared(tab, r))) = Sums(Cleared(tab, s))
    BY <2>3, <2>6, DeletedSums
  <2> QED
    BY <2>1, <2>4, <2>5, <2>6, <2>7
<1>9. S \in SUBSET S
  OBVIOUS
<1> QED
  BY <1>7, <1>8, <1>9

(* Rows of some days are stored, one after the other.                      *)
Recounted(tab, n, S) == [d \in Days |-> IF d \in S THEN n[d] ELSE tab[d]]
LEMMA AllUpserted ==
  ASSUME NEW tab \in Tables, NEW S \in SUBSET Days, NEW n \in [Days -> Nat]
  PROVE  RowsUpserted(tab, n, Sums(tab), S) = Sums(Recounted(tab, n, S))
<1> DEFINE V == [rows : Int, tokens : Int]
           Body(g) == [s \in SUBSET S |-> IF s = {} THEN Sums(tab) ELSE Upserted(tab[Pick(s)], n[Pick(s)], g[s \ {Pick(s)}])]
           G == CHOOSE g : g = Body(g)
           step == [p \in S \X V |-> Upserted(tab[p[1]], n[p[1]], p[2])]
<1>1. IsFiniteSet(S)
  BY DaysAreFinite, FS_Subset
<1>0. \A d \in Days : n[d] \in Nat
  OBVIOUS
<1>7. RowsUpserted(tab, n, Sums(tab), S) = G[S]
  BY Zenon DEF RowsDeleted, RowsUpserted, FoldSet, MapThenFoldSet, Pick
<1>2. Sums(tab) \in V /\ step \in [S \X V -> V]
  <2>1. Sums(tab) \in V
    BY RowsAre DEF Sums
  <2>2. \A d \in S, v \in V : Upserted(tab[d], n[d], v) \in V
    BY <1>0 DEF Upserted, InsertTrigger, UpdateTrigger, Tables
  <2> HIDE DEF V
  <2> QED
    BY <2>1, <2>2
<1>3. PICK g \in [SUBSET S -> V] : Folds(g, S, Sums(tab), step)
  <2> HIDE DEF V, step, G, Body
  <2> QED
    BY <1>1, <1>2, FoldExists
<1>4. ASSUME NEW s \in SUBSET S, s # {}
      PROVE  Pick(s) \in s /\ Pick(s) \in S /\ s \ {Pick(s)} \in SUBSET S /\ s \ {Pick(s)} # s
  BY <1>4, PickIs
<1>5. g = Body(g)
  <2>1. ASSUME NEW s \in SUBSET S, s # {}
        PROVE  step[<<Pick(s), g[s \ {Pick(s)}]>>] = Upserted(tab[Pick(s)], n[Pick(s)], g[s \ {Pick(s)}])
    <3> HIDE DEF V
    <3> QED
      BY <2>1, <1>4
  <2> HIDE DEF step, V
  <2> QED
    BY <2>1, <1>3 DEF Folds
<1>6. G = Body(G)
  <2>1. \E h : h = Body(h)
    BY <1>5
  <2> HIDE DEF Body
  <2> QED
    BY <2>1
<1> HIDE DEF G, step, V
<1> DEFINE Bad == {s \in SUBSET S : G[s] # Sums(Recounted(tab, n, s))}
<1>8. Bad = {}
  <2> SUFFICES ASSUME Bad # {} PROVE FALSE
    OBVIOUS
  <2>a. Bad \in SUBSET (SUBSET S)
    OBVIOUS
  <2>1. PICK s \in Bad : \A r \in Bad : r \subseteq s => r = s
    <3> HIDE DEF Bad
    <3> QED
      BY <1>1, <2>a, LeastSubset
  <2>2. s # {}
    <3>1. Recounted(tab, n, {}) = tab
      BY DEF Recounted, Tables
    <3>2. G[{}] = Sums(tab)
      BY <1>6
    <3> QED
      BY <3>1, <3>2, <2>1
  <2> DEFINE d == Pick(s)
             r == s \ {d}
  <2>3. d \in s /\ d \in Days /\ s \in SUBSET S /\ r \in SUBSET S /\ r # s
    BY <2>1, <2>2, <1>4
  <2>4. G[s] = Upserted(tab[d], n[d], G[r])
    BY <2>1, <2>2, <1>6
  <2> HIDE DEF d
  <2>5. G[r] = Sums(Recounted(tab, n, r))
    BY <2>3, <2>1
  <2>6. /\ Recounted(tab, n, r) \in Tables /\ Recounted(tab, n, r)[d] = tab[d]
        /\ [Recounted(tab, n, r) EXCEPT ![d] = n[d]] = Recounted(tab, n, s)
    BY <2>3, <1>0 DEF Recounted, Tables
  <2>b. n[d] \in Nat
    BY <2>3, <1>0
  <2>7. Upserted(Recounted(tab, n, r)[d], n[d], Sums(Recounted(tab, n, r))) = Sums(Recounted(tab, n, s))
    <3> DEFINE t == Recounted(tab, n, r)
    <3>1. Upserted(t[d], n[d], Sums(t)) = Sums([t EXCEPT ![d] = n[d]])
      <4> HIDE DEF t
      <4> QED
        BY <2>3, <2>6, <2>b, UpsertedSums DEF t
    <3> QED
      BY <2>6, <3>1
  <2> QED
    BY <2>1, <2>4, <2>5, <2>6, <2>7
<1>9. S \in SUBSET S
  OBVIOUS
<1> QED
  BY <1>7, <1>8, <1>9
-----------------------------------------------------------------------------
(* Times from the newest: each has a place of its own.                     *)
LEMMA Ranked ==
  ASSUME NEW T \in SUBSET Int, IsFiniteSet(T)
  PROVE  /\ Cardinality(T) \in Nat
         /\ \A i \in 1 .. Cardinality(T) : \E t \in T : Cardinality({u \in T : u > t}) = i - 1
         /\ \A t \in T : Cardinality({u \in T : u > t}) \in Nat /\ Cardinality({u \in T : u > t}) + 1 \in 1 .. Cardinality(T)
         /\ \A t, w \in T : Cardinality({u \in T : u > t}) = Cardinality({u \in T : u > w}) => t = w
<1> DEFINE n == Cardinality(T)
           Newer(t) == {u \in T : u > t}
           f == [t \in T |-> Cardinality(Newer(t)) + 1]
<1>1. n \in Nat
  BY FS_CardinalityType
<1>2. \A t \in T : IsFiniteSet(Newer(t)) /\ Cardinality(Newer(t)) \in Nat
  BY FS_Subset, FS_CardinalityType
<1>3. ASSUME NEW t \in T PROVE f[t] \in 1 .. n
  <2>1. Newer(t) \in SUBSET T /\ t \notin Newer(t)
    OBVIOUS
  <2>2. Cardinality(Newer(t)) <= n /\ Cardinality(Newer(t)) # n
    BY <2>1, <1>3, FS_Subset
  <2> HIDE DEF Newer, n
  <2> QED
    BY <2>2, <1>2, <1>1
<1>4. ASSUME NEW t \in T, NEW u \in T, t < u PROVE f[t] # f[u]
  <2>1. \A v \in T : v > u => v > t
    BY <1>4
  <2>a. Newer(u) \in SUBSET Newer(t)
    BY <2>1
  <2>b. u \in Newer(t)
    BY <1>4
  <2>c. u \notin Newer(u)
    OBVIOUS
  <2>2. Newer(u) \in SUBSET Newer(t) /\ u \in Newer(t) /\ u \notin Newer(u)
    BY <2>a, <2>b, <2>c
  <2>3. Cardinality(Newer(u)) # Cardinality(Newer(t))
    BY <2>2, <1>2, FS_Subset
  <2> HIDE DEF Newer
  <2> QED
    BY <2>3, <1>2
<1>5. f \in Injection(T, 1 .. n)
  <2>1. \A t, u \in T : t # u => t < u \/ u < t
    OBVIOUS
  <2>2. \A t, u \in T : f[t] = f[u] => t = u
    <3> HIDE DEF f
    <3> QED
      BY <2>1, <1>4
  <2>3. f \in [T -> 1 .. n]
    BY <1>3
  <2> HIDE DEF f
  <2> QED
    BY <2>2, <2>3 DEF Injection, IsInjective
<1>6. IsFiniteSet(1 .. n) /\ Cardinality(1 .. n) = n
  BY <1>1, FS_Interval
<1>7. f \in Surjection(T, 1 .. n)
  <2> HIDE DEF f
  <2> QED
    BY <1>5, <1>6, FS_Injection
<1>8. \A i \in 1 .. n : \E t \in T : f[t] = i
  BY <1>7 DEF Surjection
<1>9. \A i \in 1 .. n : \E t \in T : Cardinality(Newer(t)) = i - 1
  <2> HIDE DEF n, Newer
  <2> QED
    BY <1>8, <1>2
<1>10. \A t \in T : Cardinality(Newer(t)) + 1 \in 1 .. n
  <2> HIDE DEF n, Newer
  <2> QED
    BY <1>3
<1>11. \A t, w \in T : Cardinality(Newer(t)) = Cardinality(Newer(w)) => t = w
  <2>1. \A t, w \in T : f[t] = f[w] => t = w
    <3> HIDE DEF f
    <3> QED
      BY <1>5 DEF Injection, IsInjective
  <2> HIDE DEF n, Newer
  <2> QED
    BY <2>1
<1> QED
  BY <1>1, <1>2, <1>9, <1>10, <1>11

LEMMA NewestFirstIs ==
  ASSUME NEW T \in SUBSET Int, IsFiniteSet(T)
  PROVE  /\ NewestFirst(T) \in Seq(T) /\ Len(NewestFirst(T)) = Cardinality(T) /\ Cardinality(T) \in Nat
         /\ Range(NewestFirst(T)) = T
<1> DEFINE n == Cardinality(T)
           Rank(t) == Cardinality({u \in T : u > t})
           At(i) == CHOOSE t \in T : Rank(t) = i - 1
<1>1. /\ n \in Nat /\ \A i \in 1 .. n : \E t \in T : Rank(t) = i - 1
      /\ \A t \in T : Rank(t) \in Nat /\ Rank(t) + 1 \in 1 .. n
      /\ \A t, w \in T : Rank(t) = Rank(w) => t = w
  BY Ranked
<1>2. NewestFirst(T) = [i \in 1 .. n |-> At(i)]
  BY DEF NewestFirst
<1> HIDE DEF n, Rank
<1>3. \A i \in 1 .. n : At(i) \in T /\ Rank(At(i)) = i - 1
  BY <1>1
<1>4. \A t \in T : At(Rank(t) + 1) = t
  <2>1. \A t \in T : Rank(At(Rank(t) + 1)) = Rank(t) + 1 - 1 /\ At(Rank(t) + 1) \in T
    BY <1>1, <1>3
  <2> QED
    BY <2>1, <1>1
<1> HIDE DEF At
<1>5. NewestFirst(T) \in Seq(T) /\ Len(NewestFirst(T)) = n
  BY <1>1, <1>2, <1>3
<1>6. Range(NewestFirst(T)) = T
  <2>1. DOMAIN NewestFirst(T) = 1 .. n /\ \A i \in 1 .. n : NewestFirst(T)[i] = At(i)
    BY <1>2
  <2>2. \A t \in T : Rank(t) + 1 \in 1 .. n /\ NewestFirst(T)[Rank(t) + 1] = t
    BY <2>1, <1>1, <1>4
  <2> QED
    BY <2>1, <2>2, <1>3 DEF Range
<1> QED
  BY <1>1, <1>5, <1>6 DEF n

(* A page of a sequence, and what is in it.                                *)
LEMMA PageIs ==
  ASSUME NEW T, NEW s \in Seq(T), NEW offset \in Nat, NEW size \in Nat
  PROVE  /\ PageOf(s, offset, size) \in Seq(T) /\ Range(PageOf(s, offset, size)) \subseteq Range(s)
         /\ PageOf(s, offset, size) = SubSeq(s, offset + 1, IF offset + size <= Len(s) THEN offset + size ELSE Len(s))
         /\ Range(s) \subseteq T
<1> DEFINE upto == IF offset + size <= Len(s) THEN offset + size ELSE Len(s)
<1>1. Min({offset + size, Len(s)}) = upto
  BY DEF Min
<1>2. PageOf(s, offset, size) = SubSeq(s, offset + 1, upto)
  BY <1>1 DEF PageOf
<1>3. upto \in 0 .. Len(s)
  OBVIOUS
<1> HIDE DEF upto
<1>4. SubSeq(s, offset + 1, upto) \in Seq(T)
  BY <1>3
<1>5. Range(SubSeq(s, offset + 1, upto)) \subseteq Range(s)
  BY <1>3 DEF Range
<1> QED
  BY <1>2, <1>4, <1>5 DEF Range, upto

LEMMA RangeIsSmall ==
  ASSUME NEW T, NEW s \in Seq(T)
  PROVE  IsFiniteSet(Range(s)) /\ Cardinality(Range(s)) \in Nat /\ Cardinality(Range(s)) <= Len(s)
<1> DEFINE f == [i \in 1 .. Len(s) |-> s[i]]
<1>0. Len(s) \in Nat /\ Range(s) = {s[i] : i \in 1 .. Len(s)}
  BY DEF Range
<1>1. IsFiniteSet(1 .. Len(s)) /\ Cardinality(1 .. Len(s)) = Len(s)
  <2>1. 1 \in Int /\ Len(s) \in Int
    BY <1>0
  <2>2. Cardinality(1 .. Len(s)) = IF 1 > Len(s) THEN 0 ELSE Len(s) - 1 + 1
    BY <2>1, FS_Interval
  <2> QED
    BY <2>1, <2>2, <1>0, FS_Interval, SMTT(60)
<1>2. f \in Surjection(1 .. Len(s), Range(s))
  <2>1. f \in [1 .. Len(s) -> Range(s)]
    BY <1>0
  <2>2. \A x \in Range(s) : \E i \in 1 .. Len(s) : f[i] = x
    BY <1>0
  <2> HIDE DEF f
  <2> QED
    BY <2>1, <2>2 DEF Surjection
<1>3. IsFiniteSet(Range(s)) /\ Cardinality(Range(s)) <= Cardinality(1 .. Len(s))
  <2> HIDE DEF f
  <2> QED
    BY <1>1, <1>2, FS_Surjection
<1> QED
  BY <1>1, <1>3, FS_CardinalityType

(* What follows a prefix makes it longer.                                  *)
LEMMA SliceJoins ==
  ASSUME NEW T, NEW s \in Seq(T), NEW i \in 0 .. Len(s), NEW j \in i .. Len(s)
  PROVE  /\ Len(SubSeq(s, i + 1, j)) = j - i
         /\ SubSeq(s, 1, i) \o SubSeq(s, i + 1, j) = SubSeq(s, 1, j)
<1>1. Len(s) \in Nat /\ i \in Int /\ j \in Int /\ i + 1 \in Int /\ 1 \in 1 .. Len(s) + 1 /\ i \in 1 - 1 .. Len(s)
  OBVIOUS
<1>2. Len(SubSeq(s, i + 1, j)) = j - i
  <2>1. \A k \in i + 1 .. j : s[k] \in T
    OBVIOUS
  <2>2. Len(SubSeq(s, i + 1, j)) = IF i + 1 <= j THEN j - (i + 1) + 1 ELSE 0
    BY <1>1, <2>1, SubSeqProperties
  <2> QED
    BY <1>1, <2>2
<1>3. SubSeq(s, 1, i) \o SubSeq(s, i + 1, j) = SubSeq(s, 1, j)
  BY <1>1, ConcatAdjacentSubSeq
<1> QED
  BY <1>2, <1>3
-----------------------------------------------------------------------------
(* The calendar: cycles begin and end within time, and a cycle goes on      *)
(* until the next one begins.                                              *)
LEMMA CyclesAre ==
  /\ MaxTime \in Nat /\ MaxTime >= 1 /\ Times \subseteq Nat /\ IsFiniteSet(Times)
  /\ Cycles \subseteq Times /\ 1 \in Cycles /\ IsFiniteSet(Cycles)
<1>1. MaxTime \in Nat /\ MaxTime >= 1 /\ Cycles \subseteq 1 .. MaxTime /\ 1 \in Cycles
  BY UsageEventsAssumption DEF UsageEventsAssumption
<1>2. Times \subseteq Nat /\ IsFiniteSet(Times)
  BY <1>1, FS_Interval DEF Times
<1>3. IsFiniteSet(Cycles)
  BY <1>1, <1>2, FS_Subset DEF Times
<1> QED
  BY <1>1, <1>2, <1>3 DEF Times

LEMMA CycleStarts ==
  ASSUME NEW t \in Times
  PROVE  CycleStart(t) \in Cycles /\ CycleStart(t) \in Times /\ CycleStart(t) <= t /\ \A c \in Cycles : c <= t => c <= CycleStart(t)
<1> DEFINE S == {c \in Cycles : c <= t}
<1>1. S \in SUBSET Int /\ IsFiniteSet(S) /\ 1 \in S /\ \A c \in S : c \in Int
  <2>1. S \in SUBSET Cycles
    OBVIOUS
  <2>2. IsFiniteSet(S)
    BY <2>1, CyclesAre, FS_Subset
  <2>a. MaxTime \in Nat /\ 1 \in Cycles /\ \A c \in Cycles : c \in Nat
    BY CyclesAre
  <2>b. t \in Nat /\ t >= 1
    BY <2>a DEF Times
  <2>c. \A c \in S : c \in Nat
    BY <2>a
  <2>3. 1 \in S /\ S \in SUBSET Int
    BY <2>a, <2>b, <2>c
  <2> QED
    BY <2>2, <2>3
<1> HIDE DEF S
<1>2. \E x \in S : \A y \in S : y <= x
  BY <1>1, GreatestOfFinite
<1>3. \E x \in S : \A y \in S : x >= y
  BY <1>1, <1>2
<1>4. CycleStart(t) = Max(S)
  BY DEF CycleStart, S
<1>5. Max(S) \in S /\ \A y \in S : Max(S) >= y
  BY <1>3 DEF Max
<1>6. CycleStart(t) \in Cycles /\ CycleStart(t) <= t
  BY <1>4, <1>5 DEF S
<1>7. CycleStart(t) \in Times
  BY <1>6, CyclesAre
<1>8. \A c \in Cycles : c <= t => c <= CycleStart(t)
  <2>1. \A c \in Cycles : c \in Nat
    BY CyclesAre
  <2> QED
    BY <1>4, <1>5, <1>6, <2>1 DEF S
<1> QED
  BY <1>6, <1>7, <1>8

LEMMA CycleEnds ==
  ASSUME NEW start \in Cycles
  PROVE  /\ CycleEnd(start) \in Times /\ start <= CycleEnd(start)
         /\ \A d \in Cycles : d > start => CycleEnd(start) <= d - 1
         /\ CycleEnd(start) = MaxTime \/ CycleEnd(start) + 1 \in Cycles
<1> DEFINE Later == {d \in Cycles : d > start}
           S == {c - 1 : c \in Later} \union {MaxTime}
<1>0. start \in Nat /\ start <= MaxTime /\ start >= 1 /\ MaxTime \in Nat
  BY CyclesAre DEF Times
<1>a. \A d \in Later : d \in Nat /\ d > start /\ d <= MaxTime /\ d \in Cycles
  BY CyclesAre DEF Times
<1>1. IsFiniteSet(S)
  <2> DEFINE f == [c \in Later |-> c - 1]
             T == {c - 1 : c \in Later}
  <2>1. Later \in SUBSET Cycles
    OBVIOUS
  <2>2. IsFiniteSet(Later)
    BY <2>1, CyclesAre, FS_Subset
  <2>3. f \in Surjection(Later, T)
    <3>1. f \in [Later -> T] /\ \A x \in T : \E c \in Later : f[c] = x
      OBVIOUS
    <3> HIDE DEF f, T
    <3> QED
      BY <3>1 DEF Surjection
  <2>4. IsFiniteSet(T)
    <3> HIDE DEF f, T, Later
    <3> QED
      BY <2>2, <2>3, FS_Surjection
  <2>5. S = T \union {MaxTime} /\ IsFiniteSet({MaxTime})
    BY FS_Singleton
  <2> HIDE DEF S, T
  <2> QED
    BY <2>4, <2>5, FS_Union
<1>2. \A x \in S : x \in Times /\ start <= x
  BY <1>0, <1>a DEF Times
<1>3. MaxTime \in S /\ \A d \in Cycles : d > start => d - 1 \in S
  OBVIOUS
<1>4. \A x \in S : x = MaxTime \/ x + 1 \in Cycles
  BY <1>a
<1>5. CycleEnd(start) = Min(S)
  BY DEF CycleEnd
<1> HIDE DEF S, Later
<1>6. S \in SUBSET Int
  <2>1. \A x \in Times : x \in Int
    BY CyclesAre
  <2>2. \A x \in S : x \in Int
    BY <1>2, <2>1
  <2> QED
    BY <2>2
<1>7. \E x \in S : \A y \in S : x <= y
  BY <1>1, <1>3, <1>6, LeastOfFinite
<1>8. Min(S) \in S /\ \A y \in S : Min(S) <= y
  BY <1>7 DEF Min
<1> QED
  BY <1>2, <1>3, <1>4, <1>5, <1>8

(* What a collection covers: it ends with the cycle, or now.                *)
LEMMA CutoffIsCovered ==
  ASSUME NEW t \in Times, NEW n \in Times, t <= n
  PROVE  LET end == Min({CycleEnd(CycleStart(t)), n}) IN
         /\ end \in Times /\ t <= end /\ end <= n
         /\ end = n \/ end + 1 \in Cycles
<1> DEFINE s == CycleStart(t)
           e == CycleEnd(s)
           end == Min({e, n})
<1>1. s \in Cycles /\ s \in Times /\ s <= t /\ \A c \in Cycles : c <= t => c <= s
  BY CycleStarts
<1>2. e \in Times /\ s <= e /\ (\A d \in Cycles : d > s => e <= d - 1) /\ (e = MaxTime \/ e + 1 \in Cycles)
  BY <1>1, CycleEnds
<1> HIDE DEF s, e
<1>3. t \in Nat /\ n \in Nat /\ t <= MaxTime /\ n <= MaxTime /\ MaxTime \in Nat /\ s \in Nat /\ e \in Nat /\ e <= MaxTime
  BY <1>1, <1>2, CyclesAre DEF Times
<1>4. t <= e
  <2>1. SUFFICES ASSUME t > e PROVE FALSE
    BY <1>3
  <2>2. e + 1 \in Cycles /\ e + 1 <= t
    BY <2>1, <1>2, <1>3
  <2>3. e + 1 <= s /\ s <= e
    BY <2>2, <1>1, <1>2
  <2> QED
    BY <2>3, <1>3
<1>5. end = IF e <= n THEN e ELSE n
  <2>1. \E x \in {e, n} : \A y \in {e, n} : x <= y
    BY <1>3
  <2>2. end \in {e, n} /\ \A y \in {e, n} : end <= y
    BY <2>1 DEF Min
  <2> HIDE DEF end
  <2> QED
    BY <2>2, <1>3
<1> HIDE DEF end
<1>6. end \in Times /\ t <= end /\ end <= n /\ (end = n \/ end + 1 \in Cycles)
  BY <1>2, <1>3, <1>4, <1>5
<1> QED
  BY <1>6 DEF end, e, s
-----------------------------------------------------------------------------
(* What the history keeps at every step.                                   *)
Fetches == [pc : {"idle", "paging", "verified"}, start : Times, cutoff : Times, total : Nat, left : SUBSET (Nat \ {0}),
            got : SUBSET Times, first : Seq(Times), listed : SUBSET Times, changed : BOOLEAN]
Readers == [pc : {"idle", "counted", "more", "done"}, offset : 0 .. MaxTime, count : Nat, seen : Seq(Times),
            disturbed : BOOLEAN]
HistoryTypes ==
  /\ reports \in {"events", "days"} /\ now \in Times
  /\ feed \in SUBSET Times /\ (\A e \in feed : e <= now)
  /\ events \in SUBSET Times /\ (\A e \in events : e <= now)
  /\ daily \in [Days -> {NoRow} \union (0 .. 2)]
  /\ fetch \in Fetches /\ reader \in Readers

(* The provider's list of the collection's period, as it is by now.        *)
Listed == {e \in feed : fetch.start <= e /\ e <= fetch.cutoff}

(* A collection's pages are of that list, and of the one that was counted  *)
(* at first for as long as its length has been the same.                   *)
FetchFollows ==
  fetch.pc # "idle" =>
    /\ reports = "events" /\ fetch.cutoff <= now /\ fetch.start = CycleStart(fetch.cutoff)
    /\ fetch.listed \subseteq Listed /\ fetch.got \subseteq Listed
    /\ Cardinality(fetch.listed) = fetch.total
    /\ ~fetch.changed => fetch.got \subseteq fetch.listed
    /\ fetch.pc = "verified" => fetch.got = fetch.listed

(* A client that is not overtaken has read the newest events, one by one.  *)
ReaderFollows ==
  reader.pc # "idle" /\ ~reader.disturbed =>
    /\ reader.offset <= Cardinality(events) /\ reader.count = Cardinality(events)
    /\ reader.seen = SubSeq(NewestFirst(events), 1, reader.offset)
    /\ reader.pc = "done" => reader.count <= reader.offset

HistoryInv == HistoryTypes /\ SummaryIsSum /\ DaysCountEvents /\ FetchFollows /\ ReaderFollows

LEMMA TimesAreSmall ==
  ASSUME NEW T \in SUBSET Times
  PROVE  /\ T \in SUBSET Int /\ T \in SUBSET Nat /\ IsFiniteSet(T)
         /\ Cardinality(T) \in 0 .. MaxTime
<1>1. MaxTime \in Nat /\ Times = 1 .. MaxTime /\ Times \subseteq Nat /\ IsFiniteSet(Times)
  BY CyclesAre DEF Times
<1>2. Cardinality(1 .. MaxTime) = IF 1 > MaxTime THEN 0 ELSE MaxTime - 1 + 1
  BY <1>1, FS_Interval
<1>3. IsFiniteSet(T) /\ Cardinality(T) <= Cardinality(Times)
  BY <1>1, FS_Subset
<1>4. Cardinality(T) \in Nat
  BY <1>3, FS_CardinalityType
<1>5. T \in SUBSET Nat
  BY <1>1
<1>6. \A t \in T : t \in Int
  BY <1>5
<1>7. Cardinality(Times) <= MaxTime
  BY <1>1, <1>2
<1>8. Cardinality(T) \in 0 .. MaxTime
  BY <1>1, <1>3, <1>4, <1>7, FS_CardinalityType
<1> QED
  BY <1>3, <1>5, <1>6, <1>8

LEMMA NewestOfTimes ==
  ASSUME NEW T \in SUBSET Times
  PROVE  /\ NewestFirst(T) \in Seq(T) /\ NewestFirst(T) \in Seq(Times) /\ Range(NewestFirst(T)) = T
         /\ Len(NewestFirst(T)) = Cardinality(T)
<1>1. T \in SUBSET Int /\ IsFiniteSet(T)
  BY TimesAreSmall
<1>2. NewestFirst(T) \in Seq(T) /\ Range(NewestFirst(T)) = T /\ Len(NewestFirst(T)) = Cardinality(T)
  BY <1>1, NewestFirstIs
<1>3. NewestFirst(T) \in Seq(Times)
  BY <1>2
<1> QED
  BY <1>2, <1>3

LEMMA ListedIs == ASSUME HistoryTypes PROVE Listed \in SUBSET Times /\ Listing = NewestFirst(Listed)
BY DEF HistoryTypes, Listed, Listing

LEMMA HistoryInit == EventsInit => HistoryInv
<1> SUFFICES ASSUME EventsInit PROVE HistoryInv
  OBVIOUS
<1> USE DEF EventsInit
<1>1. 1 \in Times /\ 0 \in 0 .. MaxTime
  BY CyclesAre DEF Times
<1>2. NoFetch \in Fetches /\ NoReader \in Readers
  BY <1>1 DEF NoFetch, NoReader, Fetches, Readers
<1>3. HistoryTypes
  BY <1>1, <1>2 DEF HistoryTypes
<1>4. DayRows(daily) = {}
  BY DEF DayRows
<1>5. SummaryIsSum
  <2>1. TokenSum(daily, {}) = 0 /\ Cardinality({}) = 0
    BY TotalNone, FS_EmptySet
  <2> QED
    BY <1>4, <2>1 DEF SummaryIsSum
<1>6. DaysCountEvents
  <2>1. \A d \in Days : {e \in {} : Day(e) = d} = {} /\ daily[d] = NoRow
    OBVIOUS
  <2>2. Cardinality({}) = 0
    BY FS_EmptySet
  <2> QED
    BY <2>1, <2>2 DEF DaysCountEvents
<1>7. FetchFollows /\ ReaderFollows
  BY DEF FetchFollows, ReaderFollows, NoFetch, NoReader
<1> QED
  BY <1>3, <1>5, <1>6, <1>7 DEF HistoryInv

(* Time passes and the provider's list grows.                              *)
LEMMA PassKeeps == ASSUME HistoryInv, Pass PROVE HistoryInv'
<1> USE DEF Pass
<1>0. now \in Nat /\ now <= MaxTime /\ Retention \in Nat /\ Days \subseteq Int /\ \A t \in Times : t \in Nat
  BY CyclesAre, DaysAreFinite, UsageEventsAssumption DEF HistoryInv, HistoryTypes, Times, UsageEventsAssumption
<1>1. now' \in Times /\ \A t \in Times : t <= now => t <= now'
  <2>1. now' \in 1 .. MaxTime
    BY <1>0, CyclesAre
  <2> QED
    BY <2>1, <1>0 DEF Times
<1>2. HistoryTypes'
  BY <1>1 DEF HistoryInv, HistoryTypes
<1>3. SummaryIsSum'
  BY DEF HistoryInv, SummaryIsSum
<1>4. DaysCountEvents'
  <2>1. \A d \in Days : 2 * d - 1 >= now' - Retention => 2 * d - 1 >= now - Retention
    BY <1>0
  <2> QED
    BY <2>1 DEF HistoryInv, DaysCountEvents
<1>5. FetchFollows'
  <2>1. fetch.cutoff \in Times
    BY DEF HistoryInv, HistoryTypes, Fetches
  <2> QED
    BY <1>1, <2>1 DEF HistoryInv, FetchFollows, Listed
<1>6. ReaderFollows'
  BY DEF HistoryInv, ReaderFollows
<1> QED
  BY <1>2, <1>3, <1>4, <1>5, <1>6 DEF HistoryInv

LEMMA OccurKeeps == ASSUME HistoryInv, Occur PROVE HistoryInv'
<1> USE DEF Occur
<1>1. PICK e \in 1 .. now : feed' = feed \union {e}
  OBVIOUS
<1>2. e \in Times /\ e <= now
  <2>1. now \in 1 .. MaxTime /\ MaxTime \in Nat
    BY CyclesAre DEF HistoryInv, HistoryTypes, Times
  <2> QED
    BY <2>1 DEF Times
<1>3. HistoryTypes'
  BY <1>1, <1>2 DEF HistoryInv, HistoryTypes
<1>4. SummaryIsSum' /\ ReaderFollows' /\ DaysCountEvents'
  BY DEF HistoryInv, SummaryIsSum, ReaderFollows, DaysCountEvents
<1>5. Listed \subseteq Listed'
  BY <1>1 DEF Listed
<1>6. FetchFollows'
  BY <1>5 DEF HistoryInv, FetchFollows
<1> QED
  BY <1>3, <1>4, <1>6 DEF HistoryInv

(* A new collection asks for the list as it is now.                        *)
LEMMA FetchFirstKeeps == ASSUME HistoryInv, FetchFirst PROVE HistoryInv'
<1> USE DEF FetchFirst
<1> DEFINE start   == CycleStart(now)
           all     == {e \in feed : start <= e}
           listing == NewestFirst(all)
           total   == Len(listing)
           first   == PageOf(listing, 0, FeedPage)
           left    == 2 .. ((total + FeedPage - 1) \div FeedPage)
<1>1. HistoryTypes /\ now \in Times /\ now <= now /\ (\A e \in feed : e <= now) /\ all \in SUBSET Times
  <2>1. HistoryTypes
    BY DEF HistoryInv
  <2>2. now \in Times /\ (\A e \in feed : e <= now) /\ feed \in SUBSET Times
    BY <2>1 DEF HistoryTypes
  <2>3. now <= now
    BY <2>2, CyclesAre
  <2> QED
    BY <2>1, <2>2, <2>3
<1>2. start \in Times
  BY <1>1, CycleStarts
<1>3. FeedPage \in Nat \ {0} /\ 0 \in Nat
  BY UsageEventsAssumption DEF UsageEventsAssumption
<1>4. /\ listing \in Seq(all) /\ listing \in Seq(Times) /\ Range(listing) = all
      /\ total = Cardinality(all) /\ total \in Nat
  <2> HIDE DEF all
  <2>1. listing \in Seq(all) /\ listing \in Seq(Times) /\ Range(listing) = all /\ total = Cardinality(all)
    BY <1>1, NewestOfTimes
  <2> QED
    BY <2>1
<1>5. fetch' = [NoFetch EXCEPT !.pc = "paging", !.start = start, !.cutoff = now, !.total = total, !.first = first,
                  !.got = Range(first), !.listed = Range(listing), !.left = left]
  OBVIOUS
<1> HIDE DEF start, all, listing, total
<1>6. first \in Seq(Times) /\ Range(first) \subseteq Range(listing)
  BY <1>3, <1>4, PageIs
<1>7. left \in SUBSET (Nat \ {0})
  OBVIOUS
<1> HIDE DEF first, left
<1>8. /\ fetch'.pc = "paging" /\ fetch'.start = start /\ fetch'.cutoff = now /\ fetch'.total = total
      /\ fetch'.got = Range(first) /\ fetch'.listed = all /\ fetch'.changed = FALSE /\ fetch' \in Fetches
  <2>1. fetch' = [pc |-> "paging", start |-> start, cutoff |-> now, total |-> total, left |-> left, got |-> Range(first),
                  first |-> first, listed |-> all, changed |-> FALSE]
    BY <1>4, <1>5 DEF NoFetch
  <2>2. Range(first) \in SUBSET Times /\ all \in SUBSET Times /\ "paging" \in {"idle", "paging", "verified"}
    BY <1>1, <1>4, <1>6
  <2> HIDE DEF FetchFirst
  <2>3. fetch' \in Fetches
    BY <2>1, <2>2, <1>1, <1>2, <1>4, <1>6, <1>7 DEF Fetches
  <2> QED
    BY <2>1, <2>3
<1>9. HistoryTypes'
  BY <1>1, <1>8 DEF HistoryTypes
<1>10. SummaryIsSum' /\ ReaderFollows' /\ DaysCountEvents'
  BY DEF HistoryInv, SummaryIsSum, ReaderFollows, DaysCountEvents
<1>11. Listed' = all
  BY <1>1, <1>8 DEF Listed, all
<1>12. FetchFollows'
  BY <1>1, <1>4, <1>6, <1>8, <1>11 DEF FetchFollows, start
<1> QED
  BY <1>9, <1>10, <1>12 DEF HistoryInv

(* Another page is of the list as it is by now.                            *)
LEMMA FetchPageKeeps == ASSUME HistoryInv, FetchPage PROVE HistoryInv'
<1> USE DEF FetchPage
<1>1. HistoryTypes /\ fetch \in Fetches /\ FetchFollows /\ fetch.pc = "paging"
  BY DEF HistoryInv, HistoryTypes
<1>2. PICK p \in fetch.left :
        fetch' = [fetch EXCEPT !.left = @ \ {p},
                               !.got = @ \union Range(PageOf(Listing, (p - 1) * FeedPage, FeedPage)),
                               !.changed = @ \/ Len(Listing) # fetch.total]
  OBVIOUS
<1> DEFINE page == PageOf(Listing, (p - 1) * FeedPage, FeedPage)
<1>3. FeedPage \in Nat /\ p - 1 \in Nat
  BY <1>1, UsageEventsAssumption DEF UsageEventsAssumption, Fetches
<1>4. (p - 1) * FeedPage \in Nat
  BY <1>3
<1>5. /\ Listed \in SUBSET Times /\ Listing \in Seq(Times) /\ Range(Listing) = Listed
      /\ Len(Listing) = Cardinality(Listed) /\ IsFiniteSet(Listed)
  BY <1>1, ListedIs, NewestOfTimes, TimesAreSmall
<1>6. Range(page) \subseteq Listed
  <2>1. Range(page) \subseteq Range(Listing)
    BY <1>3, <1>4, <1>5, PageIs
  <2> QED
    BY <2>1, <1>5
<1>7. /\ fetch' \in Fetches /\ fetch'.got = fetch.got \union Range(page)
      /\ fetch'.changed = (fetch.changed \/ Len(Listing) # fetch.total)
      /\ fetch'.pc = fetch.pc /\ fetch'.start = fetch.start /\ fetch'.cutoff = fetch.cutoff
      /\ fetch'.total = fetch.total /\ fetch'.listed = fetch.listed
  <2>1. Range(page) \in SUBSET Times
    BY <1>5, <1>6
  <2> HIDE DEF page
  <2> QED
    BY <1>1, <1>2, <2>1 DEF Fetches, page
<1> HIDE DEF page
<1>8. HistoryTypes'
  BY <1>1, <1>7 DEF HistoryTypes
<1>9. SummaryIsSum' /\ ReaderFollows' /\ DaysCountEvents'
  BY DEF HistoryInv, SummaryIsSum, ReaderFollows, DaysCountEvents
<1>10. Listed' = Listed
  BY <1>7 DEF Listed
<1>11. ASSUME ~fetch'.changed PROVE fetch'.got \subseteq fetch'.listed
  <2>1. ~fetch.changed /\ Len(Listing) = fetch.total
    BY <1>7, <1>11
  <2>2. fetch.listed \subseteq Listed /\ Cardinality(fetch.listed) = Cardinality(Listed) /\ fetch.got \subseteq fetch.listed
    BY <2>1, <1>1, <1>5 DEF FetchFollows
  <2>3. fetch.listed = Listed
    BY <2>2, <1>5, FS_Subset
  <2> QED
    BY <2>2, <2>3, <1>6, <1>7
<1>12. FetchFollows'
  BY <1>1, <1>6, <1>7, <1>10, <1>11 DEF FetchFollows
<1> QED
  BY <1>8, <1>9, <1>12 DEF HistoryInv

(* What is verified is what was listed first.                              *)
LEMMA VerifyKeeps == ASSUME HistoryInv, Verify PROVE HistoryInv'
<1> USE DEF Verify
<1>1. HistoryTypes /\ fetch \in Fetches /\ FetchFollows /\ fetch.pc = "paging"
  BY DEF HistoryInv, HistoryTypes
<1>2. NoFetch \in Fetches /\ NoFetch.pc = "idle"
  <2>1. 1 \in Times
    BY CyclesAre
  <2> QED
    BY <2>1 DEF NoFetch, Fetches
<1>3. SummaryIsSum' /\ ReaderFollows' /\ DaysCountEvents'
  BY DEF HistoryInv, SummaryIsSum, ReaderFollows, DaysCountEvents
<1>4. CASE fetch' = NoFetch
  BY <1>1, <1>2, <1>3, <1>4 DEF HistoryInv, HistoryTypes, FetchFollows
<1>5. CASE fetch' = [fetch EXCEPT !.pc = "verified"] /\ ~fetch.changed /\ Cardinality(fetch.got) = fetch.total
  <2>1. fetch.listed \in SUBSET Times /\ fetch.got \subseteq fetch.listed /\ Cardinality(fetch.listed) = fetch.total
    BY <1>1, <1>5 DEF FetchFollows, Fetches
  <2>2. IsFiniteSet(fetch.listed)
    BY <2>1, TimesAreSmall
  <2>3. fetch.got = fetch.listed
    BY <2>1, <2>2, <1>5, FS_Subset
  <2>4. /\ fetch' \in Fetches /\ fetch'.got = fetch.got /\ fetch'.changed = fetch.changed /\ fetch'.pc = "verified"
        /\ fetch'.start = fetch.start /\ fetch'.cutoff = fetch.cutoff
        /\ fetch'.total = fetch.total /\ fetch'.listed = fetch.listed
    BY <1>1, <1>5 DEF Fetches
  <2>5. HistoryTypes'
    BY <1>1, <2>4 DEF HistoryTypes
  <2>6. Listed' = Listed
    BY <2>4 DEF Listed
  <2>7. FetchFollows'
    BY <1>1, <2>3, <2>4, <2>6 DEF FetchFollows
  <2> QED
    BY <1>3, <2>5, <2>7 DEF HistoryInv
<1> QED
  BY <1>4, <1>5

LEMMA FailFetchKeeps == ASSUME HistoryInv, FailFetch PROVE HistoryInv'
<1> USE DEF FailFetch
<1>1. NoFetch \in Fetches /\ NoFetch.pc = "idle"
  <2>1. 1 \in Times
    BY CyclesAre
  <2> QED
    BY <2>1 DEF NoFetch, Fetches
<1>2. SummaryIsSum' /\ ReaderFollows' /\ DaysCountEvents'
  BY DEF HistoryInv, SummaryIsSum, ReaderFollows, DaysCountEvents
<1> QED
  BY <1>1, <1>2 DEF HistoryInv, HistoryTypes, FetchFollows

(* The tokens of a day that a provider reports.                            *)
LEMMA RecordDayKeeps == ASSUME HistoryInv, RecordDay PROVE HistoryInv'
<1> USE DEF RecordDay
<1>1. PICK d \in {Day(now), Day(now) - 1} \intersect Days, tokens \in 0 .. 2 :
        daily' = [daily EXCEPT ![d] = tokens] /\ summary' = Upserted(daily[d], tokens, summary)
  OBVIOUS
<1>2. HistoryTypes /\ summary = Sums(daily) /\ daily \in [Days -> {NoRow} \union (0 .. 2)] /\ daily \in Tables /\ d \in Days /\ tokens \in Nat
  <2>1. daily \in [Days -> {NoRow} \union (0 .. 2)]
    BY DEF HistoryInv, HistoryTypes
  <2>2. daily \in Tables
    BY <2>1 DEF Tables
  <2> QED
    BY <1>1, <2>1, <2>2 DEF HistoryInv, SummaryIsSum, Sums
<1>3. HistoryTypes'
  <2>1. daily' \in [Days -> {NoRow} \union (0 .. 2)]
    BY <1>1, <1>2
  <2> QED
    BY <2>1, <1>2 DEF HistoryTypes
<1>4. summary' = Sums(daily')
  BY <1>1, <1>2, UpsertedSums
<1>5. SummaryIsSum' /\ ReaderFollows' /\ DaysCountEvents' /\ FetchFollows'
  <2>1. SummaryIsSum'
    BY <1>4 DEF SummaryIsSum, Sums
  <2>2. ReaderFollows' /\ FetchFollows' /\ DaysCountEvents'
    BY DEF HistoryInv, ReaderFollows, FetchFollows, DaysCountEvents, Listed
  <2> QED
    BY <2>1, <2>2
<1> QED
  BY <1>3, <1>5 DEF HistoryInv

(* A client asks for the count and then for a page.                        *)
LEMMA CountEventsKeeps == ASSUME HistoryInv, CountEvents PROVE HistoryInv'
<1> USE DEF CountEvents
<1>1. HistoryTypes /\ reader \in Readers /\ events \in SUBSET Times /\ MaxTime \in Nat
  BY CyclesAre DEF HistoryInv, HistoryTypes
<1>2. Cardinality(events) \in 0 .. MaxTime /\ Cardinality(events) \in Nat
  <2>1. Cardinality(events) \in 0 .. MaxTime
    BY <1>1, TimesAreSmall
  <2> QED
    BY <2>1, <1>1
<1>3. SummaryIsSum' /\ FetchFollows' /\ DaysCountEvents'
  BY DEF HistoryInv, SummaryIsSum, FetchFollows, DaysCountEvents, Listed
<1>4. CASE reader.pc = "idle"
  <2>1. reader' = [pc |-> "counted", offset |-> 0, count |-> Cardinality(events), seen |-> <<>>, disturbed |-> FALSE]
    BY <1>4 DEF NoReader
  <2> HIDE DEF CountEvents
  <2>2. reader' \in Readers
    <3>1. 0 \in 0 .. MaxTime /\ <<>> \in Seq(Times)
      BY <1>1
    <3> QED
      BY <2>1, <3>1, <1>2 DEF Readers
  <2>3. SubSeq(NewestFirst(events), 1, 0) = <<>>
    <3>1. NewestFirst(events) \in Seq(Times)
      BY <1>1, NewestOfTimes
    <3> QED
      BY <3>1
  <2>a. UNCHANGED <<reports, now, feed, fetch, events, daily, summary>>
    BY DEF CountEvents
  <2>b. reader'.offset = 0 /\ reader'.count = Cardinality(events) /\ reader'.seen = <<>> /\ reader'.pc = "counted"
    BY <2>1
  <2>4. ReaderFollows'
    BY <2>a, <2>b, <2>3, <1>2 DEF ReaderFollows
  <2> QED
    BY <2>a, <2>2, <2>4, <1>1, <1>3 DEF HistoryInv, HistoryTypes
<1>5. CASE reader.pc = "more"
  <2>1. /\ reader' \in Readers /\ reader'.pc = "counted" /\ reader'.count = Cardinality(events)
        /\ reader'.offset = reader.offset /\ reader'.seen = reader.seen /\ reader'.disturbed = reader.disturbed
    BY <1>5, <1>1, <1>2 DEF Readers
  <2>2. ReaderFollows'
    BY <2>1, <1>5 DEF HistoryInv, ReaderFollows
  <2> QED
    BY <2>1, <2>2, <1>1, <1>3 DEF HistoryInv, HistoryTypes
<1> QED
  BY <1>4, <1>5

LEMMA ReadPageKeeps == ASSUME HistoryInv, ReadPage PROVE HistoryInv'
<1> USE DEF ReadPage
<1> DEFINE list == NewestFirst(events)
           page == PageOf(list, reader.offset, ReaderPage)
           next == reader.offset + Len(page)
           upto == IF reader.offset + ReaderPage <= Len(list) THEN reader.offset + ReaderPage ELSE Len(list)
<1>1. HistoryTypes /\ reader \in Readers /\ events \in SUBSET Times /\ reader.pc = "counted"
  BY DEF HistoryInv, HistoryTypes
<1>2. list \in Seq(Times) /\ Len(list) = Cardinality(events) /\ Len(list) \in 0 .. MaxTime
  BY <1>1, NewestOfTimes, TimesAreSmall
<1>3. ReaderPage \in Nat /\ ReaderPage >= 1 /\ MaxTime \in Nat /\ reader.offset \in Nat /\ reader.offset <= MaxTime
  BY <1>1, CyclesAre, UsageEventsAssumption DEF UsageEventsAssumption, Readers
<1>4. reader' = [reader EXCEPT !.seen = @ \o page, !.offset = next, !.pc = IF next < reader.count THEN "more" ELSE "done"]
  OBVIOUS
<1> HIDE DEF list
<1>5. page = SubSeq(list, reader.offset + 1, upto) /\ page \in Seq(Times)
  BY <1>2, <1>3, PageIs
<1> HIDE DEF ReadPage, page
<1>6. next \in 0 .. MaxTime /\ (reader.offset <= Len(list) => next = upto /\ upto \in reader.offset .. Len(list))
  <2>1. CASE reader.offset <= Len(list)
    <3>1. upto \in reader.offset .. Len(list)
      BY <2>1, <1>2, <1>3
    <3>2. Len(page) = upto - reader.offset
      <4> HIDE DEF upto
      <4>1. reader.offset \in 0 .. Len(list)
        BY <2>1, <1>2, <1>3
      <4> QED
        BY <4>1, <3>1, <1>5, <1>2, SliceJoins
    <3> HIDE DEF upto
    <3> QED
      BY <2>1, <3>1, <3>2, <1>2, <1>3
  <2>2. CASE ~ (reader.offset <= Len(list))
    <3>1. upto = Len(list) /\ upto < reader.offset
      BY <2>2, <1>2, <1>3
    <3>2. Len(page) = 0
      <4> HIDE DEF upto
      <4> QED
        BY <3>1, <1>2, <1>3, <1>5
    <3> QED
      BY <2>2, <3>2, <1>3
  <2> QED
    BY <2>1, <2>2
<1> HIDE DEF next, upto
<1>7. /\ reader' \in Readers /\ reader'.pc \in {"more", "done"} /\ reader'.offset = next /\ reader'.count = reader.count
      /\ reader'.seen = reader.seen \o page /\ reader'.disturbed = reader.disturbed
      /\ (reader'.pc = "done" <=> ~ (next < reader.count))
  <2>1. reader.seen \o page \in Seq(Times)
    BY <1>1, <1>5 DEF Readers
  <2> QED
    BY <1>1, <1>4, <1>6, <2>1 DEF Readers
<1>8. UNCHANGED <<reports, now, feed, fetch, events, daily, summary>>
  BY DEF ReadPage
<1>9. SummaryIsSum' /\ FetchFollows' /\ DaysCountEvents' /\ HistoryTypes'
  BY <1>1, <1>7, <1>8 DEF HistoryInv, SummaryIsSum, FetchFollows, DaysCountEvents, Listed, HistoryTypes
<1>10. ASSUME ~reader.disturbed
       PROVE  /\ next <= Len(list) /\ reader.count = Len(list) /\ reader.seen \o page = SubSeq(list, 1, next)
  <2>1. reader.offset <= Len(list) /\ reader.count = Len(list) /\ reader.seen = SubSeq(list, 1, reader.offset)
    BY <1>10, <1>1, <1>2 DEF HistoryInv, ReaderFollows, list
  <2>2. next = upto /\ upto \in reader.offset .. Len(list)
    BY <2>1, <1>6
  <2>3. SubSeq(list, 1, reader.offset) \o SubSeq(list, reader.offset + 1, upto) = SubSeq(list, 1, upto)
    <3>1. reader.offset \in 0 .. Len(list)
      BY <2>1, <1>2, <1>3
    <3> QED
      BY <3>1, <2>2, <1>2, SliceJoins
  <2>4. reader.seen \o page = SubSeq(list, 1, next)
    BY <2>1, <2>2, <2>3, <1>5
  <2>5. next <= Len(list)
    BY <2>1, <2>2, <1>2, <1>3
  <2> QED
    BY <2>1, <2>4, <2>5
<1>11. ReaderFollows'
  <2>1. SUFFICES ASSUME ~reader'.disturbed
                 PROVE  /\ next <= Cardinality(events) /\ reader.count = Cardinality(events)
                        /\ reader.seen \o page = SubSeq(NewestFirst(events), 1, next)
                        /\ ~ (next < reader.count) => reader.count <= next
    BY <1>7, <1>8 DEF ReaderFollows
  <2>2. next \in Nat /\ reader.count \in Nat
    BY <1>1, <1>3, <1>6 DEF Readers
  <2> QED
    BY <2>1, <2>2, <1>2, <1>7, <1>10 DEF list
<1> QED
  BY <1>9, <1>11 DEF HistoryInv

LEMMA CloseReaderKeeps == ASSUME HistoryInv, CloseReader PROVE HistoryInv'
<1> USE DEF CloseReader
<1>1. NoReader \in Readers /\ NoReader.pc = "idle"
  <2>1. 0 \in 0 .. MaxTime
    BY CyclesAre
  <2> QED
    BY <2>1 DEF NoReader, Readers
<1>2. SummaryIsSum' /\ FetchFollows' /\ DaysCountEvents'
  BY DEF HistoryInv, SummaryIsSum, FetchFollows, DaysCountEvents, Listed
<1> QED
  BY <1>1, <1>2 DEF HistoryInv, HistoryTypes, ReaderFollows

(* Two times make a day.                                                   *)
LEMMA DayIs ==
  /\ \A t \in Nat : Day(t) \in Nat /\ (t = 2 * Day(t) \/ t = 2 * Day(t) - 1)
  /\ \A t, u \in Nat : t <= u => Day(t) <= Day(u)
  /\ \A t \in Times : Day(t) \in Days
<1>1. \A t \in Nat : Day(t) \in Nat /\ (t = 2 * Day(t) \/ t = 2 * Day(t) - 1)
  BY DEF Day
<1> DEFINE D(t) == Day(t)
<1>a. \A t \in Nat : D(t) \in Nat /\ (t = 2 * D(t) \/ t = 2 * D(t) - 1)
  BY <1>1
<1> HIDE DEF D
<1>2. \A t, u \in Nat : t <= u => D(t) <= D(u)
  BY <1>a
<1>3. \A t \in Times : D(t) \in Days
  <2>1. MaxTime \in Nat /\ Days = 1 .. D(MaxTime)
    BY CyclesAre DEF Days, D
  <2>2. ASSUME NEW t \in Times PROVE D(t) \in 1 .. D(MaxTime)
    <3>1. t \in Nat /\ t >= 1 /\ t <= MaxTime
      BY CyclesAre DEF Times
    <3>2. D(t) >= 1 /\ D(t) <= D(MaxTime) /\ D(t) \in Nat /\ D(MaxTime) \in Nat
      BY <2>1, <3>1, <1>a, <1>2, SMTT(60)
    <3> QED
      BY <3>2
  <2> QED
    BY <2>1, <2>2
<1> QED
  BY <1>1, <1>2, <1>3 DEF D

LEMMA DayIsSmall ==
  ASSUME NEW T \in SUBSET Nat, NEW d \in Int
  PROVE  Cardinality({e \in T : Day(e) = d}) \in 0 .. 2
<1> DEFINE S == {e \in T : Day(e) = d}
           one == {2 * d - 1}
           two == one \union {2 * d}
<1>1. S \subseteq two
  BY DayIs
<1>2. IsFiniteSet(one) /\ Cardinality(one) = 1
  BY FS_Singleton
<1>3. IsFiniteSet(two) /\ Cardinality(two) \in 0 .. 2
  <2> HIDE DEF one
  <2>1. IsFiniteSet(two) /\ Cardinality(two) = (IF 2 * d \in one THEN Cardinality(one) ELSE Cardinality(one) + 1)
    BY <1>2, FS_AddElement
  <2> HIDE DEF two
  <2> QED
    BY <2>1, <1>2
<1>4. IsFiniteSet(S) /\ Cardinality(S) <= Cardinality(two) /\ Cardinality(S) \in Nat
  <2> HIDE DEF S, two
  <2> QED
    BY <1>1, <1>3, FS_Subset, FS_CardinalityType
<1> HIDE DEF S, two
<1>5. Cardinality(S) \in 0 .. 2
  BY <1>3, <1>4
<1> QED
  BY <1>5 DEF S

(* What a collection replaces is what it covers.                           *)
LEMMA RecordEventsKeeps == ASSUME HistoryInv, RecordEvents PROVE HistoryInv'
<1> DEFINE start   == fetch.start
           got     == fetch.got
           end     == Min({CycleEnd(start), now})
           tokens  == [d \in Days |-> Cardinality({e \in got : Day(e) = d})]
           period  == Day(start) .. Day(end)
           cleared == [d \in Days |-> IF d \in period THEN NoRow ELSE daily[d]]
           counted == {d \in Days : tokens[d] > 0}
<1>1. /\ fetch.pc = "verified" /\ fetch' = NoFetch
      /\ events' = Pruned(Replaced(start, end))
      /\ daily' = [d \in Days |-> IF d \in counted THEN tokens[d] ELSE cleared[d]]
      /\ summary' = RowsUpserted(cleared, tokens, RowsDeleted(daily, summary, period), counted)
      /\ reader' = [reader EXCEPT !.disturbed = (reader.pc # "idle")]
      /\ UNCHANGED <<reports, now, feed>>
  BY DEF RecordEvents, Overtake
<1>2. /\ HistoryTypes /\ now \in Times /\ feed \in SUBSET Times /\ events \in SUBSET Times /\ (\A e \in events : e <= now)
      /\ daily \in [Days -> {NoRow} \union (0 .. 2)] /\ fetch \in Fetches /\ reader \in Readers
      /\ summary = Sums(daily)
  BY DEF HistoryInv, HistoryTypes, SummaryIsSum, Sums
<1>3. /\ fetch.cutoff \in Times /\ fetch.cutoff <= now /\ start = CycleStart(fetch.cutoff)
      /\ \A e \in got : e \in feed /\ start <= e /\ e <= fetch.cutoff
  BY <1>1, <1>2 DEF HistoryInv, FetchFollows, Fetches, Listed
<1>4. /\ start \in Cycles /\ start \in Times /\ start <= fetch.cutoff
      /\ end \in Times /\ fetch.cutoff <= end /\ end <= now /\ (end = now \/ end + 1 \in Cycles)
  BY <1>2, <1>3, CycleStarts, CutoffIsCovered
<1>5. Times \subseteq Nat /\ Days \subseteq Int /\ Retention \in Nat
  BY CyclesAre, DaysAreFinite, UsageEventsAssumption DEF UsageEventsAssumption
<1> HIDE DEF start, end, period, got
<1>6. now \in Nat /\ start \in Nat /\ end \in Nat /\ fetch.cutoff \in Nat
  BY <1>2, <1>3, <1>4, <1>5
<1>7. got \in SUBSET Times /\ \A e \in got : e \in Times /\ e \in Nat /\ start <= e /\ e <= end /\ e <= now
  <2>1. ASSUME NEW e \in got PROVE e \in Times /\ e \in Nat /\ start <= e /\ e <= fetch.cutoff
    BY <1>2, <1>3, <1>5
  <2>2. \A e \in got : e <= end /\ e <= now
    BY <2>1, <1>4, <1>6
  <2> QED
    BY <2>1, <2>2
<1>8. events' = {e \in {x \in events : ~(start <= x /\ x <= end)} \union got : e >= now - Retention}
  BY <1>1 DEF Pruned, Replaced, got
<1>9. events' \in SUBSET Times /\ \A e \in events' : e <= now
  BY <1>2, <1>7, <1>8
<1>10. \A d \in Days : tokens[d] \in 0 .. 2 /\ tokens[d] = Cardinality({e \in got : Day(e) = d})
  <2>1. got \in SUBSET Nat
    BY <1>7
  <2>2. \A d \in Days : Cardinality({e \in got : Day(e) = d}) \in 0 .. 2
    BY <2>1, <1>5, DayIsSmall
  <2> QED
    BY <2>2
<1>11. tokens \in [Days -> Nat] /\ tokens \in [Days -> 0 .. 2]
  <2>1. tokens = [d \in Days |-> tokens[d]]
    OBVIOUS
  <2>2. \A d \in Days : tokens[d] \in 0 .. 2
    BY <1>10
  <2> HIDE DEF tokens
  <2>3. \A d \in Days : tokens[d] \in Nat
    BY <2>2
  <2> QED
    BY <2>1, <2>2, <2>3
<1> HIDE DEF tokens
<1>12. period \in SUBSET Days /\ \A d \in Days : d \in period <=> Day(start) <= d /\ d <= Day(end)
  <2>1. Day(start) \in Days /\ Day(end) \in Days /\ MaxTime \in Nat
    BY <1>4, DayIs, CyclesAre
  <2>2. Day(start) \in Nat /\ Day(end) \in Nat /\ Day(MaxTime) \in Nat
    BY <1>6, <2>1, DayIs
  <2> QED
    BY <2>1, <2>2 DEF period, Days
<1>13. daily' \in [Days -> {NoRow} \union (0 .. 2)] /\ cleared = Cleared(daily, period) /\ cleared \in Tables
  <2>1. cleared \in [Days -> {NoRow} \union (0 .. 2)]
    BY <1>2
  <2> HIDE DEF cleared, counted
  <2>2. daily' \in [Days -> {NoRow} \union (0 .. 2)]
    BY <2>1, <1>1, <1>11
  <2>3. cleared \in Tables
    BY <2>1 DEF Tables
  <2> QED
    BY <2>2, <2>3 DEF cleared, Cleared
<1>14. daily' = Recounted(cleared, tokens, counted) /\ counted \in SUBSET Days
  BY <1>1 DEF Recounted
<1>15. SummaryIsSum'
  <2>1. daily \in Tables
    BY <1>2 DEF Tables
  <2> HIDE DEF cleared, counted
  <2>2. RowsDeleted(daily, summary, period) = Sums(cleared)
    BY <2>1, <1>2, <1>12, <1>13, AllDeleted
  <2>3. RowsUpserted(cleared, tokens, Sums(cleared), counted) = Sums(Recounted(cleared, tokens, counted))
    BY <1>11, <1>13, <1>14, AllUpserted
  <2>4. summary' = Sums(daily')
    BY <1>1, <1>14, <2>2, <2>3
  <2> QED
    BY <2>4 DEF SummaryIsSum, Sums
<1>16. reader' \in Readers /\ (reader'.pc # "idle" => reader'.disturbed)
  BY <1>1, <1>2 DEF Readers
<1>17. NoFetch \in Fetches /\ NoFetch.pc = "idle"
  <2>1. 1 \in Times
    BY CyclesAre
  <2> QED
    BY <2>1 DEF NoFetch, Fetches
<1>18. HistoryTypes' /\ FetchFollows' /\ ReaderFollows'
  BY <1>1, <1>2, <1>9, <1>13, <1>16, <1>17 DEF HistoryTypes, FetchFollows, ReaderFollows
<1>19. ASSUME reports = "events", NEW d \in Days, 2 * d - 1 >= now - Retention, 2 * d \notin Cycles
       PROVE  Cardinality({e \in events' : Day(e) = d}) = (IF daily'[d] = NoRow THEN 0 ELSE daily'[d])
  <2>1. d \in Int /\ \A e \in events \union got : e \in Nat /\ (Day(e) = d => e >= now - Retention /\ (e = 2 * d \/ e = 2 * d - 1))
    <3>1. d \in Int /\ \A e \in events \union got : e \in Nat
      BY <1>2, <1>5, <1>7
    <3>2. \A e \in Nat : Day(e) = d => e = 2 * d \/ e = 2 * d - 1
      BY DayIs
    <3>3. \A e \in Nat : e = 2 * d \/ e = 2 * d - 1 => e >= now - Retention
      BY <1>19, <3>1, <1>5, <1>6
    <3> QED
      BY <3>1, <3>2, <3>3
  <2>2. daily'[d] = IF tokens[d] > 0 THEN tokens[d] ELSE IF d \in period THEN NoRow ELSE daily[d]
    BY <1>1
  <2>3. {e \in events' : Day(e) = d} = {e \in events : Day(e) = d /\ ~(start <= e /\ e <= end)} \union {e \in got : Day(e) = d}
    BY <1>8, <2>1
  <2>4. CASE d \in period
    <3>1. Day(start) <= d /\ d <= Day(end)
      BY <2>4, <1>12
    <3>2. ASSUME NEW e \in events, Day(e) = d PROVE start <= e /\ e <= end
      <4>1. e \in Nat /\ e <= now /\ (e = 2 * d \/ e = 2 * d - 1)
        BY <2>1, <3>2, <1>2
      <4>2. ASSUME e < start PROVE FALSE
        <5>1. /\ Day(start) \in Nat /\ (start = 2 * Day(start) \/ start = 2 * Day(start) - 1)
          BY <1>6, DayIs
        <5>2. start = 2 * d
          BY <4>1, <4>2, <5>1, <3>1, <2>1, <1>6
        <5> QED
          BY <5>2, <1>4, <1>19
      <4>3. ASSUME end < e PROVE FALSE
        <5>1. /\ Day(end) \in Nat /\ (end = 2 * Day(end) \/ end = 2 * Day(end) - 1)
          BY <1>6, DayIs
        <5>2. end + 1 = 2 * d /\ end # now
          BY <4>1, <4>3, <5>1, <3>1, <2>1, <1>6
        <5> QED
          BY <5>2, <1>4, <1>19
      <4> QED
        BY <4>1, <4>2, <4>3, <1>6
    <3>3. {e \in events' : Day(e) = d} = {e \in got : Day(e) = d}
      BY <2>3, <3>2
    <3> QED
      BY <3>3, <2>2, <2>4, <1>10 DEF NoRow
  <2>5. CASE d \notin period
    <3>1. \A e \in Times : start <= e /\ e <= end => Day(e) # d
      <4>1. \A e \in Times : start <= e /\ e <= end => Day(start) <= Day(e) /\ Day(e) <= Day(end)
        BY <1>5, <1>6, DayIs
      <4> QED
        BY <4>1, <2>5, <1>12
    <3>2. {e \in got : Day(e) = d} = {}
      BY <3>1, <1>7
    <3>3. {e \in events' : Day(e) = d} = {e \in events : Day(e) = d}
      BY <3>1, <3>2, <2>3, <1>2
    <3>4. tokens[d] = 0
      BY <3>2, <1>10, FS_EmptySet
    <3>5. Cardinality({e \in events : Day(e) = d}) = (IF daily[d] = NoRow THEN 0 ELSE daily[d])
      BY <1>19 DEF HistoryInv, DaysCountEvents
    <3>6. daily'[d] = daily[d]
      BY <2>2, <2>5, <3>4
    <3> QED
      BY <3>3, <3>5, <3>6
  <2> QED
    BY <2>4, <2>5
<1>20. DaysCountEvents'
  BY <1>1, <1>19 DEF DaysCountEvents
<1> QED
  BY <1>15, <1>18, <1>20 DEF HistoryInv

(* The history is kept by every step.                                      *)
LEMMA HistoryKept == ASSUME HistoryInv, [EventsNext]_eventVars PROVE HistoryInv'
<1>1. CASE UNCHANGED eventVars
  BY <1>1 DEF eventVars, HistoryInv, HistoryTypes, SummaryIsSum, DaysCountEvents, FetchFollows, ReaderFollows, Listed
<1>2. CASE EventsNext
  BY <1>2, PassKeeps, OccurKeeps, FetchFirstKeeps, FetchPageKeeps, VerifyKeeps, FailFetchKeeps, RecordDayKeeps,
     RecordEventsKeeps, CountEventsKeeps, ReadPageKeeps, CloseReaderKeeps DEF EventsNext
<1> QED
  BY <1>1, <1>2

LEMMA HistoryInvSays == HistoryInv => EventsTypeOK /\ HistoryConsistent
<1> SUFFICES ASSUME HistoryInv PROVE EventsTypeOK /\ HistoryConsistent
  OBVIOUS
<1>1. HistoryTypes /\ daily \in [Days -> {NoRow} \union (0 .. 2)] /\ fetch \in Fetches /\ reader \in Readers /\ events \in SUBSET Times
  BY DEF HistoryInv, HistoryTypes
<1>2. feed \subseteq 1 .. now
  <2>1. MaxTime \in Nat /\ Times = 1 .. MaxTime
    BY CyclesAre DEF Times
  <2> QED
    BY <2>1, <1>1 DEF HistoryTypes
<1>3. summary.rows \in 0 .. Cardinality(Days) /\ summary.tokens \in Nat
  <2>1. daily \in Tables /\ summary = Sums(daily)
    BY <1>1 DEF HistoryInv, SummaryIsSum, Sums, Tables
  <2>2. /\ IsFiniteSet(DayRows(daily)) /\ DayRows(daily) \subseteq Days /\ \A d \in DayRows(daily) : daily[d] \in Nat
    BY <2>1, RowsAre
  <2>3. Cardinality(DayRows(daily)) <= Cardinality(Days) /\ Cardinality(DayRows(daily)) \in Nat /\ Cardinality(Days) \in Nat
    BY <2>2, DaysAreFinite, FS_Subset, FS_CardinalityType
  <2>4. TokenSum(daily, DayRows(daily)) \in Nat
    BY <2>2, TotalIsNat
  <2> QED
    BY <2>1, <2>3, <2>4 DEF Sums
<1>4. EventsTypeOK
  BY <1>1, <1>2, <1>3 DEF EventsTypeOK, HistoryTypes, Fetches, Readers
<1>5. BatchWasListed
  BY DEF HistoryInv, FetchFollows, BatchWasListed
<1>6. PagesCoverHistory
  <2>1. SUFFICES ASSUME reader.pc = "done", ~reader.disturbed PROVE reader.seen = NewestFirst(events)
    BY DEF PagesCoverHistory
  <2>2. /\ reader.offset <= Cardinality(events) /\ Cardinality(events) <= reader.offset
        /\ reader.seen = SubSeq(NewestFirst(events), 1, reader.offset)
    BY <2>1 DEF HistoryInv, ReaderFollows
  <2>3. NewestFirst(events) \in Seq(Times) /\ Len(NewestFirst(events)) = Cardinality(events) /\ Cardinality(events) \in 0 .. MaxTime
    BY <1>1, NewestOfTimes, TimesAreSmall
  <2>4. reader.offset \in 0 .. MaxTime /\ MaxTime \in Nat
    BY <1>1, CyclesAre DEF Readers
  <2>5. reader.offset = Len(NewestFirst(events))
    BY <2>2, <2>3, <2>4
  <2> QED
    BY <2>2, <2>3, <2>5, SubSeqFull
<1> QED
  BY <1>4, <1>5, <1>6 DEF HistoryInv, HistoryConsistent

(* For any time, billing cycles, page sizes and retention: whatever         *)
(* collections replace, totals, days and events agree, a list that changed  *)
(* is never stored, and a client that is not overtaken reads every event    *)
(* once (HistoryConsistent).                                               *)
THEOREM HistoryIsConsistent == EventsSpec => [](EventsTypeOK /\ HistoryConsistent)
<1>1. EventsInit => HistoryInv
  BY HistoryInit
<1>2. HistoryInv /\ [EventsNext]_eventVars => HistoryInv'
  BY HistoryKept
<1>3. HistoryInv => EventsTypeOK /\ HistoryConsistent
  BY HistoryInvSays
<1> QED
  BY <1>1, <1>2, <1>3, PTL DEF EventsSpec
===============================================================================
