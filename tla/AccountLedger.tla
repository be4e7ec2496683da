---------------------------- MODULE AccountLedger ----------------------------
(***************************************************************************)
(* What the daemon promises about the accounts in its database             *)
(* (docs/data-and-privacy.md): an account id is opened once, history is    *)
(* kept for an open account only, is never lost while the account is open, *)
(* and goes with it when it is closed, for good.                           *)
(***************************************************************************)
CONSTANT Ids

VARIABLES
  life,     \* of each id: "unborn", "open", "closed"
  usage,    \* ids with stored usage
  limited   \* ids with a rate limit on record

vars == <<life, usage, limited>>

Init ==
  /\ life = [i \in Ids |-> "unborn"]
  /\ usage = {}
  /\ limited = {}

Open(i) ==
  /\ life[i] = "unborn"
  /\ life' = [life EXCEPT ![i] = "open"]
  /\ UNCHANGED <<usage, limited>>

Record(i) ==
  /\ life[i] = "open"
  /\ usage' \in {usage, usage \union {i}}
  /\ limited' \in {limited, limited \ {i}, limited \union {i}}
  /\ UNCHANGED life

Forget(i) ==
  /\ limited' = limited \ {i}
  /\ UNCHANGED <<life, usage>>

Close(i) ==
  /\ life[i] = "open"
  /\ life' = [life EXCEPT ![i] = "closed"]
  /\ usage' = usage \ {i}
  /\ limited' = limited \ {i}

Next == \E i \in Ids : Open(i) \/ Record(i) \/ Forget(i) \/ Close(i)

Spec == Init /\ [][Next]_vars
=============================================================================
