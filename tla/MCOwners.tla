------------------------------- MODULE MCOwners -------------------------------
(***************************************************************************)
(* One TLC instance of whose usage is stored under which account: of the   *)
(* accounts, and of the sign-ins that the providers' collectors borrow.    *)
(***************************************************************************)
EXTENDS AccountCollection, CursorSessions

CONSTANTS p1, p2, i1, i2, old, e1, w1, w2, ua, ub

OneRung == <<1>>         \* Ladder
UnnamedSymmetry == Permutations(Profiles) \union Permutations(Ids)

VARIABLE part

Chosen(name) == part = name

OwnersInit ==
  /\ part \in {"accounts", "cursor"}
  /\ Init /\ (Chosen("accounts") \/ (Configured = {} /\ \A p \in Profiles : login[p] \notin Legacy))
  /\ (~Chosen("cursor") => manual = NoToken /\ app = NoToken /\ browsers = <<<<>>, <<>>>> /\ valid = {})
  /\ CursorInit

OthersRest(name) ==
  /\ name # "accounts" => UNCHANGED vars
  /\ name # "cursor" => UNCHANGED cursorVars
  /\ UNCHANGED part

OwnersNext ==
  \/ Chosen("accounts") /\ Next /\ OthersRest("accounts")
  \/ Chosen("cursor") /\ CursorNext /\ OthersRest("cursor")

allOwnersVars == <<part, vars, cursorVars>>

OwnersSpec == OwnersInit /\ [][OwnersNext]_allOwnersVars
===============================================================================
