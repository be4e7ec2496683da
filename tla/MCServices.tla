------------------------------ MODULE MCServices ------------------------------
(***************************************************************************)
(* One TLC instance of the loops of the daemon that never end, with their  *)
(* fairness: a behaviour is one of the loop that is chosen at the          *)
(* beginning, while the others have nothing to do.                         *)
(***************************************************************************)
EXTENDS AccountCollection, LocalUsage, SocketServer, PollLoop

CONSTANTS p1, i1, e1, s1

ShortLadder == <<1, 2>>                 \* Ladder
Framing == <<1, 1>>                     \* MaxFrames
Minimum == [p \in Pollable |-> IF p = "slow" THEN 2 ELSE 1]   \* MinimumInterval

VARIABLE part

Chosen(name) == part = name

ServicesInit ==
  /\ part \in {"accounts", "local", "server", "polling"}
  /\ Init /\ (Chosen("accounts") \/ (Configured = {}))
  /\ LocalInit /\ (Chosen("local") \/ (~active /\ root))
  /\ ServerInit /\ (Chosen("server") \/ (capacity = 1))
  /\ PollInit /\ (Chosen("polling") \/ (polled = {} /\ interval = 3))

OthersRest(name) ==
  /\ name # "accounts" => UNCHANGED vars
  /\ name # "local" => UNCHANGED localVars
  /\ name # "server" => UNCHANGED serverVars
  /\ name # "polling" => UNCHANGED pollVars
  /\ UNCHANGED part

ServicesNext ==
  \/ Chosen("accounts") /\ Next /\ OthersRest("accounts")
  \/ Chosen("local") /\ LocalNext /\ OthersRest("local")
  \/ Chosen("server") /\ ServerNext /\ OthersRest("server")
  \/ Chosen("polling") /\ PollNext /\ OthersRest("polling")

allServicesVars == <<part, vars, localVars, serverVars, pollVars>>

ServicesSpec == ServicesInit /\ [][ServicesNext]_allServicesVars /\ Fairness /\ LocalFairness /\ ServerFairness /\ PollFairness

(* The loops do in the end what they are for: the overlays of the local    *)
(* logs converge (local_logs.rs), connections end (serve) and enabled      *)
(* providers are polled again (spawn_polling_loop_with_delay).             *)
PartsSettle == LocalLogsSettle /\ ConnectionsEnd /\ ProvidersPolled

(* On the way, a change of a log is covered by what is pending until it is *)
(* read (ChangeCovered), and every loop keeps its types.                   *)
LoopsSound ==
  CASE part = "local" -> LocalTypeOK /\ ChangeCovered [] part = "polling" -> PollTypeOK
    [] part = "server" -> ServerTypeOK                 [] OTHER -> TypeOK
===============================================================================
