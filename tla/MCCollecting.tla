----------------------------- MODULE MCCollecting -----------------------------
(***************************************************************************)
(* One TLC instance of what refreshes and of what the collectors of the    *)
(* providers and the scan of the local logs do in it: a behaviour is one   *)
(* of the part that is chosen at the beginning, while the others rest.  Of *)
(* two users of Grok who only differ in their names, u1 is the one that is *)
(* signed in first.                                                        *)
(***************************************************************************)
EXTENDS RefreshJobs, LogCost, CodexCollection, GrokCollection,
        OpenCodeCollection

CONSTANTS codex, claude, a1, f1, u1, u2

OnlyOfCodex == (a1 :> codex)                    \* Owner
CodexOrAll == {{codex}, All}                   \* Requests
BothOrNone == {{}, Providers}                  \* Configurations
JobSymmetry == Permutations(Jobs)

VARIABLE part

Chosen(name) == part = name

CollectingInit ==
  /\ part \in {"jobs", "costs", "codex", "grok", "grok_reports", "opencode",
               "opencode_history"}
  /\ Init /\ (Chosen("jobs") \/ (collectors = {} /\ online))
  /\ LogInit /\ (Chosen("costs") \/ (tool = "codex"))
  /\ (~Chosen("codex") => homeOf = [p \in CodexRange |-> LocalHome] /\ flagged = {} /\ apart = {} /\ signedIn = [f \in Homes \union {Elsewhere} |-> Nobody])
  /\ CodexInit
  /\ (~Chosen("grok") => mode = "cli" /\ cliWorks = FALSE /\ home = [p \in GrokProfiles |-> NoHolder])
  /\ GrokInit /\ home["default"] # u2
  /\ (~Chosen("grok_reports") => bill = [from |-> "web", framing |-> "damaged", fields |-> <<>>])
  /\ GrokReportsInit
  /\ (~Chosen("opencode") => header = 0 /\ setting = 1 /\ jar = 0 /\ imported = 0 /\ honoured = {} /\ goAuth = FALSE /\ reaches = [k \in OpenCookies |-> {1}])
  /\ OpenInit
  /\ (~Chosen("opencode_history") => uses = 0)
  /\ OpenHistoryInit

OthersRest(name) ==
  /\ name # "jobs" => UNCHANGED vars
  /\ name # "costs" => UNCHANGED logVars
  /\ name # "codex" => UNCHANGED codexVars
  /\ name # "grok" => UNCHANGED grokVars
  /\ name # "grok_reports" => UNCHANGED grokReportVars
  /\ name # "opencode" => UNCHANGED openVars
  /\ name # "opencode_history" => UNCHANGED openHistoryVars
  /\ UNCHANGED part

CollectingNext ==
  \/ Chosen("jobs") /\ Next /\ OthersRest("jobs")
  \/ Chosen("costs") /\ LogNext /\ OthersRest("costs")
  \/ Chosen("codex") /\ CodexNext /\ OthersRest("codex")
  \/ Chosen("grok") /\ GrokNext /\ OthersRest("grok")
  \/ Chosen("grok_reports") /\ DayPasses /\ OthersRest("grok_reports")
  \/ Chosen("opencode") /\ OpenNext /\ OthersRest("opencode")
  \/ Chosen("opencode_history") /\ OpenHistoryNext /\ OthersRest("opencode_history")

allCollectingVars == <<part, vars, logVars, codexVars, grokVars,
  grokReportVars, openVars, openHistoryVars>>

CollectingSpec == CollectingInit /\ [][CollectingNext]_allCollectingVars

(* What is collected of an account is that account's, and no source of it  *)
(* is passed over (CodexSound, GrokSound, OpenSound); what is made of an   *)
(* answer is what it says, whenever it is looked at (BillingTrue), and     *)
(* what a history or a scan of the logs answers is the whole of it         *)
(* (CompleteIsAll, CostsTrue).                                             *)
CollectionSound ==
  CASE part = "codex" -> CodexTypeOK /\ CodexSound [] part = "grok" -> GrokSound
    [] part = "opencode" -> OpenSound               [] part = "grok_reports" -> BillingTrue
    [] part = "costs" -> LogTypeOK /\ CostsTrue     [] part = "opencode_history" -> CompleteIsAll
    [] OTHER -> TypeOK
===============================================================================
