------------------------------- MODULE MCParts --------------------------------
(***************************************************************************)
(* One TLC instance of the parts of the daemon that share no state: a      *)
(* behaviour is one of the part that is chosen at the beginning, while the *)
(* others rest as they are created, with nothing under way.                *)
(***************************************************************************)
EXTENDS AccountCollection, ConnectionPool, Migrations, UsageEvents, Logins,
        LocalImport, ConfigCommit, Profiles, SocketServer, KeychainBroker,
        ClaudeAccess, CursorReports, ClaudeReports, CodexRateLimits, Datasets,
        SessionLaunch, UsageReport

CONSTANTS p1, i1, i2, e1, d1, l1, l2, s1, s2, b1, b2, b3, r1, r2, settings, trust, k1, k2, t1, t2, f1, f2

OneRung == <<1>>         \* Ladder
Framing == <<2, 1>>     \* MaxFrames
SecondAsksLess == session'[s2].asks.dangerous = {}   \* a bound: of one launch only

VARIABLE part

Chosen(name) == part = name

PartsInit ==
  /\ part \in {"accounts", "pool", "migrations", "history", "logins",
               "imports", "config", "profiles", "server", "keychain",
               "claude", "cursor_events", "cursor_usage", "claude_screen",
               "claude_quotas", "codex_limits", "datasets", "sessions",
               "forecast", "report"}
  /\ Init /\ (Chosen("accounts") \/ (Configured = {}))
  /\ PoolInit
  /\ MigrationsInit /\ (Chosen("migrations") \/ (origin = "empty" /\ ~private))
  /\ EventsInit /\ (Chosen("history") \/ (reports = "events"))
  /\ LoginInit
  /\ ImportInit
  /\ ConfigInit /\ (Chosen("config") \/ (file.alerts))
  /\ ProfilesInit /\ (Chosen("profiles") \/ (kind = "codex" /\ signed = {}))
  /\ ServerInit /\ (Chosen("server") \/ (capacity = 1))
  /\ BrokerInit /\ contents = <<1>> /\ ~guarded
  /\ ClaudeInit /\ (Chosen("claude") \/ (keychain = 0 /\ disk = 0 /\ ~blocked /\ expired = {}))
  /\ (~Chosen("cursor_events") => cycle = <<>>)
  /\ EventPagesInit
  /\ (~Chosen("cursor_usage") => said = [is |-> {}, history |-> "events"])
  /\ CursorUsageInit
  /\ (~Chosen("claude_screen") => script = <<>> /\ signIn = "none" /\ supplied = FALSE /\ cliSettings = [version |-> 0, trusted |-> TRUE] /\ clock = 0)
  /\ ScreenInit
  /\ (~Chosen("claude_quotas") => quotas = [limits |-> <<>>, utilization |-> {}, fields |-> {}, extra |-> [used |-> -1, limit |-> 2]])
  /\ ClaudeQuotasInit /\ Len(quotas.limits) + Cardinality(quotas.utilization) <= 2
  /\ (~Chosen("codex_limits") => limits = [primary |-> NoBound, secondary |-> NoBound, review |-> NoBound, additional |-> {}, balance |-> 3, unlimited |-> FALSE, resets |-> <<>>, byId |-> TRUE])
  /\ CodexLimitsInit
  /\ (~Chosen("datasets") => snapshot = NoUsage)
  /\ DatasetsInit
  /\ SessionsInit /\ ~prefs.dangerous
  /\ ForecastInit /\ (Chosen("forecast") \/ (tellsReset))
  /\ ReportInit /\ (Chosen("report") \/ (enabled = {"codex"}))

OthersRest(name) ==
  /\ name # "accounts" => UNCHANGED vars
  /\ name # "pool" => UNCHANGED poolVars
  /\ name # "migrations" => UNCHANGED migrationVars
  /\ name # "history" => UNCHANGED eventVars
  /\ name # "logins" => UNCHANGED loginVars
  /\ name # "imports" => UNCHANGED importVars
  /\ name # "config" => UNCHANGED configVars
  /\ name # "profiles" => UNCHANGED profileVars
  /\ name # "server" => UNCHANGED serverVars
  /\ name # "keychain" => UNCHANGED brokerVars
  /\ name # "claude" => UNCHANGED claudeVars
  /\ name # "cursor_events" => UNCHANGED eventPageVars
  /\ name # "cursor_usage" => UNCHANGED cursorUsageVars
  /\ name # "claude_screen" => UNCHANGED screenVars
  /\ name # "claude_quotas" => UNCHANGED claudeQuotaVars
  /\ name # "codex_limits" => UNCHANGED codexLimitVars
  /\ name # "datasets" => UNCHANGED datasetVars
  /\ name # "sessions" => UNCHANGED sessionVars
  /\ name # "forecast" => UNCHANGED forecastVars
  /\ name # "report" => UNCHANGED reportVars
  /\ UNCHANGED part

PartsNext ==
  \/ Chosen("accounts") /\ Next /\ OthersRest("accounts")
  \/ Chosen("pool") /\ PoolNext /\ OthersRest("pool")
  \/ Chosen("migrations") /\ MigrationsNext /\ OthersRest("migrations")
  \/ Chosen("history") /\ EventsNext /\ OthersRest("history")
  \/ Chosen("logins") /\ LoginNext /\ OthersRest("logins")
  \/ Chosen("imports") /\ ImportNext /\ OthersRest("imports")
  \/ Chosen("config") /\ ConfigNext /\ OthersRest("config")
  \/ Chosen("profiles") /\ ProfilesNext /\ OthersRest("profiles")
  \/ Chosen("server") /\ ServerNext /\ OthersRest("server")
  \/ Chosen("keychain") /\ BrokerNext /\ OthersRest("keychain")
  \/ Chosen("claude") /\ ClaudeNext /\ OthersRest("claude")
  \/ Chosen("cursor_events") /\ EventPagesNext /\ OthersRest("cursor_events")
  \/ Chosen("cursor_usage") /\ CursorUsageNext /\ OthersRest("cursor_usage")
  \/ Chosen("claude_screen") /\ ScreenNext /\ OthersRest("claude_screen")
  \/ Chosen("claude_quotas") /\ NormalizeQuotas /\ OthersRest("claude_quotas")
  \/ Chosen("codex_limits") /\ CodexLimitsNext /\ OthersRest("codex_limits")
  \/ Chosen("datasets") /\ DatasetsNext /\ OthersRest("datasets")
  \/ Chosen("sessions") /\ SessionsNext /\ SecondAsksLess /\ OthersRest("sessions")
  \/ Chosen("forecast") /\ ForecastNext /\ OthersRest("forecast")
  \/ Chosen("report") /\ ReportNext /\ OthersRest("report")

allPartsVars == <<part, vars, poolVars, migrationVars, eventVars, loginVars,
                  importVars, configVars, profileVars, serverVars, brokerVars,
                  claudeVars, eventPageVars, cursorUsageVars, screenVars,
                  claudeQuotaVars, codexLimitVars, datasetVars, sessionVars,
                  forecastVars, reportVars>>

PartsSpec == PartsInit /\ [][PartsNext]_allPartsVars

(* The types of the parts that report nothing: a cursor, a queue or a pool *)
(* that grows past its bound would break them first.                       *)
TypesOK ==
  /\ TypeOK /\ PoolTypeOK /\ EventsTypeOK /\ LoginTypeOK
  /\ ImportTypeOK /\ ConfigTypeOK /\ ProfilesTypeOK /\ ServerTypeOK
  /\ BrokerTypeOK /\ ClaudeTypeOK

(* What is not the daemon's is not lost: the tables of databases of others *)
(* (migrate; not their journal mode and permissions, see Migrations) and   *)
(* the files that no import wrote (cleanup_stale_replace_paths).           *)
StrangersKept == ForeignTablesKept /\ ForeignKept

(* Sign-ins outlive the ways in which they are shared: the Keychain is     *)
(* read and written in order, refreshing loses no token, and a session     *)
(* that is opened leaves nobody with an old one nor with leave not given.  *)
SignInsSafe == BrokerSound /\ CredentialsSafe /\ LaunchesSafe

(* What is reported of an account is what the provider said of it: its     *)
(* events at one moment, no limit of its team as its own, and each limit   *)
(* once, whichever way it was told (Claude's usage screen and answers, the *)
(* two sources of Codex); sources that overlap stay apart, forecasts are   *)
(* of the current cycle, and totals count nothing twice.                   *)
ReportsTrue ==
  CASE part = "cursor_events" -> OneMoment       [] part = "cursor_usage" -> TeamKeptApart
    [] part = "claude_screen" -> ScreenSound     [] part = "claude_quotas" -> QuotasShown
    [] part = "codex_limits" -> CodexLimitsTrue  [] part = "datasets" -> SourcesTold
    [] part = "forecast" -> ForecastSound        [] part = "report" -> ReportedOnce
    [] OTHER -> TypesOK
===============================================================================
