--------------------------- MODULE CodexRateLimits ---------------------------
(***************************************************************************)
(* What the daemon makes of the limits of a Codex account                  *)
(* (providers/codex/rate_limits.rs), which it is told either by the app    *)
(* server of the CLI or by the web (WHAM), in shapes of their own.  The    *)
(* windows are known by their ids: alerts, forecasts and what the user     *)
(* hides depend on them whichever source was asked.                        *)
(***************************************************************************)
EXTENDS Integers, FiniteSets, Sequences, SequencesExt, FiniteSetsExt

CONSTANT Features  \* the limits of an account besides its own

VARIABLES
  limits,  \* of the account, as OpenAI knows them
  told     \* the windows that were made of what each source answered

codexLimitVars == <<limits, told>>

Omitted == -1000
Bound(percent, length, reset) == [percent |-> percent, length |-> length, reset |-> reset]
NoBound == Bound(Omitted, "other", "none")
Bounds == {NoBound, Bound(50, "hours", "at"), Bound(-5, "day", "none"), Bound(120, "week", "at"),
           Bound(Omitted, "other", "at"), Bound(Omitted, "week", "after"), Bound(30, "other", "after")}
FewBounds == {NoBound, Bound(50, "hours", "at"), Bound(30, "other", "after")}
Additional == [feature : Features, primary : FewBounds, secondary : {NoBound, Bound(120, "week", "at")}]
Credit == [status : {"none", "available", "redeemed"}, expires : {Omitted, 1, 2}]

CodexLimitsInit ==
  /\ limits \in [primary : Bounds, secondary : Bounds, review : {NoBound, Bound(50, "hours", "at")},
                 additional : {a \in SUBSET Additional : \A x, y \in a : x.feature = y.feature => x = y},
                 balance : {Omitted, 3}, unlimited : BOOLEAN, resets : SeqOf(Credit, 2), byId : BOOLEAN]
  \* the parts are independent of each other: one varies at a time
  /\ limits.additional = {} \/ (limits.primary \in FewBounds /\ limits.secondary = NoBound)
  /\ limits.review = NoBound \/ limits.additional = {}
  /\ limits.unlimited \/ limits.balance # Omitted => limits.additional = {} /\ limits.secondary = NoBound
  /\ limits.resets = <<>> \/ (limits.primary = NoBound /\ limits.secondary = NoBound /\ limits.additional = {})
  /\ told = [wham |-> {}, app_server |-> {}]
-----------------------------------------------------------------------------
(* window_duration_label; rate_limit_window, app_server_rate_limit_window. *)
ByLength(bound, kind) ==
  CASE bound.length = "day" -> "daily" [] bound.length = "week" -> "weekly"
    [] bound.length = "hours" -> "session" [] OTHER -> kind
Clip(percent) == IF percent = Omitted THEN Omitted ELSE IF percent > 100 THEN 100 ELSE IF percent < 0 THEN 0 ELSE percent
LimitWindow(id, bound, kind, resets) ==
  IF bound.percent = Omitted /\ bound.reset \notin resets THEN {}
  ELSE {[id |-> id, kind |-> ByLength(bound, kind), percent |-> Clip(bound.percent),
         reset |-> bound.reset \in resets]}

(* collect_codex_rate_limit_windows, collect_app_server_rate_limit_windows *)
LimitWindows(prefix, primary, secondary, resets) ==
  LimitWindow(<<prefix, "session">>, primary, "session", resets) \union
  LimitWindow(<<prefix, "weekly">>, secondary, "weekly", resets)
WhamResets == {"at", "after"}
AppServerResets == {"at"}

OwnLimits == <<"codex", {}>>
ReviewLimits == <<"codex_code_review", {}>>

(* additional_limit_prefix tells any two of them apart.                    *)
PrefixByFirst(a) == <<"codex_limit", {b.feature : b \in limits.additional}>>
LimitPrefix(a) == <<"codex_limit", {a.feature}>>
AdditionalWindows(resets) ==
  UNION {LimitWindows(LimitPrefix(a), a.primary, a.secondary, resets) : a \in limits.additional}

(* collect_credits_window: what is unlimited has no balance.               *)
CreditsWindow ==
  IF limits.balance = Omitted /\ ~limits.unlimited THEN {}
  ELSE {[id |-> <<OwnLimits, "credits">>, kind |-> "credits",
         percent |-> IF limits.unlimited THEN Omitted ELSE limits.balance, reset |-> FALSE]}

(* normalize_usage and normalize_app_server_usage.  An older app server    *)
(* states the account's own limits only, and none that of reviews.         *)
Wham ==
  LimitWindows(OwnLimits, limits.primary, limits.secondary, WhamResets)
    \union LimitWindows(ReviewLimits, limits.review, NoBound, WhamResets)
    \union AdditionalWindows(WhamResets) \union CreditsWindow
AppServer ==
  LimitWindows(OwnLimits, limits.primary, limits.secondary, AppServerResets)
    \union (IF limits.byId THEN AdditionalWindows(AppServerResets) ELSE {}) \union CreditsWindow

(* app_server_reset_credits.                                               *)
UsableResets == {i \in DOMAIN limits.resets :
             limits.resets[i].status \in {"none", "available"} /\ limits.resets[i].expires # Omitted}
NextExpiry == IF UsableResets = {} THEN Omitted ELSE Min({limits.resets[i].expires : i \in UsableResets})

(* Either source may be the one that can be asked.                         *)
AskWham == told' = [told EXCEPT !.wham = Wham] /\ UNCHANGED limits
AskAppServer == told' = [told EXCEPT !.app_server = AppServer] /\ UNCHANGED limits
CodexLimitsNext == AskWham \/ AskAppServer
-----------------------------------------------------------------------------
(* Whichever source is asked, a limit is shown under one id, as the same   *)
(* kind of window and with the same percentage, and no two limits share an *)
(* id: what is remembered of a window by its id is of one limit.           *)
SameLimits ==
  /\ \A w, v \in told.wham \union told.app_server :
       w.id = v.id => w.kind = v.kind /\ w.percent = v.percent
  /\ \A known \in {told.wham, told.app_server} \ {{}} : \A a \in limits.additional :
       (a.primary.percent # Omitted /\ (limits.byId \/ known = told.wham)) =>
         \E w \in known : w.id = <<LimitPrefix(a), "session">> /\ w.percent = Clip(a.primary.percent)
  /\ told.wham # {} /\ told.app_server # {} /\ limits.byId =>
       {w.id : w \in {v \in told.wham : v.id[1] # ReviewLimits /\ (v.percent # Omitted \/ v.kind = "credits")}}
         \subseteq {w.id : w \in told.app_server}

(* A reset that can still be used and is about to expire is not hidden by  *)
(* one that expires later or was used already.                             *)
ExpiryFirst ==
  \A i \in DOMAIN limits.resets : limits.resets[i].status = "available" /\ limits.resets[i].expires # Omitted =>
    NextExpiry # Omitted /\ NextExpiry <= limits.resets[i].expires

CodexLimitsTrue == SameLimits /\ ExpiryFirst
=============================================================================
