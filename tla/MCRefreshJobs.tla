--------------------------- MODULE MCRefreshJobs ---------------------------
(***************************************************************************)
(* A TLC instance of RefreshJobs: two jobs and one caller, of one provider *)
(* with its account.                                                       *)
(***************************************************************************)
EXTENDS RefreshJobs, TLC

CONSTANTS codex, claude, a1

OnlyOfCodex == (a1 :> codex)

CodexOrAll   == {{codex}, All}
CodexOrNone == {{codex}, {}}
=============================================================================
