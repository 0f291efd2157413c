---------------------------- MODULE MCDashboard -----------------------------
(***************************************************************************)
(* The smaller parts of the dashboard for TLC: signing in and out, password *)
(* resets, key rotation, the benchmark and the console.  They share no     *)
(* state, so that each behaviour is one of a single part, which is chosen  *)
(* at the start, while the others stay as they are.                        *)
(***************************************************************************)
EXTENDS Sessions, Resets, Rotation, Benchmark, Console

VARIABLE part

vars == <<sVars, rVars, kVars, bVars, cVars, part>>

McDongles == <<"dongle 1", "dongle 2">>
McGroups == <<"group 1">>

Init ==
  /\ part \in {"sessions", "resets", "rotation", "benchmark", "console"}
  /\ SInit /\ RInit /\ KInit /\ BInit /\ CInit
  /\ part # "sessions" => ~LoggedIn
  /\ part # "benchmark" => page.target = CHOOSE d \in Targets : TRUE
  /\ part # "console" => view.type = "dongle" /\ view.id = NoTarget

SessionsRun == part = "sessions" /\ SNext /\ UNCHANGED <<rVars, kVars, bVars, cVars, part>>
ResetsRun == part = "resets" /\ RNext /\ UNCHANGED <<sVars, kVars, bVars, cVars, part>>
RotationRuns == part = "rotation" /\ KNext /\ UNCHANGED <<sVars, rVars, bVars, cVars, part>>
BenchmarkRuns == part = "benchmark" /\ BNext /\ UNCHANGED <<sVars, rVars, kVars, cVars, part>>
ConsoleRuns == part = "console" /\ CNext /\ UNCHANGED <<sVars, rVars, kVars, bVars, part>>

Next == SessionsRun \/ ResetsRun \/ RotationRuns \/ BenchmarkRuns \/ ConsoleRuns

Spec == Init /\ [][Next]_vars /\ SFair /\ KFair

(***************************************************************************)
(* What the pages show and do is true of the session, of the stream and of *)
(* the target: each part is stated in the module of its page.              *)
(* (AuthContext.tsx, client.ts, BenchmarkPage.tsx, ConsolePage.tsx)        *)
(***************************************************************************)
PagesAreTrue ==
  /\ SessionsTypeOK /\ AnsweredTruly /\ CsrfRecovers /\ ShownIsTrue
  /\ BenchmarkTypeOK /\ EventsOnce /\ AlertsAreTrue /\ QuietInOrder
  /\ ConsoleTypeOK /\ SentToChosen /\ DetailsSettle /\ TargetFits

(***************************************************************************)
(* Whatever a tab does, and each run of the job, comes to an end, and no   *)
(* session is given a user.  (client.ts, routes/auth.ts,                   *)
(* jobs/rotate-dongle-keys.ts)                                             *)
(***************************************************************************)
EndsInOrder == FreshSession /\ TabAnswers /\ JobEnds
=============================================================================
