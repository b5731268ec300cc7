------------------------- MODULE MCSubmissionSystem -------------------------
(***************************************************************************)
(* SubmissionSystem for TLC: one user, one problem, two requests that use  *)
(* one key for the same body: a request and its retry.                     *)
(***************************************************************************)
EXTENDS SubmissionSystem, TLC

CONSTANTS u1, k1, p1, a, b, c1

AnyNewRow == {row \in Row : row.status = "PENDING"}

MCProblemState == p1 :> "public"
MCContestProblems == {<<c1, p1>>}

Retries == {[user |-> u1, key |-> k1, problem |-> p1, code |-> a, contest |-> NoContest]}
=============================================================================
