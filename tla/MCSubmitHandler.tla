--------------------------- MODULE MCSubmitHandler ---------------------------
(***************************************************************************)
(* SubmitHandler for TLC: one user who retries with one key, with the same *)
(* or another body, inside or outside a contest, a second user with the    *)
(* same key, requests without a key or with a malformed one, and the three *)
(* problems that cannot be submitted to.                                   *)
(***************************************************************************)
EXTENDS SubmitHandler, TLC

CONSTANTS u1, u2, k1, p1, p2, p3, p4, a, b, c1

MCProblemState == p1 :> "public" @@ p2 :> "missing" @@ p3 :> "private" @@ p4 :> "no_tests"
MCContestProblems == {<<c1, p1>>}

In(u, k, p, c, contest) ==
    [user |-> u, key |-> k, problem |-> p, code |-> c, contest |-> contest]

MCInputs ==
    {In(u1, k1, p1, a, NoContest), In(u1, k1, p1, b, NoContest),
     In(u2, k1, p1, a, NoContest), In(u1, NoKey, p1, a, NoContest),
     In(u1, k1, p1, a, c1),        In(u1, k1, p2, a, c1),
     In(u1, BadKey, p1, a, NoContest)}
    \cup {In(u1, k1, p, a, NoContest) : p \in {p2, p3, p4}}

Sym == Permutations(Submissions) \cup Permutations(Requests)
=============================================================================
