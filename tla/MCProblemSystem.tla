---------------------------- MODULE MCProblemSystem ----------------------------
(***************************************************************************)
(* ProblemSystem for TLC: a slug whose calls do not overlap and one whose  *)
(* calls do, requests that validation, a look-up, the dry run or nothing   *)
(* stops, a program that is right and one that fails the cases in          *)
(* different ways, two jobs in one worker, which share its cache.          *)
(***************************************************************************)
EXTENDS ProblemSystem, TLC

CONSTANTS s1, s2, t1, t2, g1, a1, right, uneven, c1, c2, j1, j2, w1

Base == [slug |-> s1, malformed |-> {}, templates |-> {"cpp", "python3"},
         drivers |-> {"cpp", "python3"}, references |-> {"cpp", "python3"},
         correct |-> {"cpp", "python3"}, cases |-> <<t1, t2>>, tags |-> {}, author |-> NoAuthor]

MCRequests ==
    {Base,
     [Base EXCEPT !.cases = <<t2, t1>>, !.tags = {g1}, !.author = a1],
     [Base EXCEPT !.references = {"cpp", "javascript"}],            \* no driver for one
     [Base EXCEPT !.drivers = {"cpp", "python3", "javascript"},
                  !.references = {"python3", "javascript"}],         \* one is wrong
     [Base EXCEPT !.references = {"cpp"}],
     [Base EXCEPT !.templates = {"go"}],
     [Base EXCEPT !.malformed = {"title"}],
     [Base EXCEPT !.tags = {"unknown"}],
     [Base EXCEPT !.author = "unknown"],
     [Base EXCEPT !.cases = <<>>],
     [Base EXCEPT !.slug = s2], [Base EXCEPT !.slug = s2, !.cases = <<t2>>]}

MCBehaviour == right :> [t \in TestCases |-> "right"]
               @@ uneven :> (t1 :> "wrong" @@ t2 :> "memory")

Together == j1 :> w1 @@ j2 :> w1

Sym == Permutations(Calls) \cup Permutations(Jobs)
=============================================================================
