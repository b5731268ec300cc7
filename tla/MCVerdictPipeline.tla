------------------------- MODULE MCVerdictPipeline -------------------------
(***************************************************************************)
(* VerdictPipeline for TLC.  One user submits to one problem: the rows     *)
(* share their counters and their FIFO group, the closest they can meet.   *)
(***************************************************************************)
EXTENDS VerdictPipeline, TLC

CONSTANTS u1, p1, a, c1

MCRow(contest) == [user |-> u1, problem |-> p1, contest |-> contest, key |-> NoKey,
                   hash |-> <<p1, a, contest>>, status |-> "PENDING"]

Practice == {MCRow(NoContest)}
InContest == {MCRow(c1)}

Sym == Permutations(Submissions) \cup Permutations(Workers) \cup Permutations(Consumers)
=============================================================================
