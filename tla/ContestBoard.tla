------------------------------ MODULE ContestBoard ------------------------------
(***************************************************************************)
(* What a contest keeps in Redis, and the blocks of updateContestScore     *)
(* that write it.  A MULTI block is one step.  The expiry of the keys,     *)
(* four hours after the contest's end, is left out.                        *)
(***************************************************************************)
EXTENDS Integers

CONSTANTS Users, Problems,
    Absent              \* a missing member

ASSUME BoardAssumption == Absent \notin Int

PENALTY_PER_WRONG == 300
SOLVED_SCORE_WEIGHT == 10000000

VARIABLES
    stats,          \* contest:stats:<contest>:<user>
    leaderboard,    \* contest:leaderboard:<contest>, the scores by user
    dirty           \* contest:dirty:<contest>

redisVars == <<stats, leaderboard, dirty>>

Stats == [solvedCount : Nat, totalPenaltySeconds : Nat,
          status : [Problems -> {"", "AC"}], fails : [Problems -> Nat]]

NoStats == [solvedCount |-> 0, totalPenaltySeconds |-> 0,
            status |-> [p \in Problems |-> ""], fails |-> [p \in Problems |-> 0]]

BoardTypeOK ==
    /\ stats \in [Users -> Stats]
    /\ leaderboard \in [Users -> Int \cup {Absent}]
    /\ dirty \subseteq Users

EmptyBoard ==
    /\ stats = [u \in Users |-> NoStats]
    /\ leaderboard = [u \in Users |-> Absent]
    /\ dirty = {}

Score(stat) == stat.solvedCount * SOLVED_SCORE_WEIGHT - stat.totalPenaltySeconds

\* Mutated form: the penalty with the wrong sign.
CountSolvedSubtracts(u, p, fails) ==
    /\ stats' = [stats EXCEPT
           ![u].solvedCount = @ + 1,
           ![u].totalPenaltySeconds = @ - fails * PENALTY_PER_WRONG,
           ![u].status[p] = "AC"]
    /\ dirty' = dirty \cup {u}
    /\ UNCHANGED leaderboard

\* The first block of an accepted submission; fails was read before.
CountSolved(u, p, fails) ==
    /\ stats' = [stats EXCEPT
           ![u].solvedCount = @ + 1,
           ![u].totalPenaltySeconds = @ + fails * PENALTY_PER_WRONG,
           ![u].status[p] = "AC"]
    /\ dirty' = dirty \cup {u}
    /\ UNCHANGED leaderboard

\* The second one: it does not mark the user dirty again.
SetScore(u, score) ==
    /\ leaderboard' = [leaderboard EXCEPT ![u] = score]
    /\ UNCHANGED <<stats, dirty>>

CountFail(u, p) ==
    /\ stats' = [stats EXCEPT ![u].fails[p] = @ + 1]
    /\ dirty' = dirty \cup {u}
    /\ UNCHANGED leaderboard
=============================================================================
