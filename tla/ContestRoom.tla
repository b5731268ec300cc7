------------------------------ MODULE ContestRoom ------------------------------
(***************************************************************************)
(* The live leaderboard on its way from Redis to the phones: a results     *)
(* consumer that scores verdicts, the ws-server with its broadcast ticker  *)
(* and the snapshot it sends to who joins, and useContestWatcher.          *)
(*                                                                         *)
(* One contest, one consumer (so what it reads before a block is what the  *)
(* block finds; ContestScore has several), one ws-server.  A tick may      *)
(* overlap the next one: setInterval does not wait for its callback.  What *)
(* is emitted to a joined phone arrives at once and in order.              *)
(***************************************************************************)
EXTENDS ContestBoard, Sequences, SequencesExt

CONSTANTS
    Phones, UserOf,     \* the user of each phone
    Ticks,              \* bound: ticks that run at the same time
    TopN,               \* TOP_N
    MaxFails,           \* bound: failures counted for a user and problem
    None,               \* null
    Faults              \* "redis"

\* Users are numbers: ZREVRANGE orders equal scores by member.
ASSUME RoomAssumption ==
    /\ Users \subseteq Nat /\ IsFiniteSet(Users)
    /\ UserOf \in [Phones -> Users]
    /\ TopN \in Nat \ {0} /\ MaxFails \in Nat
    /\ None \notin Nat

VARIABLES
    scorer,     \* the consumer in updateContestScore
    tick,       \* each run of the ticker's callback
    snapshot,   \* sendContestSnapshot for each phone
    joined,     \* the phones in the contest's room
    hook        \* leaderboard and rank in each phone's hook

vars == <<redisVars, scorer, tick, snapshot, joined, hook>>

Entry == [userId : Users, solvedCount : Nat, totalPenalty : Nat]

Sender(labels) == [pc : labels, top : Seq(Users), outside : SUBSET Phones]

TypeOK ==
    /\ BoardTypeOK
    /\ scorer \in [pc : {"idle", "solve", "post"}, user : Users \cup {None},
                   problem : Problems \cup {None}, score : Int]
    /\ tick \in [Ticks -> Sender({"idle", "range", "stats", "ranks", "del"})]
    /\ snapshot \in [Phones -> Sender({"idle", "range", "stats", "ranks"})]
    /\ joined \subseteq Phones
    /\ hook \in [Phones -> [leaderboard : Seq(Entry), rank : Nat \cup {None}]]

Free == [pc |-> "idle", user |-> None, problem |-> None, score |-> 0]
Rest == [pc |-> "idle", top |-> <<>>, outside |-> {}]
Blank == [leaderboard |-> <<>>, rank |-> None]

Init ==
    /\ EmptyBoard
    /\ scorer = Free
    /\ tick = [t \in Ticks |-> Rest]
    /\ snapshot = [p \in Phones |-> Rest]
    /\ joined = {}
    /\ hook = [p \in Phones |-> Blank]

-----------------------------------------------------------------------------
(* The consumer.                                                           *)

Accept(u, p) ==
    /\ scorer = Free
    /\ stats[u].status[p] # "AC"
    /\ scorer' = [Free EXCEPT !.pc = "solve", !.user = u, !.problem = p]
    /\ UNCHANGED <<redisVars, tick, snapshot, joined, hook>>

Reject(u, p) ==
    /\ scorer = Free
    /\ stats[u].status[p] # "AC" /\ stats[u].fails[p] < MaxFails
    /\ CountFail(u, p)
    /\ UNCHANGED <<scorer, tick, snapshot, joined, hook>>

Solve ==
    /\ scorer.pc = "solve"
    /\ LET u == scorer.user IN
       /\ CountSolved(u, scorer.problem, stats[u].fails[scorer.problem])
       /\ scorer' = [scorer EXCEPT !.pc = "post", !.score = Score(stats'[u])]
    /\ UNCHANGED <<tick, snapshot, joined, hook>>

PostScore ==
    /\ scorer.pc = "post"
    /\ SetScore(scorer.user, scorer.score)
    /\ scorer' = Free
    /\ UNCHANGED <<tick, snapshot, joined, hook>>

-----------------------------------------------------------------------------
(* What the ws-server reads.                                               *)

\* The sorted set, which Redis orders by score, then by member.
Members == {u \in Users : leaderboard[u] # Absent}

Ahead(u, v) == \/ leaderboard[u] > leaderboard[v]
               \/ leaderboard[u] = leaderboard[v] /\ u > v

\* ZREVRANK, plus one.
Rank(u) == IF u \in Members THEN 1 + Cardinality({v \in Members : Ahead(v, u)}) ELSE None

\* ZREVRANGE with all ranks.
Ranking == [i \in 1..Cardinality(Members) |-> CHOOSE u \in Members : Rank(u) = i]

Top == SubSeq(Ranking, 1, IF Len(Ranking) < TopN THEN Len(Ranking) ELSE TopN)

\* The entries of getTop50, and of the backend's getLeaderboard, for the users
\* they read.
Entries(top) ==
    [i \in DOMAIN top |-> [userId       |-> top[i],
                           solvedCount  |-> stats[top[i]].solvedCount,
                           totalPenalty |-> stats[top[i]].totalPenaltySeconds]]

\* contest:leaderboard and contest:rank as useContestWatcher takes them.
SetLeaderboard(phones, top) ==
    hook' = [p \in Phones |->
                IF p \in phones THEN [hook[p] EXCEPT !.leaderboard = Entries(top)] ELSE hook[p]]

SetRank(phones) ==
    hook' = [p \in Phones |->
                IF p \in phones THEN [hook[p] EXCEPT !.rank = Rank(UserOf[p])] ELSE hook[p]]

\* The rank ContestDetailScreen shows under a live board: the one it was sent,
\* or the place of its user on the board.
effectiveRank(p) ==
    LET board == hook[p].leaderboard
        places == {i \in DOMAIN board : board[i].userId = UserOf[p]} IN
    IF hook[p].rank # None THEN hook[p].rank
    ELSE IF places # {} THEN CHOOSE i \in places : TRUE ELSE None

-----------------------------------------------------------------------------
(* The phones.                                                             *)

\* The hook connects and emits watch:contest: the server lets it join.  A new
\* watch clears the hook's state, a reconnection does not.
watch(p) ==
    /\ p \notin joined
    /\ joined' = joined \cup {p}
    /\ hook' \in {hook, [hook EXCEPT ![p] = Blank]}
    /\ snapshot' = [snapshot EXCEPT ![p] = [Rest EXCEPT !.pc = "range"]]
    /\ UNCHANGED <<redisVars, scorer, tick>>

\* The connection ends; its snapshot has nobody left to tell.
Leave(p) ==
    /\ p \in joined
    /\ joined' = joined \ {p}
    /\ snapshot' = [snapshot EXCEPT ![p] = Rest]
    /\ UNCHANGED <<redisVars, scorer, tick, hook>>

SnapshotRange(p) ==
    /\ snapshot[p].pc = "range"
    /\ snapshot' = [snapshot EXCEPT ![p].pc = "stats", ![p].top = Top]
    /\ UNCHANGED <<redisVars, scorer, tick, joined, hook>>

SnapshotStats(p) ==
    /\ snapshot[p].pc = "stats"
    /\ SetLeaderboard({p}, snapshot[p].top)
    /\ snapshot' = [snapshot EXCEPT ![p] =
           IF UserOf[p] \in ToSet(snapshot[p].top) THEN Rest ELSE [Rest EXCEPT !.pc = "ranks"]]
    /\ UNCHANGED <<redisVars, scorer, tick, joined>>

SnapshotRank(p) ==
    /\ snapshot[p].pc = "ranks"
    /\ SetRank({p})
    /\ snapshot' = [snapshot EXCEPT ![p] = Rest]
    /\ UNCHANGED <<redisVars, scorer, tick, joined>>

\* contest:error: the hook disconnects.
SnapshotFails(p) ==
    /\ "redis" \in Faults
    /\ snapshot[p].pc # "idle"
    /\ Leave(p)

-----------------------------------------------------------------------------
(* startContestBroadcastTicker.                                            *)

Scard(t) ==
    /\ tick[t].pc = "idle"
    /\ joined # {} /\ dirty # {}
    /\ tick' = [tick EXCEPT ![t].pc = "range"]
    /\ UNCHANGED <<redisVars, scorer, snapshot, joined, hook>>

Zrevrange(t) ==
    /\ tick[t].pc = "range"
    /\ tick' = [tick EXCEPT ![t].pc = "stats", ![t].top = Top]
    /\ UNCHANGED <<redisVars, scorer, snapshot, joined, hook>>

\* HMGET, the emit to the room, and the choice of those outside the top.
Emit(t) ==
    /\ tick[t].pc = "stats"
    /\ SetLeaderboard(joined, tick[t].top)
    /\ LET outside == {p \in joined : UserOf[p] \notin ToSet(tick[t].top)} IN
       tick' = [tick EXCEPT ![t] = [Rest EXCEPT !.pc = IF outside = {} THEN "del" ELSE "ranks",
                                                !.outside = outside]]
    /\ UNCHANGED <<redisVars, scorer, snapshot, joined>>

Ranks(t) ==
    /\ tick[t].pc = "ranks"
    /\ SetRank(tick[t].outside \cap joined)
    /\ tick' = [tick EXCEPT ![t] = [Rest EXCEPT !.pc = "del"]]
    /\ UNCHANGED <<redisVars, scorer, snapshot, joined>>

Del(t) ==
    /\ tick[t].pc = "del"
    /\ dirty' = {}
    /\ tick' = [tick EXCEPT ![t] = Rest]
    /\ UNCHANGED <<stats, leaderboard, scorer, snapshot, joined, hook>>

\* Mutated form: the set is deleted whether or not the board was sent.
TickFailsClears(t) ==
    /\ "redis" \in Faults
    /\ tick[t].pc # "idle"
    /\ dirty' = {}
    /\ tick' = [tick EXCEPT ![t] = Rest]
    /\ UNCHANGED <<stats, leaderboard, scorer, snapshot, joined, hook>>

\* The set stays, for the next tick.
TickFails(t) ==
    /\ "redis" \in Faults
    /\ tick[t].pc # "idle"
    /\ tick' = [tick EXCEPT ![t] = Rest]
    /\ UNCHANGED <<redisVars, scorer, snapshot, joined, hook>>

-----------------------------------------------------------------------------
Scoring == Solve \/ PostScore
SnapshotStep(p) == SnapshotRange(p) \/ SnapshotStats(p) \/ SnapshotRank(p)
TickStep(t) == Scard(t) \/ Zrevrange(t) \/ Emit(t) \/ Ranks(t) \/ Del(t)

Next ==
    \/ Scoring
    \/ \E u \in Users, p \in Problems : Accept(u, p) \/ Reject(u, p)
    \/ \E p \in Phones : watch(p) \/ Leave(p) \/ SnapshotStep(p) \/ SnapshotFails(p)
    \/ \E t \in Ticks : TickStep(t) \/ TickFails(t)

Spec == Init /\ [][Next]_vars

\* The interval fires for ever and each await returns; a tick that fails is
\* followed by another, one of which gets through to its end.
Fairness ==
    /\ WF_vars(Scoring)
    /\ \A p \in Phones : WF_vars(SnapshotStep(p))
    /\ \A t \in Ticks : /\ WF_vars(Scard(t))
                        /\ SF_vars(Zrevrange(t)) /\ SF_vars(Emit(t))
                        /\ SF_vars(Ranks(t)) /\ SF_vars(Del(t))

FairSpec == Spec /\ Fairness

-----------------------------------------------------------------------------
Settled == scorer = Free /\ (\A t \in Ticks : tick[t].pc = "idle")
                         /\ (\A p \in Phones : snapshot[p].pc = "idle")

\* The rank the phone shows is its user's (a live rank is not cleared when the
\* user enters the top, so a phone that has one may show it for too long).
RankIsTrue(p) ==
    UserOf[p] \notin ToSet(Top) \/ hook[p].rank = None
        => effectiveRank(p) = Rank(UserOf[p])

(* The dirty set is cleared only after what it announced was emitted: from *)
(* a quiet moment on, a phone in the room gets the board and the rank of   *)
(* its user, unless it leaves or another score comes, and however often a  *)
(* tick fails, before the board, between the board and the ranks, or       *)
(* before the delete.                                                      *)
DirtyBoardIsShown ==
    \A p \in Phones :
        Settled /\ dirty # {} /\ p \in joined
            ~> \/ hook[p].leaderboard = Entries(Top) /\ RankIsTrue(p)
               \/ p \notin joined \/ scorer # Free
=============================================================================
