----------------------------- MODULE ContestScore -----------------------------
(***************************************************************************)
(* One contest: registration, its rows in submissions, the live            *)
(* leaderboard the results consumers keep in Redis (updateContestScore),   *)
(* the sweep that starts and finishes it, and the trigger that recomputes  *)
(* the result from the rows.                                               *)
(*                                                                         *)
(* Each row is stored by one consumer, as VerdictPipeline shows for FIFO   *)
(* queues; from the UPDATE on, this module has every Redis call as a step. *)
(* Usernames are left out.                                                 *)
(***************************************************************************)
EXTENDS ContestBoard, Sequences, FiniteSetsExt

CONSTANTS
    Consumers,
    RegistrationWindow, \* the slots of the clock in which one may register
    MaxRows,            \* bound: submissions to the contest
    Faults,             \* "redis", "crash"
    NotRegistered

ASSUME ScoreAssumption ==
    /\ IsFiniteSet(Users) /\ IsFiniteSet(Problems)
    /\ RegistrationWindow \subseteq {"before", "open", "over"}
    /\ MaxRows \in Nat

VARIABLES
    rows,           \* the contest's submissions in the order of createdAt
    clock,          \* now against startsAt and endsAt
    status,         \* contest.status
    participants,   \* contestParticipants, by user
    registering,    \* the requests between the look at the window and the INSERT
    job,            \* what each consumer is doing
    upsets          \* history: "order" once a result was handled before an earlier one
                    \* of its user, "race" once two results of one user were handled at
                    \* the same time, "fault" once a call failed or a consumer died

contestVars == <<clock, status, participants, registering>>
vars == <<rows, contestVars, redisVars, job, upsets>>

Judged == {"ACCEPTED", "REJECTED"}      \* REJECTED: any other final status

Participant == [totalScore : Nat, totalPenalty : Nat, rank : Nat]

Job == [pc : {"idle", "meta", "status", "fails", "solve", "fail", "post"},
        row : 0..MaxRows, fails : Nat, score : Int]

TypeOK ==
    /\ rows \in Seq([user : Users, problem : Problems, status : Judged \cup {"PENDING"}])
    /\ Len(rows) <= MaxRows
    /\ clock \in {"before", "open", "over"}
    /\ status \in {"DRAFT", "RUNNING", "FINISHED"}
    /\ participants \in [Users -> Participant \cup {NotRegistered}]
    /\ registering \subseteq Users
    /\ BoardTypeOK
    /\ job \in [Consumers -> Job]
    /\ upsets \subseteq {"order", "race", "fault"}

Idle == [pc |-> "idle", row |-> 0, fails |-> 0, score |-> 0]

Init ==
    /\ rows = <<>>
    /\ clock = "before" /\ status = "DRAFT"
    /\ participants = [u \in Users |-> NotRegistered]
    /\ registering = {}
    /\ EmptyBoard
    /\ job = [c \in Consumers |-> Idle]
    /\ upsets = {}

-----------------------------------------------------------------------------
(* registerForContest.                                                     *)

CheckWindow(u) ==
    /\ clock \in RegistrationWindow
    /\ u \notin registering
    /\ registering' = registering \cup {u}
    /\ UNCHANGED <<rows, clock, status, participants, redisVars, job, upsets>>

\* The unique key makes a second registration answer alreadyRegistered.  The
\* INSERT may come after the window, and after the contest was finished.
InsertParticipant(u) ==
    /\ u \in registering
    /\ registering' = registering \ {u}
    /\ participants' = IF participants[u] # NotRegistered THEN participants
                       ELSE [participants EXCEPT
                                ![u] = [totalScore |-> 0, totalPenalty |-> 0, rank |-> 0]]
    /\ UNCHANGED <<rows, clock, status, redisVars, job, upsets>>

registerForContest(u) == CheckWindow(u) \/ InsertParticipant(u)

-----------------------------------------------------------------------------
(* The backend and the consumer's UPDATE.                                  *)

\* assertContestSubmissionAllowed looks at the clock, not at the status, and
\* nobody asks whether the user registered.  The INSERT comes some awaits after
\* that look, so it may come after the end.
Submit(u, p) ==
    /\ clock # "before"
    /\ Len(rows) < MaxRows
    /\ rows' = Append(rows, [user |-> u, problem |-> p, status |-> "PENDING"])
    /\ UNCHANGED <<contestVars, redisVars, job, upsets>>

\* No earlier row of the user is still to be stored.
NextOfUser(s) ==
    \A t \in 1..(s - 1) : rows[t].user = rows[s].user => rows[t].status # "PENDING"

User(c)    == rows[job[c].row].user
Problem(c) == rows[job[c].row].problem

BeingScored(u) == \E c \in Consumers : job[c].pc # "idle" /\ User(c) = u

\* Consumers are separate processes and know nothing of one another; two messages
\* of one user have message groups of their own.
Store(c, s, verdict) ==
    /\ job[c] = Idle
    /\ rows[s].status = "PENDING"
    /\ rows' = [rows EXCEPT ![s].status = verdict]
    /\ job' = [job EXCEPT ![c] = [Idle EXCEPT !.pc = "meta", !.row = s]]
    /\ upsets' = upsets \cup (IF NextOfUser(s) THEN {} ELSE {"order"})
                      \cup (IF BeingScored(rows[s].user) THEN {"race"} ELSE {})
    /\ UNCHANGED <<contestVars, redisVars>>

-----------------------------------------------------------------------------
(* updateContestScore.                                                     *)

Goto(c, label) == job' = [job EXCEPT ![c].pc = label]
Done(c) == job' = [job EXCEPT ![c] = Idle]

\* No code changes the window of a contest, so it makes no difference whether
\* it comes from the process's cache, from Redis or from the contest's row.
getContestMeta(c) ==
    /\ job[c].pc = "meta"
    /\ Goto(c, "status")
    /\ UNCHANGED <<rows, contestVars, redisVars, upsets>>

\* Mutated form: no guard on the status read.
ReadStatusNoGuard(c) ==
    /\ job[c].pc = "status"
    /\ Goto(c, IF rows[job[c].row].status = "ACCEPTED" THEN "fails" ELSE "fail")
    /\ UNCHANGED <<rows, contestVars, redisVars, upsets>>

ReadStatus(c) ==
    /\ job[c].pc = "status"
    /\ IF stats[User(c)].status[Problem(c)] = "AC" THEN Done(c)
       ELSE Goto(c, IF rows[job[c].row].status = "ACCEPTED" THEN "fails" ELSE "fail")
    /\ UNCHANGED <<rows, contestVars, redisVars, upsets>>

ReadFails(c) ==
    /\ job[c].pc = "fails"
    /\ job' = [job EXCEPT ![c].pc = "solve",
                          ![c].fails = stats[User(c)].fails[Problem(c)]]
    /\ UNCHANGED <<rows, contestVars, redisVars, upsets>>

\* Mutated form: a score from what was read before the block.
SolveStaleScore(c) ==
    /\ job[c].pc = "solve"
    /\ CountSolved(User(c), Problem(c), job[c].fails)
    /\ job' = [job EXCEPT ![c].pc = "post", ![c].score = Score(stats[User(c)])]
    /\ UNCHANGED <<rows, contestVars, upsets>>

Solve(c) ==
    /\ job[c].pc = "solve"
    /\ CountSolved(User(c), Problem(c), job[c].fails)
    /\ job' = [job EXCEPT ![c].pc = "post", ![c].score = Score(stats'[User(c)])]
    /\ UNCHANGED <<rows, contestVars, upsets>>

PostScore(c) ==
    /\ job[c].pc = "post"
    /\ SetScore(User(c), job[c].score)
    /\ Done(c)
    /\ UNCHANGED <<rows, contestVars, upsets>>

Fail(c) ==
    /\ job[c].pc = "fail"
    /\ CountFail(User(c), Problem(c))
    /\ Done(c)
    /\ UNCHANGED <<rows, contestVars, upsets>>

\* Mutated form: the call is made again, executed or not.
RedisFailsRetries(c) ==
    /\ "redis" \in Faults
    /\ job[c].pc # "idle"
    /\ \/ UNCHANGED redisVars
       \/ job[c].pc = "solve" /\ CountSolved(User(c), Problem(c), job[c].fails)
       \/ job[c].pc = "fail" /\ CountFail(User(c), Problem(c))
    /\ upsets' = upsets \cup {"fault"}
    /\ UNCHANGED <<rows, contestVars, job>>

\* A call rejects: handleResult swallows the error and the message is deleted.
\* A block whose reply is lost was executed nevertheless.
RedisFails(c) ==
    /\ "redis" \in Faults
    /\ job[c].pc # "idle"
    /\ \/ UNCHANGED redisVars
       \/ job[c].pc = "solve" /\ CountSolved(User(c), Problem(c), job[c].fails)
       \/ job[c].pc = "fail" /\ CountFail(User(c), Problem(c))
    /\ Done(c)
    /\ upsets' = upsets \cup {"fault"}
    /\ UNCHANGED <<rows, contestVars>>

\* The row is final when its message comes again, so nobody scores it later.
Crash(c) ==
    /\ "crash" \in Faults
    /\ job[c].pc # "idle"
    /\ Done(c)
    /\ upsets' = upsets \cup {"fault"}
    /\ UNCHANGED <<rows, contestVars, redisVars>>

ScoreStep(c) ==
    \/ getContestMeta(c) \/ ReadStatus(c) \/ ReadFails(c) \/ Solve(c)
    \/ PostScore(c) \/ Fail(c) \/ RedisFails(c) \/ Crash(c)

-----------------------------------------------------------------------------
(* The sweep, and finalize_contest.                                        *)

RowsOf(u, p, verdict) ==
    {s \in DOMAIN rows : rows[s] = [user |-> u, problem |-> p, status |-> verdict]}

\* The common table expressions of the trigger.
first_ac(u) == {p \in Problems : RowsOf(u, p, "ACCEPTED") # {}}

\* Mutated form: without the condition on createdAt.
fails_before_acAll(u, p) == RowsOf(u, p, "REJECTED")

fails_before_ac(u, p) ==
    {s \in RowsOf(u, p, "REJECTED") : s < Min(RowsOf(u, p, "ACCEPTED"))}

total_penalty(u) ==
    MapThenSumSet(LAMBDA p : PENALTY_PER_WRONG * Cardinality(fails_before_ac(u, p)),
                  first_ac(u))

Before(u, v) ==
    \/ Cardinality(first_ac(u)) > Cardinality(first_ac(v))
    \/ /\ Cardinality(first_ac(u)) = Cardinality(first_ac(v))
       /\ total_penalty(u) < total_penalty(v)

ranked == {u \in Users : first_ac(u) # {}}

finalize_contest ==
    [u \in Users |->
        IF u \in ranked /\ participants[u] # NotRegistered
        THEN [totalScore   |-> Cardinality(first_ac(u)),
              totalPenalty |-> total_penalty(u),
              rank         |-> 1 + Cardinality({v \in ranked : Before(v, u)})]
        ELSE participants[u]]

Start ==
    /\ status = "DRAFT" /\ clock # "before"
    /\ status' = "RUNNING"
    /\ UNCHANGED <<rows, clock, participants, registering, redisVars, job, upsets>>

\* Mutated form: every sweep recomputes the result of a contest that is over.
FinishAgain ==
    /\ status # "DRAFT" /\ clock = "over"
    /\ status' = "FINISHED"
    /\ participants' = finalize_contest
    /\ UNCHANGED <<rows, clock, registering, redisVars, job, upsets>>

Finish ==
    /\ status = "RUNNING" /\ clock = "over"
    /\ status' = "FINISHED"
    /\ participants' = finalize_contest
    /\ UNCHANGED <<rows, clock, registering, redisVars, job, upsets>>

\* One statement of the sweep; every consumer process runs it each minute, and
\* a statement that fails is tried again a minute later.
sweepContestLifecycle == Start \/ Finish

Clock ==
    /\ clock # "over"
    /\ clock' = IF clock = "before" THEN "open" ELSE "over"
    /\ UNCHANGED <<rows, status, participants, registering, redisVars, job, upsets>>

Next ==
    \/ Clock \/ sweepContestLifecycle
    \/ \E u \in Users : registerForContest(u) \/ \E p \in Problems : Submit(u, p)
    \/ \E c \in Consumers :
          \/ \E s \in DOMAIN rows, verdict \in Judged : Store(c, s, verdict)
          \/ ScoreStep(c)

Spec == Init /\ [][Next]_vars

-----------------------------------------------------------------------------
Settled ==
    /\ \A s \in DOMAIN rows : rows[s].status # "PENDING"
    /\ \A c \in Consumers : job[c].pc = "idle"

\* The score of a user in a given stats hash: absent from the board without AC.
OnBoard(u) == IF stats[u].solvedCount = 0 THEN Absent ELSE Score(stats[u])

(* updateContestScore.js:68: "First-AC only."  The read of the status and  *)
(* the block that counts the problem are two calls, so two consumers with  *)
(* results of one user may both count it.  Each credit still has an        *)
(* accepted submission of its own, whatever fails and whoever scores, and  *)
(* until two results of one user were handled at the same time a problem   *)
(* counts once.                                                            *)
SolvedCountIsBounded ==
    \A u \in Users :
        LET solved   == {p \in Problems : stats[u].status[p] = "AC"}
            accepted == {s \in DOMAIN rows : rows[s].user = u /\ rows[s].status = "ACCEPTED"}
        IN  /\ Cardinality(solved) <= stats[u].solvedCount
            /\ stats[u].solvedCount <= Cardinality(accepted)
            /\ "race" \notin upsets => stats[u].solvedCount = Cardinality(solved)

(* The board never shows more than a hash counts, whatever fails between   *)
(* the two blocks and in whatever order consumers write their scores.  It  *)
(* shows exactly what the hash says, except for a score on its way, as     *)
(* long as no call failed and no two results of one user were handled at   *)
(* the same time: the older of two scores may be written last.             *)
BoardMatchesStats ==
    \A u \in Users :
        /\ leaderboard[u] # Absent =>
              /\ stats[u].solvedCount > 0
              /\ leaderboard[u] <= stats[u].solvedCount * SOLVED_SCORE_WEIGHT
        /\ /\ upsets \subseteq {"order"}
           /\ \A c \in Consumers : job[c].pc = "post" => User(c) # u
           => leaderboard[u] = OnBoard(u)

(* 0007_contest_finalize_trigger.sql:13-15: the penalty "Matches the live  *)
(* formula ... exactly".  Once every verdict is in, and unless a call      *)
(* failed or two results of one user were handled at the same time, the    *)
(* trigger counts the problems the live board counts, in whatever order    *)
(* the verdicts came.  If each user's came in the order of submission, the *)
(* penalties and the order of the users are the same, too.                 *)
LiveMatchesFinal ==
    Settled =>
        /\ upsets \subseteq {"order"} =>
              \A u \in Users : stats[u].solvedCount = Cardinality(first_ac(u))
        /\ upsets = {} =>
              /\ \A u \in Users : stats[u].totalPenaltySeconds = total_penalty(u)
              /\ \A u, v \in ranked : leaderboard[u] > leaderboard[v] <=> Before(u, v)

(* The live board credits nothing the rows do not back, whatever fails and *)
(* whoever scores: an AC has an accepted row, a counted failure a rejected *)
(* one.  A penalty has only what was counted, until two results of one     *)
(* user were handled at the same time.                                     *)
LiveIsBacked ==
    \A u \in Users :
        /\ \A p \in Problems :
              /\ stats[u].status[p] = "AC" => RowsOf(u, p, "ACCEPTED") # {}
              /\ stats[u].fails[p] <= Cardinality(RowsOf(u, p, "REJECTED"))
        /\ "race" \notin upsets =>
              stats[u].totalPenaltySeconds <=
                  PENALTY_PER_WRONG * MapThenSumSet(LAMBDA p : stats[u].fails[p], Problems)

(* The recorded result never changes after the contest was finished: who   *)
(* registers late is added, and nobody is reset by registering again.      *)
ResultStands ==
    [][status = "FINISHED" =>
          /\ status' = status
          /\ \A u \in Users : participants[u] # NotRegistered
                                   => participants'[u] = participants[u]]_vars

\* getLeaderboard, once the contest is FINISHED: ORDER BY rank ASC.
ListedBefore(u, v) == participants[u].rank < participants[v].rank

(* TESTING_GUIDE.md:60: after the flip, "rank/totalScore/totalPenalty      *)
(* populated correctly".  Who solved more is listed first.                 *)
StandingsByScore ==
    status = "FINISHED" =>
        \A u, v \in {w \in Users : participants[w] # NotRegistered} :
            participants[u].totalScore > participants[v].totalScore => ListedBefore(u, v)
=============================================================================
