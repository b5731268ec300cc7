--------------------------- MODULE SubmitHandler ---------------------------
(***************************************************************************)
(* POST /submissions: submitCode of submission.controller.js, one step for *)
(* each await.  Several requests run at once, in one backend process or in *)
(* several: they share only the database and the queue.  A retry is just   *)
(* another request with the same input.                                    *)
(*                                                                         *)
(* The judge is the environment here; SubmissionSystem puts the real one   *)
(* (VerdictPipeline) in its place.                                         *)
(***************************************************************************)
EXTENDS SubmissionQueue

CONSTANTS
    Requests,
    BadKey,             \* an Idempotency-Key that KEY_RE rejects
    Inputs,             \* the requests a client may send
    ProblemState,       \* "public", "missing", "private" or "no_tests"
    ContestProblems     \* the rows of contestProblems

VARIABLES
    input,          \* what each request carries; never changes
    pc,             \* the await each request is at
    sid,            \* the submission it inserted or found
    seen,           \* the status it read with that submission
    answer,         \* the HTTP status it got, 0 before
    contestPhase    \* where each contest's window is: time only moves on

requestVars == <<input, pc, sid, seen, answer>>
handlerVars == <<requestVars, contestPhase>>
vars == <<dbVars, submissionQueue, handlerVars>>

Input == [user : Users, key : Keys \cup {NoKey, BadKey}, problem : Problems,
          code : Codes, contest : Contests \cup {NoContest}]

ASSUME HandlerAssumption ==
    /\ BadKey \notin Keys \cup {NoKey}
    /\ Inputs \subseteq Input
    /\ ProblemState \in [Problems -> {"public", "missing", "private", "no_tests"}]
    /\ ContestProblems \subseteq Contests \X Problems

Running == {"contest", "problem", "lookup", "insert", "conflict", "enqueue", "resend"}

HandlerTypeOK ==
    /\ input \in [Requests -> Inputs]
    /\ pc \in [Requests -> Running \cup {"waiting", "done"}]
    /\ sid \in [Requests -> Submissions \cup {NoSubmission}]
    /\ seen \in [Requests -> Open \cup Verdicts]
    /\ answer \in [Requests -> {0, 200, 201, 400, 403, 404, 409, 500}]
    /\ contestPhase \in [Contests -> {"before", "open", "after"}]

TypeOK == DbTypeOK /\ SubmissionQueueTypeOK /\ HandlerTypeOK

HandlerInit ==
    /\ input \in [Requests -> Inputs]
    /\ pc = [r \in Requests |-> "waiting"]
    /\ sid = [r \in Requests |-> NoSubmission]
    /\ seen = [r \in Requests |-> "PENDING"]
    /\ answer = [r \in Requests |-> 0]
    /\ contestPhase = [c \in Contests |-> "before"]

Init == DbInit /\ submissionQueue = EmptyQueue /\ HandlerInit

-----------------------------------------------------------------------------
\* Mutated forms: the fingerprint forgets the contest, or the problem.
hashRequestNoContest(in) == <<in.problem, in.code, NoContest>>
hashRequestCodeOnly(in) == in.code

hashRequest(in) == <<in.problem, in.code, in.contest>>

findByIdempotencyKey(user, key) ==
    {s \in Submissions : Exists(s) /\ submissions[s].user = user
                                   /\ submissions[s].key = key}

Original(r) == IF input[r].key = NoKey THEN {}
               ELSE findByIdempotencyKey(input[r].user, input[r].key)

Goto(r, from, to) == pc[r] = from /\ pc' = [pc EXCEPT ![r] = to]

Respond(r, code) ==
    /\ pc' = [pc EXCEPT ![r] = "done"]
    /\ answer' = [answer EXCEPT ![r] = code]

Arrive(r) ==
    /\ pc[r] = "waiting"
    /\ IF input[r].key = BadKey THEN Respond(r, 400)
       ELSE /\ Goto(r, "waiting", IF input[r].contest = NoContest THEN "problem"
                                  ELSE "contest")
            /\ UNCHANGED answer
    /\ UNCHANGED <<dbVars, submissionQueue, input, sid, seen, contestPhase>>

assertContestSubmissionAllowed(contest, problem) ==
    /\ <<contest, problem>> \in ContestProblems
    /\ contestPhase[contest] = "open"

CheckContest(r) ==
    /\ pc[r] = "contest"
    /\ IF assertContestSubmissionAllowed(input[r].contest, input[r].problem)
       THEN Goto(r, "contest", "problem") /\ UNCHANGED answer
       ELSE Respond(r, 403)
    /\ UNCHANGED <<dbVars, submissionQueue, input, sid, seen, contestPhase>>

CheckProblem(r) ==
    LET state == ProblemState[input[r].problem] IN
    /\ pc[r] = "problem"
    /\ IF state = "public"
       THEN /\ Goto(r, "problem", IF input[r].key = NoKey THEN "insert" ELSE "lookup")
            /\ UNCHANGED answer
       ELSE Respond(r, CASE state = "missing"  -> 404
                         [] state = "private"  -> 403
                         [] state = "no_tests" -> 500)
    /\ UNCHANGED <<dbVars, submissionQueue, input, sid, seen, contestPhase>>

\* Mutated form: a replay never re-enqueues.
respondReplayNoHealing(r, s) ==
    /\ sid' = [sid EXCEPT ![r] = s]
    /\ seen' = [seen EXCEPT ![r] = submissions[s].status]
    /\ Respond(r, IF submissions[s].hash # hashRequest(input[r]) THEN 409 ELSE 200)

\* The key was seen before: at the look-up, or when the insert hit the unique
\* index.  Rows are never deleted, so the second look-up finds the row.
respondReplay(r, s) ==
    /\ sid' = [sid EXCEPT ![r] = s]
    /\ seen' = [seen EXCEPT ![r] = submissions[s].status]
    /\ IF submissions[s].hash # hashRequest(input[r]) THEN Respond(r, 409)
       ELSE IF submissions[s].status = "PENDING"
       THEN Goto(r, pc[r], "resend") /\ UNCHANGED answer
       ELSE Respond(r, 200)

Replay(r) ==
    /\ pc[r] \in {"lookup", "conflict"}
    /\ \E s \in Original(r) : respondReplay(r, s)
    /\ UNCHANGED <<dbVars, submissionQueue, input, contestPhase>>

NewKey(r) ==
    /\ Original(r) = {}
    /\ Goto(r, "lookup", "insert")
    /\ UNCHANGED <<dbVars, submissionQueue, input, sid, seen, answer, contestPhase>>

NewRow(in) == [user |-> in.user, problem |-> in.problem, contest |-> in.contest,
               key |-> in.key, hash |-> hashRequest(in), status |-> "PENDING"]

\* Mutated form: no unique index.
InsertNoIndex(r) ==
    /\ Goto(r, "insert", "enqueue")
    /\ \E s \in Submissions :
          /\ InsertSubmission(s, NewRow(input[r]))
          /\ sid' = [sid EXCEPT ![r] = s]
    /\ UNCHANGED <<submissionQueue, input, seen, answer, contestPhase>>

Insert(r) ==
    /\ Original(r) = {}
    /\ Goto(r, "insert", "enqueue")
    /\ \E s \in Submissions :
          /\ InsertSubmission(s, NewRow(input[r]))
          /\ sid' = [sid EXCEPT ![r] = s]
    /\ UNCHANGED <<submissionQueue, input, seen, answer, contestPhase>>

UniqueViolation(r) ==
    /\ Original(r) # {}
    /\ Goto(r, "insert", "conflict")
    /\ UNCHANGED <<dbVars, submissionQueue, input, sid, seen, answer, contestPhase>>

Publish(r) ==
    /\ pc[r] \in {"enqueue", "resend"}
    /\ CanEnqueue(sid[r]) /\ Enqueue(sid[r])
    /\ Respond(r, IF pc[r] = "enqueue" THEN 201 ELSE 200)
    /\ UNCHANGED <<dbVars, input, sid, seen, contestPhase>>

PublishFails(r) ==
    /\ pc[r] \in {"enqueue", "resend"}
    /\ EnqueueFails(sid[r])
    /\ Respond(r, 500)
    /\ UNCHANGED <<dbVars, input, sid, seen, contestPhase>>

\* A query rejects, the process dies, or the connection is lost.
Fails(r) ==
    /\ "request" \in Faults
    /\ pc[r] \in Running
    /\ Respond(r, 500)
    /\ UNCHANGED <<dbVars, submissionQueue, input, sid, seen, contestPhase>>

ContestClock(c) ==
    /\ contestPhase' = [contestPhase EXCEPT ![c] =
                           IF @ = "before" THEN "open" ELSE "after"]
    /\ contestPhase[c] # "after"
    /\ UNCHANGED <<dbVars, submissionQueue, requestVars>>

HandlerStep(r) ==
    \/ Arrive(r) \/ CheckContest(r) \/ CheckProblem(r)
    \/ Replay(r) \/ NewKey(r) \/ Insert(r) \/ UniqueViolation(r)
    \/ Publish(r) \/ PublishFails(r) \/ Fails(r)

\* The environment: some worker judges a message and its verdict is stored.
Judged(m) ==
    /\ IF IsOpen(m.body) THEN \E v \in Verdicts : UpdateStatus(m.body, v)
       ELSE UNCHANGED dbVars
    /\ submissionQueue' = Delete(submissionQueue, m.mid)
    /\ UNCHANGED handlerVars

DedupEnds(s) == SubmissionDedupEnds(s) /\ UNCHANGED <<dbVars, handlerVars>>

Next ==
    \/ \E r \in Requests : HandlerStep(r)
    \/ \E c \in Contests : ContestClock(c)
    \/ \E m \in submissionQueue.msgs : Judged(m)
    \/ \E s \in Submissions : DedupEnds(s)

Spec == Init /\ [][Next]_vars

-----------------------------------------------------------------------------
Accepted(r) == answer[r] \in {200, 201}
Queued(s)   == \E m \in submissionQueue.msgs : m.body = s

(* Whatever retries race, a key of a user names one submission.            *)
OneSubmissionPerKey ==
    \A s, t \in Submissions :
        /\ Exists(s) /\ Exists(t)
        /\ submissions[s].user = submissions[t].user
        /\ submissions[s].key = submissions[t].key
        /\ submissions[s].key # NoKey
        => s = t

(* The submission a client is given, new or replayed, is its own: made by  *)
(* this user, under this key, for this problem, code and contest.          *)
AnswerIsOwnSubmission ==
    \A r \in Requests : Accepted(r) =>
        /\ sid[r] \in Submissions /\ Exists(sid[r])
        /\ submissions[sid[r]] =
               [NewRow(input[r]) EXCEPT !.status = submissions[sid[r]].status]

(* A client told its submission was taken can rely on a verdict: the row   *)
(* has one, or a message that asks for it is stored.  A send that the      *)
(* deduplication window swallowed must not break this.                     *)
AcceptedIsQueued ==
    \A r \in Requests : Accepted(r) => Final(sid[r]) \/ Queued(sid[r])
=============================================================================
