------------------------- MODULE SubmitHandlerProofs -------------------------
(***************************************************************************)
(* Theorems about SubmitHandler: for any number of requests, retries, keys *)
(* and users, FIFO or standard queues, and whatever fails.                 *)
(*                                                                         *)
(* The argument: a request that has a submission has its own, also on the  *)
(* way to the queue; and a submission whose id SQS still remembers has a   *)
(* message or a verdict, so a send that is swallowed loses nothing.        *)
(***************************************************************************)
EXTENDS SubmitHandler, ServiceProofs

OwnRow(r) ==
    /\ sid[r] \in Submissions /\ Exists(sid[r])
    /\ submissions[sid[r]] = [NewRow(input[r]) EXCEPT !.status = submissions[sid[r]].status]

Safe(s) == Final(s) \/ Queued(s)

RequestOK(r) ==
    /\ pc[r] # "done" => answer[r] = 0
    /\ pc[r] \in Running => input[r].key # BadKey
    /\ pc[r] \in {"enqueue", "resend"} \/ Accepted(r) => OwnRow(r)
    /\ Accepted(r) => Safe(sid[r])

\* What the fingerprint says of a row; nothing stores RUNNING.
RowOK(s) == Exists(s) =>
    /\ submissions[s].hash[1] = submissions[s].problem
    /\ submissions[s].hash[3] = submissions[s].contest
    /\ submissions[s].status # "RUNNING"

QueueOK ==
    /\ Numbered(submissionQueue)
    /\ \A m \in submissionQueue.msgs : Exists(m.body)
    /\ \A s \in submissionQueue.window : Safe(s)

IInv ==
    /\ TypeOK
    /\ OneSubmissionPerKey
    /\ QueueOK
    /\ \A s \in Submissions : RowOK(s)
    /\ \A r \in Requests : RequestOK(r)

\* A row keeps everything but its status; a submission that is safe stays so.
RowsKept ==
    \A s \in Submissions : Exists(s) =>
        /\ Exists(s)'
        /\ submissions'[s] = [submissions[s] EXCEPT !.status = submissions'[s].status]

SafeKept == \A s \in Submissions : Safe(s) => Safe(s)'

-----------------------------------------------------------------------------
(* What a step of one request leaves to show.                              *)

LEMMA OtherRequest ==
    ASSUME IInv, RowsKept, SafeKept, UNCHANGED input, NEW q \in Requests,
           pc'[q] = pc[q], sid'[q] = sid[q], answer'[q] = answer[q]
    PROVE  RequestOK(q)'
<1>1. RequestOK(q)
  BY DEF IInv
<1>2. OwnRow(q) => OwnRow(q)'
  <2> SUFFICES ASSUME OwnRow(q) PROVE OwnRow(q)'
    OBVIOUS
  <2> DEFINE s == sid[q]
  <2>1. /\ s \in Submissions /\ Exists(s)' /\ sid'[q] = s
        /\ submissions'[s] = [submissions[s] EXCEPT !.status = submissions'[s].status]
        /\ submissions[s] = [NewRow(input[q]) EXCEPT !.status = submissions[s].status]
    BY DEF OwnRow, RowsKept
  <2>2. submissions'[s] = [NewRow(input[q]) EXCEPT !.status = submissions'[s].status]
    BY <2>1 DEF NewRow
  <2>3. NewRow(input[q])' = NewRow(input[q])
    BY DEF NewRow, hashRequest
  <2> QED BY <2>1, <2>2, <2>3 DEF OwnRow
<1>3. Accepted(q)' <=> Accepted(q)
  BY DEF Accepted
<1>4. Accepted(q) => Safe(sid[q])'
  BY <1>1 DEF RequestOK, OwnRow, SafeKept
<1> QED BY <1>1, <1>2, <1>3, <1>4 DEF RequestOK, Safe, Final, Queued, Exists

Alone(r) == \A q \in Requests \ {r} :
    pc'[q] = pc[q] /\ sid'[q] = sid[q] /\ answer'[q] = answer[q]

LEMMA RequestStep ==
    ASSUME IInv, NEW r \in Requests, UNCHANGED input, HandlerTypeOK', Alone(r),
           DbTypeOK', SubmissionQueueTypeOK', OneSubmissionPerKey', QueueOK',
           \A s \in Submissions : RowOK(s)', RowsKept, SafeKept, RequestOK(r)'
    PROVE  IInv'
<1>1. ASSUME NEW q \in Requests, q # r PROVE RequestOK(q)'
  <2>1. pc'[q] = pc[q] /\ sid'[q] = sid[q] /\ answer'[q] = answer[q]
    BY <1>1 DEF Alone
  <2> QED BY <2>1, OtherRequest
<1> QED BY <1>1 DEF IInv, TypeOK

(* A step that leaves tables and queue alone.                              *)
LEMMA Quiet ==
    ASSUME IInv, UNCHANGED <<dbVars, submissionQueue>>
    PROVE  /\ DbTypeOK' /\ SubmissionQueueTypeOK' /\ OneSubmissionPerKey' /\ QueueOK'
           /\ \A s \in Submissions : RowOK(s)'
           /\ RowsKept /\ SafeKept
           /\ \A s : Safe(s)' <=> Safe(s)
<1>1. UNCHANGED <<submissions, problems, userProblemStatus, submissionQueue>>
  BY DEF dbVars
<1>2. DbTypeOK' /\ SubmissionQueueTypeOK' /\ OneSubmissionPerKey'
  BY <1>1 DEF IInv, TypeOK, DbTypeOK, SubmissionQueueTypeOK, OneSubmissionPerKey, Exists
<1>3. \A s : Safe(s)' <=> Safe(s)
  BY <1>1 DEF Safe, Final, Queued, Exists
<1>4. Numbered(submissionQueue)'
  BY <1>1 DEF IInv, QueueOK
<1>5. QueueOK'
  BY <1>1, <1>3, <1>4 DEF IInv, QueueOK, Exists
<1>6. RowsKept
  <2> SUFFICES ASSUME NEW s \in Submissions, Exists(s)
               PROVE  submissions[s] = [submissions[s] EXCEPT !.status = submissions[s].status]
    BY <1>1 DEF RowsKept, Exists
  <2> QED BY DEF IInv, TypeOK, DbTypeOK, Exists, Row
<1>7. \A s \in Submissions : RowOK(s)'
  BY <1>1 DEF IInv, RowOK, Exists
<1> QED BY <1>2, <1>3, <1>5, <1>6, <1>7 DEF SafeKept

(* A request that goes on, or is refused.                                  *)
LEMMA LocalStep ==
    ASSUME IInv, NEW r \in Requests, UNCHANGED <<dbVars, submissionQueue, input, contestPhase>>,
           UNCHANGED <<sid, seen>>,
           \/ /\ pc[r] # "done" /\ UNCHANGED answer
              /\ pc[r] \in Running \/ input[r].key # BadKey
              /\ \E to \in Running \ {"enqueue", "resend"} : pc' = [pc EXCEPT ![r] = to]
           \/ \E code \in {400, 403, 404, 409, 500} : Respond(r, code)
    PROVE  IInv'
<1>1. HandlerTypeOK /\ RequestOK(r)
  BY DEF IInv, TypeOK
<1>2. ASSUME pc[r] # "done", UNCHANGED answer,
             pc[r] \in Running \/ input[r].key # BadKey,
             NEW to \in Running \ {"enqueue", "resend"}, pc' = [pc EXCEPT ![r] = to]
      PROVE  IInv'
  <2>1. answer'[r] = 0 /\ pc'[r] = to /\ Alone(r) /\ HandlerTypeOK'
    BY <1>1, <1>2 DEF RequestOK, HandlerTypeOK, Alone
  <2>2. RequestOK(r)'
    BY <1>1, <1>2, <2>1 DEF RequestOK, Accepted
  <2> QED BY <2>1, <2>2, Quiet, RequestStep
<1>3. ASSUME NEW code \in {400, 403, 404, 409, 500}, Respond(r, code) PROVE IInv'
  <2>1. pc'[r] = "done" /\ answer'[r] = code /\ Alone(r) /\ HandlerTypeOK'
    BY <1>1, <1>3 DEF Respond, HandlerTypeOK, Alone
  <2>2. RequestOK(r)'
    BY <2>1 DEF RequestOK, Accepted, Running
  <2> QED BY <2>1, <2>2, Quiet, RequestStep
<1> QED BY <1>2, <1>3

-----------------------------------------------------------------------------
(* Up to the row.                                                          *)

LEMMA ChecksInv ==
    ASSUME IInv, NEW r \in Requests,
           Arrive(r) \/ CheckContest(r) \/ CheckProblem(r) \/ NewKey(r) \/ UniqueViolation(r)
           \/ Fails(r)
    PROVE  IInv'
<1>1. CASE Arrive(r)
  BY <1>1, LocalStep DEF Arrive, Goto, Running
<1>2. CASE CheckContest(r)
  BY <1>2, LocalStep DEF CheckContest, Goto, Running
<1>3. CASE CheckProblem(r)
  <2>1. PICK state : state = ProblemState[input[r].problem]
    OBVIOUS
  <2>2. input[r].problem \in Problems
    BY HandlerAssumption DEF IInv, TypeOK, HandlerTypeOK, Input
  <2>3. state \in {"public", "missing", "private", "no_tests"}
    BY <2>1, <2>2, HandlerAssumption
  <2> QED BY <1>3, <2>1, <2>3, LocalStep DEF CheckProblem, Goto, Running
<1>4. CASE NewKey(r)
  <2>1. pc[r] = "lookup" /\ pc' = [pc EXCEPT ![r] = "insert"]
    BY <1>4 DEF NewKey, Goto
  <2>2. UNCHANGED <<dbVars, submissionQueue, input, contestPhase>> /\ UNCHANGED <<sid, seen>>
        /\ UNCHANGED answer
    BY <1>4 DEF NewKey
  <2>3. "lookup" \in Running /\ "insert" \in Running \ {"enqueue", "resend"}
    BY DEF Running
  <2>4. /\ pc[r] # "done" /\ UNCHANGED answer /\ pc[r] \in Running
        /\ \E to \in Running \ {"enqueue", "resend"} : pc' = [pc EXCEPT ![r] = to]
    BY <2>1, <2>2, <2>3
  <2> QED BY <2>2, <2>4, LocalStep, ZenonT(60)
<1>5. CASE UniqueViolation(r)
  <2>1. pc[r] = "insert" /\ pc' = [pc EXCEPT ![r] = "conflict"]
    BY <1>5 DEF UniqueViolation, Goto
  <2>2. UNCHANGED <<dbVars, submissionQueue, input, contestPhase>> /\ UNCHANGED <<sid, seen>>
        /\ UNCHANGED answer
    BY <1>5 DEF UniqueViolation
  <2>3. "insert" \in Running /\ "conflict" \in Running \ {"enqueue", "resend"}
    BY DEF Running
  <2>4. /\ pc[r] # "done" /\ UNCHANGED answer /\ pc[r] \in Running
        /\ \E to \in Running \ {"enqueue", "resend"} : pc' = [pc EXCEPT ![r] = to]
    BY <2>1, <2>2, <2>3
  <2> QED BY <2>2, <2>4, LocalStep, ZenonT(60)
<1>6. CASE Fails(r)
  BY <1>6, LocalStep DEF Fails
<1> QED BY <1>1, <1>2, <1>3, <1>4, <1>5, <1>6

(* A replay that is not refused is of the request's own submission.        *)
LEMMA ReplayInv == ASSUME IInv, NEW r \in Requests, Replay(r) PROVE IInv'
<1>1. PICK s \in Original(r) : respondReplay(r, s)
  BY DEF Replay
<1>2. /\ s \in Submissions /\ Exists(s) /\ submissions[s] \in Row
      /\ submissions[s].user = input[r].user /\ submissions[s].key = input[r].key
      /\ RowOK(s) /\ RequestOK(r)
  BY <1>1 DEF Original, findByIdempotencyKey, IInv, TypeOK, DbTypeOK, Exists
<1>3. HandlerTypeOK /\ UNCHANGED <<dbVars, submissionQueue, input, contestPhase>>
  BY DEF IInv, TypeOK, Replay
<1>4. submissions[s].status \in Open \cup Verdicts
  BY <1>2 DEF Row
<1>5. /\ sid' = [sid EXCEPT ![r] = s] /\ sid'[r] = s
      /\ seen' = [seen EXCEPT ![r] = submissions[s].status]
  BY <1>1, <1>3 DEF respondReplay, HandlerTypeOK
<1>6. submissions[s].hash = hashRequest(input[r]) =>
          submissions[s] = [NewRow(input[r]) EXCEPT !.status = submissions[s].status]
  <2> SUFFICES ASSUME submissions[s].hash = hashRequest(input[r])
               PROVE  submissions[s] = [NewRow(input[r]) EXCEPT !.status = submissions[s].status]
    OBVIOUS
  <2>1. submissions[s].problem = input[r].problem /\ submissions[s].contest = input[r].contest
    BY <1>2 DEF hashRequest, RowOK
  <2> QED BY <1>2, <2>1 DEF Row, NewRow
<1>7. submissions[s].hash = hashRequest(input[r]) => OwnRow(r)'
  BY <1>2, <1>3, <1>5, <1>6 DEF OwnRow, NewRow, hashRequest, Exists, dbVars
<1>8. CASE submissions[s].hash # hashRequest(input[r])
  <2>1. /\ pc'[r] = "done" /\ answer'[r] = 409 /\ Alone(r) /\ HandlerTypeOK'
    BY <1>1, <1>2, <1>3, <1>4, <1>5, <1>8 DEF respondReplay, Respond, HandlerTypeOK, Alone
  <2>2. RequestOK(r)'
    BY <2>1 DEF RequestOK, Accepted, Running
  <2> QED BY <1>3, <2>1, <2>2, Quiet, RequestStep
<1>9. CASE submissions[s].hash = hashRequest(input[r]) /\ submissions[s].status = "PENDING"
  <2>1. /\ pc'[r] = "resend" /\ answer'[r] = answer[r] /\ Alone(r) /\ HandlerTypeOK'
        /\ pc[r] # "done" /\ pc[r] \in Running
    BY <1>1, <1>2, <1>3, <1>4, <1>5, <1>9 DEF respondReplay, Goto, Replay, HandlerTypeOK, Alone, Running
  <2>2. RequestOK(r)'
    BY <1>2, <1>3, <1>7, <1>9, <2>1 DEF RequestOK, Accepted
  <2> QED BY <1>3, <2>1, <2>2, Quiet, RequestStep
<1>10. CASE submissions[s].hash = hashRequest(input[r]) /\ submissions[s].status # "PENDING"
  <2>1. /\ pc'[r] = "done" /\ answer'[r] = 200 /\ Alone(r) /\ HandlerTypeOK'
    BY <1>1, <1>2, <1>3, <1>4, <1>5, <1>10 DEF respondReplay, Respond, HandlerTypeOK, Alone
  <2>2. Final(s)
    BY <1>2, <1>4, <1>10 DEF Final, RowOK, Open
  <2>3. Safe(sid[r])'
    BY <1>3, <1>5, <2>2 DEF Safe, Final, Exists, dbVars
  <2>4. RequestOK(r)'
    BY <1>7, <1>10, <2>1, <2>3 DEF RequestOK, Accepted, Running
  <2> QED BY <1>3, <2>1, <2>4, Quiet, RequestStep
<1> QED BY <1>8, <1>9, <1>10

(* The row a request inserts is its own, and the key had none.             *)
LEMMA InsertInv == ASSUME IInv, NEW r \in Requests, Insert(r) PROVE IInv'
<1>1. PICK s \in Submissions :
          InsertSubmission(s, NewRow(input[r])) /\ sid' = [sid EXCEPT ![r] = s]
  BY DEF Insert
<1> DEFINE row == NewRow(input[r])
<1>2. /\ HandlerTypeOK /\ DbTypeOK /\ RequestOK(r) /\ input[r] \in Input /\ Original(r) = {}
      /\ pc[r] = "insert" /\ pc' = [pc EXCEPT ![r] = "enqueue"]
      /\ UNCHANGED <<submissionQueue, input, seen, answer, contestPhase>>
  BY HandlerAssumption DEF IInv, TypeOK, HandlerTypeOK, Insert, Goto
<1>3. row \in Row /\ row.status = "PENDING" /\ row.user = input[r].user /\ row.key = input[r].key
      /\ row.hash[1] = row.problem /\ row.hash[3] = row.contest
  BY <1>2 DEF Input, RequestOK, Running, NewRow, hashRequest, Row, Hashes, Open
<1>4. DbTypeOK' /\ RowsGrow /\ Exists(s)' /\ submissions'[s] = row
  BY <1>1, <1>2, <1>3, InsertOK
<1>5. ~ Exists(s) /\ \A t \in Submissions : t # s => submissions'[t] = submissions[t]
  BY <1>1, <1>2 DEF InsertSubmission, DbTypeOK
<1>6. RowsKept
  <2> SUFFICES ASSUME NEW t \in Submissions, Exists(t)
               PROVE  submissions[t] = [submissions[t] EXCEPT !.status = submissions[t].status]
    BY <1>5 DEF RowsKept, Exists
  <2> QED BY <1>2 DEF DbTypeOK, Exists, Row
<1>7. SafeKept
  BY <1>2, <1>4 DEF SafeKept, Safe, RowsGrow, Queued
<1>8. /\ submissionQueue \in QueueType(Users, Submissions, Submissions)
      /\ submissionQueue' = submissionQueue /\ QueueOK
  BY <1>2 DEF IInv, TypeOK, SubmissionQueueTypeOK
<1>9. /\ \A m \in submissionQueue.msgs : m.body \in Submissions
      /\ submissionQueue.window \subseteq Submissions
  BY <1>8 DEF QueueType, Message
<1>10. Numbered(submissionQueue)'
  BY <1>8 DEF QueueOK
<1>11. QueueOK'
  BY <1>4, <1>7, <1>8, <1>9, <1>10 DEF QueueOK, RowsGrow, SafeKept
<1>12. \A t \in Submissions : RowOK(t)'
  BY <1>3, <1>4, <1>5 DEF IInv, RowOK, Exists
<1>13. OneSubmissionPerKey'
  <2>1. \A t \in Submissions : Exists(t) /\ row.key # NoKey =>
            submissions[t].user # row.user \/ submissions[t].key # row.key
    BY <1>2, <1>3 DEF Original, findByIdempotencyKey
  <2> HIDE DEF row
  <2> QED BY <1>4, <1>5, <2>1 DEF IInv, OneSubmissionPerKey, Exists
<1>14. /\ pc'[r] = "enqueue" /\ answer'[r] = 0 /\ sid'[r] = s /\ Alone(r) /\ HandlerTypeOK'
  BY <1>1, <1>2 DEF HandlerTypeOK, Alone, RequestOK, Running
<1>15. row = [row EXCEPT !.status = row.status] /\ NewRow(input'[r]) = row
  BY <1>2, <1>3 DEF Row
<1>16. RequestOK(r)'
  <2> HIDE DEF row
  <2>1. OwnRow(r)'
    BY <1>4, <1>14, <1>15 DEF OwnRow, NewRow, hashRequest
  <2>2. input'[r].key # BadKey
    BY <1>2 DEF RequestOK, Running
  <2> QED BY <1>14, <2>1, <2>2 DEF RequestOK, Accepted
<1>17. SubmissionQueueTypeOK'
  BY <1>8 DEF SubmissionQueueTypeOK
<1> QED BY <1>2, <1>4, <1>6, <1>7, <1>11, <1>12, <1>13, <1>14, <1>16, <1>17, RequestStep

-----------------------------------------------------------------------------
(* The queue.                                                              *)

(* A send that is swallowed was for a submission that is safe already.     *)
LEMMA EnqueueOK ==
    ASSUME IInv, NEW s \in Submissions, Exists(s), CanEnqueue(s), Enqueue(s), UNCHANGED dbVars
    PROVE  SubmissionQueueTypeOK' /\ QueueOK' /\ SafeKept /\ Safe(s)'
<1> DEFINE q == submissionQueue
<1>1. /\ q \in QueueType(Users, Submissions, Submissions) /\ QueueOK /\ Numbered(q)
      /\ submissions[s].user \in Users /\ UNCHANGED submissions
  BY DEF IInv, TypeOK, SubmissionQueueTypeOK, DbTypeOK, Exists, Row, QueueOK, dbVars
<1>2. q' = Send(q, submissions[s].user, s, s) /\ CanSend(q, s)
  BY DEF Enqueue, CanEnqueue
<1>3. /\ q' \in QueueType(Users, Submissions, Submissions) /\ Numbered(q')
      /\ q.msgs \subseteq q'.msgs
      /\ \A m \in q'.msgs : m \in q.msgs \/ m.body = s
      /\ q'.window \subseteq q.window \cup {s}
      /\ Duplicate(q, s) => q' = q
      /\ ~ Duplicate(q, s) => \E m \in q'.msgs : m.body = s
  BY <1>1, <1>2, SendOK
<1>4. \A t : Safe(t) => Safe(t)'
  BY <1>1, <1>3 DEF Safe, Final, Exists, Queued
<1>5. Safe(s)'
  <2>1. CASE Duplicate(q, s)
    BY <1>1, <1>4, <2>1 DEF Duplicate, QueueOK
  <2>2. CASE ~ Duplicate(q, s)
    BY <1>3, <2>2 DEF Safe, Queued
  <2> QED BY <2>1, <2>2
<1>6. QueueOK'
  BY <1>1, <1>3, <1>4, <1>5 DEF QueueOK, Exists
<1> QED BY <1>3, <1>4, <1>5, <1>6 DEF SubmissionQueueTypeOK, SafeKept

LEMMA SendInv ==
    ASSUME IInv, NEW r \in Requests, pc[r] \in {"enqueue", "resend"},
           CanEnqueue(sid[r]), Enqueue(sid[r]),
           NEW code \in {200, 201, 500}, Respond(r, code),
           UNCHANGED <<dbVars, input, sid, seen, contestPhase>>
    PROVE  IInv'
<1>1. HandlerTypeOK /\ OwnRow(r) /\ sid[r] \in Submissions /\ Exists(sid[r])
  BY DEF IInv, TypeOK, RequestOK, OwnRow
<1> PICK s \in Submissions : s = sid[r]
  BY <1>1
<1>2. SubmissionQueueTypeOK' /\ QueueOK' /\ SafeKept /\ Safe(s)'
  BY <1>1, EnqueueOK
<1>3. UNCHANGED <<submissions, problems, userProblemStatus>>
  BY DEF dbVars
<1>4. DbTypeOK' /\ OneSubmissionPerKey' /\ \A t \in Submissions : RowOK(t)'
  BY <1>3 DEF IInv, TypeOK, DbTypeOK, OneSubmissionPerKey, RowOK, Exists
<1>5. RowsKept
  <2> SUFFICES ASSUME NEW t \in Submissions, Exists(t)
               PROVE  submissions[t] = [submissions[t] EXCEPT !.status = submissions[t].status]
    BY <1>3 DEF RowsKept, Exists
  <2> QED BY DEF IInv, TypeOK, DbTypeOK, Exists, Row
<1>6. /\ pc'[r] = "done" /\ answer'[r] = code /\ sid'[r] = sid[r] /\ Alone(r) /\ HandlerTypeOK'
  BY <1>1 DEF Respond, HandlerTypeOK, Alone
<1>7. OwnRow(r)'
  BY <1>1, <1>3 DEF OwnRow, NewRow, hashRequest, Exists
<1>8. Safe(sid[r])'
  BY <1>2, <1>6 DEF Safe, Final, Exists, Queued
<1>9. RequestOK(r)'
  BY <1>6, <1>7, <1>8 DEF RequestOK, Accepted, Running
<1> QED BY <1>2, <1>4, <1>5, <1>6, <1>9, RequestStep

LEMMA PublishInv ==
    ASSUME IInv, NEW r \in Requests, Publish(r) \/ PublishFails(r)
    PROVE  IInv'
<1>1. CASE Publish(r)
  <2>1. PICK code \in {200, 201, 500} : Respond(r, code)
    BY <1>1 DEF Publish
  <2>2. /\ pc[r] \in {"enqueue", "resend"} /\ CanEnqueue(sid[r]) /\ Enqueue(sid[r])
        /\ UNCHANGED <<dbVars, input, sid, seen, contestPhase>>
    BY <1>1 DEF Publish
  <2> QED BY <2>1, <2>2, SendInv
<1>2. CASE PublishFails(r)
  <2>1. /\ pc[r] \in {"enqueue", "resend"} /\ Respond(r, 500)
        /\ UNCHANGED <<dbVars, input, sid, seen, contestPhase>>
    BY <1>2 DEF PublishFails
  <2>2. CASE UNCHANGED submissionQueue
    BY <2>1, <2>2, LocalStep
  <2>3. CASE CanEnqueue(sid[r]) /\ Enqueue(sid[r])
    BY <2>1, <2>3, SendInv
  <2> QED BY <1>2, <2>2, <2>3 DEF PublishFails, EnqueueFails
<1> QED BY <1>1, <1>2

-----------------------------------------------------------------------------
(* The judge, the deduplication window and the clock.                      *)

LEMMA EnvironmentStep ==
    ASSUME IInv, UNCHANGED requestVars, HandlerTypeOK',
           DbTypeOK', SubmissionQueueTypeOK', OneSubmissionPerKey', QueueOK',
           \A s \in Submissions : RowOK(s)', RowsKept, SafeKept
    PROVE  IInv'
<1>1. \A r \in Requests : RequestOK(r)'
  BY OtherRequest DEF requestVars
<1> QED BY <1>1 DEF IInv, TypeOK

(* A verdict is stored and its message deleted.                            *)
LEMMA JudgedInv == ASSUME IInv, NEW m \in submissionQueue.msgs, Judged(m) PROVE IInv'
<1> DEFINE q == submissionQueue
           s == m.body
<1>1. /\ q \in QueueType(Users, Submissions, Submissions) /\ QueueOK /\ Numbered(q) /\ DbTypeOK
      /\ q' = Delete(q, m.mid) /\ UNCHANGED handlerVars
  BY DEF IInv, TypeOK, SubmissionQueueTypeOK, QueueOK, Judged
<1>2. s \in Submissions /\ Exists(s)
  BY <1>1 DEF QueueType, Message, QueueOK
<1>3. PICK body \in Submissions, mid \in {m.mid} : body = s /\ mid = m.mid
  BY <1>2
<1>4. /\ q' \in QueueType(Users, Submissions, Submissions) /\ Numbered(q')
      /\ q'.msgs = {n \in q.msgs : n.mid # mid} /\ q'.window = q.window
  BY <1>1, <1>3, DeleteOK
<1>5. \A n \in q.msgs : n.mid = mid => n = m
  BY <1>1, <1>3 DEF Numbered
<1>6. submissions[body] \in Row /\ RowOK(body) /\ Exists(body)
  BY <1>1, <1>2, <1>3 DEF IInv, DbTypeOK, Exists
<1>7. /\ DbTypeOK' /\ RowsGrow /\ Final(body)'
      /\ \A t \in Submissions : t # body => submissions'[t] = submissions[t]
      /\ submissions'[body] = [submissions[body] EXCEPT !.status = submissions'[body].status]
      /\ submissions'[body].status # "RUNNING"
  <2>1. CASE IsOpen(body)
    <3>1. PICK v \in Verdicts : UpdateStatus(body, v)
      BY <1>3, <2>1 DEF Judged
    <3>2. /\ DbTypeOK' /\ RowsGrow /\ Final(body)'
          /\ submissions' = [submissions EXCEPT ![body] = [@ EXCEPT !.status = v]]
      BY <1>1, <1>6, <3>1, UpdateOK
    <3>3. /\ submissions'[body] = [submissions[body] EXCEPT !.status = v]
          /\ \A t \in Submissions : t # body => submissions'[t] = submissions[t]
      BY <1>1, <3>2 DEF DbTypeOK
    <3>4. submissions'[body].status = v /\ v # "RUNNING"
      BY <1>6, <3>3, DbAssumption DEF Row, Open
    <3> QED BY <3>2, <3>3, <3>4
  <2>2. CASE ~ IsOpen(body)
    <3>1. UNCHANGED <<submissions, problems, userProblemStatus>>
      BY <1>3, <2>2 DEF Judged, dbVars
    <3>2. Final(body)
      BY <1>6, <2>2 DEF IsOpen, Final, Row
    <3>3. DbTypeOK' /\ RowsGrow /\ Final(body)'
      BY <1>1, <3>1, <3>2 DEF DbTypeOK, RowsGrow, Final, Exists, IsOpen
    <3>4. submissions[body] = [submissions[body] EXCEPT !.status = submissions[body].status]
      BY <1>6 DEF Row
    <3> QED BY <1>6, <3>1, <3>3, <3>4 DEF RowOK
  <2> QED BY <2>1, <2>2
<1>8. RowsKept
  <2> SUFFICES ASSUME NEW t \in Submissions, Exists(t), t # body
               PROVE  submissions[t] = [submissions[t] EXCEPT !.status = submissions[t].status]
    BY <1>6, <1>7 DEF RowsKept, Exists, RowsGrow
  <2> QED BY <1>1 DEF DbTypeOK, Exists, Row
<1>9. ASSUME NEW t \in Submissions, Safe(t) PROVE Safe(t)'
  <2>1. CASE t = body
    BY <1>7, <2>1 DEF Safe
  <2>2. CASE t # body /\ Final(t)
    BY <1>7, <2>2 DEF Safe, RowsGrow
  <2>3. CASE t # body /\ Queued(t)
    BY <1>3, <1>4, <1>5, <2>3 DEF Safe, Queued
  <2> QED BY <1>9, <2>1, <2>2, <2>3 DEF Safe
<1>10. /\ \A n \in q.msgs : n.body \in Submissions
       /\ q.window \subseteq Submissions
  BY <1>1 DEF QueueType, Message
<1>11. QueueOK'
  BY <1>1, <1>4, <1>7, <1>9, <1>10 DEF QueueOK, RowsGrow
<1>12. ASSUME NEW t \in Submissions PROVE RowOK(t)'
  <2>1. CASE t = body
    BY <1>6, <1>7, <2>1 DEF RowOK, Row
  <2>2. CASE t # body
    BY <1>7, <2>2 DEF IInv, RowOK, Exists
  <2> QED BY <2>1, <2>2
<1>13. ASSUME NEW t \in Submissions, Exists(t)'
       PROVE  /\ Exists(t)
              /\ submissions'[t].user = submissions[t].user
              /\ submissions'[t].key = submissions[t].key
  BY <1>1, <1>6, <1>7, <1>13 DEF Exists, DbTypeOK, Row
<1>14. OneSubmissionPerKey'
  <2> SUFFICES ASSUME NEW t \in Submissions, NEW n \in Submissions, Exists(t)', Exists(n)',
                      submissions'[t].user = submissions'[n].user,
                      submissions'[t].key = submissions'[n].key, submissions'[t].key # NoKey
               PROVE  t = n
    BY DEF OneSubmissionPerKey
  <2>1. /\ Exists(t) /\ Exists(n)
        /\ submissions[t].user = submissions[n].user
        /\ submissions[t].key = submissions[n].key /\ submissions[t].key # NoKey
    BY <1>13 DEF Exists
  <2>2. OneSubmissionPerKey
    BY DEF IInv
  <2> QED BY <2>1, <2>2 DEF OneSubmissionPerKey
<1>15. UNCHANGED requestVars /\ HandlerTypeOK'
  BY <1>1 DEF handlerVars, requestVars, IInv, TypeOK, HandlerTypeOK
<1>16. SubmissionQueueTypeOK'
  BY <1>4 DEF SubmissionQueueTypeOK
<1> QED BY <1>7, <1>8, <1>9, <1>11, <1>12, <1>14, <1>15, <1>16, EnvironmentStep DEF SafeKept

LEMMA DedupEndsInv == ASSUME IInv, NEW s \in Submissions, DedupEnds(s) PROVE IInv'
<1> DEFINE q == submissionQueue
<1>1. /\ q \in QueueType(Users, Submissions, Submissions) /\ QueueOK /\ Numbered(q)
      /\ q' = Forget(q, s)
      /\ UNCHANGED <<submissions, problems, userProblemStatus, handlerVars>>
  BY DEF IInv, TypeOK, SubmissionQueueTypeOK, QueueOK, DedupEnds, SubmissionDedupEnds, dbVars
<1>2. /\ q' \in QueueType(Users, Submissions, Submissions) /\ Numbered(q')
      /\ q'.msgs = q.msgs /\ q'.window = q.window \ {s}
  BY <1>1, ForgetOK
<1>3. \A t : Safe(t)' <=> Safe(t)
  BY <1>1, <1>2 DEF Safe, Final, Exists, Queued
<1>4. QueueOK'
  BY <1>1, <1>2, <1>3 DEF QueueOK, Exists
<1>5. /\ DbTypeOK' /\ OneSubmissionPerKey' /\ \A t \in Submissions : RowOK(t)'
  BY <1>1 DEF IInv, TypeOK, DbTypeOK, OneSubmissionPerKey, RowOK, Exists
<1>6. RowsKept
  <2> SUFFICES ASSUME NEW t \in Submissions, Exists(t)
               PROVE  submissions[t] = [submissions[t] EXCEPT !.status = submissions[t].status]
    BY <1>1 DEF RowsKept, Exists
  <2> QED BY DEF IInv, TypeOK, DbTypeOK, Exists, Row
<1>7. UNCHANGED requestVars /\ HandlerTypeOK'
  BY <1>1 DEF handlerVars, requestVars, IInv, TypeOK, HandlerTypeOK
<1> QED BY <1>2, <1>3, <1>4, <1>5, <1>6, <1>7, EnvironmentStep DEF SubmissionQueueTypeOK, SafeKept

LEMMA ContestClockInv == ASSUME IInv, NEW c \in Contests, ContestClock(c) PROVE IInv'
<1>1. UNCHANGED requestVars /\ HandlerTypeOK' /\ UNCHANGED <<dbVars, submissionQueue>>
  BY DEF ContestClock, requestVars, IInv, TypeOK, HandlerTypeOK
<1> QED BY <1>1, Quiet, EnvironmentStep

-----------------------------------------------------------------------------
(* The invariant, and what it says of the answers.                         *)

LEMMA InitInv == Init => IInv
<1> SUFFICES ASSUME Init PROVE IInv
  OBVIOUS
<1>1. DbTypeOK /\ \A s \in Submissions : ~ Exists(s)
  BY DbInitOK DEF Init, DbInit, Exists
<1>2. SubmissionQueueTypeOK /\ Numbered(submissionQueue) /\ submissionQueue.msgs = {}
      /\ submissionQueue.window = {}
  BY EmptyQueueOK DEF Init, SubmissionQueueTypeOK, EmptyQueue
<1>3. HandlerTypeOK
  BY DEF Init, HandlerInit, HandlerTypeOK, Open
<1>4. \A r \in Requests : RequestOK(r)
  BY DEF Init, HandlerInit, RequestOK, Accepted, Running
<1> QED BY <1>1, <1>2, <1>3, <1>4 DEF IInv, TypeOK, OneSubmissionPerKey, QueueOK, RowOK

LEMMA NextInv == IInv /\ [Next]_vars => IInv'
<1> SUFFICES ASSUME IInv, [Next]_vars PROVE IInv'
  OBVIOUS
<1>1. CASE UNCHANGED vars
  <2>1. UNCHANGED requestVars /\ HandlerTypeOK' /\ UNCHANGED <<dbVars, submissionQueue>>
    BY <1>1 DEF vars, handlerVars, requestVars, IInv, TypeOK, HandlerTypeOK
  <2> QED BY <2>1, Quiet, EnvironmentStep
<1>2. ASSUME NEW r \in Requests, HandlerStep(r) PROVE IInv'
  BY <1>2, ChecksInv, ReplayInv, InsertInv, PublishInv DEF HandlerStep
<1>3. CASE \E c \in Contests : ContestClock(c)
  BY <1>3, ContestClockInv
<1>4. CASE \E m \in submissionQueue.msgs : Judged(m)
  <2>1. PICK m \in submissionQueue.msgs : Judged(m)
    BY <1>4
  <2> QED BY <2>1, JudgedInv
<1>5. CASE \E s \in Submissions : DedupEnds(s)
  BY <1>5, DedupEndsInv
<1> QED BY <1>1, <1>2, <1>3, <1>4, <1>5 DEF Next

LEMMA AlwaysIInv == Spec => []IInv
BY InitInv, NextInv, PTL DEF Spec

(* Tables, queue and requests keep their types (TypeOK of SubmitHandler).  *)
THEOREM HandlerTypes == Spec => []TypeOK
<1>1. IInv => TypeOK
  BY DEF IInv
<1> QED BY <1>1, AlwaysIInv, PTL

(* However many requests race with one key, it names one submission        *)
(* (submission.controller.js, the look-up and the unique index).           *)
THEOREM KeyNamesOne == Spec => []OneSubmissionPerKey
<1>1. IInv => OneSubmissionPerKey
  BY DEF IInv
<1> QED BY <1>1, AlwaysIInv, PTL

(* A 200 or 201 is about the submission of this request: its user, key,    *)
(* problem, code and contest (respondReplay and hashRequest).              *)
THEOREM AnswersOwn == Spec => []AnswerIsOwnSubmission
<1>1. IInv => AnswerIsOwnSubmission
  BY DEF IInv, RequestOK, OwnRow, AnswerIsOwnSubmission
<1> QED BY <1>1, AlwaysIInv, PTL

(* An accepted submission has a verdict or a message that asks for one,    *)
(* whatever sends failed or were swallowed before (enqueue).               *)
THEOREM AcceptedAreQueued == Spec => []AcceptedIsQueued
<1>1. IInv => AcceptedIsQueued
  BY DEF IInv, RequestOK, Safe, AcceptedIsQueued
<1> QED BY <1>1, AlwaysIInv, PTL
=============================================================================
