----------------------- MODULE SubmissionSystemProofs -----------------------
(***************************************************************************)
(* The judging system implements the lifecycle of a submission, for every  *)
(* number of submissions, slots, consumers, batches and requests.          *)
(*                                                                         *)
(* 1. VerdictPipeline, every set of failures, FIFO or standard queues.  A  *)
(*    slot deletes a submission message only when a result for it is       *)
(*    queued or its verdict is stored; a consumer deletes a result only    *)
(*    when the verdict is stored.  Both need that a message number names   *)
(*    one message for ever, so that a late delete cannot hit another one,  *)
(*    and that a deduplication id still remembered means the earlier       *)
(*    result is still queued or was stored, so that a swallowed send loses *)
(*    nothing.                                                             *)
(*                                                                         *)
(* 2. The pipeline implements the lifecycle.  The trigger alone keeps      *)
(*    JudgedCountedOnce, whatever the queues and the failures are.  The    *)
(*    rest needs the FIFO result queue and consumers that are never slower *)
(*    than its visibility timeout: then a result that is held is in        *)
(*    flight, its group is locked, so one consumer at a time handles a     *)
(*    submission, and what it read before an await still holds after it.   *)
(*                                                                         *)
(* 3. The lifecycle itself: what a client may conclude from the promise.   *)
(*                                                                         *)
(* 4. The system.  The backend's handler takes the place of the            *)
(*    environment that VerdictPipeline assumes: each of its steps inserts  *)
(*    a row, sends the message of a row that exists, or touches nothing    *)
(*    the pipeline sees.  So what is proved of the pipeline holds of the   *)
(*    system, and a submission a client was told is taken is never lost.   *)
(*                                                                         *)
(* 5. What the handler promises.  Its keys and its answers hold next to a  *)
(*    pipeline that may store a verdict between any two of its awaits, and *)
(*    the verdict a retry was told is the one that stays.                  *)
(***************************************************************************)
EXTENDS SubmissionSystem, ServiceProofs

-----------------------------------------------------------------------------
(* 1. The pipeline.                                                        *)

QueuesOK ==
    /\ Numbered(submissionQueue)
    /\ Numbered(resultQueue)
    /\ \A m \in submissionQueue.msgs : Exists(m.body)
    /\ \A m \in resultQueue.msgs : Exists(m.body.sid)
    /\ Fifo => \A s \in resultQueue.window : Reported(s) \/ Final(s)

WorkerOK(w) ==
    worker[w].pc # "polling" =>
        /\ worker[w].sid \in Submissions
        /\ Exists(worker[w].sid)
        /\ worker[w].mid <= submissionQueue.sent
        /\ \A m \in submissionQueue.msgs : m.mid = worker[w].mid => m.body = worker[w].sid
        /\ worker[w].pc \in {"publishing", "deleting"} => worker[w].verdict \in Verdicts
        /\ worker[w].pc = "deleting" => Reported(worker[w].sid) \/ Final(worker[w].sid)

HeldOK(m) ==
    /\ Exists(m.body.sid)
    /\ m.mid <= resultQueue.sent
    /\ \A n \in resultQueue.msgs : n.mid = m.mid => n = m

ConsumerOK(c) ==
    /\ \A m \in Held(c) : HeldOK(m)
    /\ consumer[c].pc # "polling" => consumer[c].msg # NoMessage
    /\ consumer[c].pc \in {"publishing", "scoring", "deleting"} => Final(Current(c).sid)

IInv ==
    /\ TypeOK
    /\ QueuesOK
    /\ \A w \in Workers : WorkerOK(w)
    /\ \A c \in Consumers : ConsumerOK(c)

-----------------------------------------------------------------------------
(* What every step leaves to those who do not take it.                     *)

SubmissionsNumbered ==
    /\ \A m \in submissionQueue'.msgs :
          m \in submissionQueue.msgs \/ m.mid > submissionQueue.sent
    /\ submissionQueue.sent <= submissionQueue'.sent

ResultsNumbered ==
    /\ \A m \in resultQueue'.msgs : m \in resultQueue.msgs \/ m.mid > resultQueue.sent
    /\ resultQueue.sent <= resultQueue'.sent

ReportsKept == \A s \in Submissions : Reported(s) => Reported(s)' \/ Final(s)'

(* A slot that takes no step keeps its part of the invariant.              *)
LEMMA WorkerKept ==
    ASSUME IInv, TypeOK', RowsGrow, SubmissionsNumbered, ReportsKept,
           NEW w \in Workers, worker'[w] = worker[w]
    PROVE  WorkerOK(w)'
<1> SUFFICES ASSUME worker'[w].pc # "polling"
             PROVE  WorkerOK(w)'
  BY DEF WorkerOK
<1>1. WorkerOK(w) /\ worker[w].pc # "polling"
  BY DEF IInv
<1>2. worker[w] \in WorkerType
  BY DEF IInv, TypeOK, PipelineTypeOK
<1>3. submissionQueue.sent \in Nat /\ submissionQueue'.sent \in Nat /\ worker[w].mid \in Nat
  BY <1>2, QueueAssumption DEF IInv, TypeOK, SubmissionQueueTypeOK, QueueType, WorkerType
<1>4. worker[w].sid \in Submissions /\ Exists(worker[w].sid)'
  BY <1>1 DEF WorkerOK, RowsGrow
<1>5. worker[w].mid <= submissionQueue'.sent
  BY <1>1, <1>3 DEF WorkerOK, SubmissionsNumbered
<1>6. ASSUME NEW m \in submissionQueue'.msgs, m.mid = worker[w].mid
      PROVE  m.body = worker[w].sid
  BY <1>1, <1>3, <1>6 DEF WorkerOK, SubmissionsNumbered
<1>7. worker[w].pc = "deleting" => Reported(worker[w].sid)' \/ Final(worker[w].sid)'
  BY <1>1 DEF WorkerOK, RowsGrow, ReportsKept
<1> QED BY <1>1, <1>4, <1>5, <1>6, <1>7 DEF WorkerOK

(* A held message keeps its number and its row.                            *)
LEMMA HeldKept ==
    ASSUME IInv, TypeOK', RowsGrow, ResultsNumbered,
           NEW m \in ResultMessages, HeldOK(m)
    PROVE  HeldOK(m)'
<1>1. resultQueue.sent \in Nat /\ resultQueue'.sent \in Nat /\ m.mid \in Nat
  BY QueueAssumption DEF IInv, TypeOK, PipelineTypeOK, QueueType, ResultMessages, Message
<1>2. m.body.sid \in Submissions
  BY DEF ResultMessages, Message, Results
<1>3. ASSUME NEW n \in resultQueue'.msgs, n.mid = m.mid PROVE n = m
  BY <1>1, <1>3 DEF HeldOK, ResultsNumbered
<1> QED BY <1>1, <1>2, <1>3 DEF HeldOK, ResultsNumbered, RowsGrow

(* What a consumer holds are result messages.                              *)
LEMMA HeldType ==
    ASSUME TypeOK, NEW c \in Consumers
    PROVE  Held(c) \subseteq ResultMessages
BY DEF TypeOK, PipelineTypeOK, ConsumerType, Held

(* A consumer that takes no step keeps its part of the invariant.          *)
LEMMA ConsumerKept ==
    ASSUME IInv, TypeOK', RowsGrow, ResultsNumbered,
           NEW c \in Consumers, consumer'[c] = consumer[c]
    PROVE  ConsumerOK(c)'
<1>1. ConsumerOK(c)
  BY DEF IInv
<1>2. consumer[c] \in ConsumerType
  BY DEF IInv, TypeOK, PipelineTypeOK
<1>3. \A m \in Held(c) : HeldOK(m)'
  BY <1>1, HeldType, HeldKept DEF ConsumerOK, IInv
<1>4. Held(c)' = Held(c)
  BY DEF Held
<1>5. consumer[c].pc # "polling" => consumer[c].msg \in ResultMessages
  BY <1>1, <1>2 DEF ConsumerOK, ConsumerType
<1>6. consumer[c].pc \in {"publishing", "scoring", "deleting"} => Final(Current(c).sid)'
  BY <1>1, <1>5 DEF ConsumerOK, Current, RowsGrow, ResultMessages, Message, Results
<1> QED BY <1>1, <1>3, <1>4, <1>6 DEF ConsumerOK, Current

MessagesKept ==
    \A s \in Submissions :
        Queued(s) \/ Reported(s) => Queued(s)' \/ Reported(s)' \/ Final(s)'

\* All that one step owes to the rest of the system.
StepOK ==
    /\ TypeOK' /\ RowsGrow /\ QueuesOK'
    /\ SubmissionsNumbered /\ ResultsNumbered
    /\ ReportsKept /\ MessagesKept

SameSubmissions == submissionQueue'.msgs = submissionQueue.msgs
                   /\ submissionQueue'.sent = submissionQueue.sent
SameResults == resultQueue'.msgs = resultQueue.msgs /\ resultQueue'.sent = resultQueue.sent

(* A step that stores, removes and sends no message.                       *)
LEMMA QuietStep ==
    ASSUME IInv, TypeOK', RowsGrow, SameSubmissions, SameResults,
           resultQueue'.window \subseteq resultQueue.window
    PROVE  StepOK
<1>1. \A s \in Submissions : (Queued(s)' <=> Queued(s)) /\ (Reported(s)' <=> Reported(s))
  BY DEF SameSubmissions, SameResults, Queued, Reported
<1>2. /\ submissionQueue.msgs \subseteq Message(Users, Submissions, Submissions)
      /\ resultQueue.msgs \subseteq ResultMessages
      /\ submissionQueue.sent \in Nat /\ resultQueue.sent \in Nat
      /\ resultQueue.window \subseteq Submissions
  BY QueueAssumption
     DEF IInv, TypeOK, SubmissionQueueTypeOK, PipelineTypeOK, QueueType, ResultMessages
<1>3. \A m \in submissionQueue.msgs : m.body \in Submissions
  BY <1>2 DEF Message
<1>4. \A m \in resultQueue.msgs : m.body.sid \in Submissions
  BY <1>2 DEF ResultMessages, Message, Results
<1>5. Numbered(submissionQueue)' /\ Numbered(resultQueue)'
  BY DEF IInv, QueuesOK, Numbered, SameSubmissions, SameResults
<1>6. (\A m \in submissionQueue.msgs : Exists(m.body))'
  BY <1>3 DEF IInv, QueuesOK, SameSubmissions, RowsGrow
<1>7. (\A m \in resultQueue.msgs : Exists(m.body.sid))'
  BY <1>4 DEF IInv, QueuesOK, SameResults, RowsGrow
<1>8. (Fifo => \A s \in resultQueue.window : Reported(s) \/ Final(s))'
  BY <1>1, <1>2 DEF IInv, QueuesOK, RowsGrow
<1>9. QueuesOK'
  BY <1>5, <1>6, <1>7, <1>8 DEF QueuesOK
<1>10. SubmissionsNumbered /\ ResultsNumbered
  BY <1>2 DEF SubmissionsNumbered, ResultsNumbered, SameSubmissions, SameResults
<1> QED BY <1>1, <1>9, <1>10 DEF StepOK, ReportsKept, MessagesKept

(* The rows of an unchanged database.                                      *)
LEMMA SameRows == ASSUME DbTypeOK, UNCHANGED dbVars PROVE DbTypeOK' /\ RowsGrow
BY DEF dbVars, DbTypeOK, RowsGrow, Exists, Final, IsOpen

(* Once the actor's own part is shown, a step of a slot keeps it all.      *)
LEMMA WorkerStepOK ==
    ASSUME IInv, StepOK, NEW w \in Workers, NEW state,
           worker' = [worker EXCEPT ![w] = state], UNCHANGED consumerVars,
           WorkerOK(w)'
    PROVE  IInv'
<1>1. ASSUME NEW v \in Workers PROVE WorkerOK(v)'
  <2>1. CASE v = w
    BY <2>1
  <2>2. CASE v # w
    <3>1. worker'[v] = worker[v]
      BY <2>2 DEF IInv, TypeOK, PipelineTypeOK
    <3> QED BY <3>1, WorkerKept DEF StepOK
  <2> QED BY <2>1, <2>2
<1>2. ASSUME NEW c \in Consumers PROVE ConsumerOK(c)'
  <2>1. consumer'[c] = consumer[c]
    BY DEF consumerVars
  <2> QED BY <2>1, ConsumerKept DEF StepOK
<1> QED BY <1>1, <1>2 DEF IInv, StepOK

(* The same for a step of a consumer.                                      *)
LEMMA ConsumerStepOK ==
    ASSUME IInv, StepOK, NEW c \in Consumers, NEW state,
           consumer' = [consumer EXCEPT ![c] = state], UNCHANGED worker,
           ConsumerOK(c)'
    PROVE  IInv'
<1>1. ASSUME NEW w \in Workers PROVE WorkerOK(w)'
  <2>1. worker'[w] = worker[w]
    OBVIOUS
  <2> QED BY <2>1, WorkerKept DEF StepOK
<1>2. ASSUME NEW d \in Consumers PROVE ConsumerOK(d)'
  <2>1. CASE d = c
    BY <2>1
  <2>2. CASE d # c
    <3>1. consumer'[d] = consumer[d]
      BY <2>2 DEF IInv, TypeOK, PipelineTypeOK
    <3> QED BY <3>1, ConsumerKept DEF StepOK
  <2> QED BY <2>1, <2>2
<1> QED BY <1>1, <1>2 DEF IInv, StepOK

(* The same for a step of SQS or the backend.                              *)
LEMMA QueueStepOK ==
    ASSUME IInv, StepOK, UNCHANGED <<worker, consumer>>
    PROVE  IInv'
<1>1. ASSUME NEW w \in Workers PROVE WorkerOK(w)'
  <2>1. worker'[w] = worker[w]
    OBVIOUS
  <2> QED BY <2>1, WorkerKept DEF StepOK
<1>2. ASSUME NEW d \in Consumers PROVE ConsumerOK(d)'
  <2>1. consumer'[d] = consumer[d]
    OBVIOUS
  <2> QED BY <2>1, ConsumerKept DEF StepOK
<1> QED BY <1>1, <1>2 DEF IInv, StepOK

-----------------------------------------------------------------------------
(* The slots of the judge workers.                                         *)

(* The type invariant of the parts a step leaves alone.                    *)
LEMMA WorkerType1 ==
    ASSUME IInv, NEW w \in Workers, NEW state \in WorkerType,
           worker' = [worker EXCEPT ![w] = state], UNCHANGED <<dbVars, consumerVars>>,
           SubmissionQueueTypeOK',
           resultQueue' \in QueueType(Submissions, Submissions, Results)
    PROVE  TypeOK' /\ RowsGrow
<1>1. DbTypeOK' /\ RowsGrow
  BY SameRows DEF IInv, TypeOK
<1>2. PipelineTypeOK'
  BY DEF IInv, TypeOK, PipelineTypeOK, consumerVars
<1> QED BY <1>1, <1>2 DEF TypeOK

LEMMA IdleWorkerType == IdleWorker \in WorkerType /\ IdleWorker.pc = "polling"
BY QueueAssumption DEF IdleWorker, WorkerType

(* A step inside a slot, with no message sent or removed.                  *)
LEMMA LocalWorkerStep ==
    ASSUME IInv, NEW w \in Workers, NEW state \in WorkerType,
           worker' = [worker EXCEPT ![w] = state],
           UNCHANGED <<dbVars, submissionQueue, resultQueue, consumerVars>>,
           \/ state.pc = "polling"
           \/ /\ worker[w].pc = "judging" /\ state.pc = "publishing"
              /\ state.mid = worker[w].mid /\ state.sid = worker[w].sid
              /\ state.verdict \in Verdicts
    PROVE  IInv' /\ StepOK
<1>1. TypeOK' /\ RowsGrow
  BY WorkerType1 DEF IInv, TypeOK, SubmissionQueueTypeOK, PipelineTypeOK
<1>2. StepOK
  BY <1>1, QuietStep DEF SameSubmissions, SameResults
<1>3. worker'[w] = state
  BY DEF IInv, TypeOK, PipelineTypeOK
<1>4. WorkerOK(w)'
  <2>1. CASE state.pc = "polling"
    BY <1>3, <2>1 DEF WorkerOK
  <2>2. CASE /\ worker[w].pc = "judging" /\ state.pc = "publishing"
             /\ state.mid = worker[w].mid /\ state.sid = worker[w].sid
             /\ state.verdict \in Verdicts
    <3>1. WorkerOK(w)
      BY DEF IInv
    <3>2. Exists(worker[w].sid)'
      BY <2>2, <3>1, <1>1 DEF WorkerOK, RowsGrow
    <3> QED BY <1>3, <2>2, <3>1, <3>2 DEF WorkerOK
  <2> QED BY <2>1, <2>2
<1> QED BY <1>2, <1>4, WorkerStepOK

LEMMA JudgeRunOK ==
    ASSUME IInv, NEW w \in Workers, JudgeRun(w)
    PROVE  IInv' /\ StepOK
<1>1. PICK v \in Verdicts :
          worker' = [worker EXCEPT ![w].pc = "publishing", ![w].verdict = v]
  BY DEF JudgeRun
<1> DEFINE state == [worker[w] EXCEPT !.pc = "publishing", !.verdict = v]
<1>2. worker[w] \in WorkerType /\ worker[w].pc = "judging"
  BY DEF IInv, TypeOK, PipelineTypeOK, JudgeRun
<1>3. /\ state \in WorkerType /\ state.pc = "publishing" /\ state.mid = worker[w].mid
      /\ state.sid = worker[w].sid /\ state.verdict = v
  BY <1>2 DEF WorkerType
<1>4. worker' = [worker EXCEPT ![w] = state]
  BY <1>1, <1>2 DEF WorkerType
<1> QED BY <1>2, <1>3, <1>4, LocalWorkerStep DEF JudgeRun

LEMMA ToIdleOK ==
    ASSUME IInv, NEW w \in Workers, ToIdle(w),
           UNCHANGED <<dbVars, submissionQueue, resultQueue, consumerVars>>
    PROVE  IInv' /\ StepOK
BY IdleWorkerType, LocalWorkerStep DEF ToIdle

LEMMA ReceiveSubmissionOK ==
    ASSUME IInv, NEW w \in Workers, ReceiveSubmission(w)
    PROVE  IInv' /\ StepOK
<1>1. PICK m \in submissionQueue.msgs :
          /\ submissionQueue' = Receive(submissionQueue, {m})
          /\ worker' = [worker EXCEPT ![w] =
                 [pc |-> "judging", mid |-> m.mid, sid |-> m.body, verdict |-> "PENDING"]]
  BY DEF ReceiveSubmission
<1> DEFINE state == [pc |-> "judging", mid |-> m.mid, sid |-> m.body, verdict |-> "PENDING"]
<1>2. submissionQueue \in QueueType(Users, Submissions, Submissions) /\ Numbered(submissionQueue)
  BY DEF IInv, TypeOK, SubmissionQueueTypeOK, QueuesOK
<1>3. /\ submissionQueue' \in QueueType(Users, Submissions, Submissions)
      /\ SameSubmissions
  BY <1>1, <1>2, ReceiveOK DEF SameSubmissions
<1>4. m.mid \in 1..MaxSends /\ m.body \in Submissions
  BY <1>2 DEF QueueType, Message
<1>5. state \in WorkerType
  BY <1>4, QueueAssumption DEF WorkerType
<1>6. UNCHANGED <<dbVars, resultQueue, consumerVars>>
  BY DEF ReceiveSubmission
<1>7. TypeOK' /\ RowsGrow
  BY <1>1, <1>3, <1>5, <1>6, WorkerType1 DEF IInv, TypeOK, SubmissionQueueTypeOK, PipelineTypeOK
<1>8. StepOK
  BY <1>3, <1>6, <1>7, QuietStep DEF SameResults
<1>9. worker'[w] = state
  BY <1>1 DEF IInv, TypeOK, PipelineTypeOK
<1>10. Exists(m.body)'
  BY <1>4, <1>7 DEF IInv, QueuesOK, RowsGrow
<1>11. m.mid <= submissionQueue'.sent /\ \A n \in submissionQueue'.msgs : n.mid = m.mid => n = m
  BY <1>2, <1>3 DEF Numbered, SameSubmissions
<1>12. WorkerOK(w)'
  BY <1>4, <1>9, <1>10, <1>11 DEF WorkerOK
<1> QED BY <1>1, <1>6, <1>8, <1>12, WorkerStepOK

(* Sending a result: the queue then holds one for the submission, unless   *)
(* SQS swallowed it, and then the earlier one is queued or was stored.     *)
LEMMA SendResultOK ==
    ASSUME IInv, NEW w \in Workers, worker[w].pc = "publishing", publishResult(w),
           NEW s \in Submissions, s = worker[w].sid
    PROVE  /\ resultQueue' \in QueueType(Submissions, Submissions, Results)
           /\ Numbered(resultQueue)'
           /\ ResultsNumbered
           /\ \A t \in Submissions : Reported(t) => Reported(t)'
           /\ Reported(s)' \/ Final(s)
           /\ \A m \in resultQueue'.msgs : m \in resultQueue.msgs \/ m.body.sid = s
           /\ resultQueue'.window \subseteq resultQueue.window \cup {s}
<1>1. PICK b \in Results : b = [sid |-> s, status |-> worker[w].verdict]
  BY DEF IInv, WorkerOK, Results
<1>2. resultQueue \in QueueType(Submissions, Submissions, Results) /\ Numbered(resultQueue)
  BY DEF IInv, TypeOK, PipelineTypeOK, QueuesOK
<1>3. CanSend(resultQueue, s) /\ resultQueue' = Send(resultQueue, s, s, b)
  BY <1>1 DEF publishResult
<1>4. b.sid = s
  BY <1>1
<1>5. /\ resultQueue' \in QueueType(Submissions, Submissions, Results)
      /\ Numbered(resultQueue')
      /\ resultQueue.msgs \subseteq resultQueue'.msgs
      /\ \A m \in resultQueue'.msgs :
            m \in resultQueue.msgs \/ (m.mid > resultQueue.sent /\ m.group = s /\ m.body = b)
      /\ resultQueue.sent <= resultQueue'.sent
      /\ resultQueue'.window \subseteq resultQueue.window \cup {s}
      /\ Duplicate(resultQueue, s) => resultQueue' = resultQueue
      /\ ~ Duplicate(resultQueue, s) => \E m \in resultQueue'.msgs : m.body = b
  BY <1>2, <1>3, SendOK
<1>6. \A t \in Submissions : Reported(t) => Reported(t)'
  BY <1>5 DEF Reported
<1>7. Reported(s)' \/ Final(s)
  <2>1. CASE Duplicate(resultQueue, s)
    <3>1. Reported(s) \/ Final(s)
      BY <2>1 DEF IInv, QueuesOK, Duplicate
    <3> QED BY <1>6, <3>1
  <2>2. CASE ~ Duplicate(resultQueue, s)
    BY <1>4, <1>5, <2>2 DEF Reported
  <2> QED BY <2>1, <2>2
<1> QED BY <1>4, <1>5, <1>6, <1>7 DEF ResultsNumbered, Numbered

(* A slot that sends its result, then deletes or gives the message up.     *)
LEMMA SendResultStep ==
    ASSUME IInv, NEW w \in Workers, NEW state \in WorkerType,
           worker[w].pc = "publishing", publishResult(w),
           worker' = [worker EXCEPT ![w] = state],
           UNCHANGED <<dbVars, submissionQueue, consumerVars>>,
           \/ state.pc = "polling"
           \/ state = [worker[w] EXCEPT !.pc = "deleting"]
    PROVE  IInv' /\ StepOK
<1>1. WorkerOK(w) /\ worker[w] \in WorkerType
  BY DEF IInv, TypeOK, PipelineTypeOK
<1>2. PICK s \in Submissions : s = worker[w].sid /\ Exists(s)
  BY <1>1 DEF WorkerOK
<1>3. /\ resultQueue' \in QueueType(Submissions, Submissions, Results)
      /\ Numbered(resultQueue)'
      /\ ResultsNumbered
      /\ \A t \in Submissions : Reported(t) => Reported(t)'
      /\ Reported(s)' \/ Final(s)
      /\ \A m \in resultQueue'.msgs : m \in resultQueue.msgs \/ m.body.sid = s
      /\ resultQueue'.window \subseteq resultQueue.window \cup {s}
  BY <1>2, SendResultOK
<1>4. TypeOK' /\ RowsGrow
  BY <1>3, WorkerType1 DEF IInv, TypeOK, SubmissionQueueTypeOK
<1>5. \A t \in Submissions : (Exists(t)' <=> Exists(t)) /\ (Final(t)' <=> Final(t))
  BY DEF dbVars, Exists, Final
<1>6. \A t \in Submissions : Queued(t)' <=> Queued(t)
  BY DEF Queued
<1>7. SubmissionsNumbered
  BY QueueAssumption
     DEF SubmissionsNumbered, IInv, TypeOK, SubmissionQueueTypeOK, QueueType
<1>8. QueuesOK'
  <2>1. Numbered(submissionQueue)'
    BY DEF IInv, QueuesOK
  <2>2. (\A m \in submissionQueue.msgs : Exists(m.body))'
    BY DEF IInv, QueuesOK, Exists, dbVars
  <2>3. (\A m \in resultQueue.msgs : Exists(m.body.sid))'
    BY <1>2, <1>3 DEF IInv, QueuesOK, Exists, dbVars
  <2>4. (Fifo => \A t \in resultQueue.window : Reported(t) \/ Final(t))'
    <3> SUFFICES ASSUME Fifo, NEW t \in resultQueue'.window
                 PROVE  Reported(t)' \/ Final(t)'
      OBVIOUS
    <3>1. CASE t = s
      BY <3>1, <1>2, <1>3, <1>5
    <3>2. CASE t \in resultQueue.window
      <4>1. t \in Submissions
        BY <3>2 DEF IInv, TypeOK, PipelineTypeOK, QueueType
      <4> QED BY <3>2, <4>1, <1>3, <1>5 DEF IInv, QueuesOK
    <3> QED BY <3>1, <3>2, <1>3
  <2> QED BY <1>3, <2>1, <2>2, <2>3, <2>4 DEF QueuesOK
<1>9. StepOK
  BY <1>3, <1>4, <1>6, <1>7, <1>8 DEF StepOK, ReportsKept, MessagesKept
<1>10. worker'[w] = state
  BY DEF IInv, TypeOK, PipelineTypeOK
<1>11. WorkerOK(w)'
  <2>1. CASE state.pc = "polling"
    BY <1>10, <2>1 DEF WorkerOK
  <2>2. CASE state = [worker[w] EXCEPT !.pc = "deleting"]
    <3>1. /\ state.pc = "deleting" /\ state.sid = s
          /\ state.mid = worker[w].mid /\ state.verdict = worker[w].verdict
      BY <1>1, <1>2, <2>2 DEF WorkerType
    <3>2. worker[w].verdict \in Verdicts
      BY <1>1 DEF WorkerOK
    <3>3. Exists(s)' /\ (Reported(s)' \/ Final(s)')
      BY <1>2, <1>3, <1>5
    <3> QED BY <1>1, <1>2, <1>10, <3>1, <3>2, <3>3 DEF WorkerOK
  <2> QED BY <2>1, <2>2
<1> QED BY <1>9, <1>11, WorkerStepOK

LEMMA PublishResultOK ==
    ASSUME IInv, NEW w \in Workers, PublishResult(w)
    PROVE  IInv' /\ StepOK
<1> DEFINE state == [worker[w] EXCEPT !.pc = "deleting"]
<1>1. worker[w] \in WorkerType
  BY DEF IInv, TypeOK, PipelineTypeOK
<1>2. state \in WorkerType
  BY <1>1 DEF WorkerType
<1>3. worker' = [worker EXCEPT ![w] = state]
  BY DEF PublishResult
<1> QED BY <1>2, <1>3, SendResultStep DEF PublishResult

LEMMA PublishResultFailsOK ==
    ASSUME IInv, NEW w \in Workers, PublishResultFails(w)
    PROVE  IInv' /\ StepOK
<1>1. CASE UNCHANGED resultQueue
  BY <1>1, ToIdleOK DEF PublishResultFails
<1>2. CASE publishResult(w)
  BY <1>2, IdleWorkerType, SendResultStep DEF PublishResultFails, ToIdle
<1> QED BY <1>1, <1>2 DEF PublishResultFails

(* The delete of a judged message: its result is queued or stored, so the  *)
(* submission keeps a message or has its verdict.                          *)
LEMMA DeleteSubmissionOK ==
    ASSUME IInv, NEW w \in Workers, DeleteSubmission(w)
    PROVE  IInv' /\ StepOK
<1>1. WorkerOK(w) /\ worker[w].pc = "deleting"
  BY DEF IInv, DeleteSubmission
<1>2. submissionQueue \in QueueType(Users, Submissions, Submissions) /\ Numbered(submissionQueue)
  BY DEF IInv, TypeOK, SubmissionQueueTypeOK, QueuesOK
<1>3. /\ submissionQueue' \in QueueType(Users, Submissions, Submissions)
      /\ Numbered(submissionQueue)'
      /\ submissionQueue'.msgs = {m \in submissionQueue.msgs : m.mid # worker[w].mid}
      /\ submissionQueue'.sent = submissionQueue.sent
  BY <1>2, DeleteOK DEF DeleteSubmission
<1>4. UNCHANGED <<dbVars, resultQueue, consumerVars>>
      /\ worker' = [worker EXCEPT ![w] = IdleWorker]
  BY DEF DeleteSubmission, ToIdle
<1>5. TypeOK' /\ RowsGrow
  BY <1>3, <1>4, IdleWorkerType, WorkerType1
     DEF IInv, TypeOK, SubmissionQueueTypeOK, PipelineTypeOK
<1>6. \A t \in Submissions :
          /\ Exists(t)' <=> Exists(t)
          /\ Final(t)' <=> Final(t)
          /\ Reported(t)' <=> Reported(t)
  BY <1>4 DEF dbVars, Exists, Final, Reported
<1>7. \A t \in Submissions : Queued(t) => Queued(t)' \/ Reported(t)' \/ Final(t)'
  <2> SUFFICES ASSUME NEW t \in Submissions, NEW m \in submissionQueue.msgs, m.body = t
               PROVE  Queued(t)' \/ Reported(t)' \/ Final(t)'
    BY DEF Queued
  <2>1. CASE m.mid # worker[w].mid
    BY <2>1, <1>3 DEF Queued
  <2>2. CASE m.mid = worker[w].mid
    <3>1. t = worker[w].sid
      BY <2>2, <1>1 DEF WorkerOK
    <3>2. Reported(t) \/ Final(t)
      BY <3>1, <1>1 DEF WorkerOK
    <3> QED BY <3>2, <1>6
  <2> QED BY <2>1, <2>2
<1>8. SubmissionsNumbered /\ ResultsNumbered
  BY <1>3, <1>4, QueueAssumption
     DEF SubmissionsNumbered, ResultsNumbered, IInv, TypeOK, SubmissionQueueTypeOK,
         PipelineTypeOK, QueueType
<1>9. QueuesOK'
  <2>1. Numbered(resultQueue)'
    BY <1>4 DEF IInv, QueuesOK
  <2>2. (\A m \in submissionQueue.msgs : Exists(m.body))'
    BY <1>3, <1>4 DEF IInv, QueuesOK, Exists, dbVars
  <2>3. (\A m \in resultQueue.msgs : Exists(m.body.sid))'
    BY <1>4 DEF IInv, QueuesOK, Exists, dbVars
  <2>4. (Fifo => \A t \in resultQueue.window : Reported(t) \/ Final(t))'
    BY <1>4 DEF IInv, QueuesOK, Reported, Final, Exists, dbVars
  <2> QED BY <1>3, <2>1, <2>2, <2>3, <2>4 DEF QueuesOK
<1>10. StepOK
  BY <1>5, <1>6, <1>7, <1>8, <1>9 DEF StepOK, ReportsKept, MessagesKept
<1>11. WorkerOK(w)'
  BY <1>4, IdleWorkerType DEF WorkerOK, IInv, TypeOK, PipelineTypeOK
<1> QED BY <1>4, <1>10, <1>11, WorkerStepOK

LEMMA WorkerStepInv ==
    ASSUME IInv, NEW w \in Workers, WorkerStep(w)
    PROVE  IInv' /\ StepOK
<1>1. CASE ReceiveSubmission(w) BY <1>1, ReceiveSubmissionOK
<1>2. CASE JudgeRun(w) BY <1>2, JudgeRunOK
<1>3. CASE JudgeFails(w) BY <1>3, ToIdleOK DEF JudgeFails
<1>4. CASE PublishResult(w) BY <1>4, PublishResultOK
<1>5. CASE PublishResultFails(w) BY <1>5, PublishResultFailsOK
<1>6. CASE DeleteSubmission(w) BY <1>6, DeleteSubmissionOK
<1>7. CASE DeleteSubmissionFails(w) BY <1>7, ToIdleOK DEF DeleteSubmissionFails
<1>8. CASE CrashWorker(w) BY <1>8, ToIdleOK DEF CrashWorker
<1> QED BY <1>1, <1>2, <1>3, <1>4, <1>5, <1>6, <1>7, <1>8 DEF WorkerStep
-----------------------------------------------------------------------------
(* The results consumers.                                                  *)

(* What a consumer must show of the state it moves to: it handles only     *)
(* messages it held or just received, and has a stored verdict for the one *)
(* it publishes, scores or deletes.                                        *)
LEMMA ConsumerMoves ==
    ASSUME IInv, StepOK, UNCHANGED worker,
           NEW c \in Consumers, NEW state \in ConsumerType,
           consumer' = [consumer EXCEPT ![c] = state],
           \A m \in state.batch \cup ({state.msg} \ {NoMessage}) :
               m \in Held(c) \/ HeldOK(m)',
           state.pc # "polling" => state.msg # NoMessage,
           state.pc \in {"publishing", "scoring", "deleting"} =>
               Final(state.msg.body.sid)'
    PROVE  IInv' /\ StepOK
<1>1. consumer'[c] = state
  BY DEF IInv, TypeOK, PipelineTypeOK
<1>2. Held(c)' = state.batch \cup ({state.msg} \ {NoMessage})
  BY <1>1 DEF Held
<1>3. ASSUME NEW m \in Held(c)' PROVE HeldOK(m)'
  <2>1. CASE m \in Held(c)
    <3>1. HeldOK(m) /\ m \in ResultMessages
      BY <2>1, HeldType DEF IInv, ConsumerOK
    <3> QED BY <3>1, HeldKept DEF StepOK
  <2>2. CASE HeldOK(m)'
    BY <2>2
  <2> QED BY <1>2, <2>1, <2>2
<1>4. ConsumerOK(c)'
  BY <1>1, <1>3 DEF ConsumerOK, Current
<1> QED BY <1>4, ConsumerStepOK

(* A step of a consumer that leaves both queues alone.                     *)
LEMMA LocalConsumerStep ==
    ASSUME IInv, UNCHANGED <<workerVars, resultQueue>>, DbTypeOK', RowsGrow,
           announced' \in [Submissions -> SUBSET Verdicts],
           scored' \in [Submissions -> Nat],
           NEW c \in Consumers, NEW state \in ConsumerType,
           consumer' = [consumer EXCEPT ![c] = state],
           state.batch \subseteq Held(c),
           state.msg \in Held(c) \cup {NoMessage},
           state.pc # "polling" => state.msg # NoMessage,
           state.pc \in {"publishing", "scoring", "deleting"} =>
               Final(state.msg.body.sid)'
    PROVE  IInv' /\ StepOK
<1>1. TypeOK'
  BY DEF IInv, TypeOK, PipelineTypeOK, SubmissionQueueTypeOK, workerVars
<1>2. StepOK
  BY <1>1, QuietStep DEF SameSubmissions, SameResults, workerVars
<1>3. \A m \in state.batch \cup ({state.msg} \ {NoMessage}) : m \in Held(c)
  OBVIOUS
<1> QED BY <1>2, <1>3, ConsumerMoves DEF workerVars

(* The message a consumer handles is held, and has a submission and a      *)
(* verdict of the right type.                                              *)
LEMMA CurrentType ==
    ASSUME IInv, NEW c \in Consumers, consumer[c].pc # "polling"
    PROVE  /\ consumer[c].msg \in Held(c) /\ consumer[c].msg \in ResultMessages
           /\ Current(c).sid \in Submissions /\ Current(c).status \in Verdicts
           /\ Exists(Current(c).sid) /\ HeldOK(consumer[c].msg)
<1>1. ConsumerOK(c) /\ consumer[c] \in ConsumerType
  BY DEF IInv, TypeOK, PipelineTypeOK
<1>2. consumer[c].msg \in Held(c) /\ consumer[c].msg \in ResultMessages
  BY <1>1 DEF ConsumerOK, ConsumerType, Held
<1>3. Current(c) \in Results
  BY <1>2 DEF ResultMessages, Message, Current
<1> QED BY <1>1, <1>2, <1>3 DEF Results, ConsumerOK, HeldOK, Current

(* The handled message leaves the consumer.                                *)
LEMMA NextMessageOK ==
    ASSUME IInv, NEW c \in Consumers, NextMessage(c),
           UNCHANGED <<workerVars, resultQueue, announced, scored>>,
           DbTypeOK', RowsGrow
    PROVE  IInv' /\ StepOK
<1>1. consumer[c] \in ConsumerType
  BY DEF IInv, TypeOK, PipelineTypeOK
<1> DEFINE state == [consumer[c] EXCEPT !.pc = "polling", !.msg = NoMessage]
<1>2. consumer' = [consumer EXCEPT ![c] = state]
  BY <1>1 DEF NextMessage, ConsumerType
<1>3. /\ state \in ConsumerType /\ state.batch = consumer[c].batch
      /\ state.msg = NoMessage /\ state.pc = "polling"
  BY <1>1 DEF ConsumerType
<1>4. announced' \in [Submissions -> SUBSET Verdicts] /\ scored' \in [Submissions -> Nat]
  BY DEF IInv, TypeOK, PipelineTypeOK
<1> QED BY <1>2, <1>3, <1>4, LocalConsumerStep DEF Held

(* The handled message goes one step further.                              *)
LEMMA BecomeOK ==
    ASSUME IInv, NEW c \in Consumers, consumer[c].pc # "polling",
           NEW next \in {"publishing", "scoring", "deleting"}, Become(c, next),
           NEW id, id = Current(c).sid, Final(id)',
           UNCHANGED <<workerVars, resultQueue>>, DbTypeOK', RowsGrow,
           announced' \in [Submissions -> SUBSET Verdicts],
           scored' \in [Submissions -> Nat]
    PROVE  IInv' /\ StepOK
<1>1. consumer[c] \in ConsumerType
  BY DEF IInv, TypeOK, PipelineTypeOK
<1>2. PICK state : state = [pc |-> next, batch |-> consumer[c].batch, msg |-> consumer[c].msg]
  OBVIOUS
<1>3. consumer' = [consumer EXCEPT ![c] = state]
  <2>1. consumer' = [consumer EXCEPT ![c] = [consumer[c] EXCEPT !.pc = next]]
    BY DEF Become
  <2>2. [consumer[c] EXCEPT !.pc = next] = state
    BY <1>1, <1>2 DEF ConsumerType
  <2> QED BY <2>1, <2>2
<1>4. /\ state \in ConsumerType /\ state.batch \subseteq Held(c)
      /\ state.msg \in Held(c) /\ state.msg # NoMessage
      /\ state.msg.body.sid = id
  BY <1>1, <1>2, CurrentType, PipelineAssumption DEF ConsumerType, Held, Current
<1>5. Final(state.msg.body.sid)'
  BY <1>4
<1> QED BY <1>3, <1>4, <1>5, LocalConsumerStep

LEMMA CheckRowOK ==
    ASSUME IInv, NEW c \in Consumers, CheckRow(c)
    PROVE  IInv' /\ StepOK
<1>1. PICK m \in Heads(consumer[c].batch) :
          consumer' = [consumer EXCEPT ![c] =
              [pc    |-> IF IsOpen(m.body.sid) THEN "updating" ELSE "deleting",
               batch |-> @.batch \ {m}, msg |-> m]]
  BY DEF CheckRow
<1>2. consumer[c] \in ConsumerType /\ ConsumerOK(c) /\ DbTypeOK
  BY DEF IInv, TypeOK, PipelineTypeOK
<1>3. PICK state : state = [pc    |-> IF IsOpen(m.body.sid) THEN "updating" ELSE "deleting",
                            batch |-> consumer[c].batch \ {m}, msg |-> m]
  OBVIOUS
<1>4. m \in consumer[c].batch
  BY DEF Heads
<1>5. m \in Held(c) /\ m \in ResultMessages /\ m # NoMessage
  BY <1>2, <1>4, PipelineAssumption DEF Held, ConsumerType
<1>6. m.body.sid \in Submissions /\ Exists(m.body.sid)
  BY <1>2, <1>5 DEF ConsumerOK, HeldOK, ResultMessages, Message, Results
<1>7. state \in ConsumerType /\ state.batch \subseteq Held(c) /\ state.msg = m
  BY <1>2, <1>3, <1>5 DEF ConsumerType, Held
<1>8. state.pc \in {"publishing", "scoring", "deleting"} => Final(m.body.sid)
  BY <1>2, <1>3, <1>6, NoRowAssumption DEF IsOpen, Exists, Final, DbTypeOK, Row
<1>9. UNCHANGED <<dbVars, workerVars, resultQueue, announced, scored>>
  BY DEF CheckRow
<1>10. DbTypeOK' /\ RowsGrow
  BY <1>2, <1>9, SameRows
<1>11. announced' \in [Submissions -> SUBSET Verdicts] /\ scored' \in [Submissions -> Nat]
  BY <1>9 DEF IInv, TypeOK, PipelineTypeOK
<1>12. state.pc \in {"publishing", "scoring", "deleting"} => Final(state.msg.body.sid)'
  BY <1>6, <1>7, <1>8, <1>10 DEF RowsGrow
<1>13. consumer' = [consumer EXCEPT ![c] = state]
  BY <1>1, <1>3
<1> QED BY <1>5, <1>7, <1>9, <1>10, <1>11, <1>12, <1>13, LocalConsumerStep

LEMMA CheckRowFailsOK ==
    ASSUME IInv, NEW c \in Consumers, CheckRowFails(c)
    PROVE  IInv' /\ StepOK
<1>1. PICK m \in Heads(consumer[c].batch) :
          consumer' = [consumer EXCEPT ![c].batch = @ \ {m}]
  BY DEF CheckRowFails
<1> DEFINE state == [consumer[c] EXCEPT !.batch = @ \ {m}]
<1>2. consumer[c] \in ConsumerType /\ consumer[c].pc = "polling"
  BY DEF IInv, TypeOK, PipelineTypeOK, CheckRowFails
<1>3. /\ state \in ConsumerType /\ state.batch \subseteq consumer[c].batch
      /\ state.msg = consumer[c].msg /\ state.pc = "polling"
  BY <1>2 DEF ConsumerType
<1>4. consumer' = [consumer EXCEPT ![c] = state]
  BY <1>1
<1>5. UNCHANGED <<dbVars, workerVars, resultQueue, announced, scored>>
  BY DEF CheckRowFails
<1>6. DbTypeOK' /\ RowsGrow
  BY <1>5, SameRows DEF IInv, TypeOK
<1>7. announced' \in [Submissions -> SUBSET Verdicts] /\ scored' \in [Submissions -> Nat]
  BY <1>5 DEF IInv, TypeOK, PipelineTypeOK
<1>8. state.batch \subseteq Held(c) /\ state.msg \in Held(c) \cup {NoMessage}
  BY <1>3 DEF Held
<1> QED BY <1>3, <1>4, <1>5, <1>6, <1>7, <1>8, LocalConsumerStep

(* What the UPDATE of a consumer does to the tables.                       *)
LEMMA ConsumerUpdateOK ==
    ASSUME IInv, NEW c \in Consumers, consumer[c].pc = "updating",
           UpdateStatus(Current(c).sid, Current(c).status)
    PROVE  DbTypeOK' /\ RowsGrow /\ \E id : id = Current(c).sid /\ Final(id)'
<1>1. PICK id \in Submissions, v \in Verdicts :
          id = Current(c).sid /\ v = Current(c).status /\ Exists(id)
  BY CurrentType
<1>2. DbTypeOK /\ UpdateStatus(id, v)
  BY <1>1 DEF IInv, TypeOK
<1> QED BY <1>1, <1>2, UpdateOK

LEMMA UpdateRowOK ==
    ASSUME IInv, NEW c \in Consumers, UpdateRow(c)
    PROVE  IInv' /\ StepOK
<1>1. PICK id : id = Current(c).sid /\ Final(id)'
  BY ConsumerUpdateOK DEF UpdateRow
<1>2. DbTypeOK' /\ RowsGrow
  BY ConsumerUpdateOK DEF UpdateRow
<1>3. announced' \in [Submissions -> SUBSET Verdicts] /\ scored' \in [Submissions -> Nat]
  BY DEF UpdateRow, IInv, TypeOK, PipelineTypeOK
<1> QED BY <1>1, <1>2, <1>3, BecomeOK DEF UpdateRow

LEMMA UpdateRowFailsOK ==
    ASSUME IInv, NEW c \in Consumers, UpdateRowFails(c)
    PROVE  IInv' /\ StepOK
<1>1. DbTypeOK' /\ RowsGrow
  <2>1. CASE UNCHANGED dbVars
    BY <2>1, SameRows DEF IInv, TypeOK
  <2>2. CASE UpdateStatus(Current(c).sid, Current(c).status)
    BY <2>2, ConsumerUpdateOK DEF UpdateRowFails
  <2> QED BY <2>1, <2>2 DEF UpdateRowFails
<1> QED BY <1>1, NextMessageOK DEF UpdateRowFails

(* The verdict of the handled message stays stored while nothing is        *)
(* written.                                                                *)
LEMMA CurrentStaysFinal ==
    ASSUME IInv, NEW c \in Consumers, UNCHANGED dbVars,
           consumer[c].pc \in {"publishing", "scoring", "deleting"}
    PROVE  /\ DbTypeOK' /\ RowsGrow
           /\ \E id : id = Current(c).sid /\ Final(id)'
<1>1. PICK id \in Submissions : id = Current(c).sid
  BY CurrentType
<1>2. Final(id)
  BY <1>1 DEF IInv, ConsumerOK
<1>3. DbTypeOK' /\ RowsGrow
  BY SameRows DEF IInv, TypeOK
<1> QED BY <1>1, <1>2, <1>3 DEF RowsGrow

LEMMA PublishVerdictOK ==
    ASSUME IInv, NEW c \in Consumers, PublishVerdict(c)
    PROVE  IInv' /\ StepOK
<1>1. UNCHANGED <<dbVars, workerVars, resultQueue, scored>> /\ consumer[c].pc = "publishing"
  BY DEF PublishVerdict
<1>2. PICK id : id = Current(c).sid /\ Final(id)'
  BY <1>1, CurrentStaysFinal
<1>3. DbTypeOK' /\ RowsGrow
  BY <1>1, CurrentStaysFinal
<1>4. announced' = [announced EXCEPT ![id] = @ \cup {Current(c).status}]
  BY <1>2 DEF PublishVerdict
<1>5. id \in Submissions /\ Current(c).status \in Verdicts
  BY <1>1, <1>2, CurrentType
<1>6. announced' \in [Submissions -> SUBSET Verdicts]
  BY <1>4, <1>5 DEF IInv, TypeOK, PipelineTypeOK
<1>7. scored' \in [Submissions -> Nat]
  BY <1>1 DEF IInv, TypeOK, PipelineTypeOK
<1>8. \E next \in {"publishing", "scoring", "deleting"} : Become(c, next)
  BY DEF PublishVerdict
<1> QED BY <1>1, <1>2, <1>3, <1>6, <1>7, <1>8, BecomeOK

LEMMA UpdateContestScoreOK ==
    ASSUME IInv, NEW c \in Consumers, UpdateContestScore(c)
    PROVE  IInv' /\ StepOK
<1>1. UNCHANGED <<dbVars, workerVars, resultQueue, announced>> /\ consumer[c].pc = "scoring"
      /\ Become(c, "deleting")
  BY DEF UpdateContestScore
<1>2. PICK id : id = Current(c).sid /\ Final(id)'
  BY <1>1, CurrentStaysFinal
<1>3. DbTypeOK' /\ RowsGrow
  BY <1>1, CurrentStaysFinal
<1>4. id \in Submissions /\ scored \in [Submissions -> Nat]
  BY <1>1, <1>2, CurrentType DEF IInv, TypeOK, PipelineTypeOK
<1>5. scored' = [scored EXCEPT ![id] = @ + 1]
  BY <1>2 DEF UpdateContestScore
<1>6. scored' \in [Submissions -> Nat]
  BY <1>4, <1>5
<1>7. announced' \in [Submissions -> SUBSET Verdicts]
  BY <1>1 DEF IInv, TypeOK, PipelineTypeOK
<1> QED BY <1>1, <1>2, <1>3, <1>6, <1>7, BecomeOK

LEMMA RedisFailsOK ==
    ASSUME IInv, NEW c \in Consumers, RedisFails(c)
    PROVE  IInv' /\ StepOK
<1>1. UNCHANGED <<dbVars, workerVars, resultQueue, announced, scored>>
      /\ consumer[c].pc \in {"publishing", "scoring"} /\ Become(c, "deleting")
  BY DEF RedisFails
<1>2. PICK id : id = Current(c).sid /\ Final(id)'
  BY <1>1, CurrentStaysFinal
<1>3. DbTypeOK' /\ RowsGrow
  BY <1>1, CurrentStaysFinal
<1>4. announced' \in [Submissions -> SUBSET Verdicts] /\ scored' \in [Submissions -> Nat]
  BY <1>1 DEF IInv, TypeOK, PipelineTypeOK
<1> QED BY <1>1, <1>2, <1>3, <1>4, BecomeOK

LEMMA DeleteResultFailsOK ==
    ASSUME IInv, NEW c \in Consumers, DeleteResultFails(c)
    PROVE  IInv' /\ StepOK
<1>1. DbTypeOK' /\ RowsGrow
  BY SameRows DEF DeleteResultFails, IInv, TypeOK
<1> QED BY <1>1, NextMessageOK DEF DeleteResultFails

LEMMA CrashConsumerOK ==
    ASSUME IInv, NEW c \in Consumers, CrashConsumer(c)
    PROVE  IInv' /\ StepOK
<1>1. DbTypeOK' /\ RowsGrow
  BY SameRows DEF CrashConsumer, IInv, TypeOK
<1>2. PICK state : state = IdleConsumer
  OBVIOUS
<1>3. /\ state \in ConsumerType /\ state.batch = {}
      /\ state.msg = NoMessage /\ state.pc = "polling"
  BY <1>2 DEF IdleConsumer, ConsumerType
<1>4. announced' \in [Submissions -> SUBSET Verdicts] /\ scored' \in [Submissions -> Nat]
  BY DEF CrashConsumer, IInv, TypeOK, PipelineTypeOK
<1> QED BY <1>1, <1>2, <1>3, <1>4, LocalConsumerStep DEF CrashConsumer

LEMMA ReceiveResultsOK ==
    ASSUME IInv, NEW c \in Consumers, ReceiveResults(c)
    PROVE  IInv' /\ StepOK
<1>1. PICK batch \in SUBSET resultQueue.msgs :
          /\ resultQueue' = Receive(resultQueue, batch)
          /\ consumer' = [consumer EXCEPT ![c].batch = batch]
  BY DEF ReceiveResults
<1>2. UNCHANGED <<dbVars, workerVars, announced, scored>> /\ consumer[c] = IdleConsumer
  BY DEF ReceiveResults
<1>3. PICK state : state = [pc |-> "polling", batch |-> batch, msg |-> NoMessage]
  OBVIOUS
<1>4. consumer' = [consumer EXCEPT ![c] = state]
  <2>1. [consumer[c] EXCEPT !.batch = batch] = state
    BY <1>2, <1>3 DEF IdleConsumer
  <2>2. consumer' = [consumer EXCEPT ![c] = [consumer[c] EXCEPT !.batch = batch]]
    BY <1>1
  <2> QED BY <2>1, <2>2
<1>5. resultQueue \in QueueType(Submissions, Submissions, Results) /\ Numbered(resultQueue)
  BY DEF IInv, TypeOK, PipelineTypeOK, QueuesOK
<1>6. batch \subseteq ResultMessages
  BY <1>5 DEF QueueType, ResultMessages
<1>7. state \in ConsumerType /\ state.batch = batch /\ state.msg = NoMessage
      /\ state.pc = "polling"
  BY <1>3, <1>6 DEF ConsumerType
<1>8. /\ resultQueue' \in QueueType(Submissions, Submissions, Results)
      /\ Numbered(resultQueue') /\ SameResults
      /\ resultQueue'.window = resultQueue.window
  BY <1>1, <1>5, ReceiveOK DEF SameResults
<1>9. DbTypeOK' /\ RowsGrow
  BY <1>2, SameRows DEF IInv, TypeOK
<1>10. PipelineTypeOK'
  BY <1>2, <1>4, <1>7, <1>8 DEF IInv, TypeOK, PipelineTypeOK, workerVars
<1>11. TypeOK'
  BY <1>2, <1>9, <1>10 DEF IInv, TypeOK, SubmissionQueueTypeOK, workerVars
<1>12. StepOK
  BY <1>2, <1>8, <1>9, <1>11, QuietStep DEF SameSubmissions, workerVars
<1>13. ASSUME NEW m \in batch PROVE HeldOK(m)'
  <2>1. m.body.sid \in Submissions /\ Exists(m.body.sid)
    BY <1>6 DEF IInv, QueuesOK, ResultMessages, Message, Results
  <2>2. m.mid <= resultQueue.sent /\ \A n \in resultQueue.msgs : n.mid = m.mid => n = m
    BY <1>5 DEF Numbered
  <2>3. HeldOK(m)
    BY <2>1, <2>2 DEF HeldOK
  <2> QED BY <1>6, <1>9, <1>11, <1>12, <2>3, HeldKept DEF StepOK
<1> QED BY <1>2, <1>4, <1>7, <1>12, <1>13, ConsumerMoves DEF workerVars

(* The delete of a handled result: only messages of that number go, and    *)
(* their submission has its verdict.                                       *)
LEMMA DeleteResultOK ==
    ASSUME IInv, NEW c \in Consumers, DeleteResult(c)
    PROVE  IInv' /\ StepOK
<1>1. /\ consumer[c].pc = "deleting" /\ NextMessage(c)
      /\ resultQueue' = Delete(resultQueue, consumer[c].msg.mid)
      /\ UNCHANGED <<dbVars, workerVars, announced, scored>>
  BY DEF DeleteResult
<1>2. ConsumerOK(c) /\ consumer[c] \in ConsumerType
  BY DEF IInv, TypeOK, PipelineTypeOK
<1>3. PICK msg \in ResultMessages : msg = consumer[c].msg /\ HeldOK(msg)
  BY <1>1, CurrentType
<1>4. Final(msg.body.sid)
  BY <1>1, <1>2, <1>3 DEF ConsumerOK, Current
<1>5. resultQueue \in QueueType(Submissions, Submissions, Results) /\ Numbered(resultQueue)
  BY DEF IInv, TypeOK, PipelineTypeOK, QueuesOK
<1>6. /\ resultQueue' \in QueueType(Submissions, Submissions, Results)
      /\ Numbered(resultQueue')
      /\ resultQueue'.msgs = {m \in resultQueue.msgs : m.mid # msg.mid}
      /\ resultQueue'.window = resultQueue.window /\ resultQueue'.sent = resultQueue.sent
  BY <1>1, <1>3, <1>5, DeleteOK
<1>7. PICK state : state = [consumer[c] EXCEPT !.pc = "polling", !.msg = NoMessage]
  OBVIOUS
<1>8. consumer' = [consumer EXCEPT ![c] = state]
  BY <1>1, <1>2, <1>7 DEF NextMessage, ConsumerType
<1>9. /\ state \in ConsumerType /\ state.batch = consumer[c].batch
      /\ state.msg = NoMessage /\ state.pc = "polling"
  BY <1>2, <1>7 DEF ConsumerType
<1>10. DbTypeOK' /\ RowsGrow
  BY <1>1, SameRows DEF IInv, TypeOK
<1>11. PipelineTypeOK'
  BY <1>1, <1>6, <1>8, <1>9 DEF IInv, TypeOK, PipelineTypeOK, workerVars
<1>12. TypeOK'
  BY <1>1, <1>10, <1>11 DEF IInv, TypeOK, SubmissionQueueTypeOK, workerVars
<1>13. \A t \in Submissions : Reported(t) => Reported(t)' \/ Final(t)
  <2> SUFFICES ASSUME NEW m \in resultQueue.msgs, NEW t \in Submissions, m.body.sid = t
               PROVE  Reported(t)' \/ Final(t)
    BY DEF Reported
  <2>1. CASE m.mid # msg.mid
    BY <1>6, <2>1 DEF Reported
  <2>2. CASE m.mid = msg.mid
    BY <1>3, <1>4, <2>2 DEF HeldOK
  <2> QED BY <2>1, <2>2
<1>14. \A t \in Submissions : Queued(t) => Queued(t)'
  BY <1>1 DEF Queued, workerVars
<1>15. SubmissionsNumbered /\ ResultsNumbered
  BY <1>1, <1>6, QueueAssumption
     DEF SubmissionsNumbered, ResultsNumbered, IInv, TypeOK, SubmissionQueueTypeOK,
         PipelineTypeOK, QueueType, workerVars
<1>16. QueuesOK'
  <2>1. Numbered(submissionQueue)' /\ Numbered(resultQueue)'
    BY <1>1, <1>6 DEF IInv, QueuesOK, workerVars
  <2>2. (\A m \in submissionQueue.msgs : Exists(m.body))'
    BY <1>1 DEF IInv, QueuesOK, Exists, dbVars, workerVars
  <2>3. (\A m \in resultQueue.msgs : Exists(m.body.sid))'
    BY <1>1, <1>6 DEF IInv, QueuesOK, Exists, dbVars
  <2>4. ASSUME Fifo, NEW t \in resultQueue.window PROVE Reported(t)' \/ Final(t)'
    <3>1. t \in Submissions
      BY <1>5 DEF QueueType
    <3> QED BY <1>10, <1>13, <3>1, <2>4 DEF IInv, QueuesOK, RowsGrow
  <2>5. (Fifo => \A t \in resultQueue.window : Reported(t) \/ Final(t))'
    BY <1>6, <2>4
  <2> QED BY <2>1, <2>2, <2>3, <2>5 DEF QueuesOK
<1>17. StepOK
  BY <1>10, <1>12, <1>13, <1>14, <1>15, <1>16
     DEF StepOK, ReportsKept, MessagesKept, RowsGrow
<1>18. \A m \in state.batch \cup ({state.msg} \ {NoMessage}) : m \in Held(c)
  BY <1>9 DEF Held
<1> QED BY <1>1, <1>8, <1>9, <1>17, <1>18, ConsumerMoves DEF workerVars

LEMMA ConsumerStepInv ==
    ASSUME IInv, NEW c \in Consumers, ConsumerStep(c)
    PROVE  IInv' /\ StepOK
<1>1. CASE ReceiveResults(c) BY <1>1, ReceiveResultsOK
<1>2. CASE CheckRow(c) BY <1>2, CheckRowOK
<1>3. CASE CheckRowFails(c) BY <1>3, CheckRowFailsOK
<1>4. CASE UpdateRow(c) BY <1>4, UpdateRowOK
<1>5. CASE UpdateRowFails(c) BY <1>5, UpdateRowFailsOK
<1>6. CASE PublishVerdict(c) BY <1>6, PublishVerdictOK
<1>7. CASE UpdateContestScore(c) BY <1>7, UpdateContestScoreOK
<1>8. CASE RedisFails(c) BY <1>8, RedisFailsOK
<1>9. CASE DeleteResult(c) BY <1>9, DeleteResultOK
<1>10. CASE DeleteResultFails(c) BY <1>10, DeleteResultFailsOK
<1>11. CASE CrashConsumer(c) BY <1>11, CrashConsumerOK
<1> QED BY <1>1, <1>2, <1>3, <1>4, <1>5, <1>6, <1>7, <1>8, <1>9, <1>10, <1>11
        DEF ConsumerStep
-----------------------------------------------------------------------------
(* SQS and the backend.                                                    *)
LEMMA ResultQueueTimeOK ==
    ASSUME IInv, ResultQueueTime
    PROVE  IInv' /\ StepOK
<1>1. UNCHANGED <<dbVars, workerVars, consumerVars>>
  BY DEF ResultQueueTime, ResultReappears, ResultDedupEnds
<1>2. resultQueue \in QueueType(Submissions, Submissions, Results) /\ Numbered(resultQueue)
  BY DEF IInv, TypeOK, PipelineTypeOK, QueuesOK
<1>3. /\ resultQueue' \in QueueType(Submissions, Submissions, Results)
      /\ SameResults /\ resultQueue'.window \subseteq resultQueue.window
  <2>1. CASE \E mid \in resultQueue.inFlight : ResultReappears(mid)
    BY <1>2, <2>1, ReappearOK DEF ResultReappears, SameResults
  <2>2. CASE \E s \in Submissions : ResultDedupEnds(s)
    BY <1>2, <2>2, ForgetOK DEF ResultDedupEnds, SameResults
  <2> QED BY <2>1, <2>2 DEF ResultQueueTime
<1>4. DbTypeOK' /\ RowsGrow
  BY <1>1, SameRows DEF IInv, TypeOK
<1>5. TypeOK'
  BY <1>1, <1>3, <1>4 DEF IInv, TypeOK, PipelineTypeOK, SubmissionQueueTypeOK,
                          workerVars, consumerVars
<1>6. StepOK
  BY <1>1, <1>3, <1>4, <1>5, QuietStep DEF SameSubmissions, workerVars
<1> QED BY <1>1, <1>6, QueueStepOK DEF workerVars, consumerVars

LEMMA SubmissionQueueTimeOK ==
    ASSUME IInv, SubmissionQueueTime
    PROVE  IInv' /\ StepOK
<1>1. UNCHANGED <<dbVars, pipelineVars>>
  BY DEF SubmissionQueueTime
<1>2. submissionQueue \in QueueType(Users, Submissions, Submissions)
      /\ Numbered(submissionQueue)
  BY DEF IInv, TypeOK, SubmissionQueueTypeOK, QueuesOK
<1>3. submissionQueue' \in QueueType(Users, Submissions, Submissions) /\ SameSubmissions
  <2>1. CASE \E mid \in submissionQueue.inFlight : SubmissionReappears(mid)
    BY <1>2, <2>1, ReappearOK DEF SubmissionReappears, SameSubmissions
  <2>2. CASE \E s \in Submissions : SubmissionDedupEnds(s)
    BY <1>2, <2>2, ForgetOK DEF SubmissionDedupEnds, SameSubmissions
  <2> QED BY <2>1, <2>2 DEF SubmissionQueueTime
<1>4. DbTypeOK' /\ RowsGrow
  BY <1>1, SameRows DEF IInv, TypeOK
<1>5. TypeOK'
  BY <1>1, <1>3, <1>4 DEF IInv, TypeOK, PipelineTypeOK, SubmissionQueueTypeOK,
                          pipelineVars, consumerVars
<1>6. StepOK
  BY <1>1, <1>3, <1>4, <1>5, QuietStep DEF SameResults, pipelineVars
<1> QED BY <1>1, <1>6, QueueStepOK DEF pipelineVars, consumerVars

(* A send of the backend, for a row that exists by then.                   *)
LEMMA BackendSendOK ==
    ASSUME IInv, UNCHANGED pipelineVars, DbTypeOK', RowsGrow,
           NEW s \in Submissions, Exists(s)', NEW u \in Users, CanEnqueue(s),
           submissionQueue' = Send(submissionQueue, u, s, s)
    PROVE  IInv' /\ StepOK
<1>1. submissionQueue \in QueueType(Users, Submissions, Submissions)
      /\ Numbered(submissionQueue)
  BY DEF IInv, TypeOK, SubmissionQueueTypeOK, QueuesOK
<1>2. /\ submissionQueue' \in QueueType(Users, Submissions, Submissions)
      /\ Numbered(submissionQueue')
      /\ submissionQueue.msgs \subseteq submissionQueue'.msgs
      /\ \A m \in submissionQueue'.msgs :
            m \in submissionQueue.msgs
            \/ (m.mid > submissionQueue.sent /\ m.group = u /\ m.body = s)
      /\ submissionQueue.sent <= submissionQueue'.sent
  BY <1>1, SendOK DEF CanEnqueue
<1>3. UNCHANGED <<resultQueue, worker, consumer, announced, scored>>
  BY DEF pipelineVars, consumerVars
<1>4. TypeOK'
  BY <1>2, <1>3 DEF IInv, TypeOK, PipelineTypeOK, SubmissionQueueTypeOK
<1>5. SubmissionsNumbered /\ ResultsNumbered
  BY <1>2, <1>3, QueueAssumption
     DEF SubmissionsNumbered, ResultsNumbered, IInv, TypeOK, PipelineTypeOK, QueueType
<1>6. \A t \in Submissions : Reported(t)' <=> Reported(t)
  BY <1>3 DEF Reported
<1>7. \A t \in Submissions : Queued(t) => Queued(t)'
  BY <1>2 DEF Queued
<1>8. QueuesOK'
  <2>1. (\A m \in submissionQueue.msgs : Exists(m.body))'
    <3> SUFFICES ASSUME NEW m \in submissionQueue'.msgs PROVE Exists(m.body)'
      OBVIOUS
    <3>1. CASE m \in submissionQueue.msgs
      <4>1. m.body \in Submissions /\ Exists(m.body)
        BY <3>1, <1>1 DEF QueueType, Message, IInv, QueuesOK
      <4> QED BY <4>1 DEF RowsGrow
    <3>2. CASE m.body = s
      BY <3>2
    <3> QED BY <3>1, <3>2, <1>2
  <2>2. ASSUME NEW m \in resultQueue.msgs PROVE Exists(m.body.sid)'
    <3>1. m.body.sid \in Submissions /\ Exists(m.body.sid)
      BY DEF IInv, TypeOK, PipelineTypeOK, QueueType, Message, Results, QueuesOK
    <3> QED BY <3>1 DEF RowsGrow
  <2>3. ASSUME Fifo, NEW t \in resultQueue.window PROVE Reported(t)' \/ Final(t)'
    <3>1. t \in Submissions /\ (Reported(t) \/ Final(t))
      BY <2>3 DEF IInv, TypeOK, PipelineTypeOK, QueueType, QueuesOK
    <3> QED BY <3>1, <1>6 DEF RowsGrow
  <2>4. Numbered(resultQueue)'
    BY <1>3 DEF IInv, QueuesOK
  <2> QED BY <1>2, <1>3, <2>1, <2>2, <2>3, <2>4 DEF QueuesOK
<1>9. StepOK
  BY <1>4, <1>5, <1>6, <1>7, <1>8 DEF StepOK, ReportsKept, MessagesKept
<1> QED BY <1>3, <1>9, QueueStepOK

LEMMA BackendInsertsOK ==
    ASSUME IInv, NEW s \in Submissions, BackendInserts(s)
    PROVE  IInv' /\ StepOK
<1>1. PICK row \in Row : row.status = "PENDING" /\ InsertSubmission(s, row)
  BY PipelineAssumption DEF BackendInserts
<1>2. DbTypeOK' /\ RowsGrow
  BY <1>1, InsertOK DEF IInv, TypeOK
<1>3. UNCHANGED <<submissionQueue, resultQueue, worker, consumer, announced, scored>>
  BY DEF BackendInserts, pipelineVars, consumerVars
<1>4. TypeOK'
  BY <1>2, <1>3 DEF IInv, TypeOK, PipelineTypeOK, SubmissionQueueTypeOK
<1>5. StepOK
  BY <1>2, <1>3, <1>4, QuietStep DEF SameResults, SameSubmissions
<1> QED BY <1>3, <1>5, QueueStepOK

LEMMA BackendSendsOK ==
    ASSUME IInv, NEW s \in Submissions, BackendSends(s)
    PROVE  IInv' /\ StepOK
<1>1. DbTypeOK' /\ RowsGrow
  BY SameRows DEF BackendSends, IInv, TypeOK
<1>2. Exists(s)'
  BY <1>1 DEF BackendSends, RowsGrow
<1>3. submissions[s].user \in Users
  BY DEF BackendSends, IInv, TypeOK, DbTypeOK, Exists, Row
<1> QED BY <1>1, <1>2, <1>3, BackendSendOK DEF BackendSends, Enqueue

-----------------------------------------------------------------------------
(* The invariant holds at first and every step keeps it.                   *)
LEMMA InitInv == Init => IInv
<1> SUFFICES ASSUME Init PROVE IInv
  OBVIOUS
<1>1. submissionQueue = EmptyQueue /\ PipelineInit /\ DbTypeOK
  BY DbInitOK DEF Init
<1>2. TypeOK
  <2>1. SubmissionQueueTypeOK
    BY <1>1, EmptyQueueOK DEF SubmissionQueueTypeOK
  <2>2. resultQueue \in QueueType(Submissions, Submissions, Results)
    BY <1>1, EmptyQueueOK DEF PipelineInit
  <2>3. IdleWorker \in WorkerType /\ IdleConsumer \in ConsumerType
    BY IdleWorkerType DEF IdleConsumer, ConsumerType
  <2>4. PipelineTypeOK
    BY <1>1, <2>2, <2>3 DEF PipelineInit, PipelineTypeOK
  <2> QED BY <1>1, <2>1, <2>4 DEF TypeOK
<1>3. QueuesOK
  <2>1. Numbered(submissionQueue) /\ Numbered(resultQueue)
    BY <1>1, EmptyQueueOK DEF PipelineInit
  <2> QED BY <1>1, <2>1 DEF PipelineInit, QueuesOK, EmptyQueue
<1>4. ASSUME NEW w \in Workers PROVE WorkerOK(w)
  BY <1>1 DEF PipelineInit, WorkerOK, IdleWorker
<1>5. ASSUME NEW c \in Consumers PROVE ConsumerOK(c)
  BY <1>1 DEF PipelineInit, ConsumerOK, Held, IdleConsumer
<1> QED BY <1>2, <1>3, <1>4, <1>5 DEF IInv

LEMMA NextInv == IInv /\ Next => IInv' /\ StepOK
<1> SUFFICES ASSUME IInv, Next PROVE IInv' /\ StepOK
  OBVIOUS
<1>1. CASE \E w \in Workers : WorkerStep(w)
  BY <1>1, WorkerStepInv
<1>2. CASE \E c \in Consumers : ConsumerStep(c)
  BY <1>2, ConsumerStepInv
<1>3. CASE SubmissionQueueTime
  BY <1>3, SubmissionQueueTimeOK
<1>4. CASE ResultQueueTime
  BY <1>4, ResultQueueTimeOK
<1>5. CASE \E s \in Submissions : BackendInserts(s) \/ BackendSends(s)
  BY <1>5, BackendInsertsOK, BackendSendsOK
<1> QED BY <1>1, <1>2, <1>3, <1>4, <1>5 DEF Next, PipelineNext

LEMMA StutterInv == IInv /\ UNCHANGED vars => IInv' /\ StepOK
<1> SUFFICES ASSUME IInv, UNCHANGED vars PROVE IInv' /\ StepOK
  OBVIOUS
<1>1. UNCHANGED <<dbVars, submissionQueue, resultQueue, worker, consumer, announced, scored>>
  BY DEF vars, pipelineVars, consumerVars
<1>2. DbTypeOK' /\ RowsGrow
  BY <1>1, SameRows DEF IInv, TypeOK
<1>3. TypeOK'
  BY <1>1, <1>2 DEF IInv, TypeOK, PipelineTypeOK, SubmissionQueueTypeOK
<1>4. StepOK
  BY <1>1, <1>2, <1>3, QuietStep DEF SameSubmissions, SameResults
<1> QED BY <1>1, <1>4, QueueStepOK

(* IInv is an invariant of the pipeline.                                   *)
THEOREM Invariance == Spec => []IInv
<1>1. IInv /\ [Next]_vars => IInv'
  BY NextInv, StutterInv
<1> QED BY InitInv, <1>1, PTL DEF Spec

(* The tables, the queues, the slots and the consumers keep their types:   *)
(* in particular only a judge verdict is ever reported, stored or          *)
(* announced.                                                              *)
THEOREM TypeCorrect == Spec => []TypeOK
<1>1. IInv => TypeOK
  BY DEF IInv
<1> QED BY <1>1, Invariance, PTL

(* No verdict is lost: while a message may still bring a submission its    *)
(* verdict, no step (a crash, a failed send, a swallowed duplicate, a late *)
(* delete) leaves the submission with neither message nor verdict.         *)
THEOREM VerdictsAreKept == Spec => NoVerdictLost
<1>1. IInv /\ [Next]_vars =>
          [\A s \in Submissions :
              Queued(s) \/ Reported(s) => (Queued(s) \/ Reported(s) \/ Final(s))']_vars
  BY NextInv DEF StepOK, MessagesKept
<1> QED BY <1>1, Invariance, PTL DEF Spec, NoVerdictLost

-----------------------------------------------------------------------------
(* 2. The pipeline implements the lifecycle.                               *)

(* The pipeline itself only stores verdicts.                               *)
LEMMA PipelineEffects ==
    ASSUME IInv, PipelineNext
    PROVE  \/ UNCHANGED dbVars
           \/ \E s \in Submissions, v \in Verdicts : Exists(s) /\ UpdateStatus(s, v)
<1>1. CASE \E w \in Workers : WorkerStep(w)
  BY <1>1 DEF WorkerStep, ReceiveSubmission, JudgeRun, JudgeFails, PublishResult,
              PublishResultFails, DeleteSubmission, DeleteSubmissionFails, CrashWorker
<1>2. CASE \E c \in Consumers : ConsumerStep(c)
  <2>1. PICK c \in Consumers : ConsumerStep(c)
    BY <1>2
  <2>2. CASE consumer[c].pc = "updating" /\ UpdateStatus(Current(c).sid, Current(c).status)
    BY <2>2, CurrentType
  <2>3. CASE UNCHANGED dbVars
    BY <2>3
  <2> QED BY <2>1, <2>2, <2>3
          DEF ConsumerStep, ReceiveResults, CheckRow, CheckRowFails, UpdateRow,
              UpdateRowFails, PublishVerdict, UpdateContestScore, RedisFails,
              DeleteResult, DeleteResultFails, CrashConsumer
<1>3. CASE SubmissionQueueTime \/ ResultQueueTime
  BY <1>3 DEF SubmissionQueueTime, ResultQueueTime, ResultReappears, ResultDedupEnds
<1> QED BY <1>1, <1>2, <1>3 DEF PipelineNext

(* The three things a step may do to the tables.                           *)
LEMMA RowEffects ==
    ASSUME IInv, Next
    PROVE  \/ UNCHANGED dbVars
           \/ \E s \in Submissions, row \in Row :
                 row.status = "PENDING" /\ InsertSubmission(s, row)
           \/ \E s \in Submissions, v \in Verdicts : Exists(s) /\ UpdateStatus(s, v)
<1>1. CASE PipelineNext
  BY <1>1, PipelineEffects
<1>2. CASE \E s \in Submissions : BackendInserts(s)
  BY <1>2, PipelineAssumption DEF BackendInserts
<1>3. CASE \E s \in Submissions : BackendSends(s)
  BY <1>3 DEF BackendSends
<1> QED BY <1>1, <1>2, <1>3 DEF Next

(* Every judged submission is counted once on its problem, on FIFO and on  *)
(* standard queues, under every failure, crash, retry and late delivery:   *)
(* the trigger reads the old status inside the UPDATE.                     *)
THEOREM CountedOnce == Spec => []JudgedCountedOnce
<1>1. Init => JudgedCountedOnce
  <2> SUFFICES ASSUME Init, NEW p \in Problems
               PROVE  problems[p].totalSubmissions = Cardinality(JudgedRows(p))
    BY DEF JudgedCountedOnce
  <2>1. JudgedRows(p) = {}
    BY DEF Init, DbInit, JudgedRows, Final, Exists
  <2> QED BY <2>1, FS_EmptySet DEF Init, DbInit
<1>2. ASSUME JudgedCountedOnce, UNCHANGED dbVars PROVE JudgedCountedOnce'
  BY <1>2 DEF JudgedCountedOnce, JudgedRows, Final, Exists, dbVars
<1>3. ASSUME IInv, JudgedCountedOnce, [Next]_vars PROVE JudgedCountedOnce'
  <2>1. CASE UNCHANGED vars
    BY <1>2, <1>3, <2>1 DEF vars
  <2>2. CASE Next
    <3>1. CASE UNCHANGED dbVars
      BY <1>2, <1>3, <3>1
    <3>2. CASE \E s \in Submissions, row \in Row :
                  row.status = "PENDING" /\ InsertSubmission(s, row)
      <4>1. UNCHANGED problems /\ \A p \in Problems : JudgedRows(p)' = JudgedRows(p)
        BY <1>3, <3>2, InsertCounts DEF IInv, TypeOK
      <4> QED BY <1>3, <4>1 DEF JudgedCountedOnce
    <3>3. CASE \E s \in Submissions, v \in Verdicts : Exists(s) /\ UpdateStatus(s, v)
      BY <1>3, <3>3, UpdateCounts DEF IInv, TypeOK
    <3> QED BY <1>3, <2>2, <3>1, <3>2, <3>3, RowEffects
  <2> QED BY <1>3, <2>1, <2>2
<1> QED BY <1>1, <1>3, Invariance, PTL DEF Spec

(* solvedAt is the first solve and stays, with any queues, any number of   *)
(* consumers of one verdict and any failures.                              *)
THEOREM FirstSolvesStand == Spec => FirstSolveStands
<1> DEFINE Stands ==
        \A u \in Users, p \in Problems :
           LET was == userProblemStatus[u][p].solvedAt
               is  == userProblemStatus'[u][p].solvedAt IN
           is # was =>
               /\ was = NoSubmission
               /\ is \in (AttemptsOf(u, p) \cap AcceptedRows(p))' \ AttemptsOf(u, p)
<1>1. ASSUME IInv, NEW s \in Submissions, NEW v \in Verdicts, Exists(s), UpdateStatus(s, v)
      PROVE  Stands
  <2>1. /\ submissions \in [Submissions -> Row \cup {NoRow}] /\ submissions[s] \in Row
        /\ userProblemStatus \in [Users -> [Problems -> Progress]]
    BY <1>1 DEF IInv, TypeOK, DbTypeOK, Exists
  <2> SUFFICES ASSUME NEW u \in Users, NEW p \in Problems,
                      userProblemStatus'[u][p].solvedAt # userProblemStatus[u][p].solvedAt
               PROVE  /\ userProblemStatus[u][p].solvedAt = NoSubmission
                      /\ userProblemStatus'[u][p].solvedAt
                            \in (AttemptsOf(u, p) \cap AcceptedRows(p))' \ AttemptsOf(u, p)
    OBVIOUS
  <2>2. submissions[s].status \in Open /\ UpsertProgress(s, submissions[s], v)
    BY <1>1 DEF UpdateStatus
  <2>3. u = submissions[s].user /\ p = submissions[s].problem
    BY <2>1, <2>2 DEF UpsertProgress
  <2>4. /\ v = "ACCEPTED" /\ userProblemStatus[u][p].solvedAt = NoSubmission
        /\ userProblemStatus'[u][p].solvedAt = s
    BY <2>1, <2>2, <2>3 DEF UpsertProgress
  <2>5. submissions' = [submissions EXCEPT ![s].status = v]
    BY <1>1 DEF UpdateStatus
  <2>6. /\ submissions'[s].status = v /\ submissions'[s].user = u
        /\ submissions'[s].problem = p /\ submissions'[s] # NoRow
    BY <2>1, <2>3, <2>5, NoRowAssumption DEF Row
  <2>7. s \in (AttemptsOf(u, p) \cap AcceptedRows(p))'
    BY <2>4, <2>6 DEF AttemptsOf, AcceptedRows, JudgedRows, Final, Exists
  <2>8. s \notin AttemptsOf(u, p)
    BY <2>2, DbAssumption DEF AttemptsOf, JudgedRows, Final
  <2> QED BY <2>4, <2>7, <2>8
<1>2. ASSUME UNCHANGED userProblemStatus PROVE Stands
  BY <1>2
<1>3. IInv /\ [Next]_vars => [Stands]_dbVars
  <2> SUFFICES ASSUME IInv, Next PROVE Stands \/ UNCHANGED dbVars
    BY DEF vars
  <2>1. CASE \E s \in Submissions, row \in Row : InsertSubmission(s, row)
    BY <1>2, <2>1 DEF InsertSubmission
  <2> QED BY <1>1, <2>1, RowEffects
<1> QED BY <1>3, Invariance, PTL DEF Spec, FirstSolveStands

-----------------------------------------------------------------------------
(* One consumer at a time.                                                 *)

NoRace == Fifo /\ "slow_consumer" \notin Faults

Locked(m) == m \in resultQueue.msgs /\ Hidden(resultQueue, m)

Exclusive ==
    /\ \A m \in resultQueue.msgs : m.group = m.body.sid
    /\ \A c \in Consumers : \A m \in Held(c) : Locked(m)
    /\ \A c \in Consumers : consumer[c].msg \notin consumer[c].batch
    /\ \A c, d \in Consumers :
          c # d => \A m \in Held(c), n \in Held(d) : m.group # n.group

\* What a consumer read or wrote before its last await still holds.
HandlerOK(c) ==
    /\ consumer[c].pc = "updating" => IsOpen(Current(c).sid)
    /\ consumer[c].pc = "publishing" =>
          /\ submissions[Current(c).sid].status = Current(c).status
          /\ scored[Current(c).sid] = 0
    /\ consumer[c].pc = "scoring" => scored[Current(c).sid] = 0

RowOK(s) ==
    /\ scored[s] <= 1
    /\ announced[s] \subseteq {submissions[s].status}
    /\ ~ Final(s) => scored[s] = 0 /\ announced[s] = {}

RInv ==
    /\ IInv
    /\ Exclusive
    /\ \A c \in Consumers : HandlerOK(c)
    /\ \A s \in Submissions : RowOK(s)
    /\ TotalsMatchRows
    /\ ProgressMatchesRows

(* Nothing new is held, and what is held stays in flight.                  *)
LEMMA ExclusiveKept ==
    ASSUME Exclusive, (\A m \in resultQueue.msgs : m.group = m.body.sid)',
           \A c \in Consumers : Held(c)' \subseteq Held(c),
           \A c \in Consumers : consumer'[c].msg \notin consumer'[c].batch,
           \A c \in Consumers : \A m \in Held(c)' : Locked(m)'
    PROVE  Exclusive'
BY DEF Exclusive

(* Two messages of the queue with one number are one message.              *)
LEMMA OneNumber ==
    ASSUME IInv, NEW m \in resultQueue.msgs, NEW n \in resultQueue.msgs, m.mid = n.mid
    PROVE  m = n
BY DEF IInv, QueuesOK, Numbered

(* A receive call locks the groups of its batch, and found them unlocked.  *)
LEMMA ReceiveExclusive ==
    ASSUME NoRace, IInv, Exclusive, NEW c \in Consumers, ReceiveResults(c)
    PROVE  Exclusive'
<1>1. PICK batch \in SUBSET resultQueue.msgs :
          /\ Receivable(resultQueue, batch)
          /\ resultQueue' = Receive(resultQueue, batch)
          /\ consumer' = [consumer EXCEPT ![c].batch = batch]
  BY DEF ReceiveResults
<1>2. /\ consumer \in [Consumers -> ConsumerType] /\ consumer[c] = IdleConsumer
      /\ resultQueue \in QueueType(Submissions, Submissions, Results)
  BY DEF IInv, TypeOK, PipelineTypeOK, ReceiveResults
<1>3. /\ consumer'[c].batch = batch /\ consumer'[c].msg = NoMessage
      /\ \A d \in Consumers : d # c => consumer'[d] = consumer[d]
  BY <1>1, <1>2 DEF IdleConsumer, ConsumerType
<1>4. Held(c)' = batch /\ \A d \in Consumers : d # c => Held(d)' = Held(d)
  <2>1. batch \cup ({NoMessage} \ {NoMessage}) = batch
    OBVIOUS
  <2> QED BY <1>3, <2>1 DEF Held
<1>5. /\ resultQueue'.msgs = resultQueue.msgs
      /\ \A m \in resultQueue.msgs : Hidden(resultQueue, m) \/ m \in batch => Hidden(resultQueue, m)'
  BY <1>1, <1>2 DEF Receive, Hidden, QueueType
<1>6. \A d \in Consumers : \A m \in Held(d)' : Locked(m)'
  BY <1>4, <1>5 DEF Locked, Exclusive
<1>7. NoMessage \notin batch
  BY <1>2, PipelineAssumption DEF QueueType, ResultMessages
<1>8. \A d \in Consumers : consumer'[d].msg \notin consumer'[d].batch
  BY <1>3, <1>7 DEF Exclusive
<1>9. ASSUME NEW d \in Consumers, d # c, NEW m \in batch, NEW n \in Held(d)
      PROVE  m.group # n.group
  BY <1>1, <1>9 DEF Exclusive, Locked, Receivable, NoRace
<1>10. \A d, e \in Consumers :
          d # e => \A m \in Held(d)', n \in Held(e)' : m.group # n.group
  BY <1>4, <1>9 DEF Exclusive
<1> QED BY <1>5, <1>6, <1>8, <1>10 DEF Exclusive

(* A delete removes a message its consumer holds, and no other one.        *)
LEMMA DeleteExclusive ==
    ASSUME IInv, Exclusive, NEW c \in Consumers, DeleteResult(c)
    PROVE  Exclusive'
<1> DEFINE msg == consumer[c].msg
<1>1. /\ consumer \in [Consumers -> ConsumerType] /\ consumer[c].pc = "deleting"
      /\ resultQueue \in QueueType(Submissions, Submissions, Results)
      /\ Numbered(resultQueue)
  BY DEF IInv, TypeOK, PipelineTypeOK, QueuesOK, DeleteResult
<1>2. msg \in Held(c) /\ msg \in ResultMessages
  BY <1>1, CurrentType
<1>3. /\ consumer'[c].batch = consumer[c].batch /\ consumer'[c].msg = NoMessage
      /\ \A d \in Consumers : d # c => consumer'[d] = consumer[d]
  BY <1>1 DEF DeleteResult, NextMessage, ConsumerType
<1>4. Held(c)' = consumer[c].batch /\ \A d \in Consumers : d # c => Held(d)' = Held(d)
  <2>1. consumer[c].batch \cup ({NoMessage} \ {NoMessage}) = consumer[c].batch
    OBVIOUS
  <2> QED BY <1>3, <2>1 DEF Held
<1>5. \A d \in Consumers : Held(d)' \subseteq Held(d)
  BY <1>4 DEF Held
<1>6. /\ resultQueue'.msgs = {m \in resultQueue.msgs : m.mid # msg.mid}
      /\ resultQueue'.inFlight = resultQueue.inFlight \ {msg.mid}
  BY <1>1 DEF DeleteResult, Delete, QueueType
<1>7. ASSUME NEW d \in Consumers, NEW m \in Held(d)' PROVE Locked(m)'
  <2>1. m \in Held(d) /\ Locked(m) /\ Locked(msg)
    BY <1>2, <1>5, <1>7 DEF Exclusive
  <2>2. m # msg
    <3>1. CASE d = c
      BY <1>4, <1>7, <3>1 DEF Exclusive
    <3>2. CASE d # c
      BY <1>2, <2>1, <3>2 DEF Exclusive
    <3> QED BY <3>1, <3>2
  <2>3. m.mid # msg.mid
    BY <2>1, <2>2, OneNumber DEF Locked
  <2> QED BY <1>6, <2>1, <2>3 DEF Locked, Hidden
<1>8. NoMessage \notin consumer[c].batch
  BY <1>1, PipelineAssumption DEF ConsumerType
<1>9. \A d \in Consumers : consumer'[d].msg \notin consumer'[d].batch
  BY <1>3, <1>8 DEF Exclusive
<1>10. (\A m \in resultQueue.msgs : m.group = m.body.sid)'
  BY <1>6 DEF Exclusive
<1> QED BY <1>5, <1>7, <1>9, <1>10, ExclusiveKept

(* A result is sent in the group of its submission.                        *)
LEMMA SendExclusive ==
    ASSUME IInv, Exclusive, NEW w \in Workers, worker[w].pc = "publishing",
           publishResult(w), UNCHANGED consumer
    PROVE  Exclusive'
<1>1. PICK s \in Submissions, b \in Results :
          s = worker[w].sid /\ b = [sid |-> s, status |-> worker[w].verdict]
  BY DEF IInv, WorkerOK, Results
<1>2. /\ CanSend(resultQueue, s) /\ resultQueue' = Send(resultQueue, s, s, b)
      /\ resultQueue \in QueueType(Submissions, Submissions, Results)
  BY <1>1 DEF publishResult, IInv, TypeOK, PipelineTypeOK
<1>3. /\ resultQueue.msgs \subseteq resultQueue'.msgs
      /\ resultQueue'.inFlight = resultQueue.inFlight
      /\ \A m \in resultQueue'.msgs :
            m \in resultQueue.msgs \/ (m.group = s /\ m.body = b)
  BY <1>2 DEF Send, QueueType
<1>4. b.sid = s
  BY <1>1
<1>5. (\A m \in resultQueue.msgs : m.group = m.body.sid)'
  BY <1>3, <1>4 DEF Exclusive
<1>6. \A c \in Consumers : Held(c)' = Held(c)
  BY DEF Held
<1>7. \A c \in Consumers : \A m \in Held(c)' : Locked(m)'
  BY <1>3, <1>6 DEF Exclusive, Locked, Hidden
<1>8. \A c \in Consumers : consumer'[c].msg \notin consumer'[c].batch
  BY DEF Exclusive
<1> QED BY <1>5, <1>6, <1>7, <1>8, ExclusiveKept

(* No timeout ends under a consumer.                                       *)
LEMMA TimeExclusive ==
    ASSUME NoRace, IInv, Exclusive, ResultQueueTime
    PROVE  Exclusive'
<1>1. UNCHANGED consumer /\ resultQueue \in QueueType(Submissions, Submissions, Results)
  BY DEF ResultQueueTime, ResultReappears, ResultDedupEnds, consumerVars,
         IInv, TypeOK, PipelineTypeOK
<1>2. /\ resultQueue'.msgs = resultQueue.msgs
      /\ \A c \in Consumers : \A m \in Held(c) :
            m.mid \in resultQueue.inFlight => m.mid \in resultQueue'.inFlight
  <2>1. CASE \E mid \in resultQueue.inFlight : ResultReappears(mid)
    BY <1>1, <2>1 DEF ResultReappears, Reappear, NoRace, QueueType
  <2>2. CASE \E s \in Submissions : ResultDedupEnds(s)
    BY <1>1, <2>2 DEF ResultDedupEnds, Forget, QueueType
  <2> QED BY <2>1, <2>2 DEF ResultQueueTime
<1>3. \A c \in Consumers : Held(c)' = Held(c)
  BY <1>1 DEF Held
<1>4. \A c \in Consumers : \A m \in Held(c)' : Locked(m)'
  BY <1>2, <1>3 DEF Exclusive, Locked, Hidden
<1>5. \A c \in Consumers : consumer'[c].msg \notin consumer'[c].batch
  BY <1>1 DEF Exclusive
<1>6. (\A m \in resultQueue.msgs : m.group = m.body.sid)'
  BY <1>2 DEF Exclusive
<1> QED BY <1>3, <1>4, <1>5, <1>6, ExclusiveKept

(* A consumer that receives nothing and deletes nothing.                   *)
LEMMA LocalExclusive ==
    ASSUME IInv, Exclusive, NEW c \in Consumers, NEW state,
           consumer' = [consumer EXCEPT ![c] = state], UNCHANGED resultQueue,
           state.batch \cup ({state.msg} \ {NoMessage}) \subseteq Held(c),
           state.msg \notin state.batch
    PROVE  Exclusive'
<1>1. consumer'[c] = state /\ \A d \in Consumers : d # c => consumer'[d] = consumer[d]
  BY DEF IInv, TypeOK, PipelineTypeOK
<1>2. \A d \in Consumers : Held(d)' \subseteq Held(d)
  BY <1>1 DEF Held
<1>3. \A d \in Consumers : consumer'[d].msg \notin consumer'[d].batch
  BY <1>1 DEF Exclusive
<1>4. \A d \in Consumers : \A m \in Held(d)' : Locked(m)'
  BY <1>2 DEF Exclusive, Locked, Hidden
<1>5. (\A m \in resultQueue.msgs : m.group = m.body.sid)'
  BY DEF Exclusive
<1> QED BY <1>2, <1>3, <1>4, <1>5, ExclusiveKept

-----------------------------------------------------------------------------
(* What one handler does, the others do not see.                           *)

SameRowData == UNCHANGED <<dbVars, announced, scored>>

(* Two consumers that handle messages handle different submissions.        *)
LEMMA OneHandler ==
    ASSUME RInv, NEW c \in Consumers, NEW d \in Consumers, c # d,
           consumer[c].pc # "polling", consumer[d].pc # "polling"
    PROVE  Current(c).sid # Current(d).sid
<1>1. consumer[c].msg \in Held(c) /\ consumer[d].msg \in Held(d)
  BY CurrentType DEF RInv
<1>2. consumer[c].msg.group # consumer[d].msg.group
  BY <1>1 DEF RInv, Exclusive
<1>3. /\ consumer[c].msg.group = consumer[c].msg.body.sid
      /\ consumer[d].msg.group = consumer[d].msg.body.sid
  BY <1>1 DEF RInv, Exclusive, Locked
<1> QED BY <1>2, <1>3 DEF Current

(* Unchanged tables count the same.                                        *)
LEMMA SameCounts ==
    ASSUME UNCHANGED dbVars, TotalsMatchRows, ProgressMatchesRows
    PROVE  TotalsMatchRows' /\ ProgressMatchesRows'
<1>1. /\ UNCHANGED <<problems, userProblemStatus>>
      /\ \A p \in Problems : JudgedRows(p)' = JudgedRows(p) /\ AcceptedRows(p)' = AcceptedRows(p)
  BY DEF dbVars, JudgedRows, AcceptedRows, Final, Exists
<1>2. \A u \in Users, p \in Problems : AttemptsOf(u, p)' = AttemptsOf(u, p)
  BY <1>1 DEF dbVars, AttemptsOf
<1> QED BY <1>1, <1>2 DEF TotalsMatchRows, ProgressMatchesRows

(* A step that touches no row, no score and no channel.                    *)
LEMMA QuietRows ==
    ASSUME RInv, IInv', Exclusive', SameRowData, NEW c \in Consumers, HandlerOK(c)',
           \A d \in Consumers : d # c => consumer'[d] = consumer[d]
    PROVE  RInv'
<1>1. ASSUME NEW d \in Consumers PROVE HandlerOK(d)'
  <2>1. CASE d = c
    BY <2>1
  <2>2. CASE d # c
    <3>1. HandlerOK(d) /\ consumer'[d] = consumer[d]
      BY <2>2 DEF RInv
    <3> QED BY <3>1 DEF HandlerOK, SameRowData, dbVars, IsOpen, Exists, Current
  <2> QED BY <2>1, <2>2
<1>2. \A s \in Submissions : RowOK(s)'
  BY DEF RInv, RowOK, SameRowData, dbVars, Final, Exists
<1>3. TotalsMatchRows' /\ ProgressMatchesRows'
  BY SameCounts DEF RInv, SameRowData
<1> QED BY <1>1, <1>2, <1>3 DEF RInv

(* A step of one handler that touches only its submission.                 *)
LEMMA HandlerStep ==
    ASSUME RInv, IInv', Exclusive', NEW c \in Consumers, consumer[c].pc # "polling",
           NEW id \in Submissions, id = Current(c).sid,
           HandlerOK(c)', RowOK(id)', TotalsMatchRows', ProgressMatchesRows',
           \A d \in Consumers : d # c => consumer'[d] = consumer[d],
           \A s \in Submissions : s # id => /\ submissions'[s] = submissions[s]
                                             /\ announced'[s] = announced[s]
                                             /\ scored'[s] = scored[s]
    PROVE  RInv'
<1>1. ASSUME NEW d \in Consumers, d # c PROVE HandlerOK(d)'
  <2>1. HandlerOK(d) /\ consumer'[d] = consumer[d]
    BY <1>1 DEF RInv
  <2>2. CASE consumer[d].pc = "polling"
    BY <2>1, <2>2 DEF HandlerOK
  <2>3. CASE consumer[d].pc # "polling"
    <3>1. Current(d).sid # id /\ Current(d).sid \in Submissions
      BY <1>1, <2>3, OneHandler, CurrentType DEF RInv
    <3>2. /\ submissions'[Current(d).sid] = submissions[Current(d).sid]
          /\ scored'[Current(d).sid] = scored[Current(d).sid]
      BY <3>1
    <3>3. Current(d)' = Current(d)
      BY <2>1 DEF Current
    <3> QED BY <2>1, <3>2, <3>3 DEF HandlerOK, IsOpen, Exists
  <2> QED BY <2>2, <2>3
<1>2. ASSUME NEW s \in Submissions, s # id PROVE RowOK(s)'
  BY <1>2 DEF RInv, RowOK, Final, Exists
<1> QED BY <1>1, <1>2 DEF RInv

-----------------------------------------------------------------------------
(* The steps, with what each is in the lifecycle.                          *)

MapsTo == Lifecycle!LedgerNext \/ UNCHANGED <<submissions, problems, announced>>

(* The lifecycle counts as the pipeline does.                              *)
LEMMA SameCardinality == \A S : Lifecycle!Cardinality(S) = Cardinality(S)
BY DEF Lifecycle!Cardinality, Cardinality, Lifecycle!IsFiniteSet, IsFiniteSet

(* The counters are the lifecycle's board.                                 *)
LEMMA BoardIs == DbTypeOK /\ TotalsMatchRows => problems = Lifecycle!Board
<1> SUFFICES ASSUME DbTypeOK, TotalsMatchRows, NEW p \in Problems
             PROVE  problems[p] = Lifecycle!Count(p)
  BY DEF Lifecycle!Board, DbTypeOK
<1>1. JudgedRows(p) = {s \in Submissions : Lifecycle!Graded(s) /\ submissions[s].problem = p}
  BY DEF JudgedRows, Final, Exists, Lifecycle!Graded, Lifecycle!Taken
<1>2. Lifecycle!Count(p) =
          [totalSubmissions |-> Cardinality(JudgedRows(p)),
           totalAccepted    |-> Cardinality({s \in JudgedRows(p) : submissions[s].status = "ACCEPTED"})]
  BY <1>1, SameCardinality DEF Lifecycle!Count
<1> QED BY <1>2 DEF TotalsMatchRows, AcceptedRows

LEMMA BoardIsNext == DbTypeOK' /\ TotalsMatchRows' => problems' = Lifecycle!Board'
<1> SUFFICES ASSUME DbTypeOK', TotalsMatchRows', NEW p \in Problems
             PROVE  problems'[p] = Lifecycle!Count(p)'
  BY DEF Lifecycle!Board, DbTypeOK
<1>1. JudgedRows(p)' = {s \in Submissions : Lifecycle!Graded(s)' /\ submissions'[s].problem = p}
  BY DEF JudgedRows, Final, Exists, Lifecycle!Graded, Lifecycle!Taken
<1>2. Lifecycle!Count(p)' =
          [totalSubmissions |-> Cardinality(JudgedRows(p)'),
           totalAccepted    |->
               Cardinality({s \in JudgedRows(p)' : submissions'[s].status = "ACCEPTED"})]
  BY <1>1, SameCardinality DEF Lifecycle!Count
<1> QED BY <1>2 DEF TotalsMatchRows, AcceptedRows

(* The UPDATE of a consumer is a Grade of the lifecycle.                   *)
LEMMA GradeStep ==
    ASSUME RInv, NEW c \in Consumers, consumer[c].pc = "updating",
           NEW id \in Submissions, id = Current(c).sid,
           UpdateStatus(Current(c).sid, Current(c).status), UNCHANGED <<announced, scored>>
    PROVE  /\ RowOK(id)' /\ scored'[id] = 0 /\ submissions'[id].status = Current(c).status
           /\ \A s \in Submissions : s # id => submissions'[s] = submissions[s]
           /\ TotalsMatchRows' /\ ProgressMatchesRows'
           /\ Lifecycle!Grade(id)
<1>1. PICK v \in Verdicts : v = Current(c).status
  BY CurrentType DEF RInv
<1>2. UpdateStatus(id, v) /\ DbTypeOK
  BY <1>1 DEF RInv, IInv, TypeOK
<1>3. IsOpen(id) /\ Exists(id) /\ ~ Final(id)
  BY DbAssumption DEF RInv, HandlerOK, IsOpen, Final
<1>4. /\ DbTypeOK' /\ Final(id)'
      /\ submissions' = [submissions EXCEPT ![id] = [@ EXCEPT !.status = v]]
  BY <1>2, <1>3, UpdateOK
<1>5. TotalsMatchRows' /\ ProgressMatchesRows'
  BY <1>2, <1>3, GradeTotals, GradeProgress DEF RInv
<1>6. submissions[id] \in Row
  BY <1>2, <1>3 DEF DbTypeOK, Exists
<1>7. /\ submissions'[id].status = v
      /\ \A s \in Submissions : s # id => submissions'[s] = submissions[s]
  BY <1>2, <1>4, <1>6 DEF DbTypeOK, Row
<1>8. scored[id] = 0 /\ announced[id] = {}
  BY <1>3 DEF RInv, RowOK
<1>9. RowOK(id)'
  BY <1>4, <1>8 DEF RowOK
<1>10. Lifecycle!Grade(id)
  <2>1. Lifecycle!Taken(id) /\ ~ Lifecycle!Graded(id)
    BY <1>3 DEF Lifecycle!Taken, Lifecycle!Graded, Exists, Final
  <2>2. submissions' = [submissions EXCEPT ![id].status = v]
    BY <1>4
  <2>3. problems' = Lifecycle!Board'
    BY <1>4, <1>5, BoardIsNext
  <2> QED BY <2>1, <2>2, <2>3 DEF Lifecycle!Grade
<1> QED BY <1>1, <1>5, <1>7, <1>8, <1>9, <1>10

LEMMA UpdateRowMaps ==
    ASSUME RInv, IInv', NEW c \in Consumers, UpdateRow(c)
    PROVE  RInv' /\ MapsTo
<1>1. PICK id \in Submissions : id = Current(c).sid
  BY CurrentType DEF RInv, UpdateRow
<1>2. consumer[c] \in ConsumerType /\ consumer[c].pc = "updating" /\ consumer[c].msg \in Held(c)
  BY CurrentType DEF RInv, IInv, TypeOK, PipelineTypeOK, UpdateRow
<1> DEFINE state == [consumer[c] EXCEPT !.pc = "publishing"]
<1>3. /\ state.pc = "publishing" /\ state.msg = consumer[c].msg
      /\ state.batch = consumer[c].batch
  BY <1>2 DEF ConsumerType
<1>4. /\ consumer' = [consumer EXCEPT ![c] = state] /\ consumer'[c] = state
      /\ \A d \in Consumers : d # c => consumer'[d] = consumer[d]
  BY DEF UpdateRow, Become, RInv, IInv, TypeOK, PipelineTypeOK
<1>5. Exclusive'
  BY <1>2, <1>3, <1>4, LocalExclusive DEF RInv, UpdateRow, Exclusive, Held
<1>6. /\ RowOK(id)' /\ scored'[id] = 0 /\ submissions'[id].status = Current(c).status
      /\ \A s \in Submissions : s # id => submissions'[s] = submissions[s]
      /\ TotalsMatchRows' /\ ProgressMatchesRows'
      /\ Lifecycle!Grade(id)
  BY <1>1, <1>2, GradeStep DEF UpdateRow
<1>7. HandlerOK(c)'
  BY <1>1, <1>3, <1>4, <1>6 DEF HandlerOK, Current
<1>8. RInv'
  BY <1>1, <1>2, <1>4, <1>5, <1>6, <1>7, HandlerStep DEF UpdateRow
<1> QED BY <1>6, <1>8 DEF MapsTo, Lifecycle!LedgerNext

LEMMA UpdateRowFailsMaps ==
    ASSUME RInv, IInv', NEW c \in Consumers, UpdateRowFails(c)
    PROVE  RInv' /\ MapsTo
<1>1. PICK id \in Submissions : id = Current(c).sid
  BY CurrentType DEF RInv, UpdateRowFails
<1>2. consumer[c] \in ConsumerType /\ consumer[c].pc = "updating"
  BY DEF RInv, IInv, TypeOK, PipelineTypeOK, UpdateRowFails
<1> DEFINE state == [consumer[c] EXCEPT !.pc = "polling", !.msg = NoMessage]
<1>3. state.pc = "polling" /\ state.msg = NoMessage /\ state.batch = consumer[c].batch
  BY <1>2 DEF ConsumerType
<1>4. /\ consumer' = [consumer EXCEPT ![c] = state] /\ consumer'[c] = state
      /\ \A d \in Consumers : d # c => consumer'[d] = consumer[d]
  BY <1>2 DEF UpdateRowFails, NextMessage, RInv, IInv, TypeOK, PipelineTypeOK, ConsumerType
<1>5. NoMessage \notin consumer[c].batch
  BY <1>2, PipelineAssumption DEF ConsumerType
<1>6. Exclusive'
  BY <1>3, <1>4, <1>5, LocalExclusive DEF RInv, UpdateRowFails, Held
<1>7. HandlerOK(c)'
  BY <1>3, <1>4 DEF HandlerOK
<1>8. CASE UNCHANGED dbVars
  <2>1. SameRowData
    BY <1>8 DEF UpdateRowFails, SameRowData
  <2> QED BY <1>4, <1>6, <1>7, <2>1, QuietRows DEF MapsTo, SameRowData, dbVars
<1>9. CASE UpdateStatus(Current(c).sid, Current(c).status)
  <2>1. /\ RowOK(id)'
        /\ \A s \in Submissions : s # id => submissions'[s] = submissions[s]
        /\ TotalsMatchRows' /\ ProgressMatchesRows'
        /\ Lifecycle!Grade(id)
    BY <1>1, <1>2, <1>9, GradeStep DEF UpdateRowFails
  <2>2. RInv'
    BY <1>1, <1>2, <1>4, <1>6, <1>7, <2>1, HandlerStep DEF UpdateRowFails
  <2> QED BY <2>1, <2>2 DEF MapsTo, Lifecycle!LedgerNext
<1> QED BY <1>8, <1>9 DEF UpdateRowFails

(* A publish is a Tell: the client hears what the row says.                *)
LEMMA PublishVerdictMaps ==
    ASSUME RInv, IInv', NEW c \in Consumers, PublishVerdict(c)
    PROVE  RInv' /\ MapsTo
<1>1. PICK id \in Submissions : id = Current(c).sid
  BY CurrentType DEF RInv, PublishVerdict
<1>2. /\ consumer[c] \in ConsumerType /\ consumer[c].pc = "publishing"
      /\ consumer[c].msg \in Held(c) /\ announced \in [Submissions -> SUBSET Verdicts]
      /\ Final(id)
  BY <1>1, CurrentType DEF RInv, IInv, TypeOK, PipelineTypeOK, PublishVerdict, ConsumerOK
<1>3. PICK label \in {"deleting", "scoring"} : Become(c, label)
  BY DEF PublishVerdict
<1> DEFINE state == [consumer[c] EXCEPT !.pc = label]
<1>4. state.pc = label /\ state.msg = consumer[c].msg /\ state.batch = consumer[c].batch
  BY <1>2 DEF ConsumerType
<1>5. /\ consumer' = [consumer EXCEPT ![c] = state] /\ consumer'[c] = state
      /\ \A d \in Consumers : d # c => consumer'[d] = consumer[d]
  BY <1>3 DEF Become, RInv, IInv, TypeOK, PipelineTypeOK
<1>6. Exclusive'
  BY <1>2, <1>4, <1>5, LocalExclusive DEF RInv, PublishVerdict, Exclusive, Held
<1>7. /\ submissions[id].status = Current(c).status /\ scored[id] = 0
      /\ announced[id] \subseteq {submissions[id].status}
  BY <1>1, <1>2 DEF RInv, HandlerOK, RowOK
<1>8. announced' = [announced EXCEPT ![id] = {submissions[id].status}]
  <2>1. announced' = [announced EXCEPT ![id] = @ \cup {submissions[id].status}]
    BY <1>1, <1>7 DEF PublishVerdict
  <2>2. announced[id] \cup {submissions[id].status} = {submissions[id].status}
    BY <1>7
  <2> QED BY <2>1, <2>2
<1>9. UNCHANGED <<dbVars, scored>>
  BY DEF PublishVerdict
<1>10. RowOK(id)'
  BY <1>2, <1>7, <1>8, <1>9 DEF RowOK, dbVars, Final, Exists
<1>11. HandlerOK(c)'
  BY <1>1, <1>4, <1>5, <1>7, <1>9 DEF HandlerOK, Current
<1>12. TotalsMatchRows' /\ ProgressMatchesRows'
  BY <1>9, SameCounts DEF RInv
<1>13. RInv'
  BY <1>1, <1>2, <1>5, <1>6, <1>8, <1>9, <1>10, <1>11, <1>12, HandlerStep DEF dbVars
<1>14. Lifecycle!Tell(id)
  BY <1>2, <1>8, <1>9
     DEF Lifecycle!Tell, Lifecycle!Graded, Lifecycle!Taken, Final, Exists, dbVars
<1> QED BY <1>13, <1>14 DEF MapsTo, Lifecycle!LedgerNext

LEMMA ScoreMaps ==
    ASSUME RInv, IInv', NEW c \in Consumers, UpdateContestScore(c)
    PROVE  RInv' /\ MapsTo
<1>1. PICK id \in Submissions : id = Current(c).sid
  BY CurrentType DEF RInv, UpdateContestScore
<1>2. /\ consumer[c] \in ConsumerType /\ consumer[c].pc = "scoring"
      /\ consumer[c].msg \in Held(c) /\ scored \in [Submissions -> Nat] /\ Final(id)
  BY <1>1, CurrentType DEF RInv, IInv, TypeOK, PipelineTypeOK, UpdateContestScore, ConsumerOK
<1> DEFINE state == [consumer[c] EXCEPT !.pc = "deleting"]
<1>3. /\ state.pc = "deleting" /\ state.msg = consumer[c].msg
      /\ state.batch = consumer[c].batch
  BY <1>2 DEF ConsumerType
<1>4. /\ consumer' = [consumer EXCEPT ![c] = state] /\ consumer'[c] = state
      /\ \A d \in Consumers : d # c => consumer'[d] = consumer[d]
  BY DEF UpdateContestScore, Become, RInv, IInv, TypeOK, PipelineTypeOK
<1>5. Exclusive'
  BY <1>2, <1>3, <1>4, LocalExclusive DEF RInv, UpdateContestScore, Exclusive, Held
<1>6. scored[id] = 0 /\ announced[id] \subseteq {submissions[id].status}
  BY <1>1, <1>2 DEF RInv, HandlerOK, RowOK
<1>7. /\ scored'[id] = 1 /\ \A s \in Submissions : s # id => scored'[s] = scored[s]
      /\ UNCHANGED <<dbVars, announced>>
  BY <1>1, <1>2, <1>6 DEF UpdateContestScore
<1>8. RowOK(id)' /\ HandlerOK(c)'
  <2>1. Final(id)' /\ UNCHANGED <<submissions, announced>>
    BY <1>2, <1>7 DEF dbVars, Final, Exists
  <2>2. RowOK(id)'
    BY <1>6, <1>7, <2>1 DEF RowOK
  <2>3. HandlerOK(c)'
    BY <1>3, <1>4 DEF HandlerOK
  <2> QED BY <2>2, <2>3
<1>9. TotalsMatchRows' /\ ProgressMatchesRows'
  BY <1>7, SameCounts DEF RInv
<1>10. RInv'
  BY <1>1, <1>2, <1>4, <1>5, <1>7, <1>8, <1>9, HandlerStep DEF dbVars
<1> QED BY <1>7, <1>10 DEF MapsTo, dbVars

(* The consumer steps that leave rows, scores and channels alone.          *)
LEMMA QuietConsumerMaps ==
    ASSUME RInv, IInv', Exclusive', SameRowData, NEW c \in Consumers, NEW state,
           consumer' = [consumer EXCEPT ![c] = state],
           state.pc \in {"polling", "deleting"}
              \/ (state.pc = "updating" /\ IsOpen(state.msg.body.sid))
    PROVE  RInv' /\ MapsTo
<1>1. consumer'[c] = state /\ \A d \in Consumers : d # c => consumer'[d] = consumer[d]
  BY DEF RInv, IInv, TypeOK, PipelineTypeOK
<1>2. HandlerOK(c)'
  BY <1>1 DEF HandlerOK, Current, SameRowData, dbVars, IsOpen, Exists
<1>3. RInv'
  BY <1>1, <1>2, QuietRows
<1> QED BY <1>3 DEF MapsTo, SameRowData, dbVars

LEMMA ReceiveResultsMaps ==
    ASSUME NoRace, RInv, IInv', NEW c \in Consumers, ReceiveResults(c)
    PROVE  RInv' /\ MapsTo
<1>1. PICK batch \in SUBSET resultQueue.msgs : consumer' = [consumer EXCEPT ![c].batch = batch]
  BY DEF ReceiveResults
<1>2. Exclusive'
  BY ReceiveExclusive DEF RInv
<1> DEFINE state == [consumer[c] EXCEPT !.batch = batch]
<1>3. state.pc = "polling"
  BY DEF ReceiveResults, IdleConsumer
<1>4. consumer' = [consumer EXCEPT ![c] = state] /\ SameRowData
  BY <1>1 DEF ReceiveResults, SameRowData
<1> QED BY <1>2, <1>3, <1>4, QuietConsumerMaps

LEMMA CheckRowMaps ==
    ASSUME RInv, IInv', NEW c \in Consumers, CheckRow(c)
    PROVE  RInv' /\ MapsTo
<1>1. PICK m \in Heads(consumer[c].batch) :
          consumer' = [consumer EXCEPT ![c] =
              [pc    |-> IF IsOpen(m.body.sid) THEN "updating" ELSE "deleting",
               batch |-> @.batch \ {m}, msg |-> m]]
  BY DEF CheckRow
<1>2. PICK state : state = [pc    |-> IF IsOpen(m.body.sid) THEN "updating" ELSE "deleting",
                            batch |-> consumer[c].batch \ {m}, msg |-> m]
  OBVIOUS
<1>3. consumer' = [consumer EXCEPT ![c] = state]
  BY <1>1, <1>2
<1>4. m \in consumer[c].batch
  BY DEF Heads
<1>5. /\ state.msg = m /\ state.batch = consumer[c].batch \ {m}
      /\ state.pc \in {"polling", "deleting"}
            \/ (state.pc = "updating" /\ IsOpen(state.msg.body.sid))
  BY <1>2
<1>6. Exclusive'
  BY <1>3, <1>4, <1>5, LocalExclusive DEF RInv, CheckRow, Held
<1>7. SameRowData
  BY DEF CheckRow, SameRowData
<1> QED BY <1>3, <1>5, <1>6, <1>7, QuietConsumerMaps

LEMMA CheckRowFailsMaps ==
    ASSUME RInv, IInv', NEW c \in Consumers, CheckRowFails(c)
    PROVE  RInv' /\ MapsTo
<1>1. PICK m \in Heads(consumer[c].batch) :
          consumer' = [consumer EXCEPT ![c].batch = @ \ {m}]
  BY DEF CheckRowFails
<1> DEFINE state == [consumer[c] EXCEPT !.batch = @ \ {m}]
<1>2. /\ state.pc = "polling" /\ state.msg = consumer[c].msg
      /\ state.batch = consumer[c].batch \ {m}
  BY DEF RInv, IInv, TypeOK, PipelineTypeOK, ConsumerType, CheckRowFails
<1>3. consumer' = [consumer EXCEPT ![c] = state]
  BY <1>1
<1>4. Exclusive'
  <2>1. IInv /\ Exclusive /\ UNCHANGED resultQueue
    BY DEF RInv, CheckRowFails
  <2>2. state.batch \cup ({state.msg} \ {NoMessage}) \subseteq Held(c)
    BY <1>2 DEF Held
  <2>3. state.msg \notin state.batch
    BY <1>2, <2>1 DEF Exclusive
  <2> QED BY <1>3, <2>1, <2>2, <2>3, LocalExclusive
<1>5. SameRowData
  BY DEF CheckRowFails, SameRowData
<1> QED BY <1>2, <1>3, <1>4, <1>5, QuietConsumerMaps

LEMMA RedisFailsMaps ==
    ASSUME RInv, IInv', NEW c \in Consumers, RedisFails(c)
    PROVE  RInv' /\ MapsTo
<1> DEFINE state == [consumer[c] EXCEPT !.pc = "deleting"]
<1>1. /\ state.pc = "deleting" /\ state.msg = consumer[c].msg
      /\ state.batch = consumer[c].batch
  BY DEF RInv, IInv, TypeOK, PipelineTypeOK, ConsumerType
<1>2. consumer' = [consumer EXCEPT ![c] = state] /\ SameRowData
  BY DEF RedisFails, Become, SameRowData
<1>3. Exclusive'
  BY <1>1, <1>2, LocalExclusive DEF RInv, RedisFails, Exclusive, Held
<1> QED BY <1>1, <1>2, <1>3, QuietConsumerMaps

LEMMA DeleteResultMaps ==
    ASSUME RInv, IInv', NEW c \in Consumers, DeleteResult(c) \/ DeleteResultFails(c)
    PROVE  RInv' /\ MapsTo
<1> DEFINE state == [consumer[c] EXCEPT !.pc = "polling", !.msg = NoMessage]
<1>1. /\ state.pc = "polling" /\ state.msg = NoMessage
      /\ state.batch = consumer[c].batch
  BY DEF RInv, IInv, TypeOK, PipelineTypeOK, ConsumerType
<1>2. consumer' = [consumer EXCEPT ![c] = state] /\ SameRowData
  BY DEF DeleteResult, DeleteResultFails, NextMessage, SameRowData, RInv, IInv, TypeOK,
         PipelineTypeOK, ConsumerType
<1>3. NoMessage \notin consumer[c].batch
  BY PipelineAssumption DEF RInv, IInv, TypeOK, PipelineTypeOK, ConsumerType
<1>4. Exclusive'
  <2>1. CASE DeleteResult(c)
    BY <2>1, DeleteExclusive DEF RInv
  <2>2. CASE DeleteResultFails(c)
    BY <1>1, <1>2, <1>3, <2>2, LocalExclusive DEF RInv, DeleteResultFails, Held
  <2> QED BY <2>1, <2>2
<1> QED BY <1>1, <1>2, <1>4, QuietConsumerMaps

LEMMA CrashConsumerMaps ==
    ASSUME RInv, IInv', NEW c \in Consumers, CrashConsumer(c)
    PROVE  RInv' /\ MapsTo
<1>1. consumer' = [consumer EXCEPT ![c] = IdleConsumer] /\ SameRowData
  BY DEF CrashConsumer, SameRowData
<1>2. Exclusive'
  BY <1>1, LocalExclusive DEF RInv, CrashConsumer, IdleConsumer
<1> QED BY <1>1, <1>2, QuietConsumerMaps DEF IdleConsumer

LEMMA ConsumerStepMaps ==
    ASSUME NoRace, RInv, IInv', NEW c \in Consumers, ConsumerStep(c)
    PROVE  RInv' /\ MapsTo
BY ReceiveResultsMaps, CheckRowMaps, CheckRowFailsMaps, UpdateRowMaps, UpdateRowFailsMaps,
   PublishVerdictMaps, ScoreMaps, RedisFailsMaps, DeleteResultMaps, CrashConsumerMaps
   DEF ConsumerStep

(* The steps no consumer takes, the backend's INSERT excepted.             *)
LEMMA OutsideMaps ==
    ASSUME RInv, IInv', Exclusive', SameRowData, UNCHANGED consumer
    PROVE  RInv' /\ MapsTo
<1>1. \A d \in Consumers : HandlerOK(d)'
  BY DEF RInv, HandlerOK, Current, SameRowData, dbVars, IsOpen, Exists
<1>2. \A s \in Submissions : RowOK(s)'
  BY DEF RInv, RowOK, SameRowData, dbVars, Final, Exists
<1>3. TotalsMatchRows' /\ ProgressMatchesRows'
  BY SameCounts DEF RInv, SameRowData
<1> QED BY <1>1, <1>2, <1>3 DEF RInv, MapsTo, SameRowData, dbVars

LEMMA StillExclusive ==
    ASSUME Exclusive, UNCHANGED <<resultQueue, consumer>>
    PROVE  Exclusive'
BY DEF Exclusive, Locked, Hidden, Held

LEMMA WorkerStepMaps ==
    ASSUME RInv, IInv', NEW w \in Workers, WorkerStep(w)
    PROVE  RInv' /\ MapsTo
<1>1. SameRowData /\ UNCHANGED consumer
  BY DEF SameRowData, WorkerStep, ReceiveSubmission, JudgeRun, JudgeFails, PublishResult,
         PublishResultFails, DeleteSubmission, DeleteSubmissionFails, CrashWorker, consumerVars
<1>2. CASE UNCHANGED resultQueue
  BY <1>1, <1>2, StillExclusive, OutsideMaps DEF RInv
<1>3. CASE worker[w].pc = "publishing" /\ publishResult(w)
  BY <1>1, <1>3, SendExclusive, OutsideMaps DEF RInv
<1> QED BY <1>2, <1>3
        DEF WorkerStep, ReceiveSubmission, JudgeRun, JudgeFails, PublishResult,
            PublishResultFails, DeleteSubmission, DeleteSubmissionFails, CrashWorker

LEMMA TimeMaps ==
    ASSUME NoRace, RInv, IInv', SubmissionQueueTime \/ ResultQueueTime
    PROVE  RInv' /\ MapsTo
<1>1. SameRowData /\ UNCHANGED consumer
  BY DEF SameRowData, SubmissionQueueTime, ResultQueueTime, ResultReappears, ResultDedupEnds,
         pipelineVars, consumerVars
<1>2. Exclusive'
  BY <1>1, TimeExclusive, StillExclusive DEF RInv, SubmissionQueueTime, pipelineVars
<1> QED BY <1>1, <1>2, OutsideMaps

LEMMA BackendSendsMaps ==
    ASSUME RInv, IInv', NEW s \in Submissions, BackendSends(s)
    PROVE  RInv' /\ MapsTo
<1>1. SameRowData /\ UNCHANGED <<resultQueue, consumer>>
  BY DEF SameRowData, BackendSends, pipelineVars, consumerVars
<1> QED BY <1>1, StillExclusive, OutsideMaps DEF RInv

(* An INSERT is a Take.                                                    *)
LEMMA BackendInsertsMaps ==
    ASSUME RInv, IInv', NEW s \in Submissions, BackendInserts(s)
    PROVE  RInv' /\ MapsTo
<1>1. PICK row \in Row : row.status = "PENDING" /\ InsertSubmission(s, row)
  BY PipelineAssumption DEF BackendInserts
<1>2. /\ UNCHANGED <<resultQueue, consumer, announced, scored, problems, userProblemStatus>>
      /\ ~ Exists(s) /\ submissions' = [submissions EXCEPT ![s] = row] /\ DbTypeOK
  BY <1>1 DEF BackendInserts, pipelineVars, consumerVars, InsertSubmission, RInv, IInv, TypeOK
<1>3. submissions'[s] = row /\ \A t \in Submissions : t # s => submissions'[t] = submissions[t]
  BY <1>2 DEF DbTypeOK
<1>4. ASSUME NEW c \in Consumers, consumer[c].pc # "polling"
      PROVE  Current(c).sid # s /\ Current(c).sid \in Submissions
  BY <1>2, <1>4, CurrentType DEF RInv
<1>5. ASSUME NEW c \in Consumers PROVE HandlerOK(c)'
  <2>1. HandlerOK(c) /\ consumer'[c] = consumer[c] /\ Current(c)' = Current(c)
    BY <1>2 DEF RInv, Current
  <2>2. CASE consumer[c].pc = "polling"
    BY <2>1, <2>2 DEF HandlerOK
  <2>3. CASE consumer[c].pc # "polling"
    <3>1. /\ submissions'[Current(c).sid] = submissions[Current(c).sid]
          /\ scored'[Current(c).sid] = scored[Current(c).sid]
      BY <1>2, <1>3, <1>4, <2>3
    <3> QED BY <2>1, <3>1 DEF HandlerOK, IsOpen, Exists
  <2> QED BY <2>2, <2>3
<1>6. \A t \in Submissions : t # s => RowOK(t)'
  BY <1>2, <1>3 DEF RInv, RowOK, Final, Exists
<1>7. RowOK(s)'
  <2>1. scored[s] = 0 /\ announced[s] = {}
    BY <1>2 DEF RInv, RowOK, Final
  <2> QED BY <1>2, <2>1 DEF RowOK
<1>8. TotalsMatchRows' /\ ProgressMatchesRows'
  BY <1>1, <1>2, InsertCounts DEF RInv, TotalsMatchRows, ProgressMatchesRows
<1>9. Exclusive'
  BY <1>2, StillExclusive DEF RInv
<1>10. RInv'
  BY <1>5, <1>6, <1>7, <1>8, <1>9 DEF RInv
<1>11. Lifecycle!Take(s)
  BY <1>1, <1>2 DEF Lifecycle!Take, Lifecycle!Taken, Exists
<1> QED BY <1>10, <1>11 DEF MapsTo, Lifecycle!LedgerNext

-----------------------------------------------------------------------------

LEMMA RInit == Init => RInv /\ Lifecycle!LedgerInit
<1> SUFFICES ASSUME Init PROVE RInv /\ Lifecycle!LedgerInit
  OBVIOUS
<1>1. IInv /\ DbInit /\ PipelineInit
  BY InitInv DEF Init
<1>2. \A s \in Submissions : submissions[s] = NoRow /\ announced[s] = {} /\ scored[s] = 0
  BY <1>1 DEF DbInit, PipelineInit
<1>3. \A c \in Consumers : consumer[c].pc = "polling" /\ consumer[c].batch = {} /\ Held(c) = {}
  BY <1>1 DEF PipelineInit, IdleConsumer, Held
<1>4. resultQueue.msgs = {}
  BY <1>1 DEF PipelineInit, EmptyQueue
<1>5. Exclusive
  BY <1>3, <1>4 DEF Exclusive
<1>6. (\A c \in Consumers : HandlerOK(c)) /\ (\A s \in Submissions : RowOK(s))
  BY <1>2, <1>3 DEF HandlerOK, RowOK
<1>7. \A p \in Problems : JudgedRows(p) = {} /\ AcceptedRows(p) = {}
  BY <1>2 DEF JudgedRows, AcceptedRows, Final, Exists
<1>8. TotalsMatchRows
  BY <1>1, <1>7, FS_EmptySet DEF TotalsMatchRows, DbInit
<1>9. ProgressMatchesRows
  BY <1>1, <1>7 DEF ProgressMatchesRows, AttemptsOf, DbInit
<1>10. RInv
  BY <1>1, <1>5, <1>6, <1>8, <1>9 DEF RInv
<1>11. Lifecycle!LedgerInit
  <2>1. problems = Lifecycle!Board
    BY <1>1, <1>8, BoardIs DEF IInv, TypeOK
  <2> QED BY <1>1, <2>1 DEF Lifecycle!LedgerInit, DbInit, PipelineInit
<1> QED BY <1>10, <1>11

LEMMA RNext ==
    ASSUME NoRace
    PROVE  RInv /\ [Next]_vars => RInv' /\ [Lifecycle!LedgerNext]_(Lifecycle!lifecycleVars)
<1> SUFFICES ASSUME RInv, [Next]_vars
             PROVE  RInv' /\ [Lifecycle!LedgerNext]_(Lifecycle!lifecycleVars)
  OBVIOUS
<1>1. IInv'
  BY NextInv, StutterInv DEF RInv
<1>2. CASE Next
  <2>1. RInv' /\ MapsTo
    BY <1>1, <1>2, WorkerStepMaps, ConsumerStepMaps, TimeMaps, BackendInsertsMaps,
       BackendSendsMaps
       DEF Next, PipelineNext
  <2> QED BY <2>1 DEF MapsTo, Lifecycle!lifecycleVars
<1>3. CASE UNCHANGED vars
  <2>1. SameRowData /\ UNCHANGED <<resultQueue, consumer>>
    BY <1>3 DEF vars, pipelineVars, consumerVars, SameRowData
  <2>2. RInv' /\ MapsTo
    BY <1>1, <2>1, StillExclusive, OutsideMaps DEF RInv
  <2> QED BY <2>1, <2>2 DEF SameRowData, dbVars, Lifecycle!lifecycleVars
<1> QED BY <1>2, <1>3

(* One consumer at a time handles a submission, and what it last read of   *)
(* it stays true until it is done.                                         *)
THEOREM RInvariance ==
    ASSUME NoRace
    PROVE  Spec => []RInv
<1>1. RInv /\ [Next]_vars => RInv'
  BY RNext
<1> QED BY RInit, <1>1, PTL DEF Spec

(* A submission is scored at most once, through crashes, redeliveries,     *)
(* failed deletes and re-sent submissions.                                 *)
THEOREM ScoredOnce ==
    ASSUME NoRace
    PROVE  Spec => []ScoredAtMostOnce
<1>1. RInv => ScoredAtMostOnce
  BY DEF RInv, RowOK, ScoredAtMostOnce
<1> QED BY <1>1, RInvariance, PTL

(* What a user's page says of a problem is what the rows say.              *)
THEOREM ProgressIsTrue ==
    ASSUME NoRace
    PROVE  Spec => []ProgressMatchesRows
<1>1. RInv => ProgressMatchesRows
  BY DEF RInv
<1> QED BY <1>1, RInvariance, PTL

(* The pipeline implements the lifecycle: an INSERT is a Take, a committed *)
(* UPDATE a Grade, a publish a Tell, and every other step a stutter.       *)
THEOREM Refinement ==
    ASSUME NoRace
    PROVE  Spec => ImplementsLifecycle
<1>1. Init => Lifecycle!LedgerInit
  BY RInit
<1>2. RInv /\ [Next]_vars => [Lifecycle!LedgerNext]_(Lifecycle!lifecycleVars)
  BY RNext
<1> QED BY <1>1, <1>2, RInvariance, PTL DEF Spec, ImplementsLifecycle, Lifecycle!LedgerSpec

-----------------------------------------------------------------------------
(* 3. What the lifecycle gives whoever relies on it.                       *)

LedgerInv ==
    /\ DOMAIN submissions = Submissions
    /\ DOMAIN announced = Submissions
    /\ Lifecycle!ToldTheGrade

LEMMA LedgerInvInit == Lifecycle!LedgerInit => LedgerInv
BY DEF Lifecycle!LedgerInit, LedgerInv, Lifecycle!ToldTheGrade

(* A step may change the row of one submission, and only if it is open.    *)
LEMMA GradesKept ==
    ASSUME LedgerInv, Lifecycle!LedgerNext
    PROVE  /\ DOMAIN submissions' = Submissions
           /\ \A s \in Submissions :
                 (Lifecycle!Graded(s) \/ announced[s] # {}) => submissions'[s] = submissions[s]
<1> USE DEF LedgerInv
<1>1. PICK s \in Submissions : Lifecycle!Take(s) \/ Lifecycle!Grade(s) \/ Lifecycle!Tell(s)
  BY DEF Lifecycle!LedgerNext
<1>2. CASE Lifecycle!Take(s)
  <2>1. PICK row \in Row : submissions' = [submissions EXCEPT ![s] = row]
    BY <1>2 DEF Lifecycle!Take
  <2>2. ~ Lifecycle!Graded(s)
    BY <1>2 DEF Lifecycle!Take, Lifecycle!Graded
  <2> QED BY <2>1, <2>2 DEF Lifecycle!ToldTheGrade
<1>3. CASE Lifecycle!Grade(s)
  <2>1. PICK v \in Verdicts : submissions' = [submissions EXCEPT ![s].status = v]
    BY <1>3 DEF Lifecycle!Grade
  <2>2. ~ Lifecycle!Graded(s)
    BY <1>3 DEF Lifecycle!Grade
  <2> QED BY <2>1, <2>2 DEF Lifecycle!ToldTheGrade
<1>4. CASE Lifecycle!Tell(s)
  BY <1>4 DEF Lifecycle!Tell
<1> QED BY <1>1, <1>2, <1>3, <1>4

LEMMA LedgerInvStep == LedgerInv /\ [Lifecycle!LedgerNext]_(Lifecycle!lifecycleVars) => LedgerInv'
<1> SUFFICES ASSUME LedgerInv, [Lifecycle!LedgerNext]_(Lifecycle!lifecycleVars) PROVE LedgerInv'
  OBVIOUS
<1>1. CASE UNCHANGED Lifecycle!lifecycleVars
  BY <1>1 DEF Lifecycle!lifecycleVars, LedgerInv, Lifecycle!ToldTheGrade,
              Lifecycle!Graded, Lifecycle!Taken
<1>2. CASE Lifecycle!LedgerNext
  <2>1. PICK s \in Submissions : Lifecycle!Take(s) \/ Lifecycle!Grade(s) \/ Lifecycle!Tell(s)
    BY <1>2 DEF Lifecycle!LedgerNext
  <2>2. /\ DOMAIN submissions' = Submissions
        /\ \A t \in Submissions :
              (Lifecycle!Graded(t) \/ announced[t] # {}) => submissions'[t] = submissions[t]
    BY <1>2, GradesKept
  <2>3. CASE Lifecycle!Tell(s)
    BY <2>2, <2>3 DEF Lifecycle!Tell, LedgerInv, Lifecycle!ToldTheGrade,
                      Lifecycle!Graded, Lifecycle!Taken
  <2>4. CASE Lifecycle!Take(s) \/ Lifecycle!Grade(s)
    <3>1. announced' = announced
      BY <2>4 DEF Lifecycle!Take, Lifecycle!Grade
    <3> QED BY <2>2, <3>1 DEF LedgerInv, Lifecycle!ToldTheGrade, Lifecycle!Graded,
                              Lifecycle!Taken
  <2> QED BY <2>1, <2>3, <2>4
<1> QED BY <1>1, <1>2

(* In the lifecycle a watcher was told nothing but the verdict that the    *)
(* row has now.                                                            *)
LEMMA WatchersKnowTheGrade == Lifecycle!LedgerSpec => []Lifecycle!ToldTheGrade
<1>1. LedgerInv => Lifecycle!ToldTheGrade
  BY DEF LedgerInv
<1> QED BY <1>1, LedgerInvInit, LedgerInvStep, PTL DEF Lifecycle!LedgerSpec

(* In the lifecycle a stored verdict is never replaced by another.         *)
LEMMA GradesAreFinal == Lifecycle!LedgerSpec => Lifecycle!GradeIsFinal
<1> DEFINE Still == \A s \in Submissions :
                       Lifecycle!Graded(s) => submissions'[s] = submissions[s]
<1>1. LedgerInv /\ [Lifecycle!LedgerNext]_(Lifecycle!lifecycleVars)
         => [Still]_(Lifecycle!lifecycleVars)
  BY GradesKept
<1>2. Lifecycle!LedgerSpec => []LedgerInv
  BY LedgerInvInit, LedgerInvStep, PTL DEF Lifecycle!LedgerSpec
<1> QED BY <1>1, <1>2, PTL DEF Lifecycle!LedgerSpec, Lifecycle!GradeIsFinal

-----------------------------------------------------------------------------
(* 4. The system.                                                          *)

Kept(s) == Queued(s) \/ Reported(s) \/ Final(s)

\* What the system needs to know of a request.
CallOK(r) ==
    /\ pc[r] # "done" => answer[r] = 0
    /\ pc[r] \in H!Running => input[r].key # BadKey
    /\ pc[r] \in {"enqueue", "resend"} \/ H!Accepted(r) =>
          sid[r] \in Submissions /\ Exists(sid[r])
    /\ H!Accepted(r) => Kept(sid[r])

NotRunning(s) == Exists(s) => submissions[s].status # "RUNNING"

SystemInv ==
    /\ IInv
    /\ H!HandlerTypeOK
    /\ \A r \in Requests : CallOK(r)
    /\ \A s \in Submissions : NotRunning(s)
    /\ \A s \in submissionQueue.window : Kept(s)

(* A client that was told its submission was taken has a message that will *)
(* be judged, a result on its way, or a verdict: through retries, swallowed *)
(* sends, crashes and late deletes.                                        *)
AcceptedIsKept == \A r \in Requests : H!Accepted(r) => Kept(sid[r])

-----------------------------------------------------------------------------
(* Whatever a step of the pipeline or of its backend does, a submission    *)
(* that was kept stays so.                                                 *)
LEMMA StaysKept ==
    ASSUME StepOK, NEW s \in Submissions, Kept(s)
    PROVE  Kept(s)'
BY DEF StepOK, MessagesKept, RowsGrow, Kept

(* Only verdicts and PENDING are ever stored.                              *)
LEMMA StaysNotRunning ==
    ASSUME IInv, Next, NEW s \in Submissions, NotRunning(s)
    PROVE  NotRunning(s)'
<1>1. submissions \in [Submissions -> Row \cup {NoRow}]
  BY DEF IInv, TypeOK, DbTypeOK
<1>2. CASE UNCHANGED dbVars
  BY <1>2 DEF NotRunning, Exists, dbVars
<1>3. CASE \E t \in Submissions, row \in Row :
              row.status = "PENDING" /\ InsertSubmission(t, row)
  BY <1>1, <1>3 DEF NotRunning, Exists, InsertSubmission
<1>4. CASE \E t \in Submissions, v \in Verdicts : Exists(t) /\ UpdateStatus(t, v)
  <2>1. PICK t \in Submissions, v \in Verdicts : Exists(t) /\ UpdateStatus(t, v)
    BY <1>4
  <2>2. /\ submissions[t] \in Row /\ v # "RUNNING"
        /\ submissions' = [submissions EXCEPT ![t].status = v]
    BY <1>1, <2>1, DbAssumption DEF Exists, UpdateStatus, Open
  <2>3. CASE s = t
    <3>1. submissions'[s].status = v
      BY <1>1, <2>2, <2>3 DEF Row
    <3> QED BY <2>2, <3>1 DEF NotRunning
  <2>4. CASE s # t
    BY <1>1, <2>2, <2>4 DEF NotRunning, Exists
  <2> QED BY <2>3, <2>4
<1> QED BY <1>2, <1>3, <1>4, RowEffects

(* A request that takes no step keeps what the system knows of it.         *)
LEMMA OtherCall ==
    ASSUME StepOK, UNCHANGED input, NEW r \in Requests, CallOK(r),
           pc'[r] = pc[r], sid'[r] = sid[r], answer'[r] = answer[r]
    PROVE  CallOK(r)'
<1>1. (H!Accepted(r)' <=> H!Accepted(r))
  BY DEF H!Accepted
<1>2. sid[r] \in Submissions /\ Exists(sid[r]) => Exists(sid[r])'
  BY DEF StepOK, RowsGrow
<1>3. sid[r] \in Submissions /\ Kept(sid[r]) => Kept(sid[r])'
  BY StaysKept
<1> QED BY <1>1, <1>2, <1>3 DEF CallOK, Kept, Exists, Final, Queued, Reported
(* One request moved, by a step the pipeline allows its backend.           *)
LEMMA CallMoves ==
    ASSUME SystemInv, [Next]_vars, UNCHANGED input, H!HandlerTypeOK',
           submissionQueue'.window \subseteq submissionQueue.window \cup
               {s \in Submissions : Kept(s)'},
           NEW r \in Requests, CallOK(r)',
           \A q \in Requests : q # r =>
               pc'[q] = pc[q] /\ sid'[q] = sid[q] /\ answer'[q] = answer[q]
    PROVE  SystemInv'
<1>1. IInv' /\ StepOK
  BY NextInv, StutterInv DEF SystemInv
<1>2. \A q \in Requests : CallOK(q)'
  BY <1>1, OtherCall DEF SystemInv
<1>3. \A s \in Submissions : NotRunning(s)'
  <2>1. CASE Next
    BY <2>1, StaysNotRunning DEF SystemInv
  <2>2. CASE UNCHANGED vars
    BY <2>2 DEF SystemInv, NotRunning, Exists, vars, dbVars
  <2> QED BY <2>1, <2>2
<1>4. \A s \in submissionQueue'.window : Kept(s)'
  <2>1. submissionQueue.window \subseteq Submissions
    BY DEF SystemInv, IInv, TypeOK, SubmissionQueueTypeOK, QueueType
  <2> QED BY <1>1, <2>1, StaysKept DEF SystemInv
<1> QED BY <1>1, <1>2, <1>3, <1>4 DEF SystemInv

(* The steps of a request that touch neither the tables nor the queue.     *)
Local(r) == H!Arrive(r) \/ H!CheckContest(r) \/ H!CheckProblem(r) \/ H!Replay(r)
            \/ H!NewKey(r) \/ H!UniqueViolation(r) \/ H!Fails(r)

\* What a request reads of its original when its key was seen before.
LEMMA ReplayOK ==
    ASSUME SystemInv, NEW r \in Requests, H!Replay(r), UNCHANGED pipelineVars
    PROVE  H!HandlerTypeOK' /\ CallOK(r)'
<1>1. PICK s \in Submissions : Exists(s) /\ H!respondReplay(r, s)
  BY DEF H!Replay, H!Original, H!findByIdempotencyKey, H!Exists, Exists
<1>2. /\ submissions[s] \in Row /\ submissions[s].status \in Open \cup Verdicts
      /\ submissions[s].status # "RUNNING"
  BY <1>1 DEF SystemInv, IInv, TypeOK, DbTypeOK, NotRunning, Exists, Row
<1>3. H!HandlerTypeOK /\ CallOK(r) /\ pc[r] \in {"lookup", "conflict"} /\ UNCHANGED vars
  BY DEF SystemInv, H!Replay, H!dbVars, vars, dbVars
<1>4. sid'[r] = s /\ UNCHANGED <<input, contestPhase>>
  BY <1>1, <1>3 DEF H!respondReplay, H!HandlerTypeOK, H!Replay
<1>5. H!HandlerTypeOK'
  BY <1>1, <1>2, <1>3, <1>4 DEF H!respondReplay, H!HandlerTypeOK, H!Goto, H!Respond,
         H!Running, H!Open, Open
<1>6. CASE pc'[r] = "resend" /\ answer'[r] = answer[r]
  BY <1>1, <1>3, <1>4, <1>5, <1>6 DEF CallOK, H!Accepted, H!Running, Exists, vars, dbVars
<1>7. CASE pc'[r] = "done" /\ answer'[r] = 409
  BY <1>4, <1>5, <1>7 DEF CallOK, H!Accepted, H!Running
<1>8. CASE pc'[r] = "done" /\ answer'[r] = 200 /\ submissions[s].status # "PENDING"
  <2>1. Final(s)'
    BY <1>1, <1>2, <1>3, <1>8 DEF Final, Exists, Open, vars, dbVars
  <2> QED BY <1>4, <1>5, <1>8, <2>1 DEF CallOK, H!Running, Kept, Final
<1>9. \/ pc'[r] = "resend" /\ answer'[r] = answer[r]
      \/ pc'[r] = "done" /\ answer'[r] = 409
      \/ pc'[r] = "done" /\ answer'[r] = 200 /\ submissions[s].status # "PENDING"
  BY <1>1, <1>3 DEF H!respondReplay, H!Goto, H!Respond, H!HandlerTypeOK
<1> QED BY <1>5, <1>6, <1>7, <1>8, <1>9

LEMMA LocalOK ==
    ASSUME SystemInv, NEW r \in Requests, Local(r), UNCHANGED pipelineVars
    PROVE  SystemInv' /\ UNCHANGED vars
<1>1. UNCHANGED vars /\ UNCHANGED <<input, contestPhase>>
  BY DEF Local, H!Arrive, H!CheckContest, H!CheckProblem, H!Replay, H!NewKey,
         H!UniqueViolation, H!Fails, H!dbVars, vars, dbVars
<1>2. H!HandlerTypeOK /\ CallOK(r)
  BY DEF SystemInv
<1>3. \A q \in Requests : q # r =>
          pc'[q] = pc[q] /\ sid'[q] = sid[q] /\ answer'[q] = answer[q]
  BY <1>2 DEF Local, H!Arrive, H!CheckContest, H!CheckProblem, H!Replay, H!respondReplay,
              H!NewKey, H!UniqueViolation, H!Fails, H!Goto, H!Respond, H!HandlerTypeOK
<1>4. H!HandlerTypeOK' /\ CallOK(r)'
  <2>1. CASE H!Replay(r)
    BY <2>1, ReplayOK
  <2>2. CASE Local(r) /\ ~ H!Replay(r)
    <3>1. UNCHANGED <<sid, seen>>
      BY <2>2 DEF Local, H!Arrive, H!CheckContest, H!CheckProblem, H!NewKey,
                  H!UniqueViolation, H!Fails
    <3>2. \/ pc'[r] = "done" /\ answer'[r] \in {400, 403, 404, 500}
          \/ /\ pc'[r] \in {"contest", "problem", "lookup", "insert", "conflict"}
             /\ answer'[r] = answer[r] /\ input[r].key # BadKey /\ answer[r] = 0
      <4>1. ProblemState[input[r].problem] \in {"public", "missing", "private", "no_tests"}
        BY <1>2, SystemAssumption DEF H!HandlerTypeOK, H!Input
      <4>2. CASE H!Arrive(r)
        BY <1>2, <4>2 DEF H!Arrive, H!Goto, H!Respond, H!HandlerTypeOK, CallOK
      <4>3. CASE H!CheckContest(r)
        BY <1>2, <4>3 DEF H!CheckContest, H!Goto, H!Respond, H!HandlerTypeOK, CallOK, H!Running
      <4>4. CASE H!CheckProblem(r)
        BY <1>2, <4>1, <4>4 DEF H!CheckProblem, H!Goto, H!Respond, H!HandlerTypeOK, CallOK,
                                H!Running
      <4>5. CASE H!NewKey(r) \/ H!UniqueViolation(r) \/ H!Fails(r)
        BY <1>2, <4>5 DEF H!NewKey, H!UniqueViolation, H!Fails, H!Goto, H!Respond,
                          H!HandlerTypeOK, CallOK, H!Running
      <4> QED BY <2>2, <4>2, <4>3, <4>4, <4>5 DEF Local
    <3>3. \E p \in H!Running \cup {"waiting", "done"}, a \in {0, 400, 403, 404, 500} :
              /\ pc' = [pc EXCEPT ![r] = p]
              /\ answer' = [answer EXCEPT ![r] = a] \/ answer' = answer
      <4>1. \E p : pc' = [pc EXCEPT ![r] = p]
        BY <2>2 DEF Local, H!Arrive, H!CheckContest, H!CheckProblem, H!NewKey,
                    H!UniqueViolation, H!Fails, H!Goto, H!Respond
      <4>2. UNCHANGED answer \/ \E a : answer' = [answer EXCEPT ![r] = a]
        BY <2>2 DEF Local, H!Arrive, H!CheckContest, H!CheckProblem, H!NewKey,
                    H!UniqueViolation, H!Fails, H!Goto, H!Respond
      <4>3. pc' = [pc EXCEPT ![r] = pc'[r]] /\ pc'[r] \in H!Running \cup {"waiting", "done"}
        BY <1>2, <3>2, <4>1 DEF H!HandlerTypeOK, H!Running
      <4>4. CASE UNCHANGED answer
        BY <4>3, <4>4
      <4>5. CASE \E a : answer' = [answer EXCEPT ![r] = a]
        <5>1. answer' = [answer EXCEPT ![r] = answer'[r]]
          BY <1>2, <4>5 DEF H!HandlerTypeOK
        <5>2. answer'[r] \in {0, 400, 403, 404, 500}
          BY <3>2
        <5> QED BY <4>3, <5>1, <5>2
      <4> QED BY <4>2, <4>4, <4>5
    <3>4. H!HandlerTypeOK'
      BY <1>1, <1>2, <3>1, <3>3 DEF H!HandlerTypeOK, H!Open, Open
    <3>5. CallOK(r)'
      BY <1>1, <3>2 DEF CallOK, H!Accepted, H!Running
    <3> QED BY <3>4, <3>5
  <2> QED BY <2>1, <2>2
<1>5. submissionQueue'.window \subseteq submissionQueue.window
  BY <1>1 DEF vars
<1>6. SystemInv'
  BY <1>1, <1>3, <1>4, <1>5, CallMoves
<1> QED BY <1>1, <1>6

(* A row is inserted as the pipeline expects it.                           *)
LEMMA InsertStepOK ==
    ASSUME SystemInv, NEW r \in Requests, H!Insert(r), UNCHANGED pipelineVars
    PROVE  SystemInv' /\ Next
<1>1. H!HandlerTypeOK /\ CallOK(r) /\ pc[r] = "insert" /\ DbTypeOK
  BY DEF SystemInv, H!Insert, H!Goto, IInv, TypeOK
<1>2. PICK s \in Submissions :
          H!InsertSubmission(s, H!NewRow(input[r])) /\ sid' = [sid EXCEPT ![r] = s]
  BY DEF H!Insert
<1>3. input[r] \in H!Input /\ input[r].key \in Keys \cup {NoKey}
  BY <1>1, SystemAssumption DEF H!HandlerTypeOK, CallOK, H!Running, H!Input
<1>4. H!NewRow(input[r]) \in Row /\ H!NewRow(input[r]).status = "PENDING"
  BY <1>3 DEF H!NewRow, H!hashRequest, H!Input, Row, Hashes, Open
<1>5. InsertSubmission(s, H!NewRow(input[r]))
  BY <1>2 DEF H!InsertSubmission, InsertSubmission, H!Exists, Exists
<1>6. BackendInserts(s)
  BY <1>4, <1>5, SystemAssumption DEF BackendInserts, H!Insert
<1>7. Exists(s)'
  BY <1>1, <1>4, <1>5, InsertOK
<1>8. /\ pc' = [pc EXCEPT ![r] = "enqueue"] /\ answer[r] = 0
      /\ UNCHANGED <<submissionQueue, input, seen, answer, contestPhase>>
  BY <1>1 DEF H!Insert, H!Goto, CallOK
<1>9. H!HandlerTypeOK'
  BY <1>1, <1>2, <1>8 DEF H!HandlerTypeOK, H!Running
<1>10. CallOK(r)'
  BY <1>1, <1>2, <1>7, <1>8 DEF H!HandlerTypeOK, CallOK, H!Accepted, H!Running
<1>11. Next
  BY <1>6 DEF Next
<1>12. \A q \in Requests : q # r =>
          pc'[q] = pc[q] /\ sid'[q] = sid[q] /\ answer'[q] = answer[q]
  BY <1>1, <1>2, <1>8 DEF H!HandlerTypeOK
<1> QED BY <1>8, <1>9, <1>10, <1>11, <1>12, CallMoves
(* A send that SQS swallows is of a submission that is kept already.       *)
LEMMA SendKeeps ==
    ASSUME SystemInv, NEW s \in Submissions, Exists(s), H!CanEnqueue(s), H!Enqueue(s),
           UNCHANGED <<dbVars, pipelineVars>>
    PROVE  /\ Next /\ StepOK /\ Kept(s)'
           /\ submissionQueue'.window \subseteq submissionQueue.window \cup {s}
<1> DEFINE q == submissionQueue
           u == submissions[s].user
<1>1. q \in QueueType(Users, Submissions, Submissions) /\ Numbered(q) /\ u \in Users
  BY DEF SystemInv, IInv, TypeOK, SubmissionQueueTypeOK, QueuesOK, DbTypeOK, Exists, Row
<1>2. CanSend(q, s) /\ q' = Send(q, u, s, s)
  BY DEF H!CanEnqueue, H!CanSend, CanSend, H!Duplicate, Duplicate, H!Enqueue, H!Send, Send
<1>3. Next
  BY <1>2 DEF BackendSends, CanEnqueue, Enqueue, Next
<1>4. StepOK
  BY <1>3, NextInv DEF SystemInv
<1>5. /\ q'.window \subseteq q.window \cup {s}
      /\ Duplicate(q, s) => q' = q
      /\ ~ Duplicate(q, s) => \E m \in q'.msgs : m.body = s
  BY <1>1, <1>2, SendOK
<1>6. Kept(s)'
  <2>1. CASE Duplicate(q, s)
    BY <1>4, <2>1, StaysKept DEF SystemInv, Duplicate
  <2>2. CASE ~ Duplicate(q, s)
    BY <1>5, <2>2 DEF Kept, Queued
  <2> QED BY <2>1, <2>2
<1> QED BY <1>3, <1>4, <1>5, <1>6

LEMMA PublishStepOK ==
    ASSUME SystemInv, NEW r \in Requests, H!Publish(r) \/ H!PublishFails(r),
           UNCHANGED pipelineVars
    PROVE  SystemInv' /\ [Next]_vars
<1>1. H!HandlerTypeOK /\ CallOK(r) /\ pc[r] \in {"enqueue", "resend"}
  BY DEF SystemInv, H!Publish, H!PublishFails
<1>2. sid[r] \in Submissions /\ Exists(sid[r])
  BY <1>1 DEF CallOK
<1>3. UNCHANGED <<dbVars, input, sid, seen, contestPhase>>
  BY DEF H!Publish, H!PublishFails, H!dbVars, dbVars
<1>4. /\ pc' = [pc EXCEPT ![r] = "done"]
      /\ \E a \in {200, 201, 500} : answer' = [answer EXCEPT ![r] = a]
  BY <1>1 DEF H!Publish, H!PublishFails, H!Respond
<1>5. H!HandlerTypeOK'
  BY <1>1, <1>3, <1>4 DEF H!HandlerTypeOK, H!Open, Open
<1>6. \A q \in Requests : q # r =>
          pc'[q] = pc[q] /\ sid'[q] = sid[q] /\ answer'[q] = answer[q]
  BY <1>1, <1>3, <1>4 DEF H!HandlerTypeOK
<1>7. CASE H!CanEnqueue(sid[r]) /\ H!Enqueue(sid[r])
  <2>1. /\ Next /\ StepOK /\ Kept(sid[r])'
        /\ submissionQueue'.window \subseteq submissionQueue.window \cup {sid[r]}
    BY <1>2, <1>3, <1>7, SendKeeps
  <2>2. Exists(sid[r])'
    BY <1>2, <1>3 DEF Exists, dbVars
  <2>3. CallOK(r)'
    BY <1>1, <1>2, <1>3, <1>4, <2>1, <2>2 DEF CallOK, H!Running, H!HandlerTypeOK, Kept, Queued,
           Reported, Final, Exists
  <2> QED BY <1>2, <1>3, <1>5, <1>6, <2>1, <2>3, CallMoves
<1>8. CASE UNCHANGED submissionQueue /\ H!PublishFails(r)
  <2>1. UNCHANGED vars
    BY <1>3, <1>8 DEF vars
  <2>2. answer'[r] = 500 /\ pc'[r] = "done"
    BY <1>1, <1>8 DEF H!PublishFails, H!Respond, H!HandlerTypeOK
  <2>3. CallOK(r)'
    BY <2>2 DEF CallOK, H!Accepted, H!Running
  <2> QED BY <1>3, <1>5, <1>6, <1>8, <2>1, <2>3, CallMoves
<1> QED BY <1>7, <1>8 DEF H!Publish, H!PublishFails, H!EnqueueFails

-----------------------------------------------------------------------------
(* A step of the pipeline adds no id to the submission queue's window.     *)
LEMMA PipelineStepOK ==
    ASSUME SystemInv, PipelineNext, UNCHANGED handlerVars
    PROVE  SystemInv' /\ Next
<1>1. Next /\ UNCHANGED <<input, pc, sid, seen, answer, contestPhase>>
  BY DEF Next, handlerVars
<1>2. IInv' /\ StepOK
  BY <1>1, NextInv DEF SystemInv
<1>3. submissionQueue'.window \subseteq submissionQueue.window
  <2>1. submissionQueue \in QueueType(Users, Submissions, Submissions)
    BY DEF SystemInv, IInv, TypeOK, SubmissionQueueTypeOK
  <2>2. CASE \E w \in Workers : WorkerStep(w)
    BY <2>1, <2>2 DEF WorkerStep, ReceiveSubmission, JudgeRun, JudgeFails, PublishResult,
           PublishResultFails, DeleteSubmission, DeleteSubmissionFails, CrashWorker,
           Receive, Delete, QueueType
  <2>3. CASE \E c \in Consumers : ConsumerStep(c)
    BY <2>3 DEF ConsumerStep, ReceiveResults, CheckRow, CheckRowFails, UpdateRow,
           UpdateRowFails, PublishVerdict, UpdateContestScore, RedisFails, DeleteResult,
           DeleteResultFails, CrashConsumer, workerVars
  <2>4. CASE SubmissionQueueTime
    BY <2>1, <2>4 DEF SubmissionQueueTime, SubmissionReappears, SubmissionDedupEnds,
           Reappear, Forget, QueueType
  <2>5. CASE ResultQueueTime
    BY <2>5 DEF ResultQueueTime, ResultReappears, ResultDedupEnds, workerVars
  <2> QED BY <2>2, <2>3, <2>4, <2>5 DEF PipelineNext
<1>4. \A r \in Requests : CallOK(r)'
  BY <1>1, <1>2, OtherCall DEF SystemInv
<1>5. \A s \in Submissions : NotRunning(s)'
  BY <1>1, StaysNotRunning DEF SystemInv
<1>6. \A s \in submissionQueue'.window : Kept(s)'
  <2>1. submissionQueue.window \subseteq Submissions
    BY DEF SystemInv, IInv, TypeOK, SubmissionQueueTypeOK, QueueType
  <2> QED BY <1>2, <1>3, <2>1, StaysKept DEF SystemInv
<1>7. H!HandlerTypeOK'
  BY <1>1 DEF SystemInv, H!HandlerTypeOK
<1> QED BY <1>1, <1>2, <1>4, <1>5, <1>6, <1>7 DEF SystemInv

LEMMA ClockStepOK ==
    ASSUME SystemInv, NEW c \in Contests, H!ContestClock(c), UNCHANGED pipelineVars
    PROVE  SystemInv' /\ UNCHANGED vars
<1>1. UNCHANGED vars /\ UNCHANGED <<input, pc, sid, seen, answer>>
  BY DEF H!ContestClock, H!dbVars, H!requestVars, vars, dbVars
<1>2. H!HandlerTypeOK'
  BY <1>1 DEF SystemInv, H!HandlerTypeOK, H!ContestClock, H!Open
<1>3. IInv' /\ StepOK
  BY <1>1, StutterInv DEF SystemInv
<1>4. \A r \in Requests : CallOK(r)'
  BY <1>1, <1>3, OtherCall DEF SystemInv
<1>5. \A s \in Submissions : NotRunning(s)'
  BY <1>1 DEF SystemInv, NotRunning, Exists, vars, dbVars
<1>6. \A s \in submissionQueue'.window : Kept(s)'
  BY <1>1 DEF SystemInv, Kept, Queued, Reported, Final, Exists, vars, dbVars, pipelineVars
<1> QED BY <1>1, <1>2, <1>3, <1>4, <1>5, <1>6 DEF SystemInv

LEMMA SystemInitOK == SystemInit => SystemInv
<1> SUFFICES ASSUME SystemInit PROVE SystemInv
  OBVIOUS
<1>1. IInv /\ Init /\ H!HandlerInit
  BY InitInv DEF SystemInit
<1>2. H!HandlerTypeOK
  BY <1>1 DEF H!HandlerInit, H!HandlerTypeOK, H!Open
<1>3. \A r \in Requests : CallOK(r)
  BY <1>1 DEF H!HandlerInit, CallOK, H!Accepted, H!Running
<1>4. \A s \in Submissions : NotRunning(s)
  BY <1>1 DEF Init, DbInit, NotRunning, Exists
<1>5. submissionQueue.window = {}
  BY <1>1 DEF Init, EmptyQueue
<1> QED BY <1>1, <1>2, <1>3, <1>4, <1>5 DEF SystemInv

(* Every step of the system keeps the invariant and is a step of the       *)
(* pipeline or of its backend, or changes nothing the pipeline sees.       *)
LEMMA SystemNextOK ==
    SystemInv /\ [SystemNext]_systemVars => SystemInv' /\ [Next]_vars
<1> SUFFICES ASSUME SystemInv, [SystemNext]_systemVars
             PROVE  SystemInv' /\ [Next]_vars
  OBVIOUS
<1>1. ASSUME NEW r \in Requests, H!HandlerStep(r), UNCHANGED pipelineVars
      PROVE  SystemInv' /\ [Next]_vars
  <2>1. CASE Local(r)
    BY <1>1, <2>1, LocalOK
  <2>2. CASE H!Insert(r)
    BY <1>1, <2>2, InsertStepOK
  <2>3. CASE H!Publish(r) \/ H!PublishFails(r)
    BY <1>1, <2>3, PublishStepOK
  <2> QED BY <1>1, <2>1, <2>2, <2>3 DEF H!HandlerStep, Local
<1>2. CASE SystemNext
  BY <1>1, <1>2, ClockStepOK, PipelineStepOK DEF SystemNext, BackendStep
<1>3. CASE UNCHANGED systemVars
  <2>1. UNCHANGED vars /\ UNCHANGED <<input, pc, sid, seen, answer, contestPhase>>
    BY <1>3 DEF systemVars, handlerVars
  <2>2. IInv' /\ StepOK
    BY <2>1, StutterInv DEF SystemInv
  <2>3. \A r \in Requests : CallOK(r)'
    BY <2>1, <2>2, OtherCall DEF SystemInv
  <2>4. \A s \in Submissions : NotRunning(s)'
    BY <2>1 DEF SystemInv, NotRunning, Exists, vars, dbVars
  <2>5. \A s \in submissionQueue'.window : Kept(s)'
    BY <2>1 DEF SystemInv, Kept, Queued, Reported, Final, Exists, vars, dbVars, pipelineVars
  <2>6. H!HandlerTypeOK'
    BY <2>1 DEF SystemInv, H!HandlerTypeOK
  <2> QED BY <2>1, <2>2, <2>3, <2>4, <2>5, <2>6 DEF SystemInv
<1> QED BY <1>2, <1>3

THEOREM SystemInvariance == SystemSpec => []SystemInv
<1> QED BY SystemInitOK, SystemNextOK, PTL DEF SystemSpec

(* The handler does what the pipeline's environment may do.                *)
THEOREM SystemIsPipeline == SystemSpec => Spec
<1>1. SystemInit => Init
  BY DEF SystemInit
<1> QED BY <1>1, SystemNextOK, SystemInvariance, PTL DEF SystemSpec, Spec

(* From the request to the verdict no submission a client was told is      *)
(* taken is lost: not by a send the window swallows, a retry that finds    *)
(* another status, a crash or a late delete.                               *)
THEOREM AcceptedAreKept == SystemSpec => []AcceptedIsKept
<1>1. SystemInv => AcceptedIsKept
  BY DEF SystemInv, CallOK, AcceptedIsKept
<1> QED BY <1>1, SystemInvariance, PTL

(* The pipeline's promises hold with the backend it has, whose retries     *)
(* send a submission again at any time.                                    *)
THEOREM SystemCountsOnce == SystemSpec => []JudgedCountedOnce
<1> QED BY SystemIsPipeline, CountedOnce, PTL

THEOREM SystemLosesNoVerdict == SystemSpec => NoVerdictLost
<1> QED BY SystemIsPipeline, VerdictsAreKept, PTL

THEOREM SystemRefinement ==
    ASSUME NoRace
    PROVE  SystemSpec => ImplementsLifecycle
<1> QED BY SystemIsPipeline, Refinement, PTL

(* So with the real pipeline and backend, whose retries and late answers   *)
(* send a submission again, a stored verdict is never replaced             *)
(* (results-consumer/main.js:70 and :88), and a watcher holds what the row *)
(* says (:113-126).                                                        *)
THEOREM SystemGradesAreFinal ==
    ASSUME NoRace
    PROVE  SystemSpec => Lifecycle!GradeIsFinal
<1> QED BY SystemRefinement, GradesAreFinal, PTL DEF ImplementsLifecycle

THEOREM SystemTellsTheGrade ==
    ASSUME NoRace
    PROVE  SystemSpec => []Lifecycle!ToldTheGrade
<1> QED BY SystemRefinement, WatchersKnowTheGrade, PTL DEF ImplementsLifecycle

-----------------------------------------------------------------------------
(* 5. What the handler promises, with the pipeline it has.                 *)
(*                                                                         *)
(* SubmitHandler states it with a judge that stores a verdict and deletes  *)
(* the message in one step.  The real one may store a verdict at any time, *)
(* also between a request's look-up and its insert or its send.            *)

\* The row a request holds is the one it would insert, but for the status.
OwnRow(r) ==
    /\ sid[r] \in Submissions /\ Exists(sid[r])
    /\ submissions[sid[r]] = [H!NewRow(input[r]) EXCEPT !.status = submissions[sid[r]].status]

\* The fingerprint of a row says its problem and its contest.
KeyedRow(s) == Exists(s) =>
    /\ submissions[s].hash[1] = submissions[s].problem
    /\ submissions[s].hash[3] = submissions[s].contest

Holds(r) == pc[r] \in {"enqueue", "resend"} \/ H!Accepted(r)

RequestInv ==
    /\ H!OneSubmissionPerKey
    /\ \A s \in Submissions : KeyedRow(s)
    /\ \A r \in Requests : Holds(r) => OwnRow(r)

\* A row keeps all but its status.
Untouched(s) == Exists(s) =>
    /\ Exists(s)'
    /\ submissions'[s] = [submissions[s] EXCEPT !.status = submissions'[s].status]

\* No row is new.
NoneNew == \A s \in Submissions : Exists(s)' => Exists(s)

LEMMA SameRowsUntouched ==
    ASSUME DbTypeOK, UNCHANGED submissions
    PROVE  NoneNew /\ \A s \in Submissions : Untouched(s)
<1>1. ASSUME NEW s \in Submissions, Exists(s)
      PROVE  submissions[s] = [submissions[s] EXCEPT !.status = submissions[s].status]
  BY <1>1 DEF DbTypeOK, Exists, Row
<1> QED BY <1>1 DEF NoneNew, Untouched, Exists

LEMMA JudgedUntouched ==
    ASSUME DbTypeOK, NEW t \in Submissions, NEW v \in Verdicts, Exists(t), UpdateStatus(t, v)
    PROVE  NoneNew /\ \A s \in Submissions : Untouched(s)
<1>1. submissions[t] \in Row /\ submissions' = [submissions EXCEPT ![t].status = v]
  BY DEF DbTypeOK, Exists, UpdateStatus
<1>2. /\ submissions'[t] = [submissions[t] EXCEPT !.status = v]
      /\ \A s \in Submissions : s # t => submissions'[s] = submissions[s]
  BY <1>1 DEF DbTypeOK
<1>3. submissions'[t] \in Row /\ submissions'[t].status = v
  BY <1>1, <1>2 DEF Row
<1>4. Untouched(t)
  BY <1>2, <1>3, NoRowAssumption DEF Untouched, Exists
<1>5. ASSUME NEW s \in Submissions, s # t PROVE Untouched(s)
  <2>1. Exists(s) => submissions[s] = [submissions[s] EXCEPT !.status = submissions[s].status]
    BY DEF DbTypeOK, Exists, Row
  <2> QED BY <1>2, <1>5, <2>1 DEF Untouched, Exists
<1>6. NoneNew
  BY <1>2 DEF NoneNew, Exists
<1> QED BY <1>4, <1>5, <1>6

\* What a request that held a row holds stays its own.
LEMMA OwnKept ==
    ASSUME NEW r \in Requests, OwnRow(r), Untouched(sid[r]), input' = input, sid'[r] = sid[r]
    PROVE  OwnRow(r)'
<1> DEFINE s == sid[r]
<1>1. /\ s \in Submissions /\ Exists(s)' /\ sid'[r] = s
      /\ submissions'[s] = [submissions[s] EXCEPT !.status = submissions'[s].status]
      /\ submissions[s] = [H!NewRow(input[r]) EXCEPT !.status = submissions[s].status]
  BY DEF OwnRow, Untouched
<1>2. submissions'[s] = [H!NewRow(input[r]) EXCEPT !.status = submissions'[s].status]
  BY <1>1 DEF H!NewRow
<1>3. H!NewRow(input[r])' = H!NewRow(input[r])
  BY DEF H!NewRow, H!hashRequest
<1> QED BY <1>1, <1>2, <1>3 DEF OwnRow

LEMMA KeyedKept ==
    ASSUME DbTypeOK, NEW s \in Submissions, Exists(s), KeyedRow(s), Untouched(s)
    PROVE  KeyedRow(s)'
<1>1. submissions[s] \in Row
  BY DEF DbTypeOK, Exists
<1>2. submissions'[s] = [submissions[s] EXCEPT !.status = submissions'[s].status]
  BY DEF Untouched
<1>3. /\ submissions'[s].hash = submissions[s].hash
      /\ submissions'[s].problem = submissions[s].problem
      /\ submissions'[s].contest = submissions[s].contest
  BY <1>1, <1>2 DEF Row
<1> QED BY <1>3 DEF KeyedRow

\* A step that inserts nothing leaves the rows as they were keyed.
LEMMA RowsKeyed ==
    ASSUME DbTypeOK, RequestInv, NoneNew, \A s \in Submissions : Untouched(s)
    PROVE  H!OneSubmissionPerKey' /\ \A s \in Submissions : KeyedRow(s)'
<1>1. ASSUME NEW s \in Submissions PROVE KeyedRow(s)'
  <2>1. CASE Exists(s)
    BY <2>1, KeyedKept DEF RequestInv
  <2>2. CASE ~ Exists(s)
    BY <2>2 DEF NoneNew, KeyedRow
  <2> QED BY <2>1, <2>2
<1>2. ASSUME NEW s \in Submissions, H!Exists(s)'
      PROVE  /\ H!Exists(s) /\ submissions'[s].user = submissions[s].user
             /\ submissions'[s].key = submissions[s].key
  <2>1. Exists(s)' /\ Exists(s)
    BY <1>2 DEF NoneNew, H!Exists, Exists
  <2>2. submissions[s] \in Row
    BY <2>1 DEF DbTypeOK, Exists
  <2>3. submissions'[s] = [submissions[s] EXCEPT !.status = submissions'[s].status]
    BY <2>1 DEF Untouched
  <2> QED BY <2>1, <2>2, <2>3 DEF Row, H!Exists, Exists
<1>3. H!OneSubmissionPerKey'
  <2> SUFFICES ASSUME NEW s \in Submissions, NEW t \in Submissions, H!Exists(s)', H!Exists(t)',
                      submissions'[s].user = submissions'[t].user,
                      submissions'[s].key = submissions'[t].key,
                      submissions'[s].key # NoKey
               PROVE  s = t
    BY DEF H!OneSubmissionPerKey
  <2> QED BY <1>2 DEF RequestInv, H!OneSubmissionPerKey
<1> QED BY <1>1, <1>3

(* A step of the pipeline, or of the clock.                                *)
LEMMA OutsideRequests ==
    ASSUME SystemInv, RequestInv, UNCHANGED <<input, pc, sid, answer>>,
           NoneNew, \A s \in Submissions : Untouched(s)
    PROVE  RequestInv'
<1>1. DbTypeOK
  BY DEF SystemInv, IInv, TypeOK
<1>2. H!OneSubmissionPerKey' /\ \A s \in Submissions : KeyedRow(s)'
  BY <1>1, RowsKeyed
<1>3. ASSUME NEW r \in Requests, Holds(r)' PROVE OwnRow(r)'
  <2>1. Holds(r)
    BY <1>3 DEF Holds, H!Accepted
  <2>2. OwnRow(r)
    BY <2>1 DEF RequestInv
  <2>3. sid[r] \in Submissions
    BY <2>2 DEF OwnRow
  <2> QED BY <2>2, <2>3, OwnKept
<1> QED BY <1>2, <1>3 DEF RequestInv

(* A step of one request that inserts nothing.                             *)
LEMMA RequestMoves ==
    ASSUME SystemInv, RequestInv, UNCHANGED <<submissions, input>>, NEW r \in Requests,
           Holds(r)' => OwnRow(r)',
           \A q \in Requests : q # r =>
               pc'[q] = pc[q] /\ sid'[q] = sid[q] /\ answer'[q] = answer[q]
    PROVE  RequestInv'
<1>1. DbTypeOK
  BY DEF SystemInv, IInv, TypeOK
<1>2. NoneNew /\ \A s \in Submissions : Untouched(s)
  BY <1>1, SameRowsUntouched
<1>3. H!OneSubmissionPerKey' /\ \A s \in Submissions : KeyedRow(s)'
  BY <1>1, <1>2, RowsKeyed
<1>4. ASSUME NEW q \in Requests, q # r, Holds(q)' PROVE OwnRow(q)'
  <2>1. Holds(q)
    BY <1>4 DEF Holds, H!Accepted
  <2>2. OwnRow(q)
    BY <2>1 DEF RequestInv
  <2>3. sid[q] \in Submissions
    BY <2>2 DEF OwnRow
  <2> QED BY <1>2, <1>4, <2>2, <2>3, OwnKept
<1> QED BY <1>3, <1>4 DEF RequestInv

(* A replay that is not refused is of the request's own submission.        *)
LEMMA ReplayOwn ==
    ASSUME SystemInv, RequestInv, NEW r \in Requests, H!Replay(r), Holds(r)'
    PROVE  OwnRow(r)'
<1>1. PICK s \in H!Original(r) : H!respondReplay(r, s)
  BY DEF H!Replay
<1>2. /\ s \in Submissions /\ Exists(s)
      /\ submissions[s].user = input[r].user /\ submissions[s].key = input[r].key
  BY <1>1 DEF H!Original, H!findByIdempotencyKey, H!Exists, Exists
<1>3. /\ submissions[s] \in Row /\ KeyedRow(s) /\ H!HandlerTypeOK /\ CallOK(r)
      /\ UNCHANGED <<submissions, input>> /\ pc[r] \in {"lookup", "conflict"}
  BY <1>2 DEF SystemInv, IInv, TypeOK, DbTypeOK, Exists, RequestInv, H!Replay, H!dbVars
<1>4. sid'[r] = s
  BY <1>1, <1>3 DEF H!respondReplay, H!HandlerTypeOK
<1>5. submissions[s].hash = H!hashRequest(input[r])
  <2>1. CASE submissions[s].hash # H!hashRequest(input[r])
    <3>1. pc'[r] = "done" /\ answer'[r] = 409
      BY <1>1, <1>3, <2>1 DEF H!respondReplay, H!Respond, H!HandlerTypeOK
    <3> QED BY <3>1 DEF Holds, H!Accepted
  <2> QED BY <2>1
<1>6. submissions[s].problem = input[r].problem /\ submissions[s].contest = input[r].contest
  BY <1>2, <1>3, <1>5 DEF KeyedRow, H!hashRequest
<1>7. submissions[s] = [H!NewRow(input[r]) EXCEPT !.status = submissions[s].status]
  BY <1>2, <1>3, <1>5, <1>6 DEF Row, H!NewRow
<1>8. H!NewRow(input[r])' = H!NewRow(input[r]) /\ submissions' = submissions
  BY <1>3 DEF H!NewRow, H!hashRequest
<1> QED BY <1>2, <1>4, <1>7, <1>8 DEF OwnRow, Exists

(* The steps of a request before it holds a row, and those that end it.    *)
LEMMA LocalKeepsRequests ==
    ASSUME SystemInv, RequestInv, NEW r \in Requests, Local(r), UNCHANGED pipelineVars
    PROVE  RequestInv'
<1>1. UNCHANGED <<submissions, input>>
  BY DEF Local, H!Arrive, H!CheckContest, H!CheckProblem, H!Replay, H!NewKey,
         H!UniqueViolation, H!Fails, H!dbVars
<1>2. H!HandlerTypeOK /\ CallOK(r)
  BY DEF SystemInv
<1>3. \A q \in Requests : q # r =>
          pc'[q] = pc[q] /\ sid'[q] = sid[q] /\ answer'[q] = answer[q]
  BY <1>2 DEF Local, H!Arrive, H!CheckContest, H!CheckProblem, H!Replay, H!respondReplay,
              H!NewKey, H!UniqueViolation, H!Fails, H!Goto, H!Respond, H!HandlerTypeOK
<1>4. Holds(r)' => OwnRow(r)'
  <2>1. CASE H!Replay(r)
    BY <2>1, ReplayOwn
  <2>2. CASE ~ H!Replay(r)
    <3>1. \/ pc'[r] = "done" /\ answer'[r] \notin {200, 201}
          \/ pc'[r] \notin {"enqueue", "resend"} /\ answer'[r] = 0
      <4>1. ProblemState[input[r].problem] \in {"public", "missing", "private", "no_tests"}
        BY <1>2, SystemAssumption DEF H!HandlerTypeOK, H!Input
      <4>2. CASE H!Arrive(r)
        BY <1>2, <4>2 DEF H!Arrive, H!Goto, H!Respond, H!HandlerTypeOK, CallOK
      <4>3. CASE H!CheckContest(r)
        BY <1>2, <4>3 DEF H!CheckContest, H!Goto, H!Respond, H!HandlerTypeOK, CallOK
      <4>4. CASE H!CheckProblem(r)
        BY <1>2, <4>1, <4>4 DEF H!CheckProblem, H!Goto, H!Respond, H!HandlerTypeOK, CallOK
      <4>5. CASE H!NewKey(r) \/ H!UniqueViolation(r) \/ H!Fails(r)
        BY <1>2, <4>5 DEF H!NewKey, H!UniqueViolation, H!Fails, H!Goto, H!Respond,
                          H!HandlerTypeOK, CallOK
      <4> QED BY <2>2, <4>2, <4>3, <4>4, <4>5 DEF Local
    <3> QED BY <3>1 DEF Holds, H!Accepted
  <2> QED BY <2>1, <2>2
<1> QED BY <1>1, <1>3, <1>4, RequestMoves

(* The message sent is of the row the request holds already.               *)
LEMMA PublishKeepsRequests ==
    ASSUME SystemInv, RequestInv, NEW r \in Requests, H!Publish(r) \/ H!PublishFails(r)
    PROVE  RequestInv'
<1>1. H!HandlerTypeOK /\ pc[r] \in {"enqueue", "resend"} /\ UNCHANGED <<submissions, input, sid>>
  BY DEF SystemInv, H!Publish, H!PublishFails, H!dbVars
<1>2. OwnRow(r)
  BY <1>1 DEF RequestInv, Holds
<1>3. OwnRow(r)'
  BY <1>1, <1>2 DEF OwnRow, Exists, H!NewRow, H!hashRequest
<1>4. \A q \in Requests : q # r =>
          pc'[q] = pc[q] /\ sid'[q] = sid[q] /\ answer'[q] = answer[q]
  BY <1>1 DEF H!Publish, H!PublishFails, H!Respond, H!HandlerTypeOK
<1> QED BY <1>1, <1>3, <1>4, RequestMoves

(* The row a request inserts is its own, and its key had none: the look-up *)
(* may be old, the unique index is not.                                    *)
LEMMA InsertKeepsRequests ==
    ASSUME SystemInv, RequestInv, NEW r \in Requests, H!Insert(r)
    PROVE  RequestInv'
<1>1. PICK s \in Submissions :
          H!InsertSubmission(s, H!NewRow(input[r])) /\ sid' = [sid EXCEPT ![r] = s]
  BY DEF H!Insert
<1>2. PICK row : row = H!NewRow(input[r])
  OBVIOUS
<1>3. /\ H!HandlerTypeOK /\ DbTypeOK /\ CallOK(r) /\ H!Original(r) = {}
      /\ pc[r] = "insert" /\ pc' = [pc EXCEPT ![r] = "enqueue"]
      /\ UNCHANGED <<input, answer>>
  BY DEF SystemInv, IInv, TypeOK, H!Insert, H!Goto
<1>4. input[r] \in H!Input /\ input[r].key # BadKey
  BY <1>3, SystemAssumption DEF H!HandlerTypeOK, CallOK, H!Running
<1>5. /\ row \in Row /\ row.user = input[r].user /\ row.key = input[r].key
      /\ row.hash[1] = row.problem /\ row.hash[3] = row.contest
      /\ row = [row EXCEPT !.status = row.status]
  BY <1>2, <1>4 DEF H!NewRow, H!hashRequest, H!Input, Row, Hashes, Open
<1>6. /\ ~ Exists(s) /\ submissions' = [submissions EXCEPT ![s] = row]
      /\ submissions \in [Submissions -> Row \cup {NoRow}]
  BY <1>1, <1>2, <1>3 DEF H!InsertSubmission, H!Exists, Exists, DbTypeOK
<1>7. /\ submissions'[s] = row /\ Exists(s)'
      /\ \A t \in Submissions : t # s => submissions'[t] = submissions[t]
  BY <1>5, <1>6, NoRowAssumption DEF Exists
<1>8. \A t \in Submissions : KeyedRow(t)'
  BY <1>5, <1>7 DEF RequestInv, KeyedRow, Exists
<1>9. H!OneSubmissionPerKey'
  <2>1. \A t \in Submissions : H!Exists(t) /\ row.key # NoKey =>
            submissions[t].user # row.user \/ submissions[t].key # row.key
    BY <1>3, <1>5 DEF H!Original, H!findByIdempotencyKey
  <2> QED BY <1>7, <2>1 DEF RequestInv, H!OneSubmissionPerKey, H!Exists
<1>10. sid'[r] = s /\ \A q \in Requests : q # r =>
           pc'[q] = pc[q] /\ sid'[q] = sid[q] /\ answer'[q] = answer[q]
  BY <1>1, <1>3 DEF H!HandlerTypeOK
<1>11. OwnRow(r)'
  <2>1. H!NewRow(input[r])' = row
    BY <1>2, <1>3 DEF H!NewRow, H!hashRequest
  <2> QED BY <1>5, <1>7, <1>10, <2>1 DEF OwnRow
<1>12. ASSUME NEW q \in Requests, q # r, Holds(q)' PROVE OwnRow(q)'
  <2>1. OwnRow(q)
    BY <1>10, <1>12 DEF Holds, H!Accepted, RequestInv
  <2>2. sid[q] # s /\ sid[q] \in Submissions
    BY <1>6, <2>1 DEF OwnRow
  <2>3. submissions'[sid[q]] = submissions[sid[q]] /\ sid'[q] = sid[q] /\ input' = input
    BY <1>3, <1>7, <1>10, <1>12, <2>2
  <2> QED BY <2>1, <2>3 DEF OwnRow, Exists, H!NewRow, H!hashRequest
<1> QED BY <1>8, <1>9, <1>11, <1>12 DEF RequestInv

LEMMA PipelineKeepsRequests ==
    ASSUME SystemInv, RequestInv, PipelineNext, UNCHANGED handlerVars
    PROVE  RequestInv'
<1>1. DbTypeOK /\ UNCHANGED <<input, pc, sid, answer>>
  BY DEF SystemInv, IInv, TypeOK, handlerVars
<1>2. NoneNew /\ \A s \in Submissions : Untouched(s)
  <2>1. CASE UNCHANGED dbVars
    BY <1>1, <2>1, SameRowsUntouched DEF dbVars
  <2>2. CASE \E s \in Submissions, v \in Verdicts : Exists(s) /\ UpdateStatus(s, v)
    BY <1>1, <2>2, JudgedUntouched
  <2> QED BY <2>1, <2>2, PipelineEffects DEF SystemInv
<1> QED BY <1>1, <1>2, OutsideRequests

LEMMA RequestInit == SystemInit => RequestInv
<1> SUFFICES ASSUME SystemInit PROVE RequestInv
  OBVIOUS
<1>1. \A s \in Submissions : submissions[s] = NoRow
  BY DEF SystemInit, Init, DbInit
<1>2. \A r \in Requests : ~ Holds(r)
  BY DEF SystemInit, H!HandlerInit, Holds, H!Accepted
<1> QED BY <1>1, <1>2 DEF RequestInv, KeyedRow, Exists, H!OneSubmissionPerKey, H!Exists

LEMMA RequestNext == SystemInv /\ RequestInv /\ [SystemNext]_systemVars => RequestInv'
<1> SUFFICES ASSUME SystemInv, RequestInv, [SystemNext]_systemVars PROVE RequestInv'
  OBVIOUS
<1>1. ASSUME NEW r \in Requests, H!HandlerStep(r), UNCHANGED pipelineVars PROVE RequestInv'
  <2>1. Local(r) \/ H!Insert(r) \/ H!Publish(r) \/ H!PublishFails(r)
    BY <1>1 DEF H!HandlerStep, Local
  <2> QED BY <1>1, <2>1, LocalKeepsRequests, InsertKeepsRequests, PublishKeepsRequests
<1>2. CASE UNCHANGED <<submissions, input, pc, sid, answer>>
  <2>1. DbTypeOK
    BY DEF SystemInv, IInv, TypeOK
  <2> QED BY <1>2, <2>1, SameRowsUntouched, OutsideRequests
<1>3. CASE SystemNext
  <2>1. CASE \E c \in Contests : H!ContestClock(c)
    BY <1>2, <2>1 DEF H!ContestClock, H!dbVars, H!requestVars
  <2> QED BY <1>1, <1>3, <2>1, PipelineKeepsRequests DEF SystemNext, BackendStep
<1>4. CASE UNCHANGED systemVars
  BY <1>2, <1>4 DEF systemVars, vars, dbVars, handlerVars
<1> QED BY <1>3, <1>4

LEMMA RequestInvariance == SystemSpec => []RequestInv
<1> QED BY RequestInit, RequestNext, SystemInvariance, PTL DEF SystemSpec

(* However many requests race with one key, and whenever verdicts are      *)
(* stored between their steps, the key names one submission                *)
(* (submission.controller.js, the look-up and the unique index).           *)
THEOREM SystemKeyNamesOne == SystemSpec => []H!OneSubmissionPerKey
<1>1. RequestInv => H!OneSubmissionPerKey
  BY DEF RequestInv
<1> QED BY <1>1, RequestInvariance, PTL

(* A 200 or 201 is about the submission of this request, also when it was  *)
(* judged meanwhile (respondReplay and hashRequest).                       *)
THEOREM SystemAnswersOwn == SystemSpec => []H!AnswerIsOwnSubmission
<1>1. RequestInv => H!AnswerIsOwnSubmission
  BY DEF RequestInv, Holds, OwnRow, H!AnswerIsOwnSubmission, H!Exists, Exists
<1> QED BY <1>1, RequestInvariance, PTL

\* The status a request read with its submission, when it was a verdict.
SeenStands(r) ==
    seen[r] \in Verdicts =>
        /\ pc[r] = "done" /\ sid[r] \in Submissions
        /\ Final(sid[r]) /\ submissions[sid[r]].status = seen[r]

LEMMA SeenStep ==
    ASSUME SystemInv, \A r \in Requests : SeenStands(r), [SystemNext]_systemVars,
           \A s \in Submissions : Lifecycle!Graded(s) => submissions'[s] = submissions[s],
           NEW r \in Requests
    PROVE  SeenStands(r)'
<1>1. \A s \in Submissions : Final(s) => submissions'[s] = submissions[s]
  BY DEF Final, Exists, Lifecycle!Graded, Lifecycle!Taken
<1>2. H!HandlerTypeOK /\ "PENDING" \notin Verdicts
  BY DbAssumption DEF SystemInv, Open
<1>3. CASE pc'[r] = pc[r] /\ sid'[r] = sid[r] /\ seen'[r] = seen[r]
  <2>1. sid[r] \in Submissions /\ Final(sid[r]) => submissions'[sid[r]] = submissions[sid[r]]
    BY <1>1
  <2> QED BY <1>3, <2>1 DEF SeenStands, Final, Exists
<1>4. CASE seen'[r] \notin Verdicts
  BY <1>4 DEF SeenStands
<1>5. ASSUME H!Replay(r) PROVE SeenStands(r)'
  <2>1. PICK s \in Submissions : Exists(s) /\ H!respondReplay(r, s)
    BY <1>5 DEF H!Replay, H!Original, H!findByIdempotencyKey, H!Exists, Exists
  <2>2. UNCHANGED submissions
    BY <1>5 DEF H!Replay, H!dbVars
  <2>3. sid'[r] = s /\ seen'[r] = submissions[s].status
    BY <1>2, <2>1 DEF H!respondReplay, H!HandlerTypeOK
  <2>4. submissions[s].status \in Verdicts => pc'[r] = "done"
    BY <1>2, <2>1 DEF H!respondReplay, H!Respond, H!HandlerTypeOK
  <2> QED BY <2>1, <2>2, <2>3, <2>4 DEF SeenStands, Final, Exists
<1>6. ASSUME NEW q \in Requests, H!HandlerStep(q) PROVE SeenStands(r)'
  <2>1. CASE q = r
    <3>1. CASE ~ H!Replay(r)
      <4>1. seen'[r] = seen[r] /\ pc[r] # "done"
        BY <1>6, <2>1, <3>1 DEF H!HandlerStep, H!Arrive, H!CheckContest, H!CheckProblem,
               H!NewKey, H!UniqueViolation, H!Fails, H!Insert, H!Publish, H!PublishFails,
               H!Goto, H!Running
      <4> QED BY <1>4, <4>1 DEF SeenStands
    <3> QED BY <1>5, <3>1
  <2>2. CASE q # r
    <3>1. pc'[r] = pc[r]
      BY <1>2, <1>6, <2>2 DEF H!HandlerStep, H!Arrive, H!CheckContest, H!CheckProblem,
             H!Replay, H!respondReplay, H!NewKey, H!UniqueViolation, H!Fails, H!Insert,
             H!Publish, H!PublishFails, H!Goto, H!Respond, H!HandlerTypeOK
    <3>2. sid'[r] = sid[r] /\ seen'[r] = seen[r]
      BY <1>2, <1>6, <2>2 DEF H!HandlerStep, H!Arrive, H!CheckContest, H!CheckProblem,
             H!Replay, H!respondReplay, H!NewKey, H!UniqueViolation, H!Fails, H!Insert,
             H!Publish, H!PublishFails, H!HandlerTypeOK
    <3> QED BY <1>3, <3>1, <3>2
  <2> QED BY <2>1, <2>2
<1>7. CASE UNCHANGED <<pc, sid, seen>>
  BY <1>3, <1>7
<1> QED BY <1>6, <1>7 DEF SystemNext, BackendStep, H!ContestClock, H!requestVars,
                          systemVars, handlerVars

(* On FIFO queues, with no consumer slower than the visibility timeout: a  *)
(* retry that is answered with a verdict was told the one that stays.      *)
THEOREM SystemRepliesStand ==
    ASSUME NoRace
    PROVE  SystemSpec => [](\A r \in Requests : SeenStands(r))
<1> DEFINE Still == \A s \in Submissions :
                       Lifecycle!Graded(s) => submissions'[s] = submissions[s]
           Inv == \A r \in Requests : SeenStands(r)
<1>1. SystemInit => Inv
  BY DbAssumption DEF SystemInit, H!HandlerInit, SeenStands, Open
<1>2. SystemInv /\ Inv /\ [SystemNext]_systemVars /\ [Still]_(Lifecycle!lifecycleVars) => Inv'
  BY SeenStep DEF Lifecycle!lifecycleVars
<1>3. SystemSpec => [][Still]_(Lifecycle!lifecycleVars)
  BY SystemGradesAreFinal, PTL DEF Lifecycle!GradeIsFinal
<1> QED BY <1>1, <1>2, <1>3, SystemInvariance, PTL DEF SystemSpec
=============================================================================
