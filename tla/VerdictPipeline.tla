-------------------------- MODULE VerdictPipeline --------------------------
(***************************************************************************)
(* From the submission queue to a stored and announced verdict: the job    *)
(* slots of the judge workers, the result queue and the results consumers. *)
(* Every await is a step of its own; a slot or a consumer may crash        *)
(* between two of them, and a message whose visibility timeout ends is     *)
(* delivered again.                                                        *)
(*                                                                         *)
(* The backend is the environment here: it inserts rows, and it sends the  *)
(* message of a row, at once, on a retry, or long after the verdict.       *)
(***************************************************************************)
EXTENDS SubmissionQueue

CONSTANTS
    Workers,        \* job slots: maxConcurrentJobs of each judge worker
    Consumers,      \* processes of results-consumer
    BatchSize,      \* MaxNumberOfMessages of the consumer's receive call
    NewRows,        \* the rows the backend may insert
    NoMessage

VARIABLES
    resultQueue,
    worker,         \* each job slot
    consumer,       \* each consumer: its batch and the message it handles
    announced,      \* the verdicts published on each submission's channel
    scored          \* how often updateContestScore ran for a submission

workerVars   == <<submissionQueue, worker>>
consumerVars == <<consumer, announced, scored>>
pipelineVars == <<resultQueue, worker, consumerVars>>
vars == <<dbVars, submissionQueue, pipelineVars>>

Results == [sid : Submissions, status : Verdicts]
ResultMessages == Message(Submissions, Submissions, Results)

ASSUME PipelineAssumption ==
    /\ NewRows \subseteq {row \in Row : row.status = "PENDING"}
    /\ NoMessage \notin ResultMessages
    /\ BatchSize \in Nat \ {0}

WorkerType == [pc : {"polling", "judging", "publishing", "deleting"},
               mid : 0..MaxSends, sid : Submissions \cup {NoSubmission},
               verdict : Verdicts \cup {"PENDING"}]

ConsumerType == [pc : {"polling", "updating", "publishing", "scoring", "deleting"},
                 batch : SUBSET ResultMessages,
                 msg : ResultMessages \cup {NoMessage}]

PipelineTypeOK ==
    /\ resultQueue \in QueueType(Submissions, Submissions, Results)
    /\ worker \in [Workers -> WorkerType]
    /\ consumer \in [Consumers -> ConsumerType]
    /\ announced \in [Submissions -> SUBSET Verdicts]
    /\ scored \in [Submissions -> Nat]

TypeOK == DbTypeOK /\ SubmissionQueueTypeOK /\ PipelineTypeOK

IdleWorker == [pc |-> "polling", mid |-> 0, sid |-> NoSubmission, verdict |-> "PENDING"]
IdleConsumer == [pc |-> "polling", batch |-> {}, msg |-> NoMessage]

PipelineInit ==
    /\ resultQueue = EmptyQueue
    /\ worker = [w \in Workers |-> IdleWorker]
    /\ consumer = [c \in Consumers |-> IdleConsumer]
    /\ announced = [s \in Submissions |-> {}]
    /\ scored = [s \in Submissions |-> 0]

Init == DbInit /\ submissionQueue = EmptyQueue /\ PipelineInit

-----------------------------------------------------------------------------
(* The judge worker: Queue.poll and the handler of main.js.                *)

ToIdle(w) == worker' = [worker EXCEPT ![w] = IdleWorker]

ReceiveSubmission(w) ==
    /\ worker[w].pc = "polling"
    /\ \E m \in submissionQueue.msgs :
          /\ Receivable(submissionQueue, {m})
          /\ submissionQueue' = Receive(submissionQueue, {m})
          /\ worker' = [worker EXCEPT ![w] =
                 [pc |-> "judging", mid |-> m.mid, sid |-> m.body, verdict |-> "PENDING"]]
    /\ UNCHANGED <<dbVars, resultQueue, consumerVars>>

\* Judge.run: user code, time limits and load decide, so any verdict, and
\* not always the same one for the same submission.
JudgeRun(w) ==
    /\ worker[w].pc = "judging"
    /\ \E v \in Verdicts :
          worker' = [worker EXCEPT ![w].pc = "publishing", ![w].verdict = v]
    /\ UNCHANGED <<dbVars, submissionQueue, resultQueue, consumerVars>>

JudgeFails(w) ==
    /\ "judge" \in Faults
    /\ worker[w].pc = "judging"
    /\ ToIdle(w)
    /\ UNCHANGED <<dbVars, submissionQueue, resultQueue, consumerVars>>

\* Mutated form: the status field still says RUNNING.
publishResultRunning(w) ==
    LET s == worker[w].sid IN
    /\ CanSend(resultQueue, s)
    /\ resultQueue' = Send(resultQueue, s, s, [sid |-> s, status |-> "RUNNING"])

publishResult(w) ==
    LET s == worker[w].sid IN
    /\ CanSend(resultQueue, s)
    /\ resultQueue' = Send(resultQueue, s, s, [sid |-> s, status |-> worker[w].verdict])

PublishResult(w) ==
    /\ worker[w].pc = "publishing"
    /\ publishResult(w)
    /\ worker' = [worker EXCEPT ![w].pc = "deleting"]
    /\ UNCHANGED <<dbVars, submissionQueue, consumerVars>>

\* Mutated form: the message is deleted although the result was not sent.
PublishResultFailsDeletes(w) ==
    /\ "send" \in Faults
    /\ worker[w].pc = "publishing"
    /\ UNCHANGED resultQueue \/ publishResult(w)
    /\ worker' = [worker EXCEPT ![w].pc = "deleting"]
    /\ UNCHANGED <<dbVars, submissionQueue, consumerVars>>

PublishResultFails(w) ==
    /\ "send" \in Faults
    /\ worker[w].pc = "publishing"
    /\ UNCHANGED resultQueue \/ publishResult(w)
    /\ ToIdle(w)
    /\ UNCHANGED <<dbVars, submissionQueue, consumerVars>>

DeleteSubmission(w) ==
    /\ worker[w].pc = "deleting"
    /\ submissionQueue' = Delete(submissionQueue, worker[w].mid)
    /\ ToIdle(w)
    /\ UNCHANGED <<dbVars, resultQueue, consumerVars>>

DeleteSubmissionFails(w) ==
    /\ "delete" \in Faults
    /\ worker[w].pc = "deleting"
    /\ ToIdle(w)
    /\ UNCHANGED <<dbVars, submissionQueue, resultQueue, consumerVars>>

CrashWorker(w) ==
    /\ "crash" \in Faults
    /\ worker[w].pc # "polling"
    /\ ToIdle(w)
    /\ UNCHANGED <<dbVars, submissionQueue, resultQueue, consumerVars>>

WorkerStep(w) ==
    \/ ReceiveSubmission(w) \/ JudgeRun(w) \/ JudgeFails(w)
    \/ PublishResult(w) \/ PublishResultFails(w)
    \/ DeleteSubmission(w) \/ DeleteSubmissionFails(w) \/ CrashWorker(w)

-----------------------------------------------------------------------------
(* The results consumer: poll and handleResult.                            *)

Current(c) == consumer[c].msg.body

Become(c, state) == consumer' = [consumer EXCEPT ![c].pc = state]

\* The message being handled leaves the consumer; the batch goes on.
NextMessage(c) == consumer' = [consumer EXCEPT ![c].pc = "polling", ![c].msg = NoMessage]

ReceiveResults(c) ==
    /\ consumer[c] = IdleConsumer
    /\ \E batch \in SUBSET resultQueue.msgs :
          /\ batch # {} /\ Cardinality(batch) <= BatchSize
          /\ Receivable(resultQueue, batch)
          /\ resultQueue' = Receive(resultQueue, batch)
          /\ consumer' = [consumer EXCEPT ![c].batch = batch]
    /\ UNCHANGED <<dbVars, workerVars, announced, scored>>

\* The messages the loop over a batch may take next.
Heads(batch) == {m \in batch : Fifo => \A n \in batch : n.group = m.group => m.mid <= n.mid}

\* Mutated form: no guard on the status.
CheckRowNoGuard(c) ==
    /\ consumer[c].pc = "polling"
    /\ \E m \in Heads(consumer[c].batch) :
          consumer' = [consumer EXCEPT ![c] =
              [pc |-> "updating", batch |-> @.batch \ {m}, msg |-> m]]
    /\ UNCHANGED <<dbVars, workerVars, resultQueue, announced, scored>>

\* The SELECT, and the guard on what it read.
CheckRow(c) ==
    /\ consumer[c].pc = "polling"
    /\ \E m \in Heads(consumer[c].batch) :
          consumer' = [consumer EXCEPT ![c] =
              [pc    |-> IF IsOpen(m.body.sid) THEN "updating" ELSE "deleting",
               batch |-> @.batch \ {m}, msg |-> m]]
    /\ UNCHANGED <<dbVars, workerVars, resultQueue, announced, scored>>

CheckRowFails(c) ==
    /\ "db" \in Faults
    /\ consumer[c].pc = "polling"
    /\ \E m \in Heads(consumer[c].batch) :
          consumer' = [consumer EXCEPT ![c].batch = @ \ {m}]
    /\ UNCHANGED <<dbVars, workerVars, resultQueue, announced, scored>>

UpdateRow(c) ==
    /\ consumer[c].pc = "updating"
    /\ UpdateStatus(Current(c).sid, Current(c).status)
    /\ Become(c, "publishing")
    /\ UNCHANGED <<workerVars, resultQueue, announced, scored>>

\* An UPDATE that reports an error may still have committed.
UpdateRowFails(c) ==
    /\ "db" \in Faults
    /\ consumer[c].pc = "updating"
    /\ UNCHANGED dbVars \/ UpdateStatus(Current(c).sid, Current(c).status)
    /\ NextMessage(c)
    /\ UNCHANGED <<workerVars, resultQueue, announced, scored>>

PublishVerdict(c) ==
    LET s == Current(c).sid IN
    /\ consumer[c].pc = "publishing"
    /\ announced' = [announced EXCEPT ![s] = @ \cup {Current(c).status}]
    /\ Become(c, IF submissions[s].contest = NoContest THEN "deleting" ELSE "scoring")
    /\ UNCHANGED <<dbVars, workerVars, resultQueue, scored>>

\* updateContestScore as a whole; ContestScore has its steps.
UpdateContestScore(c) ==
    /\ consumer[c].pc = "scoring"
    /\ scored' = [scored EXCEPT ![Current(c).sid] = @ + 1]
    /\ Become(c, "deleting")
    /\ UNCHANGED <<dbVars, workerVars, resultQueue, announced>>

\* One try block around both Redis calls: a failed publish skips the score.
RedisFails(c) ==
    /\ "redis" \in Faults
    /\ consumer[c].pc \in {"publishing", "scoring"}
    /\ Become(c, "deleting")
    /\ UNCHANGED <<dbVars, workerVars, resultQueue, announced, scored>>

DeleteResult(c) ==
    /\ consumer[c].pc = "deleting"
    /\ resultQueue' = Delete(resultQueue, consumer[c].msg.mid)
    /\ NextMessage(c)
    /\ UNCHANGED <<dbVars, workerVars, announced, scored>>

DeleteResultFails(c) ==
    /\ "delete" \in Faults
    /\ consumer[c].pc = "deleting"
    /\ NextMessage(c)
    /\ UNCHANGED <<dbVars, workerVars, resultQueue, announced, scored>>

CrashConsumer(c) ==
    /\ "crash" \in Faults
    /\ consumer[c] # IdleConsumer
    /\ consumer' = [consumer EXCEPT ![c] = IdleConsumer]
    /\ UNCHANGED <<dbVars, workerVars, resultQueue, announced, scored>>

ConsumerStep(c) ==
    \/ ReceiveResults(c) \/ CheckRow(c) \/ CheckRowFails(c)
    \/ UpdateRow(c) \/ UpdateRowFails(c)
    \/ PublishVerdict(c) \/ UpdateContestScore(c) \/ RedisFails(c)
    \/ DeleteResult(c) \/ DeleteResultFails(c) \/ CrashConsumer(c)

-----------------------------------------------------------------------------
(* SQS and the backend.                                                    *)

Held(c) == consumer[c].batch \cup ({consumer[c].msg} \ {NoMessage})

\* A result reappears once nobody handles it any more, or under its handler
\* when that one is slower than the visibility timeout.
ResultReappears(mid) ==
    /\ mid \in resultQueue.inFlight
    /\ \/ "slow_consumer" \in Faults
       \/ \A c \in Consumers : \A m \in Held(c) : m.mid # mid
    /\ resultQueue' = Reappear(resultQueue, mid)
    /\ UNCHANGED <<dbVars, workerVars, consumerVars>>

ResultDedupEnds(s) ==
    /\ CanForget(resultQueue, s, Submissions)
    /\ resultQueue' = Forget(resultQueue, s)
    /\ UNCHANGED <<dbVars, workerVars, consumerVars>>

SubmissionQueueTime ==
    /\ \/ \E mid \in submissionQueue.inFlight : SubmissionReappears(mid)
       \/ \E s \in Submissions : SubmissionDedupEnds(s)
    /\ UNCHANGED <<dbVars, pipelineVars>>

ResultQueueTime ==
    \/ \E mid \in resultQueue.inFlight : ResultReappears(mid)
    \/ \E s \in Submissions : ResultDedupEnds(s)

BackendInserts(s) ==
    /\ \E row \in NewRows : InsertSubmission(s, row)
    /\ UNCHANGED <<submissionQueue, pipelineVars>>

BackendSends(s) ==
    /\ Exists(s) /\ CanEnqueue(s)
    /\ Enqueue(s)
    /\ UNCHANGED <<dbVars, pipelineVars>>

PipelineNext ==
    \/ \E w \in Workers : WorkerStep(w)
    \/ \E c \in Consumers : ConsumerStep(c)
    \/ SubmissionQueueTime \/ ResultQueueTime

Next == PipelineNext \/ \E s \in Submissions : BackendInserts(s) \/ BackendSends(s)

Spec == Init /\ [][Next]_vars

(* Each loop keeps running, each timeout ends, and a call that is tried    *)
(* again and again succeeds at last.  Nothing is assumed of the backend,   *)
(* and no failure is ever assumed to happen.                               *)
WorkerFairness(w) ==
    /\ SF_vars(ReceiveSubmission(w)) /\ SF_vars(JudgeRun(w))
    /\ SF_vars(PublishResult(w)) /\ SF_vars(DeleteSubmission(w))

ConsumerFairness(c) ==
    /\ SF_vars(ReceiveResults(c)) /\ SF_vars(CheckRow(c)) /\ SF_vars(UpdateRow(c))
    /\ WF_vars(PublishVerdict(c)) /\ WF_vars(UpdateContestScore(c))
    /\ SF_vars(DeleteResult(c))

TimeoutFairness ==
    \A mid \in 1..MaxSends :
        /\ WF_vars(SubmissionReappears(mid) /\ UNCHANGED <<dbVars, pipelineVars>>)
        /\ WF_vars(ResultReappears(mid))

PipelineFairness ==
    /\ \A w \in Workers : WorkerFairness(w)
    /\ \A c \in Consumers : ConsumerFairness(c)
    /\ TimeoutFairness

FairSpec == Spec /\ PipelineFairness

-----------------------------------------------------------------------------
(* Safety.                                                                 *)

Queued(s)   == \E m \in submissionQueue.msgs : m.body = s
Reported(s) == \E m \in resultQueue.msgs : m.body.sid = s

(* The last message that can bring a submission its verdict is only        *)
(* removed once the verdict is stored: crashes, failed sends, swallowed    *)
(* duplicates and late deletes never strand a submission.                  *)
NoVerdictLost ==
    [][\A s \in Submissions :
          Queued(s) \/ Reported(s) => (Queued(s) \/ Reported(s) \/ Final(s))']_vars

(* updateContestScore is not idempotent for a rejected verdict (it counts  *)
(* a failure each time), so it must run at most once for a submission.     *)
ScoredAtMostOnce == \A s \in Submissions : scored[s] <= 1

(* The pipeline implements the abstract lifecycle: each submission graded  *)
(* once, the board in step with the grades, watchers told only the grade.  *)
(* A stored verdict is never replaced and a client is told what the row    *)
(* says: SubmissionSystemProofs derives both from the lifecycle.           *)
Lifecycle == INSTANCE SubmissionLifecycle
                 WITH ledger <- submissions, board <- problems, told <- announced

ImplementsLifecycle == Lifecycle!LedgerSpec

(* results-consumer/main.js:70: "If it's already a final verdict, a        *)
(* previous delivery already processed this message."  A result is only    *)
(* removed from the queue after its verdict went to the watching client.   *)
SkippedWasProcessed ==
    \A c \in Consumers :
        consumer[c].pc = "deleting" => announced[Current(c).sid] # {}
=============================================================================
