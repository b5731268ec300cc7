-------------------------- MODULE SubmissionQueue --------------------------
(***************************************************************************)
(* The queue between the backend (publishToQueue) and the judge workers.   *)
(* A message carries what the judge needs; all of it is determined by the  *)
(* submission's row, so the body is the submission's id.                   *)
(***************************************************************************)
EXTENDS SubmissionDb

CONSTANT Faults     \* which calls of the environment may fail, by name

VARIABLE submissionQueue

SubmissionQueueTypeOK == submissionQueue \in QueueType(Users, Submissions, Submissions)

\* Grouped by user, deduplicated by submission id.
CanEnqueue(s) == CanSend(submissionQueue, s)
Enqueue(s) == submissionQueue' = Send(submissionQueue, submissions[s].user, s, s)

\* A send that reports an error may still have stored the message.
EnqueueFails(s) ==
    /\ "enqueue" \in Faults
    /\ \/ UNCHANGED submissionQueue
       \/ CanEnqueue(s) /\ Enqueue(s)

SubmissionDedupEnds(s) ==
    /\ CanForget(submissionQueue, s, Submissions)
    /\ submissionQueue' = Forget(submissionQueue, s)

\* Judging has no bound on its time, so the visibility timeout may end while
\* a worker still holds the message.
SubmissionReappears(mid) ==
    /\ mid \in submissionQueue.inFlight
    /\ submissionQueue' = Reappear(submissionQueue, mid)
=============================================================================
