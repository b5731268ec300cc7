-------------------------- MODULE SubmissionSystem --------------------------
(***************************************************************************)
(* The backend's submit handler and the verdict pipeline together: the     *)
(* handler's environment is the real pipeline, and the pipeline's backend  *)
(* the real handler.  They share the tables and the submission queue.      *)
(***************************************************************************)
EXTENDS VerdictPipeline

CONSTANTS Requests, BadKey, Inputs, ProblemState, ContestProblems

VARIABLES input, pc, sid, seen, answer, contestPhase

H == INSTANCE SubmitHandler

\* The handler's own assumptions, and that the pipeline takes any new row.
ASSUME SystemAssumption ==
    /\ NewRows = {row \in Row : row.status = "PENDING"}
    /\ BadKey \notin Keys \cup {NoKey}
    /\ Inputs \subseteq H!Input
    /\ ProblemState \in [Problems -> {"public", "missing", "private", "no_tests"}]
    /\ ContestProblems \subseteq Contests \X Problems

handlerVars == <<input, pc, sid, seen, answer, contestPhase>>
systemVars == <<vars, handlerVars>>

SystemInit == Init /\ H!HandlerInit

BackendStep ==
    /\ \/ \E r \in Requests : H!HandlerStep(r)
       \/ \E c \in Contests : H!ContestClock(c)
    /\ UNCHANGED pipelineVars

SystemNext == BackendStep \/ (PipelineNext /\ UNCHANGED handlerVars)

SystemSpec == SystemInit /\ [][SystemNext]_systemVars

\* The pipeline's fairness, as in VerdictPipeline; a client owes no retry.
FairSystemSpec ==
    /\ SystemSpec
    /\ \A w \in Workers :
          /\ SF_systemVars(ReceiveSubmission(w) /\ UNCHANGED handlerVars)
          /\ SF_systemVars(JudgeRun(w) /\ UNCHANGED handlerVars)
          /\ SF_systemVars(PublishResult(w) /\ UNCHANGED handlerVars)
          /\ SF_systemVars(DeleteSubmission(w) /\ UNCHANGED handlerVars)
    /\ \A c \in Consumers :
          /\ SF_systemVars(ReceiveResults(c) /\ UNCHANGED handlerVars)
          /\ SF_systemVars(CheckRow(c) /\ UNCHANGED handlerVars)
          /\ SF_systemVars(UpdateRow(c) /\ UNCHANGED handlerVars)
          /\ WF_systemVars(PublishVerdict(c) /\ UNCHANGED handlerVars)
          /\ WF_systemVars(UpdateContestScore(c) /\ UNCHANGED handlerVars)
          /\ SF_systemVars(DeleteResult(c) /\ UNCHANGED handlerVars)
    /\ \A mid \in 1..MaxSends :
          /\ WF_systemVars(/\ SubmissionReappears(mid)
                           /\ UNCHANGED <<dbVars, pipelineVars, handlerVars>>)
          /\ WF_systemVars(ResultReappears(mid) /\ UNCHANGED handlerVars)

-----------------------------------------------------------------------------
(* ImplementsLifecycle of VerdictPipeline is checked of the system too:    *)
(* re-enqueues by retries never make it grade, count or tell twice.        *)

(* A submission a client was told is taken gets its verdict in the end.    *)
AcceptedIsJudged ==
    \A s \in Submissions :
        (\E r \in Requests : H!Accepted(r) /\ sid[r] = s) ~> Final(s)
=============================================================================
