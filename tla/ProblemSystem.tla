----------------------------- MODULE ProblemSystem -----------------------------
(***************************************************************************)
(* create_problem and the judge workers together: they share S3 and the    *)
(* table of problems, and nothing tells a worker when an object changes.   *)
(***************************************************************************)
EXTENDS CreateProblem, JudgeRun

vars == <<objects, problems, call, cache, job>>

TypeOK == StoreTypeOK /\ CreateTypeOK /\ JudgeTypeOK

Init == StoreInit /\ CreateInit /\ JudgeInit

Next ==
    \/ \E c \in Calls : create_problem(c) /\ UNCHANGED <<cache, job>>
    \/ \E j \in Jobs : (Start(j) \/ run(j)) /\ UNCHANGED call
    \/ \E w \in Workers : Restart(w) /\ UNCHANGED call

Spec == Init /\ [][Next]_vars

(* judge.js:97-98: a resolved result "is a legitimate verdict".  It is what *)
(* the program deserves on the job's cases but for the runs that Docker or  *)
(* the host decided: those count as failures, and only if one of them is    *)
(* the first failure the status is not the program's own.  The cases,       *)
(* downloaded or found in a cache other jobs filled, before or after a      *)
(* restart, are ones that a call of this slug has tested; where its calls   *)
(* do not overlap they are those the problem was created with.              *)
VerdictIsDeserved ==
    \A j \in Jobs : job[j].pc = "done" =>
        /\ Deserves(job[j])
        /\ job[j].cases \in TestedCases(job[j].slug)
        /\ job[j].slug \in Undisturbed => job[j].cases = problems[job[j].slug].cases
=============================================================================
