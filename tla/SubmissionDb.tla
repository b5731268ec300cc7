---------------------------- MODULE SubmissionDb ----------------------------
(***************************************************************************)
(* The Postgres tables a submission touches, and the trigger               *)
(* trg_submission_judged, which Postgres runs inside the UPDATE that       *)
(* stores a verdict.  Every operator here is one SQL statement: atomic.    *)
(***************************************************************************)
EXTENDS SqsQueue

CONSTANTS
    Submissions,    \* ids of the submissions table
    Users, Problems, Contests,
    Codes,          \* what a request asks to judge: language and code
    Keys,           \* values of the Idempotency-Key header
    Verdicts,       \* the final statuses a judge run may report
    NoContest, NoKey, NoSubmission, NoRow   \* SQL nulls and absent rows

Open == {"PENDING", "RUNNING"}

ASSUME DbAssumption ==
    /\ "ACCEPTED" \in Verdicts
    /\ Open \cap Verdicts = {}
    /\ NoContest \notin Contests
    /\ NoKey \notin Keys
    /\ NoSubmission \notin Submissions
    /\ IsFiniteSet(Submissions)

VARIABLES
    submissions,        \* the submissions table, by id
    problems,           \* the denormalised counters, by problem
    userProblemStatus   \* SOLVED / ATTEMPTED, by user and problem

dbVars == <<submissions, problems, userProblemStatus>>

Hashes == Problems \X Codes \X (Contests \cup {NoContest})

Row == [user : Users, problem : Problems, contest : Contests \cup {NoContest},
        key : Keys \cup {NoKey}, hash : Hashes, status : Open \cup Verdicts]

ASSUME NoRowAssumption == NoRow \notin Row

Progress == [status : {"NONE", "ATTEMPTED", "SOLVED"},
             solvedAt : Submissions \cup {NoSubmission}]

DbTypeOK ==
    /\ submissions \in [Submissions -> Row \cup {NoRow}]
    /\ problems \in [Problems -> [totalSubmissions : Nat, totalAccepted : Nat]]
    /\ userProblemStatus \in [Users -> [Problems -> Progress]]

DbInit ==
    /\ submissions = [s \in Submissions |-> NoRow]
    /\ problems = [p \in Problems |-> [totalSubmissions |-> 0, totalAccepted |-> 0]]
    /\ userProblemStatus =
           [u \in Users |-> [p \in Problems |->
               [status |-> "NONE", solvedAt |-> NoSubmission]]]

Exists(s) == submissions[s] # NoRow
IsOpen(s) == Exists(s) /\ submissions[s].status \in Open
Final(s)  == Exists(s) /\ submissions[s].status \in Verdicts

\* INSERT of a PENDING row; the caller checks the unique index.
InsertSubmission(s, row) ==
    /\ ~ Exists(s)
    /\ submissions' = [submissions EXCEPT ![s] = row]
    /\ UNCHANGED <<problems, userProblemStatus>>

\* The counters and the upsert of fn_after_submission_judged.  NOW() is
\* abstracted to the submission being judged when it was read.
BumpCounters(row, v) ==
    problems' = [problems EXCEPT
        ![row.problem].totalSubmissions = @ + 1,
        ![row.problem].totalAccepted = IF v = "ACCEPTED" THEN @ + 1 ELSE @]

\* Mutated form: SOLVED is downgraded by a later rejection.
UpsertProgressDowngrades(s, row, v) ==
    userProblemStatus' = [userProblemStatus EXCEPT ![row.user][row.problem] =
        [status   |-> IF v = "ACCEPTED" THEN "SOLVED" ELSE "ATTEMPTED",
         solvedAt |-> IF v = "ACCEPTED" THEN s ELSE @.solvedAt]]

\* Mutated form: without the COALESCE that keeps the first.
UpsertProgressLatest(s, row, v) ==
    userProblemStatus' = [userProblemStatus EXCEPT ![row.user][row.problem] =
        [status   |-> IF v = "ACCEPTED" \/ @.status = "SOLVED"
                      THEN "SOLVED" ELSE "ATTEMPTED",
         solvedAt |-> IF v = "ACCEPTED" THEN s ELSE @.solvedAt]]

UpsertProgress(s, row, v) ==
    userProblemStatus' = [userProblemStatus EXCEPT ![row.user][row.problem] =
        [status   |-> IF v = "ACCEPTED" \/ @.status = "SOLVED"
                      THEN "SOLVED" ELSE "ATTEMPTED",
         solvedAt |-> IF v = "ACCEPTED" /\ @.solvedAt = NoSubmission
                      THEN s ELSE @.solvedAt]]

\* Mutated form: only accepted rows count.
UpdateStatusCountsAccepted(s, v) ==
    /\ submissions' = [submissions EXCEPT ![s].status = v]
    /\ IF submissions[s].status \in Open /\ v = "ACCEPTED"
       THEN BumpCounters(submissions[s], v) /\ UpsertProgress(s, submissions[s], v)
       ELSE UNCHANGED <<problems, userProblemStatus>>

\* UPDATE submissions SET status = v WHERE id = s, with its trigger.  The
\* UPDATE itself has no guard on the old status; only the trigger has.
UpdateStatus(s, v) ==
    LET row == submissions[s] IN
    /\ submissions' = [submissions EXCEPT ![s].status = v]
    /\ IF row.status \in Open
       THEN BumpCounters(row, v) /\ UpsertProgress(s, row, v)
       ELSE UNCHANGED <<problems, userProblemStatus>>

-----------------------------------------------------------------------------
JudgedRows(p)      == {s \in Submissions : Final(s) /\ submissions[s].problem = p}
AcceptedRows(p)    == {s \in JudgedRows(p) : submissions[s].status = "ACCEPTED"}
AttemptsOf(u, p)   == {s \in JudgedRows(p) : submissions[s].user = u}

(* Each judged submission is counted once on its problem: the trigger's    *)
(* guard on the old status holds whatever the deliveries and retries are.  *)
JudgedCountedOnce ==
    \A p \in Problems :
        problems[p].totalSubmissions = Cardinality(JudgedRows(p))

(* userProblemStatus says exactly what the rows say: SOLVED with the time  *)
(* of some accepted row when the user has one, ATTEMPTED when there are    *)
(* only rejected ones, nothing before a verdict.                           *)
ProgressMatchesRows ==
    \A u \in Users, p \in Problems :
        LET progress == userProblemStatus[u][p]
            accepted == AttemptsOf(u, p) \cap AcceptedRows(p) IN
        /\ progress.status = "SOLVED"    <=> accepted # {}
        /\ progress.status = "ATTEMPTED" <=> AttemptsOf(u, p) # {} /\ accepted = {}
        /\ progress.solvedAt \in IF accepted = {} THEN {NoSubmission} ELSE accepted

(* The trigger's comment, "keep the timestamp of the FIRST accepted run":  *)
(* solvedAt is set in the step that stores the verdict of the row it       *)
(* names, and no second solve, redelivery or other consumer moves it.      *)
FirstSolveStands ==
    [][\A u \in Users, p \in Problems :
          LET was == userProblemStatus[u][p].solvedAt
              is  == userProblemStatus'[u][p].solvedAt IN
          is # was =>
              /\ was = NoSubmission
              /\ is \in (AttemptsOf(u, p) \cap AcceptedRows(p))' \ AttemptsOf(u, p)]_dbVars
=============================================================================
