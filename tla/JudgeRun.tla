------------------------------- MODULE JudgeRun -------------------------------
(***************************************************************************)
(* Judge.run: a judge worker loads a problem's test cases (from its cache, *)
(* which it shares between its jobs and never empties), runs the program   *)
(* in a container on each, and adds the outcomes up to a verdict.          *)
(*                                                                         *)
(* A program is a function: what it does on a test case, one of            *)
(*   "right", "wrong"  exits with 0, with or without the expected output   *)
(*   "hang"            does not end within the limit                       *)
(*   "memory"          is killed for its memory, exit code 137             *)
(*   "crash"           ends with another exit code                         *)
(***************************************************************************)
EXTENDS ProblemStore

CONSTANTS
    Workers,        \* judge processes
    Jobs,           \* runs of Judge.run
    WorkerOf,       \* the process each job runs in
    Programs,
    Behaviour,      \* what a program does on a test case
    NoProgram, NoSlug,
    JudgeFaults     \* "s3", "disk", "docker", "kill"

Does == {"right", "wrong", "hang", "memory", "crash"}

ASSUME JudgeAssumption ==
    /\ WorkerOf \in [Jobs -> Workers]
    /\ Behaviour \in [Programs -> [TestCases -> Does]]
    /\ NoProgram \notin Programs /\ NoSlug \notin Slugs

VARIABLES
    cache,          \* of each process, by slug; NoObject where it has no entry
    job

Statuses == {"ACCEPTED", "WRONG_ANSWER", "TIME_LIMIT_EXCEEDED",
             "MEMORY_LIMIT_EXCEEDED", "RUNTIME_ERROR"}

Job == [pc : {"idle", "load", "download", "write", "run", "done", "failed"},
        slug : Slugs \cup {NoSlug}, program : Programs \cup {NoProgram},
        cases : Seq(TestCases),
        results : Seq([id : TestCases, passed : BOOLEAN]),    \* testCaseResults
        status : Statuses, passedCount : Nat,
        upset : SUBSET Nat]     \* the runs that Docker or the host decided (history)

JudgeTypeOK ==
    /\ cache \in [Workers -> [Slugs -> Seq(TestCases) \cup {NoObject}]]
    /\ job \in [Jobs -> Job]

NoJob == [pc |-> "idle", slug |-> NoSlug, program |-> NoProgram, cases |-> <<>>,
          results |-> <<>>, status |-> "ACCEPTED", passedCount |-> 0, upset |-> {}]

JudgeInit ==
    /\ cache = [w \in Workers |-> [s \in Slugs |-> NoObject]]
    /\ job = [j \in Jobs |-> NoJob]
-----------------------------------------------------------------------------
Cached(j) == cache[WorkerOf[j]][job[j].slug]

\* The backend queues a submission only for a problem with test cases.  A job
\* that failed is delivered again.
Start(j) ==
    /\ job[j].pc \in {"idle", "failed"}
    /\ \E s \in Slugs, p \in Programs :
          /\ Taken(s)
          /\ job[j].pc = "failed" => s = job[j].slug /\ p = job[j].program
          /\ job' = [job EXCEPT ![j] = [NoJob EXCEPT !.pc = "load", !.slug = s, !.program = p]]
    /\ UNCHANGED <<storeVars, cache>>

load(j, cases) == job' = [job EXCEPT ![j].pc = "write", ![j].cases = cases]

\* run throws, and what it knew is gone.
Thrown(j) == [NoJob EXCEPT !.pc = "failed", !.slug = job[j].slug, !.program = job[j].program]
Fail(j) == job' = [job EXCEPT ![j] = Thrown(j)]

getTestCases(j) ==
    /\ job[j].pc = "load"
    /\ IF Cached(j) # NoObject THEN load(j, Cached(j))
       ELSE job' = [job EXCEPT ![j].pc = "download"]
    /\ UNCHANGED <<storeVars, cache>>

\* Mutated form: a missing object is not an error.
downloadMissing(j) ==
    /\ job[j].pc = "download"
    /\ load(j, objects[job[j].slug])
    /\ UNCHANGED <<storeVars, cache>>

\* Jobs of one process that miss at the same time all download.
download(j) ==
    /\ job[j].pc = "download"
    /\ LET got == objects[job[j].slug] IN
       IF got = NoObject
       THEN Fail(j) /\ UNCHANGED cache
       ELSE /\ load(j, got)
            /\ cache' = [cache EXCEPT ![WorkerOf[j]][job[j].slug] = got]
    /\ UNCHANGED storeVars

\* "s3": the download rejects; "disk": the code's directory or file does.
LoadFails(j) ==
    /\ \/ "s3" \in JudgeFaults /\ job[j].pc = "download"
       \/ "disk" \in JudgeFaults /\ job[j].pc = "write"
    /\ Fail(j)
    /\ UNCHANGED <<storeVars, cache>>

writeFile(j) ==
    /\ job[j].pc = "write"
    /\ job' = [job EXCEPT ![j].pc = "run"]
    /\ UNCHANGED <<storeVars, cache>>

-----------------------------------------------------------------------------
\* How runTestCase reads the end of a container.
statusOf(does) ==
    CASE does = "right"  -> "ACCEPTED"
      [] does = "wrong"  -> "WRONG_ANSWER"
      [] does = "hang"   -> "TIME_LIMIT_EXCEEDED"
      [] does = "memory" -> "MEMORY_LIMIT_EXCEEDED"
      [] does = "crash"  -> "RUNTIME_ERROR"

\* "docker": the container cannot be started, or starts so late that the
\* program's time is over.
Outcomes(j, t) ==
    {statusOf(Behaviour[job[j].program][t])}
    \cup (IF "docker" \in JudgeFaults THEN {"RUNTIME_ERROR", "TIME_LIMIT_EXCEEDED"} ELSE {})

\* Mutated form: the last failure decides.
addLast(r, t, status) ==
    [r EXCEPT !.results     = Append(@, [id |-> t, passed |-> status = "ACCEPTED"]),
              !.passedCount = IF status = "ACCEPTED" THEN @ + 1 ELSE @,
              !.status      = IF status # "ACCEPTED" THEN status ELSE @]

\* The first failure decides; the remaining cases are run all the same.
add(r, t, status) ==
    [r EXCEPT !.results     = Append(@, [id |-> t, passed |-> status = "ACCEPTED"]),
              !.passedCount = IF status = "ACCEPTED" THEN @ + 1 ELSE @,
              !.status      = IF @ = "ACCEPTED" THEN status ELSE @]

runTestCase(j) ==
    /\ job[j].pc = "run" /\ Len(job[j].results) < Len(job[j].cases)
    /\ LET i == Len(job[j].results) + 1
           t == job[j].cases[i]
           own == statusOf(Behaviour[job[j].program][t]) IN
       \E status \in Outcomes(j, t) :
          job' = [job EXCEPT ![j] = [add(job[j], t, status) EXCEPT
                                        !.upset = IF status = own THEN @ ELSE @ \cup {i}]]
    /\ UNCHANGED <<storeVars, cache>>

Finish(j) ==
    /\ job[j].pc = "run" /\ Len(job[j].results) = Len(job[j].cases)
    /\ job' = [job EXCEPT ![j].pc = "done"]
    /\ UNCHANGED <<storeVars, cache>>

\* The process is replaced: its cache is empty, its messages come back.
Restart(w) ==
    /\ "kill" \in JudgeFaults
    /\ cache' = [cache EXCEPT ![w] = [s \in Slugs |-> NoObject]]
    /\ job' = [j \in Jobs |-> IF WorkerOf[j] = w /\ job[j].pc \notin {"idle", "done"}
                              THEN Thrown(j) ELSE job[j]]
    /\ UNCHANGED storeVars

run(j) ==
    \/ getTestCases(j) \/ download(j) \/ LoadFails(j) \/ writeFile(j)
    \/ runTestCase(j) \/ Finish(j)

-----------------------------------------------------------------------------
\* The verdict a job owes: every case is counted, and the first one that fails,
\* by the program's doing or not, decides.
Failing(p, cases) == {i \in DOMAIN cases : Behaviour[p][cases[i]] # "right"}

Deserves(r) ==
    LET failing == Failing(r.program, r.cases) \cup r.upset IN
    /\ r.passedCount = Len(r.cases) - Cardinality(failing)
    /\ r.status = "ACCEPTED" <=> failing = {}
    /\ \A i \in failing \ r.upset :
          (\A k \in failing : i <= k) => r.status = statusOf(Behaviour[r.program][r.cases[i]])
=============================================================================
