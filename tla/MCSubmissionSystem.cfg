SPECIFICATION FairSystemSpec
CONSTANTS
    Fifo = TRUE
    MaxSends = 2
    Submissions = {s1}
    Requests = {r1, r2}
    Inputs <- Retries
    Workers = {w1}
    Consumers = {d1}
    BatchSize = 1
    Faults = {"enqueue", "judge", "db", "redis", "request"}
    NewRows <- AnyNewRow
    ProblemState <- MCProblemState
    ContestProblems <- MCContestProblems
    Users = {u1}
    Problems = {p1}
    Contests = {c1}
    Codes = {a, b}
    Keys = {k1}
    Verdicts = {"ACCEPTED", "WRONG_ANSWER"}
    NoContest = NoContest
    NoKey = NoKey
    BadKey = BadKey
    NoSubmission = NoSubmission
    NoRow = NoRow
    NoMessage = NoMessage
    u1 = u1
    k1 = k1
    p1 = p1
    a = a
    b = b
    c1 = c1
CHECK_DEADLOCK FALSE
PROPERTIES
    ImplementsLifecycle
    AcceptedIsJudged
