SPECIFICATION Spec
CONSTANTS
    Fifo = TRUE
    MaxSends = 3
    Submissions = {s1, s2}
    Requests = {r1, r2, r3}
    Users = {u1, u2}
    Problems = {p1, p2, p3, p4}
    Contests = {c1}
    Codes = {a, b}
    Keys = {k1}
    Verdicts = {"ACCEPTED", "WRONG_ANSWER"}
    NoContest = NoContest
    NoKey = NoKey
    BadKey = BadKey
    NoSubmission = NoSubmission
    NoRow = NoRow
    Faults = {"enqueue", "request"}
    Inputs <- MCInputs
    ProblemState <- MCProblemState
    ContestProblems <- MCContestProblems
    u1 = u1
    u2 = u2
    k1 = k1
    p1 = p1
    p2 = p2
    p3 = p3
    p4 = p4
    a = a
    b = b
    c1 = c1
SYMMETRY Sym
CHECK_DEADLOCK FALSE
INVARIANTS
    TypeOK
    OneSubmissionPerKey
    AnswerIsOwnSubmission
    AcceptedIsQueued
