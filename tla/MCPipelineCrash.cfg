SPECIFICATION Spec
CONSTANTS
    Fifo = TRUE
    MaxSends = 1
    Submissions = {s1}
    Workers = {w1}
    Consumers = {d1}
    BatchSize = 2
    Faults = {"crash"}
    NewRows <- Practice
    Users = {u1}
    Problems = {p1}
    Contests = {c1}
    Codes = {a}
    Keys = {k1}
    Verdicts = {"ACCEPTED", "WRONG_ANSWER"}
    NoContest = NoContest
    NoKey = NoKey
    NoSubmission = NoSubmission
    NoRow = NoRow
    NoMessage = NoMessage
    u1 = u1
    p1 = p1
    a = a
    c1 = c1
CHECK_DEADLOCK FALSE
INVARIANTS
    SkippedWasProcessed
