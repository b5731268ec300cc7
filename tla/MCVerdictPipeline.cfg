SPECIFICATION Spec
CONSTANTS
    Fifo = TRUE
    MaxSends = 3
    Submissions = {s1, s2}
    Workers = {w1}
    Consumers = {d1}
    BatchSize = 1
    Faults = {"crash", "send", "judge", "delete", "db", "redis", "enqueue"}
    NewRows <- InContest
    Users = {u1}
    Problems = {p1}
    Contests = {c1}
    Codes = {a}
    Keys = {k1}
    Verdicts = {"ACCEPTED", "WRONG_ANSWER"}
    NoContest = NoContest
    NoKey = NoKey
    NoSubmission = NoSubmission
    NoRow = NoRow
    NoMessage = NoMessage
    u1 = u1
    p1 = p1
    a = a
    c1 = c1
SYMMETRY Sym
CHECK_DEADLOCK FALSE
INVARIANTS
    ProgressMatchesRows
    JudgedCountedOnce
    TypeOK
    ScoredAtMostOnce
PROPERTIES
    NoVerdictLost
    FirstSolveStands
    ImplementsLifecycle
