SPECIFICATION Spec
CONSTANTS
    Slugs = {s1, s2}
    TestCases = {t1, t2}
    Tags = {g1}
    Calls = {c1, c2}
    Authors = {a1}
    Requests <- MCRequests
    Undisturbed = {s1}
    Faults = {"s3", "db", "commit", "kill"}
    Workers = {w1}
    Jobs = {j1, j2}
    WorkerOf <- Together
    Programs = {right, uneven}
    Behaviour <- MCBehaviour
    JudgeFaults = {"s3", "disk", "docker", "kill"}
    NoObject = NoObject
    NoProblem = NoProblem
    NoAuthor = NoAuthor
    NoRequest = NoRequest
    NoProgram = NoProgram
    NoSlug = NoSlug
    s1 = s1
    s2 = s2
    t1 = t1
    t2 = t2
    g1 = g1
    a1 = a1
    right = right
    uneven = uneven
    c1 = c1
    c2 = c2
    j1 = j1
    j2 = j2
    w1 = w1
SYMMETRY Sym
CHECK_DEADLOCK FALSE
INVARIANTS
    TypeOK
    RowHasCases
    DryRunBlocksInstall
    AnswerIsTrue
    VerdictIsDeserved
