SPECIFICATION Spec
CONSTANTS
    Users = {u1, u2}
    Problems = {p1}
    Consumers = {d1, d2}
    RegistrationWindow = {"before"}
    MaxRows = 3
    Faults = {"redis", "crash"}
    NotRegistered = NotRegistered
    Absent = Absent
SYMMETRY Sym
CHECK_DEADLOCK FALSE
INVARIANTS
    TypeOK
    SolvedCountIsBounded
    BoardMatchesStats
    LiveMatchesFinal
    LiveIsBacked
PROPERTIES
    ResultStands
