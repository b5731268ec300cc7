SPECIFICATION Spec
CONSTANTS
    Users = {u1, u2}
    Problems = {p1}
    Consumers = {d1}
    RegistrationWindow = {"before"}
    MaxRows = 1
    Faults = {}
    NotRegistered = NotRegistered
    Absent = Absent
SYMMETRY Sym
CHECK_DEADLOCK FALSE
INVARIANTS
    StandingsByScore
