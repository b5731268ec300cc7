SPECIFICATION FairSpec
CONSTANTS
    d1 = d1
    d2 = d2
    u1 = u1
    u2 = u2
    s1 = s1
    s2 = s2
    Devices = {d1}
    Users = {u1, u2}
    UserOf <- OnePhone
    Submissions = {s1, s2}
    Owner <- Owner2
    Verdicts = {"ACCEPTED"}
    Open = Open
    None = None
    MaxConns = 2
    MaxPublish = 2
    Attempts = 1
    Faults = {"network", "auth", "db"}
CHECK_DEADLOCK FALSE
INVARIANTS
    TypeOK
    SubscriptionMatchesHandlers
    ShownIsTrue
PROPERTIES
    GoneIsReleased
    InTimeIsTold
