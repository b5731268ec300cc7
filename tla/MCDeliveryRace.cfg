SPECIFICATION FairSpec
CONSTANTS
    d1 = d1
    d2 = d2
    u1 = u1
    u2 = u2
    s1 = s1
    s2 = s2
    Devices = {d1}
    Users = {u1, u2}
    UserOf <- OnePhone
    Submissions = {s1}
    Owner <- Owner1
    Verdicts = {"ACCEPTED"}
    Open = Open
    None = None
    MaxConns = 1
    MaxPublish = 1
    Attempts = 1
    Faults = {}
CHECK_DEADLOCK FALSE
PROPERTIES
    WatcherIsTold
