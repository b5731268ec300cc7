SPECIFICATION FairSpec
CONSTANTS
    f1 = f1
    Phones = {f1}
    UserOf <- OwnPhone
    Users = {1, 2}
    Problems = {p1}
    Ticks = {t1, t2}
    TopN = 1
    MaxFails = 1
    Absent = Absent
    None = None
    Faults = {"redis"}
CHECK_DEADLOCK FALSE
INVARIANTS
    TypeOK
PROPERTIES
    DirtyBoardIsShown
