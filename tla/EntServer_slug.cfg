SPECIFICATION Spec
CONSTANTS
    Call = {c1, c2}
    Id = {u1}
    Alias = {a1}
    Name = {n1}
    TenantId = {t1}
    TAlias = {x1, Zero}
    Absent = Absent
    Zero = Zero
    RefKinds = {"id", "slug"}
    Forcing = {}
    SteadyClock = TRUE
    FineClock = FALSE
    MaxTime = 1
SYMMETRY CallSymmetry
INVARIANTS RefNamesRow PicksAsTheServer
PROPERTIES VersionForward
