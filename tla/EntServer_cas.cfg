SPECIFICATION Spec
CONSTANTS
    Call = {c1, c2}
    Id = {u1}
    Alias = {a1}
    Name = {n1, n2}
    TenantId = {t1}
    TAlias = {x1}
    Absent = Absent
    Zero = Zero
    RefKinds = {"id"}
    Forcing = {"stamp"}
    SteadyClock = TRUE
    FineClock = TRUE
    MaxTime = 3
SYMMETRY Symmetry
INVARIANTS TypeOK VersionNamesImage StampsFresh
PROPERTIES NoLostUpdate ImplementsPromise
