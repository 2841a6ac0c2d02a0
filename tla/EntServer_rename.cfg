SPECIFICATION Spec
CONSTANTS
    Call = {c1}
    Id = {u1}
    Alias = {a1, a2}
    Name = {n1}
    TenantId = {t1}
    TAlias = {x1}
    Absent = Absent
    Zero = Zero
    RefKinds = {"slug"}
    Forcing = {}
    SteadyClock = TRUE
    FineClock = TRUE
    MaxTime = 2
SYMMETRY Symmetry
PROPERTIES AnswersPatchedRow
