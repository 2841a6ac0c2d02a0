SPECIFICATION CachedSpec
CONSTANTS
    Call = {c1, c2}
    Id = {u1}
    Alias = {a1}
    Name = {n1, n2}
    TenantId = {t1}
    TAlias = {x1}
    Absent = Absent
    RefKinds = {"id"}
    Forcing = {}
    SteadyClock = TRUE
    FineClock = TRUE
    MaxTime = 3
    Worker = {w1}
    UniqueSlug = FALSE
    Erasing = FALSE
    Selectable = {}
    Empty = Empty
SYMMETRY Symmetry
INVARIANTS CacheNotAhead SameVersionSameRow
