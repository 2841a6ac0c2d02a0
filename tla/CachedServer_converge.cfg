SPECIFICATION FairSpec
CONSTANTS
    Call = {c1, c2}
    Id = {u1}
    Alias = {a1}
    Name = {n1}
    TenantId = {t1}
    TAlias = {x1}
    Absent = Absent
    RefKinds = {"id"}
    Forcing = {}
    SteadyClock = TRUE
    FineClock = TRUE
    MaxTime = 2
    Worker = {w1}
    UniqueSlug = FALSE
    Erasing = TRUE
    Selectable = {"name"}
    Empty = Empty
PROPERTIES CacheConverges
