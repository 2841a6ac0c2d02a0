SPECIFICATION Spec
CONSTANTS
    Requests <- UuidIndexRequests
CHECK_DEADLOCK FALSE
INVARIANTS LookupFinds
