SPECIFICATION Spec
CONSTANTS
    Requests <- OnlyLookupRequests
CHECK_DEADLOCK FALSE
INVARIANTS KeysHeld
