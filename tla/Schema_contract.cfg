SPECIFICATION Spec
CONSTANTS
    Requests <- LateKeyRequests
CHECK_DEADLOCK FALSE
INVARIANTS ContractReads
