SPECIFICATION Spec
CONSTANTS
    Requests <- SchemaRequests
CHECK_DEADLOCK FALSE
INVARIANTS TypeOK ClosedSchema StructureIsNoNoise UniqueAsDeclared BackReferencesPair
INVARIANTS LookupFinds CompatLossSaid RoundTrip ContractReads
INVARIANTS StoresAgree GoReadsContract ServerReadsClient GoLinks ServerFits
