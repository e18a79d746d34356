SPECIFICATION Spec
CONSTANTS
    NItems = 2
    MaxClaims = 3
    MaxActive = 2
    PromptCloseMax = 3
    Faults = {"provider_capacity", "host", "cleanup_failed", "transient", "crash"}
    MaxFaults = 2
INVARIANTS
    WithinCapacity
    RetryLineage
PROPERTIES
    ExecutionNotRevived
CHECK_DEADLOCK FALSE
