SPECIFICATION Spec
CONSTANTS
    NItems = 2
    MaxClaims = 2
    MaxActive = 2
    PromptCloseMax = 3
    Faults = {"crash", "host", "cleanup_failed", "transient", "prompt_closed", "provider_error", "cancel"}
    MaxFaults = 2
INVARIANTS
    CompletedHasOutputs
    CancelledRunIsClosed
PROPERTIES
    HostFenceHolds
    HostOwnedTaskIsInert
    StaleTaskHarmless
CHECK_DEADLOCK FALSE
