SPECIFICATION FairSpec
CONSTANTS
    NItems = 1
    MaxClaims = 2
    MaxActive = 1
    PromptCloseMax = 3
    Faults = {"host", "cleanup_failed", "provider_error"}
    MaxFaults = 2
PROPERTIES
    HoldIsNeverBypassed
CHECK_DEADLOCK FALSE
