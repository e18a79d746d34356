SPECIFICATION FairSpec
CONSTANTS
    NItems = 2
    MaxClaims = 3
    MaxActive = 3
    PromptCloseMax = 2
    Faults = {"transient", "prompt_closed", "provider_error", "worker_error", "p080"}
    MaxFaults = 1
PROPERTIES
    EveryItemSettles
