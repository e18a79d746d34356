SPECIFICATION Spec
CONSTANTS
    NItems = 2
    MaxClaims = 2
    MaxActive = 2
    PromptCloseMax = 2
    Faults = {"prompt_closed", "provider_error", "worker_error", "transient", "p080"}
    MaxFaults = 2
INVARIANTS
    TypeOK
    AttemptIsCurrent
PROPERTIES
    ActivationIsCurrent
    TerminalIsFinal
CHECK_DEADLOCK FALSE
