SPECIFICATION Spec
CONSTANTS
    Grants = {0, 9}
    MinOutput = 2
    Margin = 1
    Ceiling = 8
    Soft = 3
    Hard = 5
    PromptSize = 2
    Growth = {3}
    HandoverSizes = {2, 8}
    Note = 1
    MaxSteps = 2
    MaxLocal = 1
    MaxChains = 2
    MaxPasses = 2
    MaxFaults = 1
INVARIANTS GrantConserved SentWithinHard ResumesCheckpointsOnly OutcomeReported
PROPERTY PassEnds
CHECK_DEADLOCK FALSE
