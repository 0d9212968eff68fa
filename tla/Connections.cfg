SPECIFICATION Spec
CONSTANTS
    Flows = {f1}
    NoFlow = NoFlow
    Callers = {c1, c2}
    Probes = {p1}
    MaxFaults = 1
    MaxCrashes = 1
INVARIANTS HealthyIsBacked 
PROPERTY FlowEnds
CHECK_DEADLOCK FALSE
