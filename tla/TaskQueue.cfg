\* A task that waits for another and its story, their fixes and fixes of fixes.
SPECIFICATION FairSpec
CONSTANTS
    a = a
    b = b
    s1 = s1
    s2 = s2
    p1 = "p1"
    p2 = "p2"
    NoProc = "none"
    Roots = {a, b}
    Scope = {a, b}
    Deps <- MCPairDeps
    Stories = {s1, s2}
    StoryOf <- MCPairStoryOf
    StoryDeps <- MCStoryDeps
    DoneRoots = {}
    Hitl = {}
    MaxAttempts <- MCPairMax
    MaxFixes = 2
    Reasons = {}
    FindingIds = {}
    Procs = {"p1"}
    Workers = {}
INVARIANTS FixBudget EvidenceIsNewest DependenciesDelivered
PROPERTIES ImplementsTaskSpec QueueReturns CompleteMeansDelivered
