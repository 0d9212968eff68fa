\* A queue beside a second queue, one-task starts, a finding on delivered work
\* and a release manager that writes rows it read earlier.
SPECIFICATION Spec
CONSTANTS
    a = a
    b = b
    s1 = s1
    s2 = s2
    p1 = p1
    p2 = p2
    NoProc = none
    Roots = {a}
    Scope = {a}
    Deps <- MCChainDeps
    Stories = {s1, s2}
    StoryOf <- MCChainStoryOf
    StoryDeps <- MCNoStoryDeps
    DoneRoots = {}
    Hitl = {}
    MaxAttempts <- MCMaxThree
    MaxFixes = 1
    Reasons = {"crash"}
    FindingIds = {"f1"}
    Procs = {p1, p2}
    Workers = {"w"}
SYMMETRY MCProcSymmetry
INVARIANTS  OneWriter
