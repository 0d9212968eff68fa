SPECIFICATION Spec
CONSTANTS
    Managers = {m1, m2}
    s1 = s1 s2 = s2 t1 = t1 t2 = t2
    Stories <- MCStories
    Tasks <- MCTasks
    Release = release
    NoStory = none
    Home <- MCHome
    JsonTasks <- MCJson
    PlanTasks <- MCPlan
    NeedsReview <- MCPlan
    ApprovalEnabled = TRUE
    AutoMerge = TRUE
    MaxOps = 4
    MaxFaults = 1
SYMMETRY Perms
INVARIANTS  Coherent
CHECK_DEADLOCK FALSE
