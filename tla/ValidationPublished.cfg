\* One plan and one client that publishes while the worktree is edited.
SPECIFICATION PublishingSpec
CONSTANTS
    t1 = t1
    t2 = t2
    c1 = c1
    c2 = c2
    Trees = {t1, t2}
    Clients = {c1}
    Items = {"i1"}
    Requirements = {"required"}
    Steps = {"s1"}
    Outcomes = {"completed"}
    MaxGens = 2
    MaxEdits = 1
    MaxProposals = 1
    MaxPlans = 2
INVARIANT NeverPairedWithNewer
CHECK_DEADLOCK FALSE
