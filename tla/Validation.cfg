\* Two clients on two generations of an edited worktree.
SPECIFICATION Spec
CONSTANTS
    t1 = t1
    t2 = t2
    c1 = c1
    c2 = c2
    Trees = {t1, t2}
    Clients = {c1, c2}
    Items = {"i1"}
    Requirements = {"required"}
    Steps = {"s1"}
    Outcomes = {"completed", "failed"}
    MaxGens = 2
    MaxEdits = 1
    MaxProposals = 2
    MaxPlans = 4
SYMMETRY MCSymmetry
INVARIANT OneAuthority
PROPERTIES DoneIsBacked SweptNeverPublished
CHECK_DEADLOCK FALSE
