\* One agent waits for approval; three processes may act at the same time.
CONSTANTS
    q1 = q1
    q2 = q2
    o1 = o1
    o2 = o2
    o3 = o3
    Requests = {q1}
    Actors = {o1, o2, o3}
    Risk <- MCRisk
    Policies <- MCProject
    Ops = {"approve", "reject", "cancel", "expire", "check"}
SPECIFICATION FairSpec
INVARIANTS OneWinner RunsOnlyApproved DeniedNeverRuns
PROPERTIES OnlyExpiryOverwrites WaitEnds
CHECK_DEADLOCK FALSE
