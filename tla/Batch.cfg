\* Two workers; a human task that others wait for through stories and tasks.
SPECIFICATION FairBatchSpec
CONSTANTS
    a = a
    b = b
    c = c
    d = d
    e = e
    s1 = s1
    s2 = s2
    s3 = s3
    s4 = s4
    Tasks = {a, b, c, d, e}
    Deps <- MCBacklog
    Stories = {s1, s2, s3, s4}
    StoryOf <- MCBacklogStories
    StoryDeps <- MCBacklogDeps
    Hitl = {e}
    Ledgers = {"pending", "done", "error"}
    Workers = {"w1", "w2"}
INVARIANTS DependenciesFirst HumansFirst
PROPERTY BatchReturns
CHECK_DEADLOCK FALSE
