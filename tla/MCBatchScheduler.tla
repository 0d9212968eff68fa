-------------------------- MODULE MCBatchScheduler --------------------------
(* Instances of BatchScheduler. *)
EXTENDS BatchScheduler, TLC

CONSTANTS a, b, c, d, e, s1, s2, s3, s4

\* e is a human task, c waits for its story and for that of a and b, d for b
\* and c.
MCBacklog == a :> {} @@ b :> {} @@ c :> {} @@ d :> {b, c} @@ e :> {}
MCBacklogStories == a :> s2 @@ b :> s2 @@ c :> s3 @@ d :> s4 @@ e :> s1
MCBacklogDeps == s1 :> {} @@ s2 :> {} @@ s3 :> {s1, s2} @@ s4 :> {}

\* A chain in one story; two tasks in one story; two in stories that wait.
MCChain == a :> {} @@ b :> {a} @@ c :> {b}
MCPair == a :> {} @@ b :> {}
MCOneStory == [t \in Tasks |-> s1]
MCPairStories == a :> s1 @@ b :> s2
MCNoStoryDeps == [s \in Stories |-> {}]
MCStoryDeps == s1 :> {} @@ s2 :> {s1}
=============================================================================
