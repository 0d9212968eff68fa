---------------------------- MODULE MCTaskQueue ----------------------------
(* Instances of TaskQueue for TLC. *)
EXTENDS TaskRefinement, TLC

CONSTANTS a, b, s1, s2, p1, p2

\* One task, its fixes and their fixes.
MCChainDeps == a :> {}
MCChainStoryOf == a :> s1
MCNoStoryDeps == s1 :> {} @@ s2 :> {}
MCMaxSingle == a :> 1
MCMaxTwo == a :> 2
MCMaxThree == a :> 3

\* b waits for a, and its story for that of a.
MCPairDeps == a :> {} @@ b :> {a}
MCPairStoryOf == a :> s1 @@ b :> s2
MCStoryDeps == s1 :> {} @@ s2 :> {s1}
MCPairMax == a :> 1 @@ b :> 2

\* Two processes are interchangeable where no liveness is checked.
MCProcSymmetry == Permutations({p1, p2})
============================================================================
