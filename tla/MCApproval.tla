----------------------------- MODULE MCApproval -----------------------------
(* Instances of Approval. *)
EXTENDS Approval

CONSTANTS q1, q2, o1, o2, o3

\* q1 is a low-risk tool call, q2 a high-risk one.
MCRisk == [r \in Requests |-> IF r = q1 THEN 0 ELSE 2]

\* The seeded default policy, alone or beside a project's own.
MCSeeded == {[mode |-> "risk_based", level |-> 0, always |-> {}, trusted |-> {}]}
MCProject == MCSeeded \cup
    {[mode |-> "always_ask", level |-> 3, always |-> {}, trusted |-> {}],
     [mode |-> "session_trust", level |-> 0, always |-> {}, trusted |-> {}]}
=============================================================================
