---------------------------- MODULE MCBlueprint ----------------------------
(***************************************************************************)
(* The built-in blueprints, and those of the repository's tests and their   *)
(* like that a project may keep in .openexec/blueprints.                    *)
(***************************************************************************)
EXTENDS Blueprint

MCNames == DOMAIN DefaultBlueprint.stages
           \cup {"verify", "probe", "fix", "sign", "complete", ""}

BuiltIn == {DefaultBlueprint, QuickFixBlueprint}

Standard == {DefaultBlueprint}

Commands == [Plain EXCEPT !.runs = "commands"]

(* internal/pipeline/stale_receipt_test.go: a failed check is routed to a   *)
(* probe that is no check.                                                  *)
Stale == [id |-> "stale", initial |-> "test",
          stages |-> [test |-> [Commands EXCEPT !.maxRetries = 1,
                                                !.onFailure = "probe"],
                      probe |-> Commands]]

(* internal/blueprint/retention_unit_test.go: a stage that retries itself.  *)
Limits == [id |-> "limits", initial |-> "verify",
           stages |-> [verify |-> [Plain EXCEPT !.onFailure = "verify",
                                                !.maxRetries = 2]]]

(* Lint and fix go round, the agent runs under gates, and lint is followed  *)
(* by an action that nobody registered.                                     *)
Rounds == [id |-> "rounds", initial |-> "fix",
           stages |-> [fix |-> [Agent EXCEPT !.onSuccess = "lint",
                                   !.onFailure = "fix", !.maxRetries = 2,
                                   !.gates = TRUE],
                       lint |-> [Empty EXCEPT !.onSuccess = "sign",
                                   !.onFailure = "fix", !.maxRetries = 2],
                       sign |-> [Plain EXCEPT !.runs = "unregistered",
                                   !.onFailure = "sign"]]]

(* A failure handler that does not exist.                                   *)
Dangling == [id |-> "dangling", initial |-> "lint",
             stages |-> [lint |-> [Empty EXCEPT !.maxRetries = 1,
                                      !.onFailure = "fix"]]]

Custom == {Stale, Limits, Rounds, Dangling}

MCBlueprints == BuiltIn \cup Custom
============================================================================
