-------------------------- MODULE MCScheduleClaims --------------------------
(***************************************************************************)
(* Instances of ScheduleClaims for TLC.                                    *)
(***************************************************************************)
EXTENDS ScheduleClaims, TLC

CONSTANTS lint, types, repo, runner

\* Two schedules that share one of their resources.
SharedNeeds == [s \in Schedules |-> {repo}]

\* lint misfires inside its interval and may outlive it; types starts later.
Anchors == [s \in Schedules |-> IF s = lint THEN 0 ELSE 2]
Intervals == [s \in Schedules |-> IF s = lint THEN 3 ELSE 2]
Graces == [s \in Schedules |-> IF s = lint THEN 1 ELSE 2]
Timeouts == [s \in Schedules |-> IF s = lint THEN 4 ELSE 1]

\* One schedule that overlaps itself.
NoNeeds == [s \in Schedules |-> {}]

Symmetric == Permutations(Procs)
=============================================================================
