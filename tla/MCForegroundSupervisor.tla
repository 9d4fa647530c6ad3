----------------------- MODULE MCForegroundSupervisor -----------------------
(***************************************************************************)
(* Instances of ForegroundSupervisor for TLC: one flow, several processes. *)
(***************************************************************************)
EXTENDS ForegroundSupervisor, TLC

\* No resources and no deadline: the flow's own lease is what a claim holds.
PlainSpec ==
  [f \in Flows |->
     [resources |-> {}, available |-> 0, deadline |-> NoDeadline, timeout |-> 1,
      max_attempts |-> 1, rank |-> 0]]

InstanceSymmetry == Permutations(Instances)
=============================================================================
