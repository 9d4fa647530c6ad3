---------------------------- MODULE MCStageLease ----------------------------
(* StageLease on two executables, or the inspections and stagings of the   *)
(* chain with two files each, for TLC.                                     *)
EXTENDS StageLease, ExecutableInspections

NoCall == [looks |-> <<>>, on |-> {}, anchored |-> {}, bars |-> {}, apart |-> FALSE]

\* One of the two runs, and the other is at rest.
MCInit ==
  /\ Init
  /\ \/ ChainInit
     \/ call = NoCall /\ verdict = "none" /\ Begins

MCNext ==
  \/ verdict = "none" /\ Next /\ UNCHANGED chainVars
  \/ ChainNext /\ UNCHANGED vars

MCSpec == MCInit /\ [][MCNext]_<<vars, chainVars>>

=============================================================================
