------------------------ MODULE MCProposalInspection ------------------------
(***************************************************************************)
(* An instance of ProposalInspection for TLC.                              *)
(***************************************************************************)
EXTENDS ProposalInspection, TLC

CONSTANTS b1, b2, w1, w2

MCBinders == {b1, b2}
MCWishes == {w1, w2}

Symmetric == Permutations(MCBinders) \cup Permutations(MCWishes)

\* Bound: either rivals fail and call again and other writers step in, or the
\* inspector looks on at one binder and the log is checkpointed; what a failed
\* binder leaves in the ledger is what a slow one leaves there, too.
RivalsUnwatched ==
  \/ inspected = 0 /\ main = 0
  \/ /\ faults = 0 /\ \A b \in Binders : retries[b] = 0
     /\ Cardinality({b \in Binders : pc[b] # "idle"}) <= 1

=============================================================================
