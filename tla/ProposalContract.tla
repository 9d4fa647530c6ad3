-------------------------- MODULE ProposalContract --------------------------
(***************************************************************************)
(* What binding a repository proposal to a run promises its callers: a     *)
(* register that is written at most once.  A run first selects the         *)
(* lineage of one wish (a proposal and a registration), then is bound to   *)
(* it, unless it is closed to binding by a status or a foreign event; and  *)
(* evidence is handed only to callers who wished for what is bound.        *)
(***************************************************************************)
CONSTANTS Binders, Wishes

VARIABLES lineage,  \* what the run is bound to so far
          told      \* the callers who hold evidence, and for which wish

contract == <<lineage, told>>

Open == [step |-> "open"]
Selected(wish) == [step |-> "selected", wish |-> wish]
Bound(wish) == [step |-> "bound", wish |-> wish]

Init == lineage = Open /\ told = [binder \in Binders |-> {}]

Select == lineage = Open /\ (\E wish \in Wishes : lineage' = Selected(wish)) /\ UNCHANGED told

Bind ==
  /\ lineage.step = "selected"
  /\ lineage' = Bound(lineage.wish)
  /\ UNCHANGED told

Tell(binder) ==
  /\ lineage.step = "bound"
  /\ told' = [told EXCEPT ![binder] = @ \cup {lineage.wish}]
  /\ UNCHANGED lineage

Next == Select \/ Bind \/ \E binder \in Binders : Tell(binder)

Spec == Init /\ [][Next]_contract

\* Callers never hold evidence for different wishes.
Agreement ==
  \A one, other \in Binders : \A wish \in told[one], rival \in told[other] : wish = rival

=============================================================================
