------------------------ MODULE PublicationContract ------------------------
(***************************************************************************)
(* What the publication of one candidate artifact promises to whoever      *)
(* reads the ledger: the file appears only after its intent is on record,  *)
(* the verdict is final, and a verdict that says "nothing was published"   *)
(* stays true, through a loss of power too.                                *)
(***************************************************************************)

VARIABLES
  intended,   \* the intent is on record
  linked,     \* the controller's file has a name, on disk or after a restart
  verdict     \* the action receipt, "none" before there is one

vars == <<intended, linked, verdict>>

Verdicts == {"succeeded", "failed", "cancelled", "unknown"}

Denials == {"failed", "cancelled"}

Init == intended = FALSE /\ linked = FALSE /\ verdict = "none"

Intend ==
  /\ ~intended
  /\ intended' = TRUE
  /\ UNCHANGED <<linked, verdict>>

Appear ==
  /\ intended /\ verdict \notin Denials
  /\ linked' = TRUE
  /\ UNCHANGED <<intended, verdict>>

Vanish ==
  /\ linked' = FALSE
  /\ UNCHANGED <<intended, verdict>>

Report(v) ==
  /\ intended /\ verdict = "none"
  /\ v \in Denials => ~linked
  /\ verdict' = v
  /\ UNCHANGED <<intended, linked>>

Next == Intend \/ Appear \/ Vanish \/ \E v \in Verdicts : Report(v)

Spec == Init /\ [][Next]_vars

=============================================================================
