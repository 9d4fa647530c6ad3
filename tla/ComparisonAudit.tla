---------------------------- MODULE ComparisonAudit ----------------------------
(***************************************************************************)
(* The inspection of one trial of a controlled comparison: the rules of    *)
(* authorization_inspection.py for a run whose binding is a comparison's.  *)
(* They are fewer than those for a task run: an accounting does not repeat *)
(* the number of observations, and billing and RUNNING may change places.  *)
(***************************************************************************)
EXTENDS RunAudit

\* In each pair the first must come before the second where both exist.

\* (defect) The artifact may be published before the trial is accounted for.
BrokenTrialOrder ==
  ({"binding"} \X {"admission_shadow", "billing", "running", "terminal"})
  \cup ({"admission_shadow"} \X {"billing", "running", "terminal"})
  \cup {<<"created", "binding">>, <<"running", "dispatch_shadow">>}
  \cup ({"dispatch_shadow"} \X {"observed", "accounting", "terminal"})
  \cup ({"observed"} \X {"accounting", "terminal"})

TrialOrder ==
  ({"binding"} \X {"admission_shadow", "billing", "running", "terminal"})
  \cup ({"admission_shadow"} \X {"billing", "running", "terminal"})
  \cup {<<"created", "binding">>, <<"running", "dispatch_shadow">>}
  \cup ({"dispatch_shadow"} \X {"observed", "accounting", "terminal"})
  \cup ({"observed"} \X {"accounting", "terminal"})
  \cup ({"accounting"} \X {"publication_shadow", "intent"})

TrialPublicationOrder ==
  ({"publication_shadow"} \X {"intent", "terminal"})
  \cup ({"intent"} \X {"receipt", "terminal"})
  \cup {<<"receipt", "terminal">>}

\* In each pair the first may exist only with the second.
TrialRequirements ==
  {<<"dispatch_shadow", "running">>, <<"observed", "running">>, <<"observed", "dispatch_shadow">>,
   <<"publication_shadow", "accounting">>, <<"intent", "accounting">>, <<"intent", "publication_shadow">>,
   <<"receipt", "intent">>}

TrialOrderInvalid(h) ==
  \/ \E pair \in TrialOrder \cup TrialPublicationOrder : ~Before(h, pair[1], pair[2])
  \/ \E pair \in TrialRequirements : Has(h, pair[1]) /\ ~Has(h, pair[2])

\* _inspect_comparison_binding and _inspect_comparison_billing
TrialBindingInvalid(h) ==
  Cardinality(Rows(h, "binding")) > 1 \/ (Bound(h) /\ Cardinality(Rows(h, "billing")) # 1)

\* _inspect_comparison_accounting: one, with the disposition or without.
TrialAccountingInvalid(h) == Bound(h) /\ Cardinality(Rows(h, "accounting")) # 1

\* _inspect_comparison_artifact_receipts, and the same again for the shadow.
TrialReceiptsInvalid(h) ==
  LET shadows == Cardinality(UNION {Rows(h, t) : t \in Shadows})
      expected == Succeeded(h) \/ shadows > 2 \/ \E t \in {"publication_shadow"} \cup PublicationRows : Has(h, t)
  IN  IF ~Bound(h) THEN \E t \in PublicationRows : Has(h, t)
      ELSE \E t \in PublicationRows :
             \/ Cardinality(Rows(h, t)) > 1
             \/ expected /\ ~Has(h, t)
             \/ Has(h, t) /\ ~Says(h, "accounting", "settled")

\* _inspect_comparison_action_terminal_linkage
TrialOutcomeMismatch(h) ==
  \E i \in Rows(h, "receipt") :
    \/ CurrentStatus(h) \notin Ends
    \/ CASE h[i].value = "succeeded" -> The(h, "terminal").observed # "true"
         [] h[i].value = "failed" -> CurrentStatus(h) \notin {"blocked", "failed", "quarantined"}
         [] h[i].value = "cancelled" -> CurrentStatus(h) \notin {"cancelled", "quarantined"}
         [] h[i].value = "unknown" -> CurrentStatus(h) # "quarantined"

TrialDuplicated(h) == \E t \in Shadows : Cardinality(Rows(h, t)) > 1

\* The integrity issues of a trial.
TrialIssues(h) ==
  {name \in {"order", "incomplete", "observations", "binding", "accounting", "receipts", "shadow_claim", "outcome",
             "duplicate"} :
     CASE name = "order" -> TrialOrderInvalid(h)
       [] name = "incomplete" -> Incomplete(h)
       [] name = "observations" ->
            \E i \in Rows(h, "observed") : h[i].n # Cardinality({j \in Rows(h, "observed") : j <= i})
       [] name = "binding" -> TrialBindingInvalid(h)
       [] name = "accounting" -> TrialAccountingInvalid(h)
       [] name = "receipts" -> TrialReceiptsInvalid(h)
       [] name = "shadow_claim" -> ShadowClaimFalse(h)
       [] name = "outcome" -> TrialOutcomeMismatch(h)
       [] name = "duplicate" -> TrialDuplicated(h)}

\* The decision points whose shadow evaluation is missing.
TrialGaps(h) ==
  {shadow \in Shadows : ~Has(h, shadow) /\
     CASE shadow = "admission_shadow" -> TRUE
       [] shadow = "dispatch_shadow" -> Has(h, "running")
       [] shadow = "publication_shadow" -> Succeeded(h) \/ \E t \in PublicationRows : Has(h, t)}

TrialClean(h) == TrialIssues(h) = {} /\ TrialGaps(h) = {}

=============================================================================
