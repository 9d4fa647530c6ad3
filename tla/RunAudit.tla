------------------------------- MODULE RunAudit -------------------------------
(***************************************************************************)
(* The read-only inspection of one task run (authorization_inspection.py,  *)
(* inspect_authorization_shadows): what it concludes from the rows of the  *)
(* run alone, without knowing how they came about.                         *)
(*                                                                         *)
(* A history is a sequence of rows.  Fields that only bind digests to each *)
(* other are left out; what remains is which rows there are, in what       *)
(* order, and the values that the rules compare.                           *)
(***************************************************************************)
EXTENDS RunLedger, FiniteSets

\* A row: its type, the status it carries, what its payload says, a count, and
\* whether the payload says that an artifact was observed.
Row(type, value) == [type |-> type, status |-> NoStatus, value |-> value, n |-> 0, observed |-> "unsaid"]

StatusRow(type, status, phase) == [Row(type, phase) EXCEPT !.status = status]

Ends == {"succeeded", "failed", "blocked", "quarantined", "cancelled"}

Has(h, type) == Rows(h, type) # {}

\* The row that a rule is about, when there is one.
The(h, type) == h[CHOOSE i \in Rows(h, type) : TRUE]

Says(h, type, value) == \E i \in Rows(h, type) : h[i].value = value

Before(h, type, later) == \A i \in Rows(h, type), j \in Rows(h, later) : i < j

Ended(h, status, phases) ==
  \E i \in Rows(h, "terminal") :
    /\ h[i].status \in status /\ h[i].value \in phases
    /\ CurrentStatus(h) = h[i].status

\* The binding says which policy points the run must pass.
Bound(h) == Has(h, "binding")

Enforcing(h) == Says(h, "binding", "enforcing")

Succeeded(h) == \E i \in DOMAIN h : h[i].status = "succeeded"

Shadows == {"admission_shadow", "dispatch_shadow", "publication_shadow"}

PublicationRows == {"intent", "receipt"}

\* Whatever a runner leaves behind.
Executed(h, artifact) ==
  Succeeded(h) \/ artifact \/ \E t \in {"accounting", "observed"} \cup PublicationRows : Has(h, t)

-----------------------------------------------------------------------------
\* The order of the rows.

\* In each pair the first must come before the second where both exist.

AdmissionOrder ==
  ({"binding", "selection"} \X {"admission_decision"})
  \cup ({"admission_decision"} \X {"admission_receipt", "admission_shadow", "billing", "running", "terminal"})
  \cup ({"admission_receipt"} \X {"admission_shadow", "billing", "running", "terminal"})
  \cup ({"admission_shadow"} \X {"billing", "running", "terminal"})

DispatchOrder ==
  ({"admission_shadow", "billing"} \X {"dispatch_decision"})
  \cup ({"dispatch_decision"} \X {"running", "dispatch_shadow", "terminal"})

SourceOrder ==
  ({"created"} \X {"selection", "binding"})
  \cup ({"selection"} \X {"binding", "admission_shadow", "billing", "running", "terminal"})
  \cup ({"binding"} \X {"admission_shadow", "billing", "running", "terminal"})

ExecutionOrder ==
  ({"billing"} \X {"running", "terminal"})
  \cup ({"running"} \X {"dispatch_shadow"})
  \cup ({"dispatch_shadow"} \X {"observed", "dispatch_receipt", "accounting", "terminal"})
  \cup ({"observed"} \X {"accounting", "terminal"})
  \cup {<<"accounting", "terminal">>}

ReceiptOrder ==
  ({"dispatch_decision", "running", "observed"} \X {"dispatch_receipt"})
  \cup ({"dispatch_receipt"} \X {"accounting", "terminal"})

PublicationOrder ==
  ({"accounting"} \X {"publication_shadow", "publication_decision", "intent"})
  \cup {<<"dispatch_receipt", "publication_decision">>}
  \cup ({"publication_shadow"} \X {"publication_decision", "intent", "terminal"})
  \cup ({"publication_decision"} \X {"intent", "terminal"})
  \cup ({"intent"} \X {"receipt", "terminal"})
  \cup {<<"receipt", "terminal">>}

\* In each pair the first may exist only with the second.
Requirements(h) ==
  {<<"admission_decision", "binding">>, <<"admission_receipt", "admission_decision">>,
   <<"dispatch_decision", "admission_shadow">>, <<"running", "billing">>,
   <<"dispatch_shadow", "running">>, <<"dispatch_receipt", "dispatch_decision">>,
   <<"dispatch_receipt", "running">>, <<"observed", "running">>, <<"observed", "dispatch_shadow">>,
   <<"accounting", "dispatch_shadow">>, <<"publication_shadow", "accounting">>,
   <<"publication_decision", "accounting">>, <<"publication_decision", "dispatch_receipt">>,
   <<"intent", "accounting">>, <<"receipt", "intent">>}
  \cup {<<"intent", IF Enforcing(h) THEN "publication_decision" ELSE "publication_shadow">>}

OrderInvalid(h) ==
  \/ \E pair \in AdmissionOrder \cup DispatchOrder \cup SourceOrder \cup ExecutionOrder \cup ReceiptOrder
                    \cup PublicationOrder : ~Before(h, pair[1], pair[2])
  \/ \E pair \in Requirements(h) : Has(h, pair[1]) /\ ~Has(h, pair[2])

\* bound_run_history_incomplete: costs may have arisen and nothing ends the run.
Incomplete(h) ==
  Bound(h) /\ \E t \in {"billing", "accounting"} : Has(h, t) /\ ~(Has(h, "terminal") /\ Before(h, t, "terminal"))

\* _inspect_runner_events, and the count that the accounting repeats.
ObservationsInvalid(h) ==
  \/ \E i \in Rows(h, "observed") : h[i].n # Cardinality({j \in Rows(h, "observed") : j <= i})
  \/ Bound(h) /\ \E i \in Rows(h, "accounting") : h[i].n # Cardinality(Rows(h, "observed"))

-----------------------------------------------------------------------------
\* The policy point of admission.

\* _is_task_admission_pre_effect_stop: the run ended before it was admitted, in
\* one of the ways the controller ends it.
AdmissionStop(h, artifact) ==
  LET decided == Has(h, "admission_decision")
      persistence == Ended(h, {"failed", "cancelled"}, {"task_admission_authorization_persistence"})
      permitted == Says(h, "admission_decision", "permit")
  IN  /\ Before(h, "admission_decision", "terminal")
      /\ ~Executed(h, artifact)
      /\ \A t \in Shadows \cup {"admission_receipt", "billing", "running"} : ~Has(h, t)
      /\ \/ persistence
         \/ decided /\ ~permitted /\ Ended(h, {"blocked"}, {"task_admission_authorization"})
         \/ Says(h, "admission_decision", "failed") /\ Ended(h, {"cancelled"}, {"task_admission_authorization_evaluation"})
         \/ permitted /\ Ended(h, {"blocked"}, {"task_admission_authorization_freshness"})
         \/ permitted /\ Ended(h, {"failed", "cancelled"}, {"task_admission_action_receipt_persistence"})

AdmissionInvalid(h, artifact) ==
  LET stop == AdmissionStop(h, artifact)
      denied == Has(h, "admission_decision") /\ ~Says(h, "admission_decision", "permit")
      receipts == Cardinality(Rows(h, "admission_receipt"))
  IN  IF ~Enforcing(h) THEN Has(h, "admission_decision") \/ Has(h, "admission_receipt")
      ELSE \/ ~Has(h, "admission_decision") /\ ~stop
           \/ \E t \in {"admission_decision", "admission_receipt"} : Cardinality(Rows(h, t)) > 1
           \/ receipts # 1 /\ denied /\ (Executed(h, artifact) \/ \E t \in Shadows \cup {"billing", "running"} : Has(h, t))
           \/ receipts = 0 /\ Says(h, "admission_decision", "permit") /\ ~stop
           \/ receipts = 1 /\ denied

-----------------------------------------------------------------------------
\* The policy point of dispatch.

\* _is_mock_dispatch_decision_absence_stop
DispatchUndecidedStop(h, artifact) ==
  /\ ~Has(h, "dispatch_receipt") /\ ~Has(h, "running") /\ ~Executed(h, artifact)
  /\ \A t \in Shadows \ {"admission_shadow"} : ~Has(h, t)
  /\ Has(h, "selection")
  /\ \/ Ended(h, {"failed", "cancelled"}, {"billing_assessment_persistence"}) /\ ~Has(h, "billing")
     \/ /\ Ended(h, {"failed", "cancelled"}, {"mock_dispatch_authorization_persistence"})
        /\ Has(h, "billing")

DispatchDecisionInvalid(h, artifact) ==
  IF ~Enforcing(h) \/ AdmissionStop(h, artifact) THEN Has(h, "dispatch_decision")
  ELSE CASE Cardinality(Rows(h, "dispatch_decision")) = 0 -> ~DispatchUndecidedStop(h, artifact)
         [] Cardinality(Rows(h, "dispatch_decision")) = 1 -> FALSE
         [] OTHER -> TRUE

\* _is_mock_dispatch_pre_effect_stop: permitted, and ended before the runner was invoked.
PermittedStop(h, artifact) ==
  /\ Says(h, "dispatch_decision", "permit")
  /\ Before(h, "dispatch_decision", "terminal")
  /\ Has(h, "billing") /\ Before(h, "billing", "dispatch_decision")
  /\ ~Executed(h, artifact)
  /\ \/ /\ Ended(h, {"blocked", "cancelled", "failed"}, {"mock_dispatch_authorization_freshness"})
        /\ Before(h, "dispatch_decision", "running") /\ Before(h, "running", "terminal")
     \/ /\ Ended(h, {"failed", "cancelled"},
                 {"mock_dispatch_authorization_persistence", "runner_execution_transition"})
        /\ ~Has(h, "running")

\* _is_mock_dispatch_nonpermit_stop
RefusedStop(h, artifact) ==
  /\ Has(h, "dispatch_decision") /\ ~Says(h, "dispatch_decision", "permit")
  /\ Before(h, "dispatch_decision", "terminal")
  /\ Has(h, "billing") /\ Before(h, "billing", "dispatch_decision")
  /\ ~Executed(h, artifact) /\ ~Has(h, "running")
  /\ \/ Ended(h, {"failed", "cancelled"}, {"mock_dispatch_authorization_persistence"})
     \/ Ended(h, {"blocked"}, {"mock_dispatch_authorization"})
     \/ Says(h, "dispatch_decision", "failed") /\ Ended(h, {"cancelled"}, {"mock_dispatch_authorization_evaluation"})

\* _mock_dispatch_outcome_for_status
OutcomeOf(status) ==
  CASE status \in {"succeeded", "cancelled"} -> status
    [] status \in {"failed", "blocked", "quarantined"} -> "failed"
    [] OTHER -> "none"

\* _inspect_mock_dispatch_receipt: a receipt is owed from the moment the runner
\* may have been invoked and never after a stop before that, and agrees with the
\* accounting.
DispatchReceiptInvalid(h, artifact) ==
  LET began == ~PermittedStop(h, artifact) /\ (Has(h, "running") \/ Says(h, "dispatch_decision", "permit"))
      refused == Has(h, "dispatch_decision") /\ ~Says(h, "dispatch_decision", "permit")
  IN  IF ~Enforcing(h) THEN Has(h, "dispatch_receipt")
      ELSE CASE Cardinality(Rows(h, "dispatch_receipt")) = 0 ->
                  began \/ (refused /\ ~RefusedStop(h, artifact))
             [] Cardinality(Rows(h, "dispatch_receipt")) = 1 ->
                  \/ PermittedStop(h, artifact) \/ ~Says(h, "dispatch_decision", "permit")
                  \/ IF Has(h, "accounting")
                     THEN The(h, "dispatch_receipt").value # OutcomeOf(The(h, "accounting").value)
                     ELSE Says(h, "dispatch_receipt", "succeeded")
             [] OTHER -> TRUE

-----------------------------------------------------------------------------
\* The policy point of publication.

\* _is_local_candidate_publication_freshness_stop
PublicationStop(h) ==
  /\ Says(h, "publication_decision", "permit")
  /\ Before(h, "publication_decision", "terminal")
  /\ Ended(h, {"blocked"}, {"local_candidate_publication_authorization_freshness"})

\* _inspect_local_candidate_publication_decision
PublicationDecisionInvalid(h, artifact) ==
  IF ~Enforcing(h) THEN Has(h, "publication_decision")
  ELSE \/ Cardinality(Rows(h, "publication_decision")) > 1
       \/ /\ ~Has(h, "publication_decision")
          /\ artifact \/ Succeeded(h) \/ \E t \in {"publication_shadow"} \cup PublicationRows : Has(h, t)

\* _inspect_task_artifact_receipts
PublicationReceiptsInvalid(h, artifact) ==
  LET expected == IF Enforcing(h) THEN Says(h, "publication_decision", "permit")
                  ELSE Succeeded(h) \/ \E t \in {"publication_shadow"} \cup PublicationRows : Has(h, t)
  IN  IF ~Bound(h) THEN \E t \in PublicationRows : Has(h, t)
      ELSE \/ Enforcing(h) /\ ~expected /\ (artifact \/ \E t \in PublicationRows : Has(h, t))
           \/ \E t \in PublicationRows : Cardinality(Rows(h, t)) > 1
           \/ expected /\ ~Has(h, "intent")
           \/ expected /\ ~Has(h, "receipt") /\ ~PublicationStop(h)
           \/ artifact /\ ~Has(h, "receipt")
           \/ Says(h, "receipt", "succeeded") /\ ~artifact
           \/ (\E t \in PublicationRows : Has(h, t)) /\ ~Says(h, "accounting", "succeeded")

\* The pre-effect record says whether the shadow was persisted.
ShadowClaimFalse(h) ==
  Has(h, "intent") /\ Says(h, "intent", "shadowed") # (Cardinality(Rows(h, "publication_shadow")) = 1)

\* _inspect_task_action_terminal_linkage and _inspect_task_terminal_evidence
OutcomeMismatch(h, artifact) ==
  \E i \in Rows(h, "receipt") :
    LET outcome == h[i].value
        observed == The(h, "terminal").observed
    IN  \/ ~Has(h, "terminal")
        \/ outcome = "succeeded" /\ ~(artifact /\ observed = "true" /\ Ended(h, {"succeeded"}, {"result"}))
        \/ outcome \in {"failed", "cancelled"} /\ ~(observed = "false" /\ CurrentStatus(h) \in {outcome, "quarantined"})
        \/ outcome = "unknown" /\ ~(observed # "unsaid" /\ CurrentStatus(h) = "quarantined")

\* _inspect_task_accounting is required for whatever was published.
AccountingMissing(h) ==
  /\ Bound(h) /\ ~Has(h, "accounting")
  /\ Succeeded(h) \/ \E t \in {"publication_shadow"} \cup PublicationRows : Has(h, t)

\* _inspect_task_execution_selection: a selection and a binding that commits to
\* one come together.
SelectionInvalid(h) == Has(h, "selection") # (\E i \in Rows(h, "binding") : h[i].value \in {"enforcing", "selected"})

\* At most one row of a type that has one per run.
Duplicated(h) ==
  \E t \in Shadows \cup {"selection", "binding", "billing", "accounting"} : Cardinality(Rows(h, t)) > 1

-----------------------------------------------------------------------------
\* (defect) Nobody looks for runs that were given up.
BrokenIssues(h, artifact) ==
  {name \in {"order", "observations", "admission", "dispatch_decision", "dispatch_receipt",
             "publication_decision", "publication_receipts", "shadow_claim", "outcome", "accounting", "selection", "duplicate"} :
     CASE name = "order" -> OrderInvalid(h)
       [] name = "observations" -> ObservationsInvalid(h)
       [] name = "admission" -> AdmissionInvalid(h, artifact)
       [] name = "dispatch_decision" -> DispatchDecisionInvalid(h, artifact)
       [] name = "dispatch_receipt" -> DispatchReceiptInvalid(h, artifact)
       [] name = "publication_decision" -> PublicationDecisionInvalid(h, artifact)
       [] name = "publication_receipts" -> PublicationReceiptsInvalid(h, artifact)
       [] name = "shadow_claim" -> ShadowClaimFalse(h)
       [] name = "outcome" -> OutcomeMismatch(h, artifact)
       [] name = "accounting" -> AccountingMissing(h)
       [] name = "selection" -> SelectionInvalid(h)
       [] name = "duplicate" -> Duplicated(h)}

\* The integrity issues of the run.
Issues(h, artifact) ==
  {name \in {"order", "incomplete", "observations", "admission", "dispatch_decision", "dispatch_receipt",
             "publication_decision", "publication_receipts", "shadow_claim", "outcome", "accounting", "selection", "duplicate"} :
     CASE name = "order" -> OrderInvalid(h)
       [] name = "incomplete" -> Incomplete(h)
       [] name = "observations" -> ObservationsInvalid(h)
       [] name = "admission" -> AdmissionInvalid(h, artifact)
       [] name = "dispatch_decision" -> DispatchDecisionInvalid(h, artifact)
       [] name = "dispatch_receipt" -> DispatchReceiptInvalid(h, artifact)
       [] name = "publication_decision" -> PublicationDecisionInvalid(h, artifact)
       [] name = "publication_receipts" -> PublicationReceiptsInvalid(h, artifact)
       [] name = "shadow_claim" -> ShadowClaimFalse(h)
       [] name = "outcome" -> OutcomeMismatch(h, artifact)
       [] name = "accounting" -> AccountingMissing(h)
       [] name = "selection" -> SelectionInvalid(h)
       [] name = "duplicate" -> Duplicated(h)}

\* The decision points whose shadow evaluation is missing.
CoverageGaps(h, artifact) ==
  {shadow \in Shadows : ~Has(h, shadow) /\
     CASE shadow = "admission_shadow" -> ~(Enforcing(h) /\ AdmissionStop(h, artifact))
       [] shadow = "dispatch_shadow" -> Has(h, "running")
       [] shadow = "publication_shadow" ->
            ~Enforcing(h) /\ (Succeeded(h) \/ (artifact /\ ~Bound(h)) \/ (Bound(h) /\ \E t \in PublicationRows : Has(h, t)))}

Clean(h, artifact) == Issues(h, artifact) = {} /\ CoverageGaps(h, artifact) = {}

=============================================================================
