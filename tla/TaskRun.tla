-------------------------------- MODULE TaskRun --------------------------------
(***************************************************************************)
(* One task run from its creation to its terminal event (orchestrator.py,  *)
(* run_chief_of_staff and _finalize_result), as the sequence of rows that  *)
(* it puts on record before, around and after the one call of the runner.  *)
(*                                                                         *)
(* A step is one row with its readback, or one effect.  Every step may     *)
(* fail or be interrupted, and a row may be on record although its append  *)
(* or its readback raised.  The process may die between two steps.  The    *)
(* publication of the artifact is the module CandidatePublication; here it *)
(* is one step with the outcomes that module arrives at.                   *)
(***************************************************************************)
EXTENDS RunAudit

CONSTANTS
  MaxFaults,        \* bound: store calls that fail or are interrupted
  MaxObservations   \* bound: events a runner emits

ASSUME TaskRunAssumption == MaxFaults \in Nat /\ MaxObservations \in Nat

VARIABLES
  mode,     \* how the run was asked for
  ledger,   \* its rows
  artifact, \* the metadata of an artifact is on record
  ctl,      \* the controller
  faults

vars == <<mode, ledger, artifact, ctl, faults>>

\* A run of the controller's own mock under an explicit profile must pass the
\* policy points; a live run under a profile is selected; others are plain.
Modes == {"enforcing", "selected", "live", "mock"}

Selected == mode \in {"enforcing", "selected"}

Subscription == mode \in {"selected", "live"}

BindingValue == IF Selected THEN mode ELSE "plain"

Kinds == {"error", "interrupt"}

\* What a runner may return: the status of a well-formed result, or what is
\* wrong with it.
Results ==
  {"succeeded", "failed", "cancelled", "blocked", "quarantined", "running"}
  \cup {"rejected", "misbilled", "misidentified", "untyped"}

\* The status that a result carries.
StatusIn(result) == IF result \in {"rejected", "misbilled"} THEN "succeeded" ELSE result

NoEnd == [status |-> "none", phase |-> "none", observed |-> "unsaid"]

End(status, phase) == [status |-> status, phase |-> phase, observed |-> "unsaid"]

\* A controller that failed, or was interrupted.
Stopped(kind) == IF kind = "interrupt" THEN "cancelled" ELSE "failed"

Init ==
  /\ mode \in Modes
  /\ ledger = <<StatusRow("created", "created", "none")>>
  /\ artifact = FALSE
  /\ ctl = [at |-> IF Selected THEN "select" ELSE "bind", end |-> NoEnd, err |-> "none", invoked |-> 0,
            emitted |-> 0, seen |-> 0, result |-> "none", broken |-> FALSE, returned |-> "none"]
  /\ faults = 0

-----------------------------------------------------------------------------
\* Writing.

Goes(at) == ctl' = [ctl EXCEPT !.at = at]

\* The run is over but for its terminal event.
Stops(end) == ctl' = [ctl EXCEPT !.at = "stop", !.end = end]

\* What comes of an append with its exact readback.
Writes == {w \in [kept : BOOLEAN, raised : Kinds \cup {"none"}] : w.raised = "none" => w.kept}

Pays(w) == faults + (IF w.raised = "none" THEN 0 ELSE 1) <= MaxFaults
           /\ faults' = faults + (IF w.raised = "none" THEN 0 ELSE 1)

Writing(row, w) == ledger' = IF w.kept /\ Appends(ledger, row) THEN Append(ledger, row) ELSE ledger

Alone == UNCHANGED <<mode, artifact>>

\* (defect) Goes on although the row could not be proved to be on record.
BrokenRequires(at, row, next, phase) ==
  /\ ctl.at = at
  /\ \E w \in Writes :
       /\ Pays(w)
       /\ Writing(row, w)
       /\ IF w.raised # "interrupt" THEN Goes(next) ELSE Stops(End(Stopped(w.raised), phase))
  /\ Alone

\* _append_required_event, _require_exact_event_readback and the handler around
\* them: nothing follows a row that is not proved to be on record.
Requires(at, row, next, phase) ==
  /\ ctl.at = at
  /\ \E w \in Writes :
       /\ Pays(w)
       /\ Writing(row, w)
       /\ IF w.raised = "none" THEN Goes(next) ELSE Stops(End(Stopped(w.raised), phase))
  /\ Alone

\* _best_effort_shadow_observation swallows all but an interruption, which
\* escapes the run and leaves it without a terminal event.
Observes(at, row, next) ==
  /\ ctl.at = at
  /\ \E w \in Writes :
       /\ Pays(w)
       /\ Writing(row, w)
       /\ Goes(IF w.raised = "interrupt" THEN "over" ELSE next)
  /\ Alone

-----------------------------------------------------------------------------
\* Before the first effect.

RecordSelection == Requires("select", Row("selection", "recorded"), "bind", "execution_selection")

RecordBinding ==
  Requires("bind", Row("binding", BindingValue), IF mode = "enforcing" THEN "admit" ELSE "admission_shadow",
           "task_attempt_binding")

\* A policy point: the evaluation permits, refuses, raises or is interrupted;
\* what came of it is put on record, then acted upon.
Decides(at, type, next, phase) ==
  /\ ctl.at = at
  /\ \E d \in {"permit", "deny", "failed", "interrupted"}, w \in Writes :
       /\ d = "interrupted" => faults < MaxFaults
       /\ Pays(w)
       /\ Writing(Row(type, IF d = "interrupted" THEN "failed" ELSE d), w)
       /\ CASE w.raised # "none" ->
                 Stops(End(IF d = "interrupted" THEN "cancelled" ELSE Stopped(w.raised), phase \o "_persistence"))
            [] w.raised = "none" /\ d = "interrupted" -> Stops(End("cancelled", phase \o "_evaluation"))
            [] w.raised = "none" /\ d \in {"deny", "failed"} -> Stops(End("blocked", phase))
            [] w.raised = "none" /\ d = "permit" -> Goes(next)
  /\ Alone

DecideAdmission == Decides("admit", "admission_decision", "admitted", "task_admission_authorization")

\* assert_task_admission_authorized and build_task_admission_action_receipt
ConfirmAdmission ==
  /\ ctl.at = "admitted"
  /\ \/ Goes("admission_receipt")
     \/ Stops(End("blocked", "task_admission_authorization_freshness"))
     \/ \E kind \in Kinds : Stops(End(Stopped(kind), "task_admission_action_receipt_persistence"))
  /\ UNCHANGED <<ledger, faults>> /\ Alone

RecordAdmission ==
  Requires("admission_receipt", Row("admission_receipt", "succeeded"), "admission_shadow",
           "task_admission_action_receipt_persistence")

ObserveAdmission == Observes("admission_shadow", Row("admission_shadow", "observed"), "preflight")

\* The runner must still be the controller's own, then its billing route is
\* inspected: whatever that raises ends the run.
InspectBilling ==
  /\ ctl.at = "preflight"
  /\ \/ mode = "enforcing" /\ Stops(End("blocked", "mock_dispatch_authorization_freshness"))
     \/ \E status \in {"blocked", "failed"} : Stops(End(status, "billing_preflight"))
     \/ Goes("billing")
  /\ UNCHANGED <<ledger, faults>> /\ Alone

RecordBilling ==
  Requires("billing", Row("billing", "recorded"), IF mode = "enforcing" THEN "dispatch" ELSE "running",
           "billing_assessment_persistence")

DecideDispatch == Decides("dispatch", "dispatch_decision", "fresh", "mock_dispatch_authorization")

\* require_current_mock_dispatch_authorization: binding and decision are read
\* back and the permit is asserted again, before RUNNING and before the effect.
AssertCurrent ==
  /\ ctl.at \in {"fresh", "fresh_at_start"}
  /\ \/ Goes(IF ctl.at = "fresh" THEN "running" ELSE "invoke") /\ UNCHANGED faults
     \/ Stops(End("blocked", "mock_dispatch_authorization_freshness")) /\ UNCHANGED faults
     \/ /\ faults < MaxFaults /\ faults' = faults + 1
        /\ \E kind \in Kinds : Stops(End(Stopped(kind), "mock_dispatch_authorization_freshness"))
  /\ UNCHANGED ledger /\ Alone

RecordRunning ==
  Requires("running", StatusRow("running", "running", "runner_execution"), "dispatch_shadow",
           "runner_execution_transition")

ObserveDispatch ==
  Observes("dispatch_shadow", Row("dispatch_shadow", "observed"),
           IF mode = "enforcing" THEN "fresh_at_start" ELSE "invoke")

-----------------------------------------------------------------------------
\* The runner.

Invoke ==
  /\ ctl.at = "invoke"
  /\ ctl' = [ctl EXCEPT !.at = "inside", !.invoked = @ + 1]
  /\ UNCHANGED <<ledger, faults>> /\ Alone

\* It emitted some events, which so far are only in memory.
RunnerReturns ==
  /\ ctl.at = "inside"
  /\ \E emitted \in 0..MaxObservations, result \in Results :
       ctl' = [ctl EXCEPT !.at = "persist", !.emitted = emitted, !.result = result]
  /\ UNCHANGED <<ledger, faults>> /\ Alone

\* "refused" is any error of the program's own, raised by the runner.
RunnerRaises ==
  /\ ctl.at = "inside"
  /\ \E emitted \in 0..MaxObservations, kind \in Kinds \cup {"refused"} :
       ctl' = [ctl EXCEPT !.at = "persist_again", !.emitted = emitted, !.err = kind]
  /\ UNCHANGED <<ledger, faults>> /\ Alone

Observation(n) == [Row("observed", "ordinal") EXCEPT !.n = n]

Persisted == IF ctl.at = "persist" THEN IF mode = "enforcing" THEN "receipt" ELSE "check"
             ELSE IF mode = "enforcing" THEN "failure_receipt" ELSE "raised"

\* persist_runner_event_observations: ordinals in order; one that is on record
\* already is accepted.  A failure after the return is tried again once.
PersistObservation ==
  /\ ctl.at \in {"persist", "persist_again"}
  /\ IF ctl.seen = ctl.emitted
     THEN Goes(Persisted) /\ UNCHANGED <<ledger, faults>>
     ELSE \E w \in Writes :
            /\ Pays(w)
            /\ ledger' = IF w.kept /\ \A i \in Rows(ledger, "observed") : ledger[i].n # ctl.seen + 1
                         THEN Append(ledger, Observation(ctl.seen + 1)) ELSE ledger
            /\ ctl' = CASE w.raised = "none" -> [ctl EXCEPT !.seen = @ + 1]
                        [] w.raised # "none" /\ ctl.at = "persist" ->
                             [ctl EXCEPT !.at = "persist_again", !.err = w.raised, !.broken = TRUE]
                        [] w.raised # "none" /\ ctl.at = "persist_again" ->
                             [ctl EXCEPT !.at = Persisted, !.err = w.raised, !.broken = TRUE]
  /\ Alone

\* How a run ends whose runner raised, or whose observations were lost.
RaisedEnd ==
  IF ctl.err = "refused" /\ ~ctl.broken THEN End("blocked", "preflight_or_execution")
  ELSE End(IF Subscription \/ ctl.broken THEN "quarantined" ELSE Stopped(ctl.err),
           IF ctl.broken THEN "runner_event_persistence" ELSE "execution")

\* _record_billing_outcome of a subscription run may itself raise.
HandleRaised ==
  /\ ctl.at = "raised"
  /\ \/ Stops(RaisedEnd) /\ UNCHANGED faults
     \/ /\ Subscription /\ RaisedEnd.status # "blocked"
        /\ faults < MaxFaults /\ faults' = faults + 1
        /\ Goes("over")
  /\ UNCHANGED ledger /\ Alone

\* _mock_dispatch_result_is_valid and _mock_dispatch_receipt_outcome
ReceiptOutcome ==
  IF ctl.result \in {"misbilled", "misidentified", "untyped", "running"} THEN "unknown"
  ELSE OutcomeOf(StatusIn(ctl.result))

\* An effect whose receipt may be lost is quarantined.
ReceiptEnd(raised) == End("quarantined", "mock_dispatch_action_receipt")

\* _append_mock_dispatch_action_receipt, whether the runner returned or raised.
RecordDispatch ==
  /\ ctl.at \in {"receipt", "failure_receipt"}
  /\ \E w \in Writes :
       /\ Pays(w)
       /\ Writing(Row("dispatch_receipt", IF ctl.at = "receipt" THEN ReceiptOutcome
                                          ELSE IF ctl.err = "interrupt" THEN "cancelled" ELSE "failed"), w)
       /\ IF w.raised # "none" THEN Stops(ReceiptEnd(w.raised))
          ELSE Goes(IF ctl.at = "receipt" THEN "check" ELSE "raised")
  /\ Alone

-----------------------------------------------------------------------------
\* _finalize_result

\* Errors of the finalization reach the handlers of the caller.
Uncertain(observed) == [End("quarantined", "result_finalization") EXCEPT !.observed = observed]

FinalFailure(kind) == [End(Stopped(kind), "result_finalization") EXCEPT !.observed = "false"]

\* A result that is not one, or is another run's; the billing outcome of a
\* subscription run is put on record first.
CheckResult ==
  /\ ctl.at = "check"
  /\ \/ /\ Stops(End("quarantined", "runner_result_validation"))
        /\ ctl.result \in {"misidentified", "untyped"}
        /\ UNCHANGED faults
     \/ ctl.result \notin {"misidentified", "untyped"} /\ Goes("accounting") /\ UNCHANGED faults
     \/ /\ Subscription /\ faults < MaxFaults /\ faults' = faults + 1
        /\ IF ctl.result = "untyped" THEN Goes("over") ELSE \E kind \in Kinds : Stops(FinalFailure(kind))
  /\ UNCHANGED ledger /\ Alone

RecordAccounting ==
  /\ ctl.at = "accounting"
  /\ \E w \in Writes :
       /\ Pays(w)
       /\ Writing([Row("accounting", StatusIn(ctl.result)) EXCEPT !.n = ctl.emitted], w)
       /\ IF w.raised # "none" THEN Stops(FinalFailure(w.raised))
          ELSE Goes(IF ctl.result = "succeeded" THEN "prepare" ELSE "finish")
  /\ Alone

\* The destination and the bytes of the artifact: either may be refused.
PreparePublication ==
  /\ ctl.at = "prepare"
  /\ \/ Goes("publication_shadow")
     \/ Stops(End("quarantined", "result_finalization"))
     \/ Stops(FinalFailure("error"))
  /\ UNCHANGED <<ledger, faults>> /\ Alone

\* The publication, up to its effect.
ObservePublication ==
  /\ ctl.at = "publication_shadow"
  /\ \E w \in Writes :
       /\ Pays(w)
       /\ Writing(Row("publication_shadow", "observed"), w)
       /\ IF w.raised = "interrupt" THEN Stops(FinalFailure("interrupt"))
          ELSE Goes(IF mode = "enforcing" THEN "publish_decision" ELSE "intent")
  /\ Alone

DecidePublication ==
  /\ ctl.at = "publish_decision"
  /\ \E d \in {"permit", "deny", "failed", "interrupted"}, w \in Writes :
       /\ d = "interrupted" => faults < MaxFaults
       /\ Pays(w)
       /\ Writing(Row("publication_decision", IF d = "interrupted" THEN "failed" ELSE d), w)
       /\ CASE d = "interrupted" -> Stops(FinalFailure("interrupt"))
            [] d # "interrupted" /\ w.raised # "none" -> Stops(FinalFailure(w.raised))
            [] w.raised = "none" /\ d \in {"deny", "failed"} ->
                 Stops(End("blocked", "local_candidate_publication_authorization"))
            [] w.raised = "none" /\ d = "permit" -> Goes("intent")
  /\ Alone

\* The record of intent says whether the shadow was found on record.
RecordIntent ==
  /\ ctl.at = "intent"
  /\ \E w \in Writes :
       /\ Pays(w)
       /\ Writing(Row("intent", IF Has(ledger, "publication_shadow") THEN "shadowed" ELSE "unshadowed"), w)
       /\ IF w.raised # "none" THEN Stops(FinalFailure(w.raised)) ELSE Goes("publish")
  /\ Alone

\* The effect and its receipt.
Publish ==
  /\ ctl.at = "publish"
  /\ \/ /\ mode = "enforcing"
        /\ Stops(End("blocked", "local_candidate_publication_authorization_freshness"))
        /\ UNCHANGED <<ledger, artifact, faults>>
     \/ /\ ledger' = Append(ledger, Row("receipt", "succeeded"))
        /\ artifact' = TRUE
        /\ Goes("finish")
        /\ UNCHANGED faults
     \/ /\ faults < MaxFaults /\ faults' = faults + 1
        /\ artifact' \in BOOLEAN
        /\ \/ \E kind \in Kinds \cup {"invalid"} :
                /\ ledger' = Append(ledger, Row("receipt", Stopped(kind)))
                /\ Stops(IF kind = "invalid" THEN End("quarantined", "result_finalization") ELSE FinalFailure(kind))
           \/ UNCHANGED ledger /\ Stops(FinalFailure("error"))
           \/ \E observed \in {"true", "false"} :
                /\ ledger' \in {ledger, Append(ledger, Row("receipt", "unknown"))}
                /\ Stops(Uncertain(observed))
           \/ /\ artifact' /\ ledger' = Append(ledger, Row("receipt", "succeeded"))
              /\ Stops(Uncertain("true"))
  /\ UNCHANGED mode

FinalStatus ==
  CASE ctl.result \in {"rejected", "misbilled"} -> "quarantined"
    [] ctl.result = "running" -> "failed"
    [] OTHER -> ctl.result

\* The terminal event of a run that was finalized, and its report; when it
\* cannot be written the artifact stands and the run is quarantined.
Finish ==
  /\ ctl.at = "finish"
  /\ \E w \in Writes :
       /\ Pays(w)
       /\ Writing([StatusRow("terminal", FinalStatus, "result") EXCEPT
                     !.observed = IF FinalStatus = "succeeded" THEN "true" ELSE "false"], w)
       /\ IF w.raised = "none" THEN ctl' = [ctl EXCEPT !.at = "over", !.returned = FinalStatus]
          ELSE Stops(IF FinalStatus = "succeeded" THEN Uncertain("true") ELSE FinalFailure(w.raised))
  /\ Alone

-----------------------------------------------------------------------------
\* The end of the others.

\* _append_terminal_event and _best_effort_terminal_status, which writes only
\* while the run has not ended.  A result of another run is ended twice: where
\* it is noticed, and by the handler of the error that this raises.
Stop ==
  /\ ctl.at = "stop"
  /\ \E w \in Writes :
       /\ Pays(w)
       /\ IF CurrentStatus(ledger) \in {"created", "running"}
          THEN Writing([StatusRow("terminal", ctl.end.status, ctl.end.phase) EXCEPT !.observed = ctl.end.observed], w)
          ELSE UNCHANGED ledger
  /\ IF ctl.result = "misidentified" /\ ctl.end.phase = "runner_result_validation"
     THEN Stops(End("quarantined", "result_finalization")) ELSE Goes("over")
  /\ Alone

\* The process dies, or an interruption strikes outside every handler.
Crash ==
  /\ ctl.at # "over"
  /\ faults < MaxFaults /\ faults' = faults + 1
  /\ Goes("over")
  /\ UNCHANGED ledger /\ Alone

Next ==
  \/ RecordSelection \/ RecordBinding
  \/ DecideAdmission \/ ConfirmAdmission \/ RecordAdmission \/ ObserveAdmission
  \/ InspectBilling \/ RecordBilling \/ DecideDispatch \/ AssertCurrent
  \/ RecordRunning \/ ObserveDispatch
  \/ Invoke \/ RunnerReturns \/ RunnerRaises \/ PersistObservation \/ HandleRaised \/ RecordDispatch
  \/ CheckResult \/ RecordAccounting
  \/ PreparePublication \/ ObservePublication \/ DecidePublication \/ RecordIntent \/ Publish
  \/ Finish \/ Stop \/ Crash

Spec == Init /\ [][Next]_vars

-----------------------------------------------------------------------------
Over == ctl.at = "over"

TypeOK ==
  /\ mode \in Modes /\ artifact \in BOOLEAN /\ faults \in 0..MaxFaults
  /\ ledger # <<>> /\ \A i \in DOMAIN ledger : ledger[i].status \in Statuses \cup {NoStatus}
  /\ ctl.seen \in 0..ctl.emitted /\ ctl.invoked \in 0..1
  /\ ctl.returned \in Ends \cup {"none"}

\* The runner is invoked only when every row that must come before it is on
\* record, and at an enforcing run only under both permits
\* (_append_required_event, _require_exact_event_readback).
RunnerHasItsEvidence ==
  ctl.invoked = 1 =>
    /\ \A t \in {"binding", "billing", "running"} \cup (IF Selected THEN {"selection"} ELSE {}) : Has(ledger, t)
    /\ mode = "enforcing" =>
         /\ Says(ledger, "admission_decision", "permit") /\ Has(ledger, "admission_receipt")
         /\ Says(ledger, "dispatch_decision", "permit")

\* A report is returned only for a run that is on record with that status, and
\* for a success only with its artifact and its receipt.
ReportsWhatIsRecorded ==
  ctl.returned # "none" =>
    /\ CurrentStatus(ledger) = ctl.returned
    /\ ctl.returned = "succeeded" => artifact /\ Says(ledger, "receipt", "succeeded")

\* An enforced runner that was invoked and left no receipt is never recorded as
\* a plain failure: the run is quarantined, or visibly has no end.
UnreceiptedIsQuarantined ==
  Over /\ mode = "enforcing" /\ ctl.invoked = 1 /\ ~Has(ledger, "dispatch_receipt") =>
    CurrentStatus(ledger) \in {"running", "quarantined"}

\* A run whose runner was invoked and which never got a terminal event, because
\* the process died or its last append was lost, is reported by the inspection.
AbandonedIsReported ==
  Over /\ ctl.invoked = 1 /\ ~Has(ledger, "terminal") => "incomplete" \in Issues(ledger, artifact)

\* Whatever failed, the ledger holds the outcome, or shows that it does not.
OutcomeIsOnRecord ==
  TypeOK /\ ReportsWhatIsRecorded /\ UnreceiptedIsQuarantined /\ AbandonedIsReported

\* What the controller did on its way to a success, the inspection accepts,
\* unless a shadow was lost, whatever else failed on that way.
SuccessInspectsClean ==
  Succeeded(ledger) /\ (\A t \in Shadows : Has(ledger, t)) => Clean(ledger, artifact)

\* An inspection that finds nothing tells, of an enforced run that is over,
\* whether the runner was invoked.
CleanTellsInvocation ==
  Over /\ mode = "enforcing" /\ Bound(ledger) /\ Clean(ledger, artifact) =>
    (ctl.invoked = 1 <=> Has(ledger, "dispatch_receipt"))

\* Stops that the inspection does not know: it expects a dispatch decision to
\* which the controller had not come (_is_mock_dispatch_decision_absence_stop).
Undecided ==
  /\ mode = "enforcing" /\ Has(ledger, "admission_receipt") /\ ~Has(ledger, "dispatch_decision")
  /\ Ended(ledger, {"blocked", "failed"}, {"billing_preflight", "mock_dispatch_authorization_freshness"})

\* A result that no mock returns, accounted for under a status that the receipt
\* of an unknown outcome does not match (_inspect_mock_dispatch_receipt).
Misreported == mode = "enforcing" /\ ctl.result \in {"misbilled", "running"}

\* Wherever a controller that nothing disturbed ends a run, the inspection has
\* nothing to report, but for the two cases above.
UndisturbedInspectsClean ==
  Over /\ faults = 0 =>
    /\ CoverageGaps(ledger, artifact) = {}
    /\ Issues(ledger, artifact) = IF Undecided THEN {"dispatch_decision"}
                                 ELSE IF Misreported THEN {"dispatch_receipt"} ELSE {}

\* The inspection accepts what the controller does.
HonestRunsInspectClean == SuccessInspectsClean /\ UndisturbedInspectsClean

\* No row of an accepted success can be taken out of its history, and no two
\* neighbours exchanged, without the inspection noticing; only the creation,
\* which the runs table repeats, may be missing.
TamperEvident ==
  Succeeded(ledger) /\ Clean(ledger, artifact) =>
    /\ \A i \in 2..Len(ledger) : ~Clean(RemoveAt(ledger, i), artifact)
    /\ \A i \in 1..Len(ledger) - 1 :
         ~Clean([ledger EXCEPT ![i] = ledger[i + 1], ![i + 1] = ledger[i]], artifact)

\* And it accepts nothing else: a clean inspection can be relied on.
CleanIsEvidence == CleanTellsInvocation /\ TamperEvident

=============================================================================
