----------------------------- MODULE ComparisonRun -----------------------------
(***************************************************************************)
(* A controlled comparison (comparison.py, run_controlled_comparison): one *)
(* trial after the other, each a run of its own with its own rows, billing *)
(* outcome and review artifact, and nothing after a trial that cannot be   *)
(* trusted.                                                                *)
(*                                                                         *)
(* A step is one row with its readback, one effect, or one decision.  An   *)
(* error of a trial is handled by one handler and an interruption by       *)
(* another, each of which writes rows of its own, and may fail as well.    *)
(* The controller and its variables are those of TaskRun; "artifact" says  *)
(* that the published file is there.                                       *)
(***************************************************************************)
EXTENDS TaskRun, ComparisonAudit, BillingPolicy

CONSTANTS
  Trials,      \* bound: trials of the plan
  TrialFaults  \* bound: those of MaxFaults that may strike a comparison

ASSUME ComparisonAssumption == Trials \in Nat \ {0} /\ TrialFaults \in 0..MaxFaults

VARIABLES
  trials,  \* history: what became of the trials that are over
  book     \* the billing rows that the current trial has appended

comparisonVars == <<mode, ledger, artifact, ctl, faults, trials, book>>

-----------------------------------------------------------------------------
\* What a trial may have cost.

\* What the controller makes of it, and what it really was.
Cost(d, harmless) ==
  [quarantine |-> d.quarantine, breaker |-> d.breaker, blocked |-> d.capacity \in Blocking, harmless |-> harmless]

PreflightsOf(live) == {pre \in Preflights : pre.route = IF live THEN "included" ELSE "mock"}

Inputs(live) ==
  {x \in PreflightsOf(live) \X Postflights \X Signalled \X Claimed \X Instants : live \/ x[2] = Missing}

CostOf(live, matches) ==
  {Cost(Resolve(x[1], x[2], x[3], x[4], matches, x[5]),
        matches /\ (~live \/ Harmless(x[2], x[3], x[4]) \/ Forgotten(x[1], x[2], x[3], x[4], x[5]))) :
     x \in Inputs(live)}

Costs == [live \in BOOLEAN |-> [matches \in BOOLEAN |-> CostOf(live, matches)]]

NoCost == [quarantine |-> FALSE, breaker |-> FALSE, blocked |-> FALSE, harmless |-> FALSE]

-----------------------------------------------------------------------------
Fresh(live) ==
  [at |-> "bind", live |-> live, exc |-> "none", doubt |-> FALSE, shown |-> FALSE, invoked |-> 0, emitted |-> 0,
   seen |-> 0, result |-> "none", judged |-> FALSE, cost |-> NoCost, matches |-> TRUE,
   accounted |-> FALSE, priced |-> FALSE, broken |-> FALSE, shadowed |-> FALSE, listed |-> FALSE, unknown |-> FALSE,
   stop |-> FALSE, outcome |-> "none", returned |-> FALSE]

Created == <<StatusRow("created", "created", "none")>>

ComparisonInit ==
  /\ mode = "comparison"
  /\ \E live \in BOOLEAN : ctl = Fresh(live)
  /\ ledger = Created
  /\ artifact = FALSE /\ faults = MaxFaults - TrialFaults
  /\ trials = <<>> /\ book = "none"

-----------------------------------------------------------------------------
\* Writing.

\* _append_required_comparison_event: an append that raised is accepted when it
\* is read back, unless it was interrupted: then, or when the readback fails, a
\* ConfigurationError says so, whatever is on record.
RequiredWrites ==
  {w \in [kept : BOOLEAN, raised : Kinds \cup {"none", "refused"}] :
     IF w.kept THEN w.raised \in {"none", "refused"} ELSE w.raised # "none"}

\* A plain append may commit and raise.
PlainWrites ==
  {w \in [kept : BOOLEAN, raised : Kinds \cup {"none", "refused"}] : w.raised = "none" => w.kept}

Untouched == UNCHANGED <<mode, artifact, trials, book>>

At(at) == [ctl EXCEPT !.at = at]

\* An error reaches the handlers of the trial.
Raise(kind) == [ctl EXCEPT !.exc = kind, !.at = IF kind = "interrupt" THEN "interrupted" ELSE "failed"]

\* One append, and where the controller goes from there.
Attempts(at, writes, row, Then(_)) ==
  /\ ctl.at = at
  /\ \E w \in writes : Pays(w) /\ Writing(row, w) /\ ctl' = Then(w.raised)
  /\ Untouched

\* Nothing follows a row that is not proved to be on record.
Needs(at, row, next, otherwise) ==
  Attempts(at, RequiredWrites, row, LAMBDA raised : At(IF raised = "none" THEN next ELSE otherwise))

\* _best_effort_comparison_shadow swallows all but an interruption.
BestEffort(at, row, next, otherwise) ==
  Attempts(at, Writes, row, LAMBDA raised : At(IF raised = "interrupt" THEN otherwise ELSE next))

-----------------------------------------------------------------------------
\* Before the runner.

BindTrial == Needs("bind", Row("binding", "trial"), "admission_shadow", "setup_failed")

ObserveTrialAdmission ==
  BestEffort("admission_shadow", Row("admission_shadow", "observed"), "billing", "setup_failed")

RecordTrialBilling == Needs("billing", Row("billing", "recorded"), "running", "setup_failed")

RecordTrialRunning ==
  Needs("running", StatusRow("running", "running", "comparison_trial_execution"), "dispatch_shadow", "setup_failed")

\* A trial that could not be prepared is blocked and the comparison given up.
BlockTrial ==
  Needs("setup_failed", StatusRow("terminal", "blocked", "comparison_audit_setup_failure"), "over", "over")

\* No handler is set up around this row.
ObserveTrialDispatch ==
  BestEffort("dispatch_shadow", Row("dispatch_shadow", "observed"), "invoke", "over")

-----------------------------------------------------------------------------
\* The runner and what it says it did.

InvokeTrial ==
  /\ ctl.at = "invoke"
  /\ ctl' = [ctl EXCEPT !.at = "inside", !.invoked = @ + 1]
  /\ UNCHANGED <<ledger, faults>> /\ Untouched

\* "tainted": it carries a status that no result has or credential material, or
\* comes with files in the workspace.
TrialReturns ==
  /\ ctl.at = "inside"
  /\ \E emitted \in 0..MaxObservations, matches \in BOOLEAN, result \in {"succeeded", "failed", "tainted"} :
       \E cost \in Costs[ctl.live][matches] :
         ctl' = [ctl EXCEPT !.at = "persist", !.emitted = emitted, !.result = result, !.matches = matches,
                            !.cost = cost]
  /\ UNCHANGED <<ledger, faults>> /\ Untouched

\* The runner raises, or returns something that is not a result.
TrialRaises ==
  /\ ctl.at = "inside"
  /\ \E emitted \in 0..MaxObservations, kind \in Kinds \cup {"refused"} :
       ctl' = [Raise(kind) EXCEPT !.emitted = emitted]
  /\ UNCHANGED <<ledger, faults>> /\ Untouched

\* persist_runner_event_observations, in the trial and in both of its handlers.
PersistTrialObservation ==
  /\ ctl.at \in {"persist", "failed", "interrupted"}
  /\ ctl.seen < ctl.emitted
  /\ \E w \in RequiredWrites :
       /\ Pays(w)
       /\ ledger' = IF w.kept /\ \A i \in Rows(ledger, "observed") : ledger[i].n # ctl.seen + 1
                    THEN Append(ledger, Observation(ctl.seen + 1)) ELSE ledger
       /\ ctl' = CASE w.raised = "none" -> [ctl EXCEPT !.seen = @ + 1]
                   [] w.raised # "none" /\ ctl.at = "persist" -> Raise(w.raised)
                   [] w.raised = "interrupt" /\ ctl.at = "failed" -> At("over")
                   [] w.raised \in {"error", "refused"} /\ ctl.at = "failed" ->
                        [ctl EXCEPT !.at = "failed_account", !.exc = w.raised, !.doubt = FALSE, !.broken = TRUE]
                   [] w.raised # "none" /\ ctl.at = "interrupted" -> At("interrupted_account")
  /\ Untouched

\* Identity and billing are judged once every observation is on record.
JudgeTrial ==
  /\ ctl.at \in {"persist", "failed", "interrupted"}
  /\ ctl.seen = ctl.emitted
  /\ ctl' = CASE ctl.at = "persist" -> [ctl EXCEPT !.at = IF ctl.live THEN "price" ELSE "account", !.judged = TRUE]
              [] ctl.at = "failed" -> At("failed_account")
              [] ctl.at = "interrupted" -> At("interrupted_account")
  /\ UNCHANGED <<ledger, faults>> /\ Untouched

\* The rows of _record_billing_outcome that a failure may leave: none, the first,
\* or all of them.  The account is blocked by the first if its capacity is not
\* there, and by the others if a breaker is required.
SomeRows == IF ctl.cost.blocked THEN "blocked" ELSE IF ctl.cost.breaker THEN "part" ELSE "clean"

AllRows == IF ctl.cost.blocked \/ ctl.cost.breaker THEN "blocked" ELSE "clean"

PriceTrial ==
  /\ ctl.at = "price"
  /\ \E w \in PlainWrites :
       /\ Pays(w)
       /\ ctl' = IF w.raised = "none" THEN [ctl EXCEPT !.at = "account", !.priced = TRUE] ELSE Raise(w.raised)
       /\ IF w.raised = "none" THEN book' = AllRows ELSE book' \in IF w.kept THEN {SomeRows, AllRows} ELSE {book}
  /\ UNCHANGED <<mode, ledger, artifact, trials>>

\* (defect) A mismatch, but not what the trial cost, stops the comparison.
BrokenUntrusted == ~ctl.matches

\* No trial follows one that is not known to have cost nothing.
Untrusted == ~ctl.matches \/ (ctl.live /\ (ctl.cost.quarantine \/ ctl.cost.breaker \/ ctl.cost.blocked))

Accounting(value) == [Row("accounting", value) EXCEPT !.n = ctl.emitted]

AccountTrial ==
  Attempts("account", RequiredWrites, Accounting("settled"), LAMBDA raised :
    IF raised = "none" THEN [ctl EXCEPT !.at = "publication_shadow", !.accounted = TRUE, !.stop = Untrusted]
    ELSE [Raise(raised) EXCEPT !.broken = TRUE])

-----------------------------------------------------------------------------
\* _publish_comparison_review_artifact

\* Redacting, serializing or describing the output may be refused.
RefuseReview ==
  /\ ctl.at = "publication_shadow"
  /\ \E kind \in {"error", "refused"} : ctl' = Raise(kind)
  /\ UNCHANGED <<ledger, faults>> /\ Untouched

ObserveTrialPublication ==
  Attempts("publication_shadow", Writes, Row("publication_shadow", "observed"), LAMBDA raised :
    IF raised = "interrupt" THEN Raise(raised) ELSE [ctl EXCEPT !.at = "intent", !.shadowed = raised = "none"])

IntendTrial ==
  Attempts("intent", PlainWrites, Row("intent", IF ctl.shadowed THEN "shadowed" ELSE "unshadowed"), LAMBDA raised :
    IF raised = "none" THEN At("publish") ELSE Raise(raised))

\* The file is staged, promoted, synchronized and verified; what fails is taken
\* back, and may turn out not to be gone.
PublishReview ==
  /\ ctl.at = "publish"
  /\ \/ artifact' = TRUE /\ ctl' = At("receipt") /\ UNCHANGED faults
     \/ /\ faults < MaxFaults /\ faults' = faults + 1
        /\ \E kind \in Kinds \cup {"refused"}, unknown \in BOOLEAN :
             /\ artifact' \in IF unknown THEN BOOLEAN ELSE {FALSE}
             /\ ctl' = [ctl EXCEPT !.at = "failure_receipt", !.exc = kind, !.unknown = unknown]
  /\ UNCHANGED <<mode, ledger, trials, book>>

\* What comes of the append of a receipt: whether it is on record, whether that
\* can be proved, and whether the append or the readback was interrupted.
ReceiptWrites ==
  {w \in [kept : BOOLEAN, proved : BOOLEAN, cut : BOOLEAN, raised : {"none", "error"}] :
     w.raised = "none" => w.kept /\ w.proved /\ ~w.cut}

\* _ComparisonArtifactPublicationUncertain, raised or the cause of what is raised.
Doubts(kind, doubt, shown) == [Raise(kind) EXCEPT !.doubt = doubt, !.shown = shown]

\* A publication that failed.
ReceiveFailure ==
  /\ ctl.at = "failure_receipt"
  /\ \E w \in ReceiptWrites :
       /\ Pays(w)
       /\ Writing(Row("receipt", IF ctl.unknown THEN "unknown" ELSE IF ctl.exc = "interrupt" THEN "cancelled"
                                 ELSE "failed"), w)
       /\ ctl' = Doubts(IF w.cut \/ ctl.exc = "interrupt" THEN "interrupt"
                        ELSE IF w.kept /\ w.proved /\ ~ctl.unknown THEN ctl.exc ELSE "refused",
                        ctl.unknown \/ ~w.proved, ctl.unknown)
  /\ Untouched

\* A publication that succeeded.  Without its receipt the file is removed, which
\* may fail ("stuck"); somebody else may have removed it ("lost").
ReceiveSuccess ==
  /\ ctl.at = "receipt"
  /\ \E w \in ReceiptWrites, lost \in BOOLEAN, stuck \in BOOLEAN :
       LET unreceipted == w.proved /\ ~w.kept
           kind == IF w.cut THEN "interrupt" ELSE "refused"
           cost == Cardinality({x \in {<<1, lost>>, <<2, stuck>>, <<3, w.raised # "none">>} : x[2]})
       IN  /\ faults + cost <= MaxFaults /\ faults' = faults + cost
           /\ Writing(Row("receipt", "succeeded"), w)
           /\ artifact' \in IF lost THEN {FALSE}
                            ELSE IF unreceipted THEN IF stuck THEN BOOLEAN ELSE {FALSE} ELSE {TRUE}
           /\ IF w.kept /\ w.proved /\ ~w.cut /\ ~lost
              THEN ctl' = [ctl EXCEPT !.at = "evaluate", !.listed = TRUE]
              ELSE \E shown \in {~unreceipted \/ stuck, ~lost} :
                     ctl' = Doubts(kind, ~unreceipted \/ stuck, shown)
  /\ UNCHANGED <<mode, trials, book>>

\* evaluate_chief_of_staff, the metrics and the outcome may be refused.
EvaluateReview ==
  /\ ctl.at = "evaluate"
  /\ \/ ctl' = At("finish")
     \/ \E kind \in {"error", "refused"} : ctl' = Raise(kind)
  /\ UNCHANGED <<ledger, faults>> /\ Untouched

-----------------------------------------------------------------------------
\* The end of a trial.

HasEnded == CurrentStatus(ledger) \notin {"created", "running"}

\* A comparison run ends once (_terminalize_comparison_run).  Its status is read
\* before and after, which may fail as well: the row may be there although an
\* error or an interruption is raised.
EndTrial(at, status, phase, observed, Then(_)) ==
  /\ ctl.at = at
  /\ \/ HasEnded /\ ctl' = Then("refused") /\ UNCHANGED <<ledger, faults>>
     \/ \E w \in PlainWrites :
          /\ w.kept => ~HasEnded
          /\ Pays(w)
          /\ Writing([StatusRow("terminal", status, phase) EXCEPT !.observed = observed], w)
          /\ ctl' = Then(w.raised)
  /\ Untouched

Claim(flag) == IF flag THEN "true" ELSE "false"

TrialStatus ==
  IF ~ctl.matches \/ ctl.cost.quarantine \/ ctl.cost.breaker \/ ctl.result \notin Ends
  THEN "quarantined" ELSE ctl.result

CompleteTrial ==
  EndTrial("finish", TrialStatus, "comparison_trial_complete", "true", LAMBDA raised :
    IF raised = "none" THEN [ctl EXCEPT !.at = "next", !.outcome = TrialStatus] ELSE Raise(raised))

\* Billing of a live trial that is not on record for certain.
Unpriced == ctl.live /\ ~ctl.priced

\* The accounting of a trial that failed: not that of AccountTrial, so that it may
\* be a second one.
AccountFailure ==
  /\ ctl.at = "failed_account"
  /\ IF ctl.accounted THEN ctl' = At("failed_price") /\ UNCHANGED <<ledger, faults>> /\ Untouched
     ELSE Attempts("failed_account", RequiredWrites,
                   Accounting(IF ctl.judged /\ ~Unpriced THEN "settled" ELSE "unsettled"), LAMBDA raised :
            [ctl EXCEPT !.at = "failed_price", !.broken = @ \/ raised # "none"])

\* _record_unknown_comparison_billing blocks the account with its first row.
UnknownRows(w) == IF w.raised = "none" THEN {"blocked"} ELSE {book, "blocked"}

PriceFailure ==
  /\ ctl.at = "failed_price"
  /\ IF ~Unpriced THEN ctl' = At("fail") /\ UNCHANGED <<faults, book>>
     ELSE \E w \in PlainWrites :
            /\ Pays(w)
            /\ book' \in UnknownRows(w)
            /\ ctl' = [ctl EXCEPT !.at = "fail", !.broken = @ \/ w.raised # "none"]
  /\ UNCHANGED <<mode, ledger, artifact, trials>>

FailureStatus ==
  IF Unpriced \/ ctl.doubt \/ (ctl.judged /\ (~ctl.matches \/ ctl.cost.quarantine \/ ctl.cost.breaker))
  THEN "quarantined" ELSE IF ctl.exc = "refused" THEN "blocked" ELSE "failed"

\* The trial is reported as failed if all of this is on record; no other follows.
FailTrial ==
  EndTrial("fail", FailureStatus, "comparison_trial_failure", Claim(IF ctl.doubt THEN ctl.shown ELSE ctl.listed),
    LAMBDA raised :
      IF raised # "none" \/ ctl.broken THEN At("over")
      ELSE [ctl EXCEPT !.at = "next", !.outcome = FailureStatus, !.stop = TRUE])

\* After an interruption everything is attempted, and nothing reported.
AccountInterruption ==
  /\ ctl.at = "interrupted_account"
  /\ IF ctl.accounted THEN ctl' = At("interrupted_price") /\ UNCHANGED <<ledger, faults>> /\ Untouched
     ELSE Attempts("interrupted_account", RequiredWrites,
                   Accounting(IF ctl.judged /\ ~ctl.live THEN "settled" ELSE "unsettled"), LAMBDA raised :
            At("interrupted_price"))

\* The unknown outcome is tried twice, even if the true one is on record.
PriceInterruption ==
  /\ ctl.at \in {"interrupted_price", "interrupted_price_again"}
  /\ IF ~ctl.live THEN ctl' = At("interrupted_end") /\ UNCHANGED <<faults, book>>
     ELSE \E w \in PlainWrites :
            /\ Pays(w)
            /\ book' \in UnknownRows(w)
            /\ ctl' = At(IF w.raised = "none" \/ ctl.at = "interrupted_price_again" THEN "interrupted_end"
                         ELSE "interrupted_price_again")
  /\ UNCHANGED <<mode, ledger, artifact, trials>>

InterruptTrial ==
  EndTrial("interrupted_end", IF ctl.live \/ ctl.doubt THEN "quarantined" ELSE "cancelled",
        "comparison_trial_interrupted", Claim(IF ctl.doubt THEN ctl.shown ELSE ctl.listed), LAMBDA raised : At("over"))

-----------------------------------------------------------------------------
\* The comparison.

\* What is kept of a trial that is over.
Summary ==
  [live |-> ctl.live, outcome |-> ctl.outcome, listed |-> ctl.listed, harmless |-> ctl.cost.harmless, book |-> book,
   status |-> CurrentStatus(ledger), receipted |-> Says(ledger, "receipt", "succeeded"), present |-> artifact,
   clean |-> TrialClean(ledger)]

NextTrial ==
  /\ ctl.at = "next" /\ ~ctl.stop /\ Len(trials) + 1 < Trials
  /\ trials' = Append(trials, Summary)
  /\ \E live \in BOOLEAN : ctl' = Fresh(live)
  /\ ledger' = Created /\ artifact' = FALSE /\ book' = "none"
  /\ UNCHANGED <<mode, faults>>

\* The review template and the report.
ReportTrials ==
  /\ ctl.at = "next" /\ (ctl.stop \/ Len(trials) + 1 = Trials)
  /\ \/ ctl' = [ctl EXCEPT !.at = "over", !.returned = TRUE] /\ UNCHANGED faults
     \/ faults < MaxFaults /\ faults' = faults + 1 /\ ctl' = At("over")
  /\ UNCHANGED <<mode, ledger, artifact, trials, book>>

CrashComparison ==
  /\ ctl.at # "over"
  /\ faults < MaxFaults /\ faults' = faults + 1
  /\ ctl' = At("over")
  /\ UNCHANGED ledger /\ Untouched

ComparisonNext ==
  \/ BindTrial \/ ObserveTrialAdmission \/ RecordTrialBilling \/ RecordTrialRunning \/ BlockTrial
  \/ ObserveTrialDispatch \/ InvokeTrial \/ TrialReturns \/ TrialRaises \/ PersistTrialObservation \/ JudgeTrial
  \/ PriceTrial \/ AccountTrial \/ RefuseReview \/ ObserveTrialPublication \/ IntendTrial \/ PublishReview
  \/ ReceiveFailure \/ ReceiveSuccess \/ EvaluateReview \/ CompleteTrial
  \/ AccountFailure \/ PriceFailure \/ FailTrial
  \/ AccountInterruption \/ PriceInterruption \/ InterruptTrial
  \/ NextTrial \/ ReportTrials \/ CrashComparison

-----------------------------------------------------------------------------
\* One run or one comparison.
SystemInit == (Init /\ trials = <<>> /\ book = "none") \/ ComparisonInit

SystemNext ==
  \/ mode \in Modes /\ Next /\ UNCHANGED <<trials, book>>
  \/ mode = "comparison" /\ ComparisonNext

SystemSpec == SystemInit /\ [][SystemNext]_comparisonVars

-----------------------------------------------------------------------------
Anyhow == CurrentStatus(ledger) \in {"running", "quarantined"}

\* The runner of a trial is invoked only when its binding, its billing assessment
\* and its start are on record (_append_required_comparison_event).
TrialHasItsEvidence ==
  ctl.invoked = 1 => \A t \in {"binding", "billing", "running"} : Has(ledger, t)

\* A trial that may have cost something, or whose cost is not on the books for
\* certain, is the last one (stop_remaining).
NothingFollowsCost ==
  \A i \in DOMAIN trials : trials[i].live => trials[i].harmless /\ trials[i].book = "clean"

\* The outcome of a live trial that was invoked is on the books, or the run is
\* quarantined, or without an end, and nothing is reported
\* (_record_billing_outcome, _record_unknown_comparison_billing).
UnpricedIsQuarantined ==
  /\ Over /\ ctl.live /\ ctl.invoked = 1
  /\ book \in {"none", "part"} \/ (book = "clean" /\ ~ctl.cost.harmless)
  => Anyhow /\ ~ctl.returned

\* A review artifact without its receipt, or a receipt without its artifact, is
\* never left behind by a run that looks settled.
OrphanIsQuarantined == Over /\ artifact # Says(ledger, "receipt", "succeeded") => Anyhow

\* What is reported of a trial is what its ledger and its directory hold.
ReportMatches ==
  /\ \A i \in DOMAIN trials :
       trials[i].status = trials[i].outcome /\ (trials[i].listed => trials[i].receipted /\ trials[i].present)
  /\ ctl.outcome # "none" =>
       CurrentStatus(ledger) = ctl.outcome /\ (ctl.listed => artifact /\ Says(ledger, "receipt", "succeeded"))

\* Whatever failed, the ledger, the books and the report agree on every trial.
TrialsAreOnRecord == NothingFollowsCost /\ UnpricedIsQuarantined /\ OrphanIsQuarantined /\ ReportMatches

\* A reported trial with all its shadows is one that the inspection accepts,
\* unless it failed between announcing its publication and its receipt, somebody
\* else removed its artifact, or the shadow was committed by an append that
\* raised: _best_effort_comparison_shadow does not read it back, and the record of
\* intent denies it.
ReportedInspectsClean ==
  /\ ctl.outcome # "none" /\ TrialGaps(ledger) = {}
  /\ artifact = Says(ledger, "receipt", "succeeded")
  /\ Has(ledger, "publication_shadow") => Has(ledger, "receipt")
  => TrialIssues(ledger) \subseteq IF ctl.shadowed THEN {} ELSE {"shadow_claim"}

\* Wherever a controller that nothing disturbed ends a trial, the inspection has
\* nothing to report.
UndisturbedTrialsInspectClean == Over /\ faults + TrialFaults = MaxFaults => TrialClean(ledger)

HonestTrialsInspectClean == ReportedInspectsClean /\ UndisturbedTrialsInspectClean

LastObservation(h, i) == h[i].type = "observed" /\ \A j \in Rows(h, "observed") : j <= i

Exchangeable(h, i) == {h[i].type, h[i + 1].type} = {"billing", "running"}

\* No row of an accepted, successful trial can be taken out of its history, and no
\* two neighbours exchanged, without the inspection noticing, but for what it does
\* not look at: the last observation, and whether billing came before RUNNING.
TrialTamperEvident ==
  Succeeded(ledger) /\ TrialClean(ledger) =>
    /\ \A i \in 2..Len(ledger) : TrialClean(RemoveAt(ledger, i)) => LastObservation(ledger, i)
    /\ \A i \in 1..Len(ledger) - 1 :
         TrialClean([ledger EXCEPT ![i] = ledger[i + 1], ![i + 1] = ledger[i]]) => Exchangeable(ledger, i)

\* A trial that is accepted was bound, and its runner invoked.
CleanTellsTrial == Over /\ Bound(ledger) /\ TrialClean(ledger) => ctl.invoked = 1

CleanTrialIsEvidence == TrialTamperEvident /\ CleanTellsTrial

-----------------------------------------------------------------------------
\* The properties of a run and of a comparison.

\* No runner is invoked before the rows that must precede it are on record.
RunnersHaveTheirEvidence == IF mode = "comparison" THEN TrialHasItsEvidence ELSE RunnerHasItsEvidence

\* Ledger, books, artifacts and reports agree, or visibly do not.
OutcomesAreOnRecord == IF mode = "comparison" THEN TrialsAreOnRecord ELSE OutcomeIsOnRecord

\* The inspection accepts what the controllers do, and what it accepts can be
\* relied on.
InspectionsCanBeReliedOn ==
  IF mode = "comparison"
  THEN HonestTrialsInspectClean /\ CleanTrialIsEvidence
  ELSE HonestRunsInspectClean /\ CleanIsEvidence

\* The outcome that a trial has been given is one of a resolution that errs, for
\* all assessments, events and claims, on the side of stopping
\* (_resolve_billing_disposition).
BillingIsConservative == mode = "comparison" /\ ctl.cost # NoCost => BillingErrsSafely

=============================================================================
