---------------------------- MODULE SupervisorAudit ----------------------------
(***************************************************************************)
(* The read-only inspection of the supervisor's evidence                   *)
(* (_inspect_supervisor_authorization_connection): for each kind of work   *)
(* it derives from the work's own rows which evidence there must be,       *)
(* rebuilds what that evidence must say, and reports every difference.  It *)
(* reads one snapshot of the database, so it is a function of the state.   *)
(***************************************************************************)
EXTENDS SupervisorEvidence

Fault(code, table, of) == [code |-> code, table |-> table, of |-> of]

\* What is expected exactly once: missing, duplicated and unexpected rows.
Coverage(table, expected) ==
  {Fault("missing", table, of) : of \in {x \in expected : RowsOf(table, x) = {}}}
  \cup {Fault("duplicated", table, of) : of \in {x \in expected : Cardinality(RowsOf(table, x)) > 1}}
  \cup {Fault("unexpected", table, r.of) : r \in {e \in evidence : e.table = table /\ e.of \notin expected}}

\* Of the rows about of there is one, and it says what the inspection rebuilt.
Differs(table, of, row) == Cardinality(RowsOf(table, of)) = 1 /\ RowsOf(table, of) # {row}

Invalid(table, wrong) == {Fault("invalid", table, of) : of \in wrong}

\* The one row about of.
TheRow(table, of) == CHOOSE r \in RowsOf(table, of) : TRUE

-----------------------------------------------------------------------------
(* Lineage: what the inspections require of the rows that the evidence is about. *)

AttemptTransitions ==
  [created |-> {"dispatching"} \cup EndedAttemptStates, dispatching |-> {"running"} \cup EndedAttemptStates]

CreatedAt(a) == events[a][1].at

\* The revision whose successor started the attempt.
ClaimedRevision(a) ==
  LET h == history[attempt[a].flow] IN
    (CHOOSE r \in DOMAIN h : h[r].active = a /\ \A q \in 1..(r - 1) : h[q].active # a) - 1

\* _verify_flow_revision_lineage, step by step.
StepInLineage(old, new) ==
  LET stopsRunning == /\ old.state = "running" /\ new.state = "running" /\ ~old.cancel /\ new.cancel
                      /\ new.active = old.active
  IN  /\ \/ stopsRunning
         \/ old.state = "queued" /\ new.state \in {"running", "timed_out", "cancelled"}
         \/ old.state = "running" /\ new.state \in FlowStates \ {"queued", "running"}
         \/ old.state \in {"waiting", "blocked", "lost"} /\ new.state \in {"queued", "cancelled"}
      /\ old.cancel => new.cancel
      /\ ~old.cancel /\ new.cancel => stopsRunning \/ (new.state = "cancelled" /\ old.state # "running")
      /\ (new.state = "running") <=> (new.active # NoAttempt)

FlowLineage(f) ==
  LET h == history[f] IN
  /\ h # <<>> /\ h[1] = Revision("queued", FALSE, NoAttempt)
  /\ \A r \in 2..Len(h) : StepInLineage(h[r - 1], h[r])
  /\ \A r \in DOMAIN h : h[r].active # NoAttempt => h[r].active \in AttemptsOf(f)

\* _verify_attempt_claim_history
ClaimLineage(a) ==
  LET f == attempt[a].flow
      n == ClaimedRevision(a)
  IN  /\ CreatedAt(a) >= SpecOf[f].available
      /\ attempt[a].deadline = HardDeadline(f, CreatedAt(a)) /\ attempt[a].deadline > CreatedAt(a)
      /\ n >= 1 /\ history[f][n] = Revision("queued", FALSE, NoAttempt)
      /\ history[f][n + 1] = Revision("running", FALSE, a) /\ stamps[f][n + 1] = CreatedAt(a)
      /\ events[a][1].state = "created"
      /\ \A k \in 2..Len(events[a]) : events[a][k].state \in AttemptTransitions[events[a][k - 1].state]

\* The attempts that recorded a dispatch intent, each at its second event.
Dispatched == {a \in Attempts : \E k \in DOMAIN events[a] : events[a][k].state = "dispatching"}

\* _verify_pre_dispatch_intent_history
IntentLineage(a) ==
  \A k \in DOMAIN events[a] : events[a][k].state = "dispatching" =>
    /\ k = 2 /\ events[a][k].at >= CreatedAt(a) /\ events[a][k].at < attempt[a].deadline

Claimed == {a \in Attempts : attempt[a] # NoAttempt}

-----------------------------------------------------------------------------
(* Control, admission and claims. *)

Controls == {About(Foreman, r, 0) : r \in DOMAIN controls}

\* _inspect_control_enforcement_connection
ControlFaults ==
  LET differing(table) ==
        {of \in Controls : Differs(table, of, Row(table, of, controls[of[2]].at, of[2] - 1, controls[of[2]].mode))}
  IN  UNION {Coverage(t, Controls) \cup Invalid(t, differing(t)) : t \in {"control_decision", "control_receipt"}}

Admissions == {About(f, 0, 0) : f \in Admitted}

\* _inspect_flow_admission_enforcement_connection
AdmissionFaults ==
  LET broken == {of \in Admissions : ~FlowLineage(of[1])}
      differing(table) ==
        {of \in Admissions : Cardinality(RowsOf(table, of)) = 1 /\ of \in broken}
        \cup {of \in Admissions : Differs(table, of, Row(table, of, stamps[of[1]][1], 1, "queued"))}
  IN  {Fault("source", "admission_decision", of) : of \in broken}
      \cup UNION {Coverage(t, Admissions) \cup Invalid(t, differing(t)) : t \in {"admission_decision", "admission_receipt"}}

Claims == {About(a, 0, 0) : a \in Claimed}

\* The claims need a control history that follows the transition table.
ControlsFollow ==
  \A r \in DOMAIN controls :
    controls[r].mode \in ControlTransitions[IF r = 1 THEN "stopped" ELSE controls[r - 1].mode]

\* (defect) The control revision must be strictly older than the claim.
BrokenClaimSourced(a) ==
  LET of == About(a, 0, 0)
      decision == TheRow("claim_decision", of)
  IN  /\ ControlsFollow /\ FlowLineage(attempt[a].flow) /\ ClaimLineage(a)
      /\ Cardinality(RowsOf("claim_decision", of)) = 1
      /\ decision.n \in DOMAIN controls
      /\ controls[decision.n].mode = "running" /\ controls[decision.n].at < CreatedAt(a)

\* What a claim came from: a RUNNING control revision that is not newer.
ClaimSourced(a) ==
  LET of == About(a, 0, 0)
      decision == TheRow("claim_decision", of)
  IN  /\ ControlsFollow /\ FlowLineage(attempt[a].flow) /\ ClaimLineage(a)
      /\ Cardinality(RowsOf("claim_decision", of)) = 1
      /\ decision.n \in DOMAIN controls
      /\ controls[decision.n].mode = "running" /\ controls[decision.n].at <= CreatedAt(a)

\* _inspect_attempt_claim_enforcement_connection
ClaimFaults ==
  LET unsourced == {of \in Claims : ~ClaimSourced(of[1])}
      expected(of) == TheRow("claim_decision", of).n
      differing(table) ==
        {of \in Claims : Cardinality(RowsOf(table, of)) = 1 /\ of \in unsourced}
        \cup {of \in Claims \ unsourced : Differs(table, of, Row(table, of, CreatedAt(of[1]), expected(of), "created"))}
  IN  {Fault("source", "claim_decision", of) : of \in unsourced}
      \cup UNION {Coverage(t, Claims) \cup Invalid(t, differing(t)) : t \in {"claim_decision", "claim_receipt"}}

\* _inspect_flow_authorization_connection: the shadows of admissions and claims.
FlowShadowFaults ==
  LET expected == Admissions \cup Claims
      row(of) == IF of \in Admissions THEN AdmissionShadow(of[1], stamps[of[1]][1]) ELSE ClaimShadow(of[1], CreatedAt(of[1]))
  IN  Coverage("flow_shadow", expected)
      \cup Invalid("flow_shadow", {of \in expected : Differs("flow_shadow", of, row(of))})

\* _inspect_bookkeeping_authorization_connection: control and cancellations.
BookkeepingFaults ==
  LET controlRow(of) == ControlShadow(of[2], controls[of[2]].mode, controls[of[2]].at)
      cancelled == {About(f, 0, 0) : f \in cancelRequested}
      sourced == {of \in cancelled : RowsOf("cancellation_source", of) # {}}
      source(of) == TheRow("cancellation_source", of).n
      cancelRow(of) == Row("cancellation_shadow", of, requested[of[1]][1], source(of), "requested")
  IN  Coverage("control_shadow", Controls)
      \cup Invalid("control_shadow", {of \in Controls : Differs("control_shadow", of, controlRow(of))})
      \cup Coverage("cancellation_source", cancelled)
      \cup Invalid("cancellation_source", {of \in sourced : source(of) \notin DOMAIN history[of[1]]})
      \cup Coverage("cancellation_shadow", sourced)
      \cup Invalid("cancellation_shadow", {of \in sourced : Differs("cancellation_shadow", of, cancelRow(of))})

-----------------------------------------------------------------------------
(* Dispatch intents and endings. *)

Intended == {About(a, 0, 0) : a \in Dispatched}

IntentSourced(a) == FlowLineage(attempt[a].flow) /\ ClaimLineage(a) /\ IntentLineage(a)

\* _inspect_pre_dispatch_intent_authorization_connection
IntentShadowFaults ==
  LET observed == {of \in Intended : Cardinality(RowsOf("intent_shadow", of)) = 1}
      unsourced == {of \in observed : ~IntentSourced(of[1])}
      row(of) == IntentShadow(of[1], ClaimedRevision(of[1]) + 1, events[of[1]][2].at)
  IN  Coverage("intent_shadow", Intended)
      \cup {Fault("source", "intent_shadow", of) : of \in unsourced}
      \cup Invalid("intent_shadow", {of \in observed \ unsourced : Differs("intent_shadow", of, row(of))})

\* _inspect_pre_dispatch_intent_enforcement_connection
IntentFaults ==
  LET unsourced == {of \in Intended : ~IntentSourced(of[1]) \/ Cardinality(RowsOf("intent_decision", of)) # 1}
      row(table, of) == Row(table, of, events[of[1]][2].at, ClaimedRevision(of[1]) + 1, "dispatching")
      differing(table) ==
        {of \in Intended : Cardinality(RowsOf(table, of)) = 1 /\ of \in unsourced}
        \cup {of \in Intended \ unsourced : Differs(table, of, row(table, of))}
  IN  {Fault("source", "intent_decision", of) : of \in unsourced}
      \cup UNION {Coverage(t, Intended) \cup Invalid(t, differing(t)) : t \in {"intent_decision", "intent_receipt"}}

\* The intent that an outbox row holds.
Held(p) == CHOOSE i \in outbox : i.flow = p.flow /\ i.revision = p.revision

\* _is_attempt_completion_outbox_row and its siblings: who wrote an outbox row
\* shows in the attempt and the operation digest alone.
IsCompletion(p) == Held(p).attempt # NoAttempt /\ Held(p).operation # NoOperation

IsReconciliation(p) == Held(p).attempt # NoAttempt /\ Held(p).operation = NoOperation

IsTimeout(p) ==
  Held(p).attempt = NoAttempt /\ Held(p).operation = NoOperation /\ history[p.flow][p.revision].state = "timed_out"

SourceOf(p) == history[p.flow][p.revision - 1]

TargetOf(p) == history[p.flow][p.revision]

LastEvents(a) == SubSeq(events[a], Len(events[a]) - 1, Len(events[a]))

\* What both mappings of an ending demand of an attempt's last step.
EndsAttempt(p, a) ==
  /\ FlowLineage(p.flow) /\ ClaimLineage(a) /\ Len(events[a]) >= 2
  /\ SourceOf(p).state = "running" /\ SourceOf(p).active = a
  /\ TargetOf(p).active = NoAttempt /\ TargetOf(p).cancel = SourceOf(p).cancel
  /\ LastEvents(a)[2].state = AttemptEnd(TargetOf(p).state)
  /\ LastEvents(a)[2].at = stamps[p.flow][p.revision] /\ p.at = stamps[p.flow][p.revision]
  /\ p.at >= stamps[p.flow][p.revision - 1] /\ p.at >= LastEvents(a)[1].at

\* _attempt_completion_source_from_outbox and _attempt_completion_mapping
CompletionSourced(p) ==
  LET a == Held(p).attempt IN
  /\ EndsAttempt(p, a)
  /\ LastEvents(a)[1].state \in LiveAttemptStates
  /\ p.at < attempt[a].deadline
  /\ SourceOf(p).cancel => TargetOf(p).state = "cancelled"

\* _pre_dispatch_reconciliation_source_from_outbox and its mapping
ReconciliationSourced(p) ==
  LET a == Held(p).attempt IN
  /\ EndsAttempt(p, a)
  /\ LastEvents(a)[1].state = "created"
  /\ TargetOf(p).state = IF SourceOf(p).cancel THEN "cancelled" ELSE "lost"
  /\ p.at >= CreatedAt(a)

\* _queued_timeout_reconciliation_source_from_outbox and its mapping
TimeoutSourced(p) ==
  /\ FlowLineage(p.flow)
  /\ SourceOf(p) = Revision("queued", FALSE, NoAttempt) /\ TargetOf(p) = Revision("timed_out", FALSE, NoAttempt)
  /\ p.at = stamps[p.flow][p.revision] /\ p.at >= stamps[p.flow][p.revision - 1]
  /\ SpecOf[p.flow].deadline # NoDeadline /\ p.at >= SpecOf[p.flow].deadline

\* The inspection of one kind of ending: of the outbox rows of that kind.
EndFaults(table, rows, sourced) ==
  LET about(p) == About(p.flow, p.revision, p.id)
      observed == {p \in rows : Cardinality(RowsOf(table, about(p))) = 1}
      differing == {p \in observed \cap sourced : Differs(table, about(p), EndShadow(table, p, TargetOf(p).state))}
  IN  Coverage(table, {about(p) : p \in rows})
      \cup {Fault("source", table, about(p)) : p \in observed \ sourced}
      \cup Invalid(table, {about(p) : p \in differing})

\* _inspect_attempt_completion_authorization_connection
CompletionFaults ==
  LET rows == {p \in published : IsCompletion(p)} IN
    EndFaults("completion_shadow", rows, {p \in rows : CompletionSourced(p)})

\* _inspect_pre_dispatch_reconciliation_authorization_connection
ReconciliationFaults ==
  LET rows == {p \in published : IsReconciliation(p)} IN
    EndFaults("reconciliation_shadow", rows, {p \in rows : ReconciliationSourced(p)})

\* _inspect_queued_timeout_reconciliation_authorization_connection
TimeoutFaults ==
  LET rows == {p \in published : IsTimeout(p)} IN
    EndFaults("timeout_shadow", rows, {p \in rows : TimeoutSourced(p)})

-----------------------------------------------------------------------------
(* Deliveries and cancellations on the spot. *)

\* _inspect_completion_delivery_integrity: one delivery for each receipt and one
\* receipt for each delivery.
DeliveryFaults ==
  LET settled == {p \in published : ReceiptOf(Held(p)) # {}}
      about(p) == About(p.flow, p.revision, p.id)
      bad == {p \in settled : \/ Cardinality(RowsOf("delivery", about(p))) # 1
                              \/ TheRow("delivery", about(p)).at < p.at}
  IN  {Fault("invalid", "delivery", about(p)) : p \in bad}
      \cup {Fault("unexpected", "delivery", r.of) :
              r \in {e \in evidence : e.table = "delivery" /\ e.of \notin {about(p) : p \in settled}}}

\* _validate_non_running_cancellation_completion
CancelledOnTheSpot(f, n, p) ==
  /\ SourceOf(p).active = NoAttempt /\ ~SourceOf(p).cancel
  /\ TargetOf(p) = Revision("cancelled", TRUE, NoAttempt)
  /\ stamps[f][n + 1] = requested[f][1] /\ requested[f][1] >= stamps[f][n]
  /\ Held(p).attempt = NoAttempt /\ Held(p).operation = NoOperation
  /\ p.at = requested[f][1]

\* _inspect_non_running_cancellation_completion_integrity: a request whose source
\* row is missing has been reported already.
CancellationFaults ==
  LET sourced == {f \in cancelRequested : RowsOf("cancellation_source", About(f, 0, 0)) # {}}
      source(f) == TheRow("cancellation_source", About(f, 0, 0)).n
      onTheSpot == {f \in sourced : history[f][source(f)].state \notin FinalStates \cup {"running"}}
      rows(f) == {p \in published : p.flow = f /\ p.revision = source(f) + 1}
      good(f) == Cardinality(rows(f)) = 1 /\ \A p \in rows(f) : CancelledOnTheSpot(f, source(f), p)
  IN  {Fault("invalid", "outbox", About(f, source(f) + 1, 0)) : f \in {g \in onTheSpot : ~good(g)}}

\* _inspect_supervisor_authorization_connection
AuditFaults ==
  FlowShadowFaults \cup BookkeepingFaults \cup ControlFaults \cup AdmissionFaults \cup ClaimFaults
    \cup IntentShadowFaults \cup IntentFaults \cup CompletionFaults \cup ReconciliationFaults
    \cup TimeoutFaults \cup DeliveryFaults \cup CancellationFaults

-----------------------------------------------------------------------------
(* Safety. *)

\* A cancellation without its source row is reported as such, once.
Reportable ==
  {l \in lapsed : ~(l[1] = "cancellation_shadow" /\ <<"cancellation_source", l[2]>> \in lapsed)}

\* As long as nobody edits the database, the inspection names exactly the
\* shadows that could not be written: no interleaving of the transactions, and
\* no stamp that trails its commit, makes it accuse honest work, and no failure
\* of the best-effort evidence hides.  (_append_... in try blocks, and
\* _inspect_supervisor_authorization_connection.)
AuditIsExact ==
  losses = 0 =>
    AuditFaults = {Fault("missing", l[1], l[2]) : l \in Reportable}

\* A repair of a cancellation's outbox row that carries the request's own stamp
\* restores what disappeared.
RestoredAsItWas == \E p \in published : p.id > 0 /\ requested[p.flow] = <<p.at>>

\* A row that disappeared is noticed for good, unless a shadow had not been
\* written in the first place: the reconciliation that puts an outbox row back
\* cannot make the evidence agree with it again, nor can a second delivery.
\* (_insert_completion_intent under a fresh identifier, and the rules that tell
\* whose outbox row it is.)
DamageIsNoticed == losses > 0 /\ lapsed = {} => AuditFaults # {} \/ RestoredAsItWas

=============================================================================
