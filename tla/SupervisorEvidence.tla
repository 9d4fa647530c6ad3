-------------------------- MODULE SupervisorEvidence --------------------------
(***************************************************************************)
(* The authorization evidence that the supervisor store keeps beside its   *)
(* work (src/ordomata/supervisor.py): which rows every transaction adds,   *)
(* what may be lost afterwards, and what the read-only inspection          *)
(* (_inspect_supervisor_authorization_connection) concludes from the rows  *)
(* that are left.                                                          *)
(*                                                                         *)
(* Decisions and action receipts are part of their transaction: when one   *)
(* cannot be written the transaction does not happen.  Shadow observations *)
(* come after the work and an exception while writing them is swallowed.   *)
(* A shadow that was not written is recorded in lapsed, which no code      *)
(* reads.                                                                  *)
(***************************************************************************)
EXTENDS Supervisor

CONSTANTS
  Foreman,      \* what evidence about the control history is about
  MaxLapses,    \* bound: shadows that fail to be written
  MaxLosses     \* bound: rows that disappear behind the store's back

VARIABLES
  controls,     \* supervisor_control_events: mode, stamp and commit of each revision
  stamps,       \* flow -> occurred_at of each of its revisions
  events,       \* attempt -> its events, each a state and a stamp
  requested,    \* flow -> the stamp of its cancellation request, as <<>> or <<at>>
  published,    \* the outbox rows: which insertion of which intent, with its stamp
  evidence,     \* the rows of all evidence tables and of the delivery events
  lapsed,       \* history: the shadows that were not written
  losses        \* history: how many rows disappeared

sourceVars == <<controls, stamps, events, requested, published>>

evidenceVars == <<sourceVars, evidence, lapsed, losses>>

ASSUME EvidenceAssumption ==
  Foreman \notin Flows \cup Attempts /\ MaxLapses \in Nat /\ MaxLosses \in Nat

-----------------------------------------------------------------------------
(* Rows. *)

\* What a row is about: a control revision, a flow, an attempt or an insertion
\* into the outbox.
About(x, revision, id) == <<x, revision, id>>

\* A row of a table: what it is about, the time it names, the revision that it
\* binds and the state it says was reached.  The digests of the code cover these.
Row(table, of, at, n, state) == [table |-> table, of |-> of, at |-> at, n |-> n, state |-> state]

RowsOf(table, of) == {r \in evidence : r.table = table /\ r.of = of}

\* A transaction writes the rows it owes and tries the shadows in their order;
\* the first that fails ends the attempt, and the transaction commits anyway.
Appends(owed, tried) ==
  \E k \in 0..Len(tried) :
    /\ k = Len(tried) \/ Cardinality(lapsed) < MaxLapses
    /\ evidence' = evidence \cup owed \cup {tried[j] : j \in 1..k}
    /\ lapsed' = lapsed \cup {<<tried[j].table, tried[j].of>> : j \in (k + 1)..Len(tried)}
    /\ UNCHANGED losses

ControlRows(revision, mode, at) ==
  {Row(t, About(Foreman, revision, 0), at, revision - 1, mode) : t \in {"control_decision", "control_receipt"}}

ControlShadow(revision, mode, at) == Row("control_shadow", About(Foreman, revision, 0), at, revision - 1, mode)

AdmissionRows(f, at) ==
  {Row(t, About(f, 0, 0), at, 1, "queued") : t \in {"admission_decision", "admission_receipt"}}

AdmissionShadow(f, at) == Row("flow_shadow", About(f, 0, 0), at, 1, "queued")

ClaimRows(a, revision, at) ==
  {Row(t, About(a, 0, 0), at, revision, "created") : t \in {"claim_decision", "claim_receipt"}}

ClaimShadow(a, at) == Row("flow_shadow", About(a, 0, 0), at, 1, "created")

IntentRows(a, source, at) ==
  {Row(t, About(a, 0, 0), at, source, "dispatching") : t \in {"intent_decision", "intent_receipt"}}

IntentShadow(a, source, at) == Row("intent_shadow", About(a, 0, 0), at, source, "dispatching")

\* The source row goes first; it alone remembers which revision was current.
CancellationShadows(f, source, at) ==
  <<Row("cancellation_source", About(f, 0, 0), 0, source, "requested"),
    Row("cancellation_shadow", About(f, 0, 0), at, source, "requested")>>

\* The shadow of an ending, about one insertion into the outbox.
EndShadow(table, p, state) == Row(table, About(p.flow, p.revision, p.id), p.at, p.revision - 1, state)

-----------------------------------------------------------------------------
(* What the transactions add. *)

\* An outbox row: id tells a repaired row from the one that disappeared.
Insertion(f, revision, at) ==
  [flow |-> f, revision |-> revision, at |-> at, commit |-> now, id |-> losses]

Extended(ended, at) == [f \in Flows |-> IF f \in ended THEN Append(stamps[f], at) ELSE stamps[f]]

\* update_control
EvidentUpdateControl(expected, mode, ts) ==
  /\ UpdateControl(expected, mode)
  /\ Len(controls) > 0 => ts >= controls[Len(controls)].commit
  /\ controls' = Append(controls, [mode |-> mode, at |-> ts, commit |-> now])
  /\ Appends(ControlRows(expected + 1, mode, ts), <<ControlShadow(expected + 1, mode, ts)>>)
  /\ UNCHANGED <<stamps, events, requested, published>>

\* admit_flow
EvidentAdmitFlow(f, ts) ==
  /\ AdmitFlow(f, ts)
  /\ stamps' = Extended({f}, ts)
  /\ Appends(AdmissionRows(f, ts), <<AdmissionShadow(f, ts)>>)
  /\ UNCHANGED <<controls, events, requested, published>>

\* try_claim_next: the scheduler names a control revision that it has read.
EvidentClaim(i, a, ts) ==
  /\ TryClaimNext(i, a, ts)
  /\ ts >= controls[Len(controls)].commit
  /\ stamps' = Extended({attempt'[a].flow}, ts)
  /\ events' = [events EXCEPT ![a] = <<[state |-> "created", at |-> ts]>>]
  /\ Appends(ClaimRows(a, control.revision, ts), <<ClaimShadow(a, ts)>>)
  /\ UNCHANGED <<controls, requested, published>>

\* mark_attempt_dispatching
EvidentDispatch(a, ts) ==
  /\ MarkDispatching(a, ts)
  /\ events' = [events EXCEPT ![a] = Append(@, [state |-> "dispatching", at |-> ts])]
  /\ LET source == Len(history[attempt[a].flow]) IN
       Appends(IntentRows(a, source, ts), <<IntentShadow(a, source, ts)>>)
  /\ UNCHANGED <<controls, stamps, requested, published>>

\* request_cancellation
EvidentCancel(f, ts) ==
  /\ RequestCancellation(f, ts)
  /\ stamps' = IF history' = history THEN stamps ELSE Extended({f}, ts)
  /\ requested' = [requested EXCEPT ![f] = <<ts>>]
  /\ published' = IF outbox' = outbox THEN published
                  ELSE published \cup {Insertion(f, Len(history'[f]), ts)}
  /\ Appends({}, CancellationShadows(f, Len(history[f]), ts))
  /\ UNCHANGED <<controls, events>>

\* complete_attempt: its shadow is refused when the dispatch intent carries a
\* later stamp than the completion, and the transaction commits without it.
EvidentComplete(a, outcome, ts) ==
  LET f == attempt[a].flow
      row == Insertion(f, Len(history[f]) + 1, ts)
      shadow == EndShadow("completion_shadow", row, SelectedOutcome(f, outcome))
  IN  /\ CompleteAttempt(a, outcome, ts, FALSE)
      /\ stamps' = Extended({f}, ts)
      /\ events' = [events EXCEPT ![a] = Append(@, [state |-> attemptState'[a], at |-> ts])]
      /\ published' = published \cup {row}
      /\ IF ts < events[a][Len(events[a])].at
           THEN /\ lapsed' = lapsed \cup {<<shadow.table, shadow.of>>}
                /\ UNCHANGED <<evidence, losses>>
           ELSE Appends({}, <<shadow>>)
      /\ UNCHANGED <<controls, requested>>

\* acknowledge_completion: a consumer has read the outbox row.
EvidentAcknowledge(i, c, ts) ==
  /\ AcknowledgeCompletion(i, c)
  /\ \E p \in published :
       /\ p.flow = i.flow /\ p.revision = i.revision /\ ts >= p.commit
       /\ LET of == About(p.flow, p.revision, p.id) IN
            evidence' = evidence \cup {Row("delivery", of, ts, Cardinality(RowsOf("delivery", of)), i.state)}
  /\ UNCHANGED <<sourceVars, lapsed, losses>>

EvidentPreview(o, ts) == PreviewReconciliation(o, ts) /\ UNCHANGED evidenceVars

\* The shadow of a repair that ends a flow.
RepairShadow(findings, f, row) ==
  EndShadow(IF f \in Flagged(findings, "mark_queued_timed_out") THEN "timeout_shadow" ELSE "reconciliation_shadow",
            row, RepairedState(findings, f))

\* apply_reconciliation: a repaired outbox row gets no shadow.
EvidentReconcile(o, ts) ==
  LET findings == Audit(ts)
      ended    == EndedFlows(findings)
      repaired == Flagged(findings, "repair_completion_outbox")
      rows     == [f \in ended |-> Insertion(f, Len(history[f]) + 1, ts)]
      shadows  == {RepairShadow(findings, f, rows[f]) : f \in ended}
  IN  /\ ApplyReconciliation(o, ts)
      /\ stamps' = Extended(ended, ts)
      /\ events' = [a \in Attempts |->
           IF attemptState'[a] # attemptState[a]
             THEN Append(events[a], [state |-> attemptState'[a], at |-> ts]) ELSE events[a]]
      /\ published' = published \cup {rows[f] : f \in ended}
           \cup {Insertion(f, Len(history[f]), ts) : f \in repaired}
      /\ \E failed \in SUBSET shadows :
           /\ failed # {} => Cardinality(lapsed) < MaxLapses
           /\ evidence' = evidence \cup (shadows \ failed)
           /\ lapsed' = lapsed \cup {<<s.table, s.of>> : s \in failed}
      /\ UNCHANGED <<controls, requested, losses>>

-----------------------------------------------------------------------------
(* What may go missing.  Whoever edits the database file can remove rows; the *)
(* rows that the store works from stay.                                       *)

Disappears ==
  /\ losses < MaxLosses
  /\ losses' = losses + 1
  /\ UNCHANGED <<now, control, foreground, flowVars, claimVars, plan, replies, controls, stamps, events,
                 requested, lapsed>>

LoseEvidence(r) ==
  /\ Disappears
  /\ evidence' = evidence \ {r}
  /\ UNCHANGED <<outbox, receipts, published>>

LoseReceipt(r) ==
  /\ Disappears
  /\ receipts' = receipts \ {r}
  /\ UNCHANGED <<outbox, published, evidence>>

\* An outbox row that nothing was delivered for.
LoseIntent(i, p) ==
  /\ p.flow = i.flow /\ p.revision = i.revision
  /\ ReceiptOf(i) = {} /\ RowsOf("delivery", About(p.flow, p.revision, p.id)) = {}
  /\ Disappears
  /\ outbox' = outbox \ {i}
  /\ published' = published \ {p}
  /\ UNCHANGED <<receipts, evidence>>

=============================================================================
