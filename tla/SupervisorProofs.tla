-------------------------- MODULE SupervisorProofs --------------------------
(***************************************************************************)
(* Theorems about the supervisor store, for every set of flows, attempts,  *)
(* processes and operators, every flow specification, lag and bound: its   *)
(* types, the claims of its attempts, what its tables say of the work; and  *)
(* about the foreground loop that works on it.                             *)
(***************************************************************************)
EXTENDS ForegroundSupervisor, TLAPS

-----------------------------------------------------------------------------
(* Types.  Two facts make TypeOK inductive: a replay and an outbox repair   *)
(* read rows of the history by number, so those rows must exist.            *)

\* Every history opens with the admission.
AdmissionFirst ==
  \A f \in Flows : history[f] # <<>> => history[f][1].state = "queued"

\* Every intent names a revision of its flow, past the admission.
IntentsInHistory ==
  \A i \in outbox : i.revision \in 2..Len(history[i.flow])

TypeInv == TypeOK /\ AdmissionFirst /\ IntentsInHistory

\* A stamp is a time.
LEMMA StampType == ASSUME TypeOK, NEW ts \in Stamps PROVE ts \in Nat
  BY DEF TypeOK, Stamps

\* The head of an admitted flow is a row of its history.
LEMMA CurrentType ==
  ASSUME TypeOK, NEW f \in Admitted
  PROVE  /\ f \in Flows
         /\ Len(history[f]) \in Nat \ {0}
         /\ Current(f) \in Revisions
  BY DEF TypeOK, Admitted, Current

\* A sequence that is neither empty nor a singleton has a last but one element.
LEMMA LastButOne ==
  ASSUME NEW S, NEW s \in Seq(S), s # <<>>, Len(s) # 1
  PROVE  Len(s) >= 2 /\ s[Len(s) - 1] \in S
<1>1. PICK n \in Nat : n = Len(s)
  OBVIOUS
<1>2. n # 0 /\ n # 1
  BY <1>1
<1>3. n >= 2 /\ n - 1 \in 1..n
  BY <1>2
<1>4. QED
  BY <1>1, <1>3

\* A flow that has left the queue has a revision before its head.
LEMMA PastAdmission ==
  ASSUME TypeInv, NEW f \in Flows, InState(f, FlowStates \ {"queued"})
  PROVE  /\ Len(history[f]) >= 2
         /\ history[f][Len(history[f]) - 1] \in Revisions
<1>1. history[f] # <<>> /\ Current(f).state # "queued"
  BY DEF InState, Admitted
<1>2. history[f] \in Seq(Revisions)
  BY DEF TypeInv, TypeOK
<1>3. Len(history[f]) # 1
  BY <1>1 DEF TypeInv, AdmissionFirst, Current
<1>4. QED
  BY <1>1, <1>2, <1>3, LastButOne

\* What one more row does to the history.
LEMMA AppendedHistory ==
  ASSUME TypeInv, NEW f \in Flows, NEW r \in Revisions, NEW ts \in Nat,
         AppendRevision(f, r, ts), history[f] = <<>> => r.state = "queued"
  PROVE  /\ history' \in [Flows -> Seq(Revisions)]
         /\ revisedAt' \in [Flows -> Nat]
         /\ committedAt' \in [Flows -> Nat]
         /\ AdmissionFirst'
         /\ \A g \in Flows : Len(history'[g]) \in Nat /\ Len(history'[g]) >= Len(history[g])
         /\ Len(history'[f]) = Len(history[f]) + 1
<1>1. /\ history' \in [Flows -> Seq(Revisions)]
      /\ revisedAt' \in [Flows -> Nat]
      /\ committedAt' \in [Flows -> Nat]
  BY DEF TypeInv, TypeOK, AppendRevision
<1>2. AdmissionFirst'
  BY DEF TypeInv, TypeOK, AdmissionFirst, AppendRevision
<1>3. \A g \in Flows : Len(history'[g]) \in Nat /\ Len(history'[g]) >= Len(history[g])
  BY DEF TypeInv, TypeOK, AppendRevision
<1>4. Len(history'[f]) = Len(history[f]) + 1
  BY DEF TypeInv, TypeOK, AppendRevision
<1>5. QED
  BY <1>1, <1>2, <1>3, <1>4

\* The findings that call for an ending name admitted flows, and those that
\* call for an outbox repair name flows that ended.
LEMMA FindingsType ==
  ASSUME TypeInv, NEW ts \in Nat
  PROVE  /\ Audit(ts) \in SUBSET Findings
         /\ EndedFlows(Audit(ts)) \subseteq {f \in Flows : InState(f, {"queued", "running"})}
         /\ Flagged(Audit(ts), "repair_completion_outbox")
              \subseteq {f \in Flows : InState(f, FinalStates)}
<1>1. \A f \in Admitted : /\ f \in Flows
                          /\ Len(history[f]) \in Nat
                          /\ Current(f).active \in Attempts \cup {NoAttempt}
  BY CurrentType DEF TypeInv, Revisions
<1>2. QueuedPastDeadline(ts) \in SUBSET Findings
  BY <1>1 DEF QueuedPastDeadline, Finding, Findings, FindingKinds, EndingActions, InState
<1>3. MissingAttempts \in SUBSET Findings
  BY <1>1 DEF MissingAttempts, RunningFlows, Finding, Findings, FindingKinds, EndingActions, InState
<1>4. ExpiredClaims(ts) \in SUBSET Findings
  <2>1. SUFFICES ASSUME NEW x \in ExpiredClaims(ts) PROVE x \in Findings
    OBVIOUS
  <2>2. PICK f \in LapsedFlows(ts) :
          x = Finding("expired_pre_dispatch_claim", f, Current(f).active, Len(history[f]),
                      IF Current(f).cancel THEN "finalize_cancelled_pre_dispatch"
                                           ELSE "mark_lost_pre_dispatch")
    BY DEF ExpiredClaims
  <2>3. f \in Admitted
    BY DEF LapsedFlows, RunningFlows, InState
  <2>4. QED BY <1>1, <2>2, <2>3 DEF Finding, Findings, FindingKinds, EndingActions
<1>5. AmbiguousAttempts(ts) \in SUBSET Findings
  BY <1>1 DEF AmbiguousAttempts, LapsedFlows, RunningFlows, Finding, Findings, FindingKinds, EndingActions, InState
<1>6. UnpublishedFlows \in SUBSET Findings
  BY <1>1 DEF UnpublishedFlows, Finding, Findings, FindingKinds, EndingActions, InState
<1>7. OrphanLeases \in SUBSET Findings
  <2>1. \A a \in Attempts : attempt[a] # NoAttempt =>
          attempt[a].flow \in Flows /\ Len(history[attempt[a].flow]) \in Nat
    BY DEF TypeInv, TypeOK
  <2>2. QED BY <2>1 DEF OrphanLeases, Finding, Findings, FindingKinds, EndingActions
<1>8. UndeliveredCompletions \in SUBSET Findings
  BY DEF UndeliveredCompletions, Finding, Findings, FindingKinds, EndingActions, TypeInv,
         TypeOK, Intents
<1>9. Audit(ts) \in SUBSET Findings
  BY <1>2, <1>3, <1>4, <1>5, <1>6, <1>7, <1>8 DEF Audit
<1>10. ASSUME NEW x \in Audit(ts), x.action \in EndingActions
       PROVE  x.flow \in Flows /\ InState(x.flow, {"queued", "running"})
  <2>1. x \in QueuedPastDeadline(ts) \cup ExpiredClaims(ts)
    BY <1>10 DEF Audit, EndingActions, MissingAttempts, AmbiguousAttempts,
                 UnpublishedFlows, OrphanLeases, UndeliveredCompletions, Finding
  <2>2. CASE x \in QueuedPastDeadline(ts)
    BY <2>2 DEF QueuedPastDeadline, Finding, InState
  <2>3. CASE x \in ExpiredClaims(ts)
    BY <2>3 DEF ExpiredClaims, LapsedFlows, RunningFlows, Finding, InState
  <2>4. QED BY <2>1, <2>2, <2>3
<1>11. ASSUME NEW x \in Audit(ts), x.action = "repair_completion_outbox"
       PROVE  x.flow \in Flows /\ InState(x.flow, FinalStates)
  <2>1. x \in UnpublishedFlows
    BY <1>11 DEF Audit, QueuedPastDeadline, ExpiredClaims, MissingAttempts,
                 AmbiguousAttempts, OrphanLeases, UndeliveredCompletions, Finding
  <2>2. QED BY <2>1 DEF UnpublishedFlows, Finding
<1>12. QED
  BY <1>9, <1>10, <1>11 DEF EndedFlows, Flagged

\* A revision of an existing flow keeps the type invariant, whatever typed
\* intents that name it or an older one are added to the outbox.
LEMMA RevisionStep ==
  ASSUME TypeInv, NEW f \in Admitted, NEW r \in Revisions, NEW ts \in Nat,
         AppendRevision(f, r, ts),
         outbox' \in SUBSET Intents,
         \A i \in outbox' \ outbox : i.flow = f /\ i.revision = Len(history[f]) + 1
  PROVE  /\ history' \in [Flows -> Seq(Revisions)]
         /\ revisedAt' \in [Flows -> Nat]
         /\ committedAt' \in [Flows -> Nat]
         /\ AdmissionFirst'
         /\ IntentsInHistory'
<1>1. f \in Flows /\ history[f] # <<>>
  BY DEF Admitted
<1>2. PICK n \in Nat : n = Len(history[f]) /\ n > 0
  BY CurrentType DEF TypeInv
<1>3. \A g \in Flows : Len(history[g]) \in Nat
  BY DEF TypeInv, TypeOK
<1>4. \A i \in outbox' : i.revision \in 2..Len(history'[i.flow])
  <2>1. SUFFICES ASSUME NEW i \in outbox' PROVE i.revision \in 2..Len(history'[i.flow])
    OBVIOUS
  <2>2. i.flow \in Flows /\ i.revision \in Nat
    BY DEF Intents
  <2>3. CASE i \in outbox
    BY <1>1, <1>3, <2>2, <2>3, AppendedHistory DEF TypeInv, IntentsInHistory
  <2>4. CASE i \notin outbox
    BY <1>1, <1>2, <2>2, <2>4, AppendedHistory
  <2>5. QED BY <2>3, <2>4
<1>5. QED
  BY <1>1, <1>4, AppendedHistory DEF IntentsInHistory

\* The rows that Released leaves are the rows there were.
LEMMA ReleasedType ==
  ASSUME TypeOK, NEW ended PROVE Released(ended) \in [Keys -> LeaseRows \cup {NoLease}]
  BY DEF TypeOK, Released

\* Publishing adds the intent, or nothing.
LEMMA PublishedType ==
  ASSUME TypeOK, NEW intent \in Intents
  PROVE  /\ Published(intent) \in SUBSET Intents
         /\ \A i \in Published(intent) \ outbox : i = intent
  BY DEF TypeOK, Published

\* What an attempt reports and what its flow then is are flow states, and the
\* matching attempt state is an ending.
LEMMA OutcomeType ==
  ASSUME NEW outcome \in Outcomes, NEW f \in Flows
  PROVE  /\ SelectedOutcome(f, outcome) \in ReportableOutcomes
         /\ SelectedOutcome(f, outcome) \in FlowStates
         /\ AttemptEnd(SelectedOutcome(f, outcome)) \in EndedAttemptStates
  BY ParameterAssumption
     DEF SelectedOutcome, ReportableOutcomes, FlowStates, AttemptEnd, EndedAttemptStates

-----------------------------------------------------------------------------
(* Every step keeps the type invariant. *)

LEMMA TypeInit == Init => TypeInv
  BY DEF Init, TypeInv, TypeOK, AdmissionFirst, IntentsInHistory, Modes, FlowStates

LEMMA AdmitFlowType ==
  ASSUME TypeInv, NEW f \in Flows, NEW ts \in Stamps, AdmitFlow(f, ts)
  PROVE  TypeInv'
<1>1. Revision("queued", FALSE, NoAttempt) \in Revisions
  BY DEF Revision, Revisions, FlowStates
<1>2. ts \in Nat /\ AppendRevision(f, Revision("queued", FALSE, NoAttempt), ts)
  BY StampType DEF TypeInv, AdmitFlow
<1>3. Revision("queued", FALSE, NoAttempt).state = "queued"
  BY DEF Revision
<1>4. /\ history' \in [Flows -> Seq(Revisions)]
      /\ revisedAt' \in [Flows -> Nat]
      /\ committedAt' \in [Flows -> Nat]
      /\ AdmissionFirst'
      /\ \A g \in Flows : Len(history'[g]) \in Nat /\ Len(history'[g]) >= Len(history[g])
  BY <1>1, <1>2, <1>3, AppendedHistory
<1>5. IntentsInHistory'
  <2>1. outbox' = outbox /\ outbox \in SUBSET Intents
    BY DEF AdmitFlow, TypeInv, TypeOK
  <2>2. SUFFICES ASSUME NEW x \in outbox PROVE x.revision \in 2..Len(history'[x.flow])
    BY <2>1 DEF IntentsInHistory
  <2>3. x.flow \in Flows /\ x.revision \in Nat /\ Len(history[x.flow]) \in Nat
    BY <2>1 DEF TypeInv, TypeOK, Intents
  <2>4. QED BY <1>4, <2>3 DEF TypeInv, IntentsInHistory
<1>6. TypeOK'
  BY <1>4 DEF AdmitFlow, TypeInv, TypeOK, claimVars, sideVars
<1>7. QED BY <1>4, <1>5, <1>6 DEF TypeInv

\* An attempt's deadline and the expiry of its first lease are times.
LEMMA HardDeadlineType ==
  ASSUME TypeInv, NEW f \in Flows, NEW ts \in Stamps
  PROVE  HardDeadline(f, ts) \in Nat /\ LeaseExpiry(f, ts) \in Nat
<1>1. ts \in Nat
  BY StampType DEF TypeInv
<1>2. SpecOf[f].timeout \in Nat /\ SpecOf[f].deadline \in Nat \cup {NoDeadline}
  BY FlowSpecAssumption DEF FlowSpecs
<1>3. HardDeadline(f, ts) \in Nat
  BY <1>1, <1>2 DEF HardDeadline, Lesser
<1>4. QED BY <1>1, <1>3, ParameterAssumption DEF LeaseExpiry, Lesser

LEMMA TryClaimNextType ==
  ASSUME TypeInv, NEW i \in Instances, NEW a \in Attempts, NEW ts \in Stamps,
         TryClaimNext(i, a, ts)
  PROVE  TypeInv'
<1>1. PICK f \in Eligible(ts) :
        /\ leases' = [k \in Keys |->
             IF k \in KeysOf(f)
               THEN [owner |-> a, renewed |-> ts, expires |-> LeaseExpiry(f, ts)]
               ELSE leases[k]]
        /\ attempt' = [attempt EXCEPT ![a] = [flow |-> f, deadline |-> HardDeadline(f, ts)]]
        /\ attemptState' = [attemptState EXCEPT ![a] = "created"]
        /\ promised' = [promised EXCEPT ![a] = LeaseExpiry(f, ts)]
        /\ AppendRevision(f, Revision("running", FALSE, a), ts)
  BY DEF TryClaimNext
<1>2. f \in Admitted /\ f \in Flows
  BY DEF Eligible, Claimable, InState
<1>3. ts \in Nat
  BY StampType DEF TypeInv
<1>4. HardDeadline(f, ts) \in Nat /\ LeaseExpiry(f, ts) \in Nat
  BY <1>2, HardDeadlineType
<1>5. Revision("running", FALSE, a) \in Revisions
  BY DEF Revision, Revisions, FlowStates
<1>6. outbox' = outbox /\ outbox' \in SUBSET Intents
  BY DEF TryClaimNext, TypeInv, TypeOK
<1>7. /\ history' \in [Flows -> Seq(Revisions)]
      /\ revisedAt' \in [Flows -> Nat]
      /\ committedAt' \in [Flows -> Nat]
      /\ AdmissionFirst'
      /\ IntentsInHistory'
  BY <1>1, <1>2, <1>3, <1>5, <1>6, RevisionStep
<1>8. leases' \in [Keys -> LeaseRows \cup {NoLease}]
  BY <1>1, <1>3, <1>4 DEF TypeInv, TypeOK, LeaseRows
<1>9. /\ attempt' \in [Attempts -> [flow : Flows, deadline : Nat] \cup {NoAttempt}]
      /\ promised' \in [Attempts -> Nat]
  BY <1>1, <1>2, <1>4 DEF TypeInv, TypeOK
<1>10. attemptState' \in
         [Attempts -> {"unclaimed"} \cup LiveAttemptStates \cup EndedAttemptStates]
  BY <1>1 DEF TypeInv, TypeOK, LiveAttemptStates
<1>11. TypeOK'
  BY <1>6, <1>7, <1>8, <1>9, <1>10 DEF TryClaimNext, TypeInv, TypeOK, sideVars
<1>12. QED BY <1>7, <1>11 DEF TypeInv

LEMMA MarkDispatchingType ==
  ASSUME TypeInv, NEW a \in Attempts, NEW ts \in Stamps, MarkDispatching(a, ts)
  PROVE  TypeInv'
<1>1. attemptState' \in
        [Attempts -> {"unclaimed"} \cup LiveAttemptStates \cup EndedAttemptStates]
  BY DEF MarkDispatching, TypeInv, TypeOK, LiveAttemptStates
<1>2. QED
  BY <1>1 DEF MarkDispatching, TypeInv, TypeOK, AdmissionFirst, IntentsInHistory,
              flowVars, sideVars

LEMMA RenewClaimType ==
  ASSUME TypeInv, NEW a \in Attempts, NEW ts \in Stamps, RenewClaim(a, ts)
  PROVE  TypeInv'
<1> DEFINE expiry == Lesser(ts + ClaimTTL, attempt[a].deadline)
<1>1. attempt[a] \in [flow : Flows, deadline : Nat] /\ ts \in Nat
  BY StampType DEF RenewClaim, PermitsWork, IsActive, TypeInv, TypeOK
<1>2. expiry \in Nat
  BY <1>1, ParameterAssumption DEF Lesser
<1>3. \A k \in KeysOf(attempt[a].flow) : leases[k] # NoLease
  BY DEF RenewClaim, ClaimHeld
<1>4. leases' = [k \in Keys |->
        IF k \in KeysOf(attempt[a].flow)
          THEN [leases[k] EXCEPT !.renewed = ts, !.expires = expiry]
          ELSE leases[k]]
  BY DEF RenewClaim
<1>5. leases' \in [Keys -> LeaseRows \cup {NoLease}]
  <2> HIDE DEF expiry
  <2>1. SUFFICES ASSUME NEW k \in Keys PROVE leases'[k] \in LeaseRows \cup {NoLease}
    BY <1>4
  <2>2. leases[k] \in LeaseRows \cup {NoLease}
    BY DEF TypeInv, TypeOK
  <2>3. CASE k \in KeysOf(attempt[a].flow)
    BY <1>1, <1>2, <1>3, <1>4, <2>2, <2>3 DEF LeaseRows
  <2>4. CASE k \notin KeysOf(attempt[a].flow)
    BY <1>4, <2>2, <2>4
  <2>5. QED BY <2>3, <2>4
<1>6. promised' \in [Attempts -> Nat]
  <2>1. promised' = [promised EXCEPT ![a] = IF expiry > @ THEN expiry ELSE @]
    BY DEF RenewClaim
  <2> HIDE DEF expiry
  <2>2. QED BY <1>2, <2>1 DEF TypeInv, TypeOK
<1>7. QED
  BY <1>5, <1>6 DEF RenewClaim, TypeInv, TypeOK, AdmissionFirst, IntentsInHistory,
                    flowVars, sideVars

LEMMA RequestCancellationType ==
  ASSUME TypeInv, NEW f \in Flows, NEW ts \in Stamps, RequestCancellation(f, ts)
  PROVE  TypeInv'
<1>1. /\ f \in Admitted /\ ts \in Nat
      /\ Current(f) \in Revisions /\ Len(history[f]) \in Nat
  BY StampType, CurrentType DEF TypeInv, RequestCancellation
<1>2. /\ UNCHANGED <<now, control, foreground, claimVars, sideVars>>
      /\ cancelRequested' \in SUBSET Flows
  BY DEF RequestCancellation, TypeInv, TypeOK
<1>3. SUFFICES /\ history' \in [Flows -> Seq(Revisions)]
               /\ revisedAt' \in [Flows -> Nat]
               /\ committedAt' \in [Flows -> Nat]
               /\ outbox' \in SUBSET Intents
               /\ AdmissionFirst' /\ IntentsInHistory'
  BY <1>2 DEF TypeInv, TypeOK, claimVars, sideVars
<1>4. CASE CancelFinal(f)
  BY <1>4 DEF CancelFinal, TypeInv, TypeOK, AdmissionFirst, IntentsInHistory
<1>5. CASE CancelRunning(f, ts)
  <2>1. Revision("running", TRUE, Current(f).active) \in Revisions
    BY <1>1 DEF Revision, Revisions, FlowStates
  <2>2. outbox' = outbox /\ outbox' \in SUBSET Intents
    BY <1>5 DEF CancelRunning, TypeInv, TypeOK
  <2>3. QED BY <1>1, <1>5, <2>1, <2>2, RevisionStep DEF CancelRunning
<1>6. CASE CancelIdle(f, ts)
  <2>1. Revision("cancelled", TRUE, NoAttempt) \in Revisions
    BY DEF Revision, Revisions, FlowStates
  <2>2. outbox' = Published(
          Intent(f, Len(history[f]) + 1, "cancelled", NoAttempt, NoOperation))
    BY <1>6 DEF CancelIdle
  <2>3. Intent(f, Len(history[f]) + 1, "cancelled", NoAttempt, NoOperation) \in Intents
    BY <1>1 DEF Intent, Intents, FlowStates
  <2>4. /\ outbox' \in SUBSET Intents
        /\ \A i \in outbox' \ outbox : i.flow = f /\ i.revision = Len(history[f]) + 1
    BY <2>2, <2>3, PublishedType DEF TypeInv, Intent
  <2>5. QED BY <1>1, <1>6, <2>1, <2>4, RevisionStep DEF CancelIdle
<1>7. QED BY <1>4, <1>5, <1>6 DEF RequestCancellation

LEMMA CompleteAttemptType ==
  ASSUME TypeInv, NEW a \in Attempts, NEW outcome \in Outcomes, NEW ts \in Stamps,
         NEW answered \in BOOLEAN, CompleteAttempt(a, outcome, ts, answered)
  PROVE  TypeInv'
<1> DEFINE
  f == attempt[a].flow
  n == Len(history[f])
  selected == SelectedOutcome(f, outcome)
<1>1. f \in Admitted /\ f \in Flows
  BY DEF CompleteAttempt, IsActive, InState, Admitted
<1>2. ts \in Nat /\ Current(f) \in Revisions /\ n \in Nat
  BY <1>1, StampType, CurrentType DEF TypeInv
<1>3. /\ selected \in FlowStates
      /\ AttemptEnd(selected) \in EndedAttemptStates
  BY <1>1, OutcomeType
<1>4. /\ AppendRevision(f, EndRevision(f, selected), ts)
      /\ attemptState' = [attemptState EXCEPT ![a] = AttemptEnd(selected)]
      /\ outbox' = Published(Intent(f, n + 1, selected, a, Operation(n, outcome)))
      /\ IF answered THEN Reply(a, n + 1, selected) ELSE UNCHANGED replies
      /\ leases' = Released({a})
      /\ UNCHANGED <<now, control, foreground, cancelRequested, attempt, promised,
                     receipts, plan>>
  BY DEF CompleteAttempt
<1> HIDE DEF f, n, selected
<1>5. EndRevision(f, selected) \in Revisions
  BY <1>2, <1>3 DEF EndRevision, Revision, Revisions
<1>6. /\ outbox' \in SUBSET Intents
      /\ \A i \in outbox' \ outbox : i.flow = f /\ i.revision = n + 1
  <2>1. Intent(f, n + 1, selected, a, Operation(n, outcome)) \in Intents
    BY <1>1, <1>2, <1>3 DEF Operation, Operations, Intent, Intents
  <2>2. QED BY <1>4, <2>1, PublishedType DEF TypeInv, Intent
<1>7. /\ history' \in [Flows -> Seq(Revisions)]
      /\ revisedAt' \in [Flows -> Nat]
      /\ committedAt' \in [Flows -> Nat]
      /\ AdmissionFirst' /\ IntentsInHistory'
  BY <1>1, <1>2, <1>4, <1>5, <1>6, RevisionStep DEF n
<1>8. leases' \in [Keys -> LeaseRows \cup {NoLease}]
  BY <1>4, ReleasedType DEF TypeInv
<1>9. attemptState' \in
        [Attempts -> {"unclaimed"} \cup LiveAttemptStates \cup EndedAttemptStates]
  BY <1>3, <1>4 DEF TypeInv, TypeOK
<1>10. replies' \in [Attempts -> SUBSET [revision : Nat, state : FlowStates]]
  <2>1. [revision |-> n + 1, state |-> selected] \in [revision : Nat, state : FlowStates]
    BY <1>2, <1>3
  <2>2. replies \in [Attempts -> SUBSET [revision : Nat, state : FlowStates]]
    BY DEF TypeInv, TypeOK
  <2>3. \/ replies' = replies
        \/ replies' = [replies EXCEPT ![a] = @ \cup {[revision |-> n + 1, state |-> selected]}]
    BY <1>4 DEF Reply
  <2>4. QED BY <2>1, <2>2, <2>3
<1>11. QED
  BY <1>4, <1>6, <1>7, <1>8, <1>9, <1>10 DEF TypeInv, TypeOK

LEMMA ReplayCompletionType ==
  ASSUME TypeInv, NEW a \in Attempts, NEW expected, NEW outcome,
         ReplayCompletion(a, expected, outcome)
  PROVE  TypeInv'
<1>1. PICK i \in outbox : Reply(a, i.revision, ReplayedState(i))
  BY DEF ReplayCompletion
<1>2. i.flow \in Flows /\ i.revision \in Nat /\ i.revision \in 2..Len(history[i.flow])
  BY DEF TypeInv, TypeOK, Intents, IntentsInHistory
<1>3. history[i.flow] \in Seq(Revisions)
  BY <1>2 DEF TypeInv, TypeOK
<1>4. history[i.flow][i.revision] \in Revisions
  BY <1>2, <1>3
<1>5. [revision |-> i.revision, state |-> ReplayedState(i)]
        \in [revision : Nat, state : FlowStates]
  BY <1>2, <1>4 DEF ReplayedState, Revisions
<1>6. replies' \in [Attempts -> SUBSET [revision : Nat, state : FlowStates]]
  BY <1>1, <1>5 DEF Reply, TypeInv, TypeOK
<1>7. QED
  BY <1>6 DEF ReplayCompletion, TypeInv, TypeOK, AdmissionFirst, IntentsInHistory,
              flowVars, claimVars

LEMMA AcknowledgeCompletionType ==
  ASSUME TypeInv, NEW i \in outbox, NEW c \in Consumers, AcknowledgeCompletion(i, c)
  PROVE  TypeInv'
<1>1. i.flow \in Flows /\ i.revision \in Nat
  BY DEF TypeInv, TypeOK, Intents
<1>2. receipts' \in SUBSET [flow : Flows, revision : Nat, consumer : Consumers]
  BY <1>1 DEF AcknowledgeCompletion, TypeInv, TypeOK
<1>3. QED
  BY <1>2 DEF AcknowledgeCompletion, TypeInv, TypeOK, AdmissionFirst, IntentsInHistory,
              flowVars, claimVars

LEMMA PreviewReconciliationType ==
  ASSUME TypeInv, NEW o \in Operators, NEW ts \in Stamps, PreviewReconciliation(o, ts)
  PROVE  TypeInv'
<1>1. Audit(ts) \in SUBSET Findings
  BY StampType, FindingsType DEF TypeInv
<1>2. plan' \in [Operators -> (SUBSET Findings) \cup {NoPlan}]
  BY <1>1 DEF PreviewReconciliation, TypeInv, TypeOK
<1>3. QED
  BY <1>2 DEF PreviewReconciliation, TypeInv, TypeOK, AdmissionFirst, IntentsInHistory,
              flowVars, claimVars

LEMMA ApplyReconciliationType ==
  ASSUME TypeInv, NEW o \in Operators, NEW ts \in Stamps, ApplyReconciliation(o, ts)
  PROVE  TypeInv'
<1> DEFINE
  findings  == Audit(ts)
  cancelled == FlaggedAttempts(findings, "finalize_cancelled_pre_dispatch")
  lost      == FlaggedAttempts(findings, "mark_lost_pre_dispatch")
  orphaned  == FlaggedAttempts(findings, "release_orphan_attempt_leases")
  ended     == EndedFlows(findings)
  repaired  == Flagged(findings, "repair_completion_outbox")
<1>1. /\ history' = [f \in Flows |->
           IF f \in ended
             THEN Append(history[f], EndRevision(f, RepairedState(findings, f)))
             ELSE history[f]]
      /\ revisedAt' = [f \in Flows |-> IF f \in ended THEN ts ELSE revisedAt[f]]
      /\ committedAt' = [f \in Flows |-> IF f \in ended THEN now ELSE committedAt[f]]
      /\ attemptState' = [a \in Attempts |->
           IF a \in cancelled THEN "cancelled"
           ELSE IF a \in lost THEN "lost" ELSE attemptState[a]]
      /\ outbox' = outbox
           \cup {Intent(f, Len(history[f]) + 1, RepairedState(findings, f),
                        Current(f).active, NoOperation) : f \in ended}
           \cup {RepairIntent(f) : f \in repaired}
      /\ leases' = Released(cancelled \cup lost \cup orphaned)
      /\ UNCHANGED <<now, control, foreground, cancelRequested, attempt, promised,
                     sideVars>>
  BY DEF ApplyReconciliation
<1>2. ts \in Nat /\ now \in Nat
  BY StampType DEF TypeInv, TypeOK
<1>3. \A f \in ended : f \in Admitted /\ f \in Flows
  BY <1>2, FindingsType DEF InState
<1>4. \A f \in repaired : f \in Flows /\ InState(f, FinalStates)
  BY <1>2, FindingsType
<1>5. \A f \in Flows : RepairedState(findings, f) \in FlowStates
  BY DEF RepairedState, FlowStates
<1> HIDE DEF findings, cancelled, lost, orphaned, ended, repaired
<1>6. \A f \in ended : /\ Current(f) \in Revisions
                       /\ Len(history[f]) \in Nat \ {0}
                       /\ history[f] \in Seq(Revisions)
                       /\ history[f] # <<>>
  BY <1>3, CurrentType DEF TypeInv, TypeOK, Admitted
<1>7. \A f \in ended : EndRevision(f, RepairedState(findings, f)) \in Revisions
  BY <1>3, <1>5, <1>6 DEF EndRevision, Revision, Revisions
<1>8. history' \in [Flows -> Seq(Revisions)]
  BY <1>1, <1>6, <1>7 DEF TypeInv, TypeOK
<1>9. AdmissionFirst'
  <2>1. SUFFICES ASSUME NEW f \in Flows, history'[f] # <<>>
                 PROVE  history'[f][1].state = "queued"
    BY DEF AdmissionFirst
  <2>2. CASE f \in ended
    <3>1. history'[f][1] = history[f][1]
      BY <1>1, <1>6, <1>7, <2>2
    <3>2. QED BY <1>6, <2>2, <3>1 DEF TypeInv, AdmissionFirst
  <2>3. CASE f \notin ended
    BY <1>1, <2>1, <2>3 DEF TypeInv, AdmissionFirst
  <2>4. QED BY <2>2, <2>3
<1>10. \A f \in Flows : /\ Len(history[f]) \in Nat
                        /\ Len(history'[f]) \in Nat
                        /\ Len(history'[f]) >= Len(history[f])
                        /\ f \in ended => Len(history'[f]) = Len(history[f]) + 1
  BY <1>1, <1>6, <1>7 DEF TypeInv, TypeOK
<1>11. ASSUME NEW f \in ended
       PROVE  LET i == Intent(f, Len(history[f]) + 1, RepairedState(findings, f),
                              Current(f).active, NoOperation)
              IN  i \in Intents /\ i.revision \in 2..Len(history'[i.flow])
  <2>1. f \in Flows /\ Current(f).active \in Attempts \cup {NoAttempt}
    BY <1>3, <1>6 DEF Revisions
  <2>2. PICK n \in Nat : n = Len(history[f]) /\ n > 0
    BY <1>6
  <2>3. QED BY <1>5, <1>10, <2>1, <2>2 DEF Intent, Intents
<1>12. ASSUME NEW f \in repaired
       PROVE  RepairIntent(f) \in Intents
              /\ RepairIntent(f).revision \in 2..Len(history'[RepairIntent(f).flow])
  <2>1. InState(f, FlowStates \ {"queued"}) /\ InState(f, FlowStates)
    BY <1>4 DEF InState, FinalStates, FlowStates
  <2>2. /\ Len(history[f]) >= 2
        /\ history[f][Len(history[f]) - 1].active \in Attempts \cup {NoAttempt}
    BY <1>4, <2>1, PastAdmission DEF Revisions
  <2>3. Current(f).state \in FlowStates
    BY <2>1 DEF InState
  <2>4. QED BY <1>4, <1>10, <2>2, <2>3 DEF RepairIntent, Intent, Intents
<1>13. outbox' \in SUBSET Intents
  BY <1>1, <1>11, <1>12 DEF TypeInv, TypeOK
<1>14. IntentsInHistory'
  <2>1. SUFFICES ASSUME NEW i \in outbox' PROVE i.revision \in 2..Len(history'[i.flow])
    BY DEF IntentsInHistory
  <2>2. CASE i \in outbox
    <3>1. i.flow \in Flows /\ i.revision \in Nat /\ i.revision \in 2..Len(history[i.flow])
      BY <2>2 DEF TypeInv, TypeOK, Intents, IntentsInHistory
    <3>2. QED BY <1>10, <3>1
  <2>3. CASE i \notin outbox
    BY <1>1, <1>11, <1>12, <2>3
  <2>4. QED BY <2>2, <2>3
<1>15. leases' \in [Keys -> LeaseRows \cup {NoLease}]
  BY <1>1, ReleasedType DEF TypeInv
<1>16. /\ revisedAt' \in [Flows -> Nat]
       /\ committedAt' \in [Flows -> Nat]
  BY <1>1, <1>2 DEF TypeInv, TypeOK
<1>17. attemptState' \in
         [Attempts -> {"unclaimed"} \cup LiveAttemptStates \cup EndedAttemptStates]
  BY <1>1 DEF TypeInv, TypeOK, EndedAttemptStates
<1>18. TypeOK'
  BY <1>1, <1>8, <1>13, <1>15, <1>16, <1>17 DEF TypeInv, TypeOK, sideVars
<1>19. QED
  BY <1>9, <1>14, <1>18 DEF TypeInv

\* Steps that leave flows, claims and the outbox alone.
LEMMA ForegroundType ==
  ASSUME TypeInv,
         \/ \E i \in Instances, ts \in 0..now : AcquireForeground(i, ts)
         \/ \E i \in Instances, ts \in 0..now : RenewForeground(i, ts)
         \/ \E i \in Instances : ReleaseForeground(i)
  PROVE  TypeInv'
<1> DEFINE rows == [owner : Instances, renewed : Nat, expires : Nat] \cup {NoLease}
<1>1. \A t \in 0..now : t \in Nat /\ t + ForegroundTTL \in Nat
  BY ParameterAssumption DEF TypeInv, TypeOK
<1>2. foreground \in rows
  BY DEF TypeInv, TypeOK
<1>3. foreground' \in rows
  <2>1. ASSUME NEW i \in Instances, NEW t \in 0..now, AcquireForeground(i, t)
        PROVE  foreground' \in rows
    BY <1>1, <2>1 DEF AcquireForeground
  <2>2. ASSUME NEW i \in Instances, NEW t \in 0..now, RenewForeground(i, t)
        PROVE  foreground' \in rows
    BY <1>1, <1>2, <2>2 DEF RenewForeground, CanRenewForeground, ForegroundHeld
  <2>3. ASSUME NEW i \in Instances, ReleaseForeground(i)
        PROVE  foreground' \in rows
    BY <1>2, <2>3 DEF ReleaseForeground
  <2>4. QED BY <2>1, <2>2, <2>3
<1>4. QED
  BY <1>3 DEF AcquireForeground, RenewForeground, ReleaseForeground, TypeInv, TypeOK,
              AdmissionFirst, IntentsInHistory, flowVars, claimVars, sideVars

LEMMA UpdateControlType ==
  ASSUME TypeInv, NEW expected \in Nat, NEW mode \in Modes, UpdateControl(expected, mode)
  PROVE  TypeInv'
<1>1. control' \in [revision : Nat, mode : Modes]
  BY DEF UpdateControl, TypeInv, TypeOK
<1>2. QED
  BY <1>1 DEF UpdateControl, TypeInv, TypeOK, AdmissionFirst, IntentsInHistory, flowVars,
              claimVars, sideVars

LEMMA AdvanceTimeType == ASSUME TypeInv, AdvanceTime PROVE TypeInv'
  BY DEF AdvanceTime, TypeInv, TypeOK, AdmissionFirst, IntentsInHistory, flowVars,
         claimVars, sideVars

LEMMA TypeStep == TypeInv /\ [Next]_vars => TypeInv'
<1> SUFFICES ASSUME TypeInv, [Next]_vars PROVE TypeInv'
  OBVIOUS
<1>1. CASE FlowStep
  <2>1. ASSUME NEW i \in outbox, i.operation # NoOperation,
               ReplayCompletion(i.attempt, i.operation.expected, i.operation.outcome)
        PROVE  TypeInv'
    <3>1. i.attempt \in Attempts \cup {NoAttempt}
      BY DEF TypeInv, TypeOK, Intents
    <3>2. CASE i.attempt \in Attempts
      BY <2>1, <3>2, ReplayCompletionType
    <3>3. CASE i.attempt \notin Attempts
      <4>1. replies' = replies
        BY <2>1, <3>3 DEF ReplayCompletion, Reply, TypeInv, TypeOK
      <4>2. QED
        BY <2>1, <4>1 DEF ReplayCompletion, TypeInv, TypeOK, AdmissionFirst,
                          IntentsInHistory, flowVars, claimVars
    <3>4. QED BY <3>2, <3>3
  <2>2. QED
    BY <1>1, <2>1, AdmitFlowType, RequestCancellationType, MarkDispatchingType,
       RenewClaimType, CompleteAttemptType, AcknowledgeCompletionType DEF FlowStep
<1>2. CASE OperatorStep
  <2>1. \A expected \in 0..(MaxControl - 1) : expected \in Nat
    OBVIOUS
  <2>2. OperatorModes \subseteq Modes
    BY DEF OperatorModes, Modes
  <2>3. QED
    BY <1>2, <2>1, <2>2, UpdateControlType, PreviewReconciliationType,
       ApplyReconciliationType DEF OperatorStep
<1>3. CASE ForegroundStep
  <2>1. \A expected \in 0..control.revision : expected \in Nat
    BY DEF TypeInv, TypeOK
  <2>2. "stopped" \in Modes
    BY DEF Modes
  <2>3. QED
    BY <1>3, <2>1, <2>2, ForegroundType, UpdateControlType, TryClaimNextType
       DEF ForegroundStep, ClaimStep
<1>4. CASE AdvanceTime
  BY <1>4, AdvanceTimeType
<1>5. CASE UNCHANGED vars
  BY <1>5 DEF vars, TypeInv, TypeOK, AdmissionFirst, IntentsInHistory, flowVars,
              claimVars, sideVars
<1>6. QED
  BY <1>1, <1>2, <1>3, <1>4, <1>5 DEF Next

\* Every table of the store only ever holds rows of its declared shape.
THEOREM TypeCorrect == Spec => []TypeOK
<1>1. Spec => []TypeInv
  BY TypeInit, TypeStep, PTL DEF Spec
<1>2. TypeInv => TypeOK
  BY DEF TypeInv
<1>3. QED
  BY <1>1, <1>2, PTL

-----------------------------------------------------------------------------
(***************************************************************************)
(* Claims: which attempt runs which flow, and what cancellation does to it:*)
(* the agreement between the heads of the flow histories and the attempts, *)
(* and the leases that back them, for every step of the store.             *)
(***************************************************************************)

-----------------------------------------------------------------------------
(* The proofs look at the newest revision of each flow only. *)

NotAdmitted == Revision("absent", FALSE, NoAttempt)

HeadRow == [f \in Flows |-> IF history[f] = <<>> THEN NotAdmitted ELSE Current(f)]

HeadRows ==
  [state : FlowStates \cup {"absent"}, cancel : BOOLEAN,
   active : Attempts \cup {NoAttempt}]

LEMMA HeadType == ASSUME TypeInv PROVE HeadRow \in [Flows -> HeadRows]
<1>1. \A f \in Flows : history[f] # <<>> => Current(f) \in Revisions
  BY CurrentType DEF TypeInv, Admitted
<1>2. NotAdmitted \in HeadRows /\ Revisions \subseteq HeadRows
  BY DEF NotAdmitted, Revision, HeadRows, Revisions
<1>3. QED BY <1>1, <1>2 DEF HeadRow

LEMMA HeadIsCurrent ==
  ASSUME TypeInv, NEW f \in Flows
  PROVE  /\ f \in Admitted <=> HeadRow[f].state # "absent"
         /\ f \in Admitted => Current(f) = HeadRow[f]
<1>1. CASE history[f] = <<>>
  BY <1>1 DEF HeadRow, Admitted, NotAdmitted, Revision
<1>2. CASE history[f] # <<>>
  <2>1. Current(f) \in Revisions
    BY <1>2, CurrentType DEF TypeInv, Admitted
  <2>2. QED BY <1>2, <2>1 DEF HeadRow, Admitted, Revisions, FlowStates
<1>3. QED BY <1>1, <1>2

\* A flow is in one of some states when its head is.
LEMMA InStateOfHead ==
  ASSUME TypeInv, NEW f, NEW states \in SUBSET FlowStates
  PROVE  InState(f, states) <=> f \in Flows /\ HeadRow[f].state \in states
<1>1. "absent" \notin states
  BY DEF FlowStates
<1>2. QED BY <1>1, HeadIsCurrent DEF InState, Admitted

LEMMA HeadAfterAppend ==
  ASSUME TypeInv, NEW f \in Flows, NEW r \in Revisions, NEW ts, AppendRevision(f, r, ts)
  PROVE  HeadRow' = [HeadRow EXCEPT ![f] = r]
<1>1. history' = [history EXCEPT ![f] = Append(@, r)] /\ history \in [Flows -> Seq(Revisions)]
  BY DEF AppendRevision, TypeInv, TypeOK
<1>2. ASSUME NEW s \in Seq(Revisions)
      PROVE  Append(s, r) # <<>> /\ Append(s, r)[Len(Append(s, r))] = r
  BY Append(s, r) \in Seq(Revisions)
<1>3. history'[f] # <<>> /\ history'[f][Len(history'[f])] = r
  BY <1>1, <1>2
<1>4. \A g \in Flows : g # f => history'[g] = history[g]
  BY <1>1
<1>5. QED BY <1>3, <1>4 DEF HeadRow, Current

LEMMA HeadUnchanged == ASSUME history' = history PROVE HeadRow' = HeadRow
  BY DEF HeadRow, Current

-----------------------------------------------------------------------------
(* The inductive invariant. *)

\* Exactly a running head names an attempt: a live one, claimed for that flow.
RunningHasAttempt ==
  \A f \in Flows :
    /\ HeadRow[f].state # "running" => HeadRow[f].active = NoAttempt
    /\ HeadRow[f].state = "running" =>
         /\ HeadRow[f].active \in Attempts
         /\ IsLive(HeadRow[f].active)
         /\ attempt[HeadRow[f].active] # NoAttempt
         /\ attempt[HeadRow[f].active].flow = f

\* A live attempt is the one its flow runs.
LiveIsActive ==
  \A a \in Attempts : IsLive(a) =>
    /\ attempt[a] # NoAttempt
    /\ HeadRow[attempt[a].flow].state = "running"
    /\ HeadRow[attempt[a].flow].active = a

\* A flow that was ever claimed is past the queue for good.
ClaimedLeftQueue ==
  \A a \in Attempts : attempt[a] # NoAttempt =>
    HeadRow[attempt[a].flow].state \notin {"absent", "queued"}

\* A request either marks the head of a flow that runs or ends as cancelled,
\* or it found the flow ended, whose head it leaves unmarked.
CancelMarked ==
  /\ \A f \in cancelRequested :
       \/ HeadRow[f].cancel /\ HeadRow[f].state \in {"running", "cancelled"}
       \/ ~HeadRow[f].cancel /\ HeadRow[f].state \in FinalStates
  /\ \A f \in Flows : HeadRow[f].cancel => f \in cancelRequested

ClaimInv ==
  TypeInv /\ RunningHasAttempt /\ LiveIsActive /\ ClaimedLeftQueue /\ CancelMarked

claimView == <<history, attempt, attemptState, cancelRequested>>

\* ClaimInv looks at nothing else.
LEMMA ClaimInvFrame ==
  ASSUME ClaimInv, TypeInv', UNCHANGED claimView
  PROVE  ClaimInv'
<1>1. HeadRow' = HeadRow
  BY HeadUnchanged DEF claimView
<1>2. QED
  BY <1>1 DEF ClaimInv, claimView, RunningHasAttempt, LiveIsActive, ClaimedLeftQueue,
              CancelMarked, IsLive

-----------------------------------------------------------------------------
(* One lemma per action that the view sees. *)

LEMMA AdmitFlowClaims ==
  ASSUME ClaimInv, TypeInv', NEW f \in Flows, NEW ts \in Stamps, AdmitFlow(f, ts)
  PROVE  ClaimInv'
<1> DEFINE r == Revision("queued", FALSE, NoAttempt)
<1>1. r \in Revisions /\ r.state = "queued" /\ r.cancel = FALSE /\ r.active = NoAttempt
  BY DEF Revision, Revisions, FlowStates
<1>2. HeadRow' = [HeadRow EXCEPT ![f] = r]
  BY <1>1, HeadAfterAppend DEF AdmitFlow, ClaimInv
<1>3. HeadRow \in [Flows -> HeadRows] /\ HeadRow[f].state = "absent"
  BY HeadType, HeadIsCurrent DEF ClaimInv, AdmitFlow
<1>4. UNCHANGED <<attempt, attemptState, cancelRequested>>
  BY DEF AdmitFlow, claimVars
<1>5. attempt \in [Attempts -> [flow : Flows, deadline : Nat] \cup {NoAttempt}]
      /\ cancelRequested \subseteq Flows
  BY DEF ClaimInv, TypeInv, TypeOK
<1> HIDE DEF r
<1>6. f \notin cancelRequested
  BY <1>3 DEF ClaimInv, CancelMarked, FinalStates
<1>7. \A a \in Attempts : attempt[a] # NoAttempt => attempt[a].flow # f
  BY <1>3 DEF ClaimInv, ClaimedLeftQueue
<1>8. RunningHasAttempt'
  BY <1>1, <1>2, <1>3, <1>4 DEF ClaimInv, RunningHasAttempt, IsLive
<1>9. LiveIsActive' /\ ClaimedLeftQueue'
  BY <1>2, <1>3, <1>4, <1>5, <1>7 DEF ClaimInv, LiveIsActive, ClaimedLeftQueue, IsLive
<1>10. CancelMarked'
  BY <1>1, <1>2, <1>3, <1>4, <1>5, <1>6 DEF ClaimInv, CancelMarked
<1>11. QED BY <1>8, <1>9, <1>10 DEF ClaimInv

LEMMA TryClaimNextClaims ==
  ASSUME ClaimInv, TypeInv', NEW i \in Instances, NEW a \in Attempts, NEW ts \in Stamps,
         TryClaimNext(i, a, ts)
  PROVE  ClaimInv'
<1>1. PICK f \in Eligible(ts) :
        /\ attempt' = [attempt EXCEPT ![a] = [flow |-> f, deadline |-> HardDeadline(f, ts)]]
        /\ attemptState' = [attemptState EXCEPT ![a] = "created"]
        /\ AppendRevision(f, Revision("running", FALSE, a), ts)
  BY DEF TryClaimNext
<1> DEFINE r == Revision("running", FALSE, a)
           row == [flow |-> f, deadline |-> HardDeadline(f, ts)]
<1>2. r \in Revisions /\ r.state = "running" /\ r.cancel = FALSE /\ r.active = a
  BY DEF Revision, Revisions, FlowStates
<1>3. f \in Flows /\ HeadRow[f].state = "queued"
  <2>1. InState(f, {"queued"}) /\ {"queued"} \in SUBSET FlowStates
    BY DEF Eligible, Claimable, FlowStates
  <2>2. QED BY <2>1, InStateOfHead DEF ClaimInv
<1>4. HeadRow' = [HeadRow EXCEPT ![f] = r] /\ HeadRow \in [Flows -> HeadRows]
  BY <1>1, <1>2, <1>3, HeadAfterAppend, HeadType DEF ClaimInv
<1>5. /\ attempt \in [Attempts -> [flow : Flows, deadline : Nat] \cup {NoAttempt}]
      /\ attempt' \in [Attempts -> [flow : Flows, deadline : Nat] \cup {NoAttempt}]
      /\ attemptState \in
           [Attempts -> {"unclaimed"} \cup LiveAttemptStates \cup EndedAttemptStates]
      /\ cancelRequested \subseteq Flows
      /\ cancelRequested' = cancelRequested
      /\ attempt[a] = NoAttempt
  BY DEF ClaimInv, TypeInv, TypeOK, TryClaimNext
<1>6. attempt' = [attempt EXCEPT ![a] = row] /\ row.flow = f
  BY <1>1
<1>7. attempt'[a] # NoAttempt
  BY <1>3, <1>5, <1>6, HardDeadlineType, SentinelAssumption DEF ClaimInv
<1> HIDE DEF r, row
<1>8. f \notin cancelRequested
  BY <1>3 DEF ClaimInv, CancelMarked, FinalStates
<1>9. \A b \in Attempts : attempt[b] # NoAttempt => attempt[b].flow # f
  BY <1>3 DEF ClaimInv, ClaimedLeftQueue
<1>10. \A g \in Flows : HeadRow[g].state = "running" => HeadRow[g].active # a
  BY <1>5 DEF ClaimInv, RunningHasAttempt
<1>11. RunningHasAttempt'
  BY <1>1, <1>2, <1>4, <1>5, <1>6, <1>7, <1>10
     DEF ClaimInv, RunningHasAttempt, IsLive, LiveAttemptStates
<1>12. LiveIsActive' /\ ClaimedLeftQueue'
  BY <1>1, <1>2, <1>3, <1>4, <1>5, <1>6, <1>7, <1>9
     DEF ClaimInv, LiveIsActive, ClaimedLeftQueue, IsLive
<1>13. CancelMarked'
  BY <1>2, <1>4, <1>5, <1>8 DEF ClaimInv, CancelMarked
<1>14. QED BY <1>11, <1>12, <1>13 DEF ClaimInv

\* What PermitsWork and IsActive say of the head.
LEMMA ActiveHead ==
  ASSUME ClaimInv, NEW a \in Attempts
  PROVE  IsActive(a) <=> /\ attempt[a] # NoAttempt
                         /\ HeadRow[attempt[a].flow].state = "running"
                         /\ HeadRow[attempt[a].flow].active = a
<1>1. attempt[a] # NoAttempt => attempt[a].flow \in Flows
  BY DEF ClaimInv, TypeInv, TypeOK
<1>2. ASSUME NEW f \in Flows
      PROVE  /\ InState(f, {"running"}) <=> HeadRow[f].state = "running"
             /\ InState(f, {"running"}) => Current(f) = HeadRow[f]
  <2>1. {"running"} \in SUBSET FlowStates
    BY DEF FlowStates
  <2>2. QED BY <2>1, InStateOfHead, HeadIsCurrent DEF ClaimInv, InState
<1>3. QED BY <1>1, <1>2 DEF IsActive

LEMMA MarkDispatchingClaims ==
  ASSUME ClaimInv, TypeInv', NEW a \in Attempts, NEW ts \in Stamps, MarkDispatching(a, ts)
  PROVE  ClaimInv'
<1>1. /\ attemptState' = [attemptState EXCEPT ![a] = "dispatching"]
      /\ attemptState[a] = "created"
      /\ UNCHANGED <<history, attempt, cancelRequested>>
  BY DEF MarkDispatching, flowVars
<1>2. \A b \in Attempts : IsLive(b)' <=> IsLive(b)
  BY <1>1 DEF IsLive, LiveAttemptStates, ClaimInv, TypeInv, TypeOK
<1>3. HeadRow' = HeadRow
  BY <1>1, HeadUnchanged
<1>4. RunningHasAttempt'
  BY <1>1, <1>2, <1>3 DEF ClaimInv, RunningHasAttempt, IsLive
<1>5. LiveIsActive' /\ ClaimedLeftQueue' /\ CancelMarked'
  BY <1>1, <1>2, <1>3 DEF ClaimInv, LiveIsActive, ClaimedLeftQueue, CancelMarked
<1>6. QED BY <1>4, <1>5 DEF ClaimInv

LEMMA RequestCancellationClaims ==
  ASSUME ClaimInv, TypeInv', NEW f \in Flows, NEW ts \in Stamps,
         RequestCancellation(f, ts)
  PROVE  ClaimInv'
<1>1. /\ f \in Admitted \ cancelRequested
      /\ cancelRequested' = cancelRequested \cup {f}
      /\ UNCHANGED <<attempt, attemptState>>
  BY DEF RequestCancellation, claimVars
<1>2. /\ HeadRow \in [Flows -> HeadRows]
      /\ Current(f) = HeadRow[f]
      /\ HeadRow[f].state \in FlowStates
      /\ ~HeadRow[f].cancel
      /\ attempt \in [Attempts -> [flow : Flows, deadline : Nat] \cup {NoAttempt}]
  BY <1>1, HeadType, HeadIsCurrent
     DEF ClaimInv, CancelMarked, HeadRows, Admitted, TypeInv, TypeOK
<1>3. CASE CancelFinal(f)
  <2>1. HeadRow' = HeadRow
    BY <1>3, HeadUnchanged DEF CancelFinal
  <2>2. HeadRow[f].state \in FinalStates
    BY <1>2, <1>3 DEF CancelFinal, InState
  <2>3. RunningHasAttempt'
    BY <1>1, <2>1 DEF ClaimInv, RunningHasAttempt, IsLive
  <2>4. LiveIsActive' /\ ClaimedLeftQueue' /\ CancelMarked'
    BY <1>1, <1>2, <2>1, <2>2
       DEF ClaimInv, LiveIsActive, ClaimedLeftQueue, CancelMarked, IsLive
  <2>5. QED BY <2>3, <2>4 DEF ClaimInv
<1>4. CASE CancelRunning(f, ts)
  <2> DEFINE r == Revision("running", TRUE, Current(f).active)
  <2>1. r \in Revisions /\ r.state = "running" /\ r.cancel = TRUE /\ r.active = HeadRow[f].active
    BY <1>2 DEF Revision, Revisions, FlowStates, HeadRows
  <2>2. HeadRow' = [HeadRow EXCEPT ![f] = r]
    BY <1>4, <2>1, HeadAfterAppend DEF CancelRunning, ClaimInv
  <2>3. HeadRow[f].state = "running"
    BY <1>2, <1>4 DEF CancelRunning, InState
  <2> HIDE DEF r
  <2>4. RunningHasAttempt'
    BY <1>1, <1>2, <2>1, <2>2, <2>3 DEF ClaimInv, RunningHasAttempt, IsLive
  <2>5. LiveIsActive' /\ ClaimedLeftQueue'
    BY <1>1, <1>2, <2>1, <2>2, <2>3 DEF ClaimInv, LiveIsActive, ClaimedLeftQueue, IsLive
  <2>6. CancelMarked'
    BY <1>1, <1>2, <2>1, <2>2, <2>3 DEF ClaimInv, CancelMarked, FinalStates, TypeInv, TypeOK
  <2>7. QED BY <2>4, <2>5, <2>6 DEF ClaimInv
<1>5. CASE CancelIdle(f, ts)
  <2> DEFINE r == Revision("cancelled", TRUE, NoAttempt)
  <2>1. r \in Revisions /\ r.state = "cancelled" /\ r.cancel = TRUE /\ r.active = NoAttempt
    BY DEF Revision, Revisions, FlowStates
  <2>2. HeadRow' = [HeadRow EXCEPT ![f] = r]
    BY <1>5, <2>1, HeadAfterAppend DEF CancelIdle, ClaimInv
  <2>3. HeadRow[f].state # "running"
    BY <1>2, <1>5 DEF CancelIdle, InState
  <2> HIDE DEF r
  <2>4. RunningHasAttempt'
    BY <1>1, <1>2, <2>1, <2>2, <2>3 DEF ClaimInv, RunningHasAttempt, IsLive
  <2>5. LiveIsActive' /\ ClaimedLeftQueue'
    BY <1>1, <1>2, <2>1, <2>2, <2>3 DEF ClaimInv, LiveIsActive, ClaimedLeftQueue, IsLive
  <2>6. CancelMarked'
    BY <1>1, <1>2, <2>1, <2>2, <2>3 DEF ClaimInv, CancelMarked, FinalStates, TypeInv, TypeOK
  <2>7. QED BY <2>4, <2>5, <2>6 DEF ClaimInv
<1>6. QED BY <1>3, <1>4, <1>5 DEF RequestCancellation

LEMMA CompleteAttemptClaims ==
  ASSUME ClaimInv, TypeInv', NEW a \in Attempts, NEW outcome \in Outcomes,
         NEW ts \in Stamps, NEW answered \in BOOLEAN,
         CompleteAttempt(a, outcome, ts, answered)
  PROVE  ClaimInv'
<1>1. PICK f \in Flows : f = attempt[a].flow /\ attempt[a] # NoAttempt
  BY DEF CompleteAttempt, IsActive, InState, Admitted
<1> DEFINE selected == SelectedOutcome(f, outcome)
           r == EndRevision(f, selected)
<1>2. /\ HeadRow[f].state = "running"
      /\ HeadRow[f].active = a
      /\ HeadRow \in [Flows -> HeadRows]
      /\ Current(f) = HeadRow[f]
  BY <1>1, ActiveHead, HeadType, HeadIsCurrent DEF CompleteAttempt, ClaimInv
<1>3. /\ selected \in ReportableOutcomes
      /\ selected \in FlowStates
      /\ AttemptEnd(selected) \in EndedAttemptStates
      /\ HeadRow[f].cancel => selected = "cancelled"
  BY <1>2, OutcomeType DEF SelectedOutcome
<1>4. /\ r \in Revisions
      /\ r.state \in ReportableOutcomes
      /\ r.cancel = HeadRow[f].cancel /\ r.active = NoAttempt
      /\ r.cancel => r.state = "cancelled"
  BY <1>2, <1>3 DEF EndRevision, Revision, Revisions, HeadRows
<1>5. HeadRow' = [HeadRow EXCEPT ![f] = r]
  BY <1>1, <1>4, HeadAfterAppend DEF CompleteAttempt, ClaimInv
<1>6. /\ attemptState' = [attemptState EXCEPT ![a] = AttemptEnd(selected)]
      /\ UNCHANGED <<attempt, cancelRequested>>
  BY <1>1 DEF CompleteAttempt
<1>7. /\ attempt \in [Attempts -> [flow : Flows, deadline : Nat] \cup {NoAttempt}]
      /\ attemptState \in
           [Attempts -> {"unclaimed"} \cup LiveAttemptStates \cup EndedAttemptStates]
      /\ cancelRequested \subseteq Flows
  BY DEF ClaimInv, TypeInv, TypeOK
<1> HIDE DEF selected, r
<1>8. /\ ~IsLive(a)'
      /\ \A b \in Attempts \ {a} : IsLive(b)' <=> IsLive(b)
  BY <1>3, <1>6, <1>7 DEF IsLive, LiveAttemptStates, EndedAttemptStates
<1>9. r.state \notin {"running", "queued", "absent"}
  BY <1>4 DEF ReportableOutcomes
<1>10. \A g \in Flows \ {f} : HeadRow[g].state = "running" => HeadRow[g].active # a
  BY <1>1 DEF ClaimInv, RunningHasAttempt
<1>11. RunningHasAttempt'
  BY <1>2, <1>4, <1>5, <1>6, <1>8, <1>9, <1>10
     DEF ClaimInv, RunningHasAttempt, IsLive
<1>12. LiveIsActive'
  BY <1>1, <1>2, <1>5, <1>6, <1>7, <1>8 DEF ClaimInv, LiveIsActive
<1>13. ClaimedLeftQueue'
  BY <1>2, <1>5, <1>6, <1>7, <1>9 DEF ClaimInv, ClaimedLeftQueue
<1>14. CancelMarked'
  BY <1>2, <1>4, <1>5, <1>6, <1>7 DEF ClaimInv, CancelMarked, FinalStates
<1>15. QED BY <1>11, <1>12, <1>13, <1>14 DEF ClaimInv

\* What the findings that call for an ending say of the heads.
LEMMA EndingFindings ==
  ASSUME ClaimInv, NEW ts \in Nat, NEW x \in Audit(ts)
  PROVE  /\ x.action = "mark_queued_timed_out" =>
              x.flow \in Flows /\ HeadRow[x.flow].state = "queued"
         /\ x.action \in {"finalize_cancelled_pre_dispatch", "mark_lost_pre_dispatch"} =>
              /\ x.flow \in Flows
              /\ HeadRow[x.flow].state = "running"
              /\ x.attempt = HeadRow[x.flow].active
              /\ attemptState[x.attempt] = "created"
              /\ ClaimLapsed(x.attempt, ts)
              /\ x.action = "finalize_cancelled_pre_dispatch" <=> HeadRow[x.flow].cancel
<1>1. {"queued"} \in SUBSET FlowStates /\ {"running"} \in SUBSET FlowStates
  BY DEF FlowStates
<1>2. CASE x.action = "mark_queued_timed_out"
  <2>1. x \in QueuedPastDeadline(ts)
    BY <1>2 DEF Audit, MissingAttempts, ExpiredClaims, AmbiguousAttempts,
                UnpublishedFlows, OrphanLeases, UndeliveredCompletions, Finding
  <2>2. x.flow \in Flows /\ InState(x.flow, {"queued"})
    BY <2>1 DEF QueuedPastDeadline, Finding
  <2>3. QED BY <1>1, <1>2, <2>2, InStateOfHead DEF ClaimInv
<1>3. CASE x.action \in {"finalize_cancelled_pre_dispatch", "mark_lost_pre_dispatch"}
  <2>1. x \in ExpiredClaims(ts)
    BY <1>3 DEF Audit, MissingAttempts, QueuedPastDeadline, AmbiguousAttempts,
                UnpublishedFlows, OrphanLeases, UndeliveredCompletions, Finding
  <2>2. PICK f \in LapsedFlows(ts) :
          /\ attemptState[Current(f).active] = "created"
          /\ x = Finding("expired_pre_dispatch_claim", f, Current(f).active, Len(history[f]),
                         IF Current(f).cancel THEN "finalize_cancelled_pre_dispatch"
                                              ELSE "mark_lost_pre_dispatch")
    BY <2>1 DEF ExpiredClaims
  <2>3. /\ f \in Flows /\ InState(f, {"running"})
        /\ ClaimLapsed(Current(f).active, ts)
    BY DEF LapsedFlows, RunningFlows
  <2>4. f \in Admitted /\ HeadRow[f].state = "running" /\ Current(f) = HeadRow[f]
    BY <1>1, <2>3, InStateOfHead, HeadIsCurrent DEF ClaimInv, InState
  <2>5. HeadRow[f].cancel \in BOOLEAN
    BY <2>3, HeadType DEF ClaimInv, HeadRows
  <2>6. QED BY <1>3, <2>2, <2>3, <2>4, <2>5 DEF Finding
<1>4. QED BY <1>2, <1>3

\* The flows that reconciliation ends, and the attempts it ends with them.
LEMMA EndedByPlan ==
  ASSUME ClaimInv, NEW ts \in Nat
  PROVE  LET findings  == Audit(ts)
             ended     == EndedFlows(findings)
             cancelled == FlaggedAttempts(findings, "finalize_cancelled_pre_dispatch")
             lost      == FlaggedAttempts(findings, "mark_lost_pre_dispatch")
         IN  /\ \A f \in ended :
                  /\ f \in Flows
                  /\ \/ /\ HeadRow[f].state = "queued"
                        /\ RepairedState(findings, f) = "timed_out"
                     \/ /\ HeadRow[f].state = "running"
                        /\ HeadRow[f].active \in cancelled \cup lost
                        /\ RepairedState(findings, f) =
                             IF HeadRow[f].cancel THEN "cancelled" ELSE "lost"
             /\ \A a \in cancelled \cup lost :
                  /\ a \in Attempts
                  /\ attempt[a] # NoAttempt
                  /\ attempt[a].flow \in ended
                  /\ attemptState[a] = "created"
                  /\ ClaimLapsed(a, ts)
<1> DEFINE
  findings  == Audit(ts)
  ended     == EndedFlows(findings)
  timedOut  == Flagged(findings, "mark_queued_timed_out")
  finalized == Flagged(findings, "finalize_cancelled_pre_dispatch")
  given     == Flagged(findings, "mark_lost_pre_dispatch")
  cancelled == FlaggedAttempts(findings, "finalize_cancelled_pre_dispatch")
  lost      == FlaggedAttempts(findings, "mark_lost_pre_dispatch")
<1>1. ended = timedOut \cup finalized \cup given
  BY DEF EndedFlows, EndingActions
<1>2. \A f \in timedOut : f \in Flows /\ HeadRow[f].state = "queued"
  BY EndingFindings DEF Flagged
<1>3. \A f \in finalized : /\ f \in Flows /\ HeadRow[f].state = "running" /\ HeadRow[f].cancel
                           /\ HeadRow[f].active \in cancelled
  BY EndingFindings DEF Flagged, FlaggedAttempts
<1>4. \A f \in given : /\ f \in Flows /\ HeadRow[f].state = "running" /\ ~HeadRow[f].cancel
                       /\ HeadRow[f].active \in lost
  BY EndingFindings DEF Flagged, FlaggedAttempts
<1>5. ASSUME NEW f \in ended
      PROVE  /\ f \in Flows
             /\ \/ /\ HeadRow[f].state = "queued"
                   /\ RepairedState(findings, f) = "timed_out"
                \/ /\ HeadRow[f].state = "running"
                   /\ HeadRow[f].active \in cancelled \cup lost
                   /\ RepairedState(findings, f) =
                        IF HeadRow[f].cancel THEN "cancelled" ELSE "lost"
  <2>1. RepairedState(findings, f) =
          IF f \in timedOut THEN "timed_out"
          ELSE IF f \in finalized THEN "cancelled" ELSE "lost"
    BY DEF RepairedState
  <2> HIDE DEF findings, ended, timedOut, finalized, given, cancelled, lost
  <2>2. QED BY <1>1, <1>2, <1>3, <1>4, <1>5, <2>1
<1>6. ASSUME NEW a \in cancelled \cup lost
      PROVE  /\ a \in Attempts
             /\ attempt[a] # NoAttempt
             /\ attempt[a].flow \in ended
             /\ attemptState[a] = "created"
             /\ ClaimLapsed(a, ts)
  <2>1. PICK x \in Audit(ts) :
          /\ x.action \in {"finalize_cancelled_pre_dispatch", "mark_lost_pre_dispatch"}
          /\ x.attempt = a
    BY <1>6 DEF FlaggedAttempts
  <2>2. /\ x.flow \in Flows /\ HeadRow[x.flow].state = "running" /\ a = HeadRow[x.flow].active
        /\ attemptState[a] = "created" /\ ClaimLapsed(a, ts)
    BY <2>1, EndingFindings
  <2>3. a \in Attempts /\ attempt[a] # NoAttempt /\ attempt[a].flow = x.flow
    BY <2>2 DEF ClaimInv, RunningHasAttempt
  <2>4. x.flow \in ended
    BY <2>1 DEF EndedFlows, Flagged, EndingActions
  <2>5. QED BY <2>2, <2>3, <2>4
<1>7. QED BY <1>5, <1>6

LEMMA ApplyReconciliationClaims ==
  ASSUME ClaimInv, TypeInv', NEW o \in Operators, NEW ts \in Stamps,
         ApplyReconciliation(o, ts)
  PROVE  ClaimInv'
<1> DEFINE
  findings  == Audit(ts)
  cancelled == FlaggedAttempts(findings, "finalize_cancelled_pre_dispatch")
  lost      == FlaggedAttempts(findings, "mark_lost_pre_dispatch")
  ended     == EndedFlows(findings)
  r(f)      == EndRevision(f, RepairedState(findings, f))
<1>1. /\ history' = [f \in Flows |->
           IF f \in ended THEN Append(history[f], r(f)) ELSE history[f]]
      /\ attemptState' = [a \in Attempts |->
           IF a \in cancelled THEN "cancelled"
           ELSE IF a \in lost THEN "lost" ELSE attemptState[a]]
      /\ UNCHANGED <<attempt, cancelRequested>>
  BY DEF ApplyReconciliation
<1>2. ts \in Nat
  BY StampType DEF ClaimInv, TypeInv
<1>3. \A f \in ended :
        /\ f \in Flows
        /\ \/ /\ HeadRow[f].state = "queued"
              /\ RepairedState(findings, f) = "timed_out"
           \/ /\ HeadRow[f].state = "running"
              /\ HeadRow[f].active \in cancelled \cup lost
              /\ RepairedState(findings, f) = IF HeadRow[f].cancel THEN "cancelled" ELSE "lost"
  BY <1>2, EndedByPlan
<1>4. \A a \in cancelled \cup lost :
        a \in Attempts /\ attempt[a] # NoAttempt /\ attempt[a].flow \in ended
  BY <1>2, EndedByPlan
<1>5. HeadRow \in [Flows -> HeadRows] /\ history \in [Flows -> Seq(Revisions)]
  BY HeadType DEF ClaimInv, TypeInv, TypeOK
<1> HIDE DEF findings, cancelled, lost, ended
<1>6. ASSUME NEW f \in ended
      PROVE  /\ r(f) \in Revisions
             /\ r(f).state \in {"timed_out", "cancelled", "lost"}
             /\ r(f).cancel = HeadRow[f].cancel
             /\ r(f).active = NoAttempt
             /\ HeadRow[f].state = "running" /\ HeadRow[f].cancel => r(f).state = "cancelled"
  <2>1. f \in Flows /\ Current(f) = HeadRow[f] /\ HeadRow[f] \in HeadRows
    BY <1>3, <1>5, HeadIsCurrent DEF ClaimInv
  <2>2. RepairedState(findings, f) \in {"timed_out", "cancelled", "lost"}
    BY <1>3
  <2>3. QED
    BY <1>3, <2>1, <2>2 DEF EndRevision, Revision, Revisions, HeadRows, FlowStates
<1> HIDE DEF r
<1>7. \A f \in Flows : HeadRow'[f] = IF f \in ended THEN r(f) ELSE HeadRow[f]
  <2>1. SUFFICES ASSUME NEW f \in Flows
                 PROVE  HeadRow'[f] = IF f \in ended THEN r(f) ELSE HeadRow[f]
    OBVIOUS
  <2>2. CASE f \in ended
    <3>1. /\ history'[f] = Append(history[f], r(f))
          /\ history[f] \in Seq(Revisions) /\ r(f) \in Revisions
      BY <1>1, <1>5, <1>6, <2>2
    <3>2. history'[f] # <<>> /\ history'[f][Len(history'[f])] = r(f)
      <4>1. ASSUME NEW s \in Seq(Revisions), NEW e \in Revisions
            PROVE  Append(s, e) # <<>> /\ Append(s, e)[Len(Append(s, e))] = e
        BY Append(s, e) \in Seq(Revisions)
      <4>2. QED BY <3>1, <4>1
    <3>3. QED BY <2>2, <3>2 DEF HeadRow, Current
  <2>3. CASE f \notin ended
    BY <1>1, <2>3 DEF HeadRow, Current
  <2>4. QED BY <2>2, <2>3
<1>8. \A a \in Attempts :
        IsLive(a)' <=> IsLive(a) /\ a \notin cancelled \cup lost
  BY <1>1 DEF IsLive, LiveAttemptStates
<1>9. /\ attempt \in [Attempts -> [flow : Flows, deadline : Nat] \cup {NoAttempt}]
      /\ cancelRequested \subseteq Flows
  BY DEF ClaimInv, TypeInv, TypeOK
<1>10. RunningHasAttempt'
  <2>1. SUFFICES ASSUME NEW f \in Flows
                 PROVE  /\ HeadRow'[f].state # "running" => HeadRow'[f].active = NoAttempt
                        /\ HeadRow'[f].state = "running" =>
                             /\ HeadRow'[f].active \in Attempts
                             /\ attemptState'[HeadRow'[f].active] \in LiveAttemptStates
                             /\ attempt'[HeadRow'[f].active] # NoAttempt
                             /\ attempt'[HeadRow'[f].active].flow = f
    BY DEF RunningHasAttempt, IsLive
  <2>2. CASE f \in ended
    BY <1>6, <1>7, <2>2
  <2>3. CASE f \notin ended
    BY <1>1, <1>4, <1>7, <2>3 DEF ClaimInv, RunningHasAttempt, IsLive
  <2>4. QED BY <2>2, <2>3
<1>11. LiveIsActive'
  <2>1. SUFFICES ASSUME NEW a \in Attempts, IsLive(a)'
                 PROVE  /\ attempt'[a] # NoAttempt
                        /\ HeadRow'[attempt'[a].flow].state = "running"
                        /\ HeadRow'[attempt'[a].flow].active = a
    BY DEF LiveIsActive
  <2>2. /\ attempt[a] # NoAttempt /\ attempt[a].flow \in Flows
        /\ HeadRow[attempt[a].flow].state = "running"
        /\ HeadRow[attempt[a].flow].active = a
        /\ a \notin cancelled \cup lost
    BY <1>8, <1>9, <2>1 DEF ClaimInv, LiveIsActive
  <2>3. attempt[a].flow \notin ended
    BY <1>3, <2>2
  <2>4. QED BY <1>1, <1>7, <2>2, <2>3
<1>12. ClaimedLeftQueue'
  BY <1>1, <1>6, <1>7, <1>9 DEF ClaimInv, ClaimedLeftQueue
<1>13. CancelMarked'
  <2>1. \A f \in ended \cap cancelRequested : HeadRow[f].state = "running" /\ HeadRow[f].cancel
    BY <1>3 DEF ClaimInv, CancelMarked, FinalStates
  <2>2. QED BY <1>1, <1>6, <1>7, <1>9, <2>1 DEF ClaimInv, CancelMarked
<1>14. QED BY <1>10, <1>11, <1>12, <1>13 DEF ClaimInv

-----------------------------------------------------------------------------
(* The theorems. *)

LEMMA ClaimInit == Init => ClaimInv
<1> SUFFICES ASSUME Init PROVE ClaimInv
  OBVIOUS
<1>1. TypeInv
  BY TypeInit
<1>2. HeadRow = [f \in Flows |-> NotAdmitted]
  BY DEF Init, HeadRow
<1>3. QED
  BY <1>1, <1>2 DEF Init, ClaimInv, RunningHasAttempt, LiveIsActive, ClaimedLeftQueue,
     CancelMarked, NotAdmitted, Revision, IsLive, LiveAttemptStates

LEMMA ClaimStepLemma == ClaimInv /\ [Next]_vars => ClaimInv'
<1> SUFFICES ASSUME ClaimInv, [Next]_vars PROVE ClaimInv'
  OBVIOUS
<1>1. TypeInv'
  BY TypeStep DEF ClaimInv
<1>2. CASE FlowStep
  <2>1. ASSUME NEW a \in Attempts, NEW ts \in Stamps, RenewClaim(a, ts)
        PROVE  ClaimInv'
    BY <1>1, <2>1, ClaimInvFrame DEF RenewClaim, claimView, flowVars
  <2>2. ASSUME NEW i \in outbox, NEW c \in Consumers, AcknowledgeCompletion(i, c)
        PROVE  ClaimInv'
    BY <1>1, <2>2, ClaimInvFrame DEF AcknowledgeCompletion, claimView, flowVars, claimVars
  <2>3. ASSUME NEW i \in outbox,
               ReplayCompletion(i.attempt, i.operation.expected, i.operation.outcome)
        PROVE  ClaimInv'
    BY <1>1, <2>3, ClaimInvFrame DEF ReplayCompletion, claimView, flowVars, claimVars
  <2>4. QED
    BY <1>1, <1>2, <2>1, <2>2, <2>3, AdmitFlowClaims, RequestCancellationClaims,
       MarkDispatchingClaims, CompleteAttemptClaims DEF FlowStep
<1>3. CASE OperatorStep
  <2>1. ASSUME NEW expected, NEW mode, UpdateControl(expected, mode) PROVE ClaimInv'
    BY <1>1, <2>1, ClaimInvFrame DEF UpdateControl, claimView, flowVars, claimVars
  <2>2. ASSUME NEW o \in Operators, NEW ts \in Stamps, PreviewReconciliation(o, ts)
        PROVE  ClaimInv'
    BY <1>1, <2>2, ClaimInvFrame DEF PreviewReconciliation, claimView, flowVars, claimVars
  <2>3. QED
    BY <1>1, <1>3, <2>1, <2>2, ApplyReconciliationClaims DEF OperatorStep
<1>4. CASE ForegroundStep
  <2>1. CASE \/ \E i \in Instances, ts \in 0..now : AcquireForeground(i, ts)
             \/ \E i \in Instances, ts \in 0..now : RenewForeground(i, ts)
             \/ \E i \in Instances : ReleaseForeground(i)
             \/ \E expected \in 0..control.revision : UpdateControl(expected, "stopped")
    BY <1>1, <2>1, ClaimInvFrame
       DEF AcquireForeground, RenewForeground, ReleaseForeground, UpdateControl, claimView,
           flowVars, claimVars
  <2>2. CASE \E i \in Instances : ClaimStep(i)
    BY <1>1, <2>2, TryClaimNextClaims DEF ClaimStep
  <2>3. QED BY <1>4, <2>1, <2>2 DEF ForegroundStep
<1>5. CASE AdvanceTime
  BY <1>1, <1>5, ClaimInvFrame DEF AdvanceTime, claimView, flowVars, claimVars
<1>6. CASE UNCHANGED vars
  BY <1>1, <1>6, ClaimInvFrame DEF vars, claimView, flowVars, claimVars
<1>7. QED
  BY <1>2, <1>3, <1>4, <1>5, <1>6 DEF Next

LEMMA ClaimInvHolds == Spec => []ClaimInv
  BY ClaimInit, ClaimStepLemma, PTL DEF Spec

\* Whatever transactions interleave, a running flow and its one live attempt
\* name each other: no claim, completion, cancellation or repair separates them.
THEOREM AttemptsAgree == Spec => []ActiveAttemptAgreement
<1>1. ClaimInv => ActiveAttemptAgreement
  <2> SUFFICES ASSUME ClaimInv PROVE ActiveAttemptAgreement
    OBVIOUS
  <2>1. ASSUME NEW f \in RunningFlows
        PROVE  /\ IsLive(Current(f).active)
               /\ attempt[Current(f).active] # NoAttempt
               /\ attempt[Current(f).active].flow = f
    <3>1. {"running"} \in SUBSET FlowStates
      BY DEF FlowStates
    <3>2. f \in Flows /\ HeadRow[f].state = "running" /\ Current(f) = HeadRow[f]
      BY <3>1, InStateOfHead, HeadIsCurrent DEF RunningFlows, ClaimInv, InState
    <3>3. QED BY <3>2 DEF ClaimInv, RunningHasAttempt
  <2>2. ASSUME NEW a \in Attempts, IsLive(a) PROVE IsActive(a)
    BY <2>2, ActiveHead DEF ClaimInv, LiveIsActive
  <2>3. QED BY <2>1, <2>2 DEF ActiveAttemptAgreement
<1>2. QED
  BY <1>1, ClaimInvHolds, PTL

\* A cancellation that reached the store before the flow ended decides how the
\* flow ends, even when its attempt reports something else afterwards.
THEOREM CancellationDecides == Spec => []CancellationWins
<1>1. ClaimInv => CancellationWins
  <2> SUFFICES ASSUME ClaimInv, NEW f \in cancelRequested
               PROVE  \/ InState(f, {"running", "cancelled"})
                      \/ InState(f, FinalStates) /\ ~Current(f).cancel
    BY DEF CancellationWins
  <2>1. {"running", "cancelled"} \in SUBSET FlowStates /\ FinalStates \in SUBSET FlowStates
    BY DEF FlowStates, FinalStates
  <2>2. f \in Flows
    BY DEF ClaimInv, TypeInv, TypeOK
  <2>3. CASE HeadRow[f].cancel /\ HeadRow[f].state \in {"running", "cancelled"}
    BY <2>1, <2>2, <2>3, InStateOfHead DEF ClaimInv
  <2>4. CASE ~HeadRow[f].cancel /\ HeadRow[f].state \in FinalStates
    BY <2>1, <2>2, <2>4, InStateOfHead, HeadIsCurrent DEF ClaimInv, InState
  <2>5. QED BY <2>3, <2>4 DEF ClaimInv, CancelMarked
<1>2. QED
  BY <1>1, ClaimInvHolds, PTL

-----------------------------------------------------------------------------
(* Action properties. *)

\* Of the steps of the store, three change the state of an attempt other than
\* to end it or are the claim itself.
LEMMA AttemptStateSteps ==
  ASSUME ClaimInv, [Next]_vars, NEW a \in Attempts, attemptState'[a] # attemptState[a]
  PROVE  \/ \E i \in Instances, ts \in Stamps : TryClaimNext(i, a, ts)
         \/ \E ts \in Stamps : MarkDispatching(a, ts)
         \/ attemptState'[a] \in EndedAttemptStates
<1>0. attemptState \in
        [Attempts -> {"unclaimed"} \cup LiveAttemptStates \cup EndedAttemptStates]
  BY DEF ClaimInv, TypeInv, TypeOK
<1>1. CASE FlowStep
  <2>1. ASSUME NEW b \in Attempts, NEW outcome \in Outcomes, NEW ts \in Stamps,
               NEW answered \in BOOLEAN, CompleteAttempt(b, outcome, ts, answered)
        PROVE  attemptState'[a] \in EndedAttemptStates
    <3>1. attempt[b].flow \in Flows
      BY <2>1 DEF CompleteAttempt, IsActive, InState, Admitted
    <3>2. AttemptEnd(SelectedOutcome(attempt[b].flow, outcome)) \in EndedAttemptStates
      BY <3>1, OutcomeType
    <3>3. attemptState' =
            [attemptState EXCEPT ![b] =
               AttemptEnd(SelectedOutcome(attempt[b].flow, outcome))]
      BY <2>1 DEF CompleteAttempt
    <3>4. QED BY <1>0, <3>2, <3>3
  <2>2. ASSUME NEW b \in Attempts, NEW ts \in Stamps, MarkDispatching(b, ts)
        PROVE  a = b
    BY <1>0, <2>2 DEF MarkDispatching
  <2>3. CASE \/ \E f \in Flows, ts \in Stamps : AdmitFlow(f, ts)
             \/ \E f \in Flows, ts \in Stamps : RequestCancellation(f, ts)
             \/ \E b \in Attempts, ts \in Stamps : RenewClaim(b, ts)
             \/ \E i \in outbox, c \in Consumers : AcknowledgeCompletion(i, c)
             \/ \E b, expected, outcome : ReplayCompletion(b, expected, outcome)
    BY <2>3 DEF AdmitFlow, RequestCancellation, RenewClaim, AcknowledgeCompletion,
                ReplayCompletion, claimVars
  <2>4. QED BY <1>1, <2>1, <2>2, <2>3 DEF FlowStep
<1>2. CASE OperatorStep
  <2>1. ASSUME NEW o \in Operators, NEW ts \in Stamps, ApplyReconciliation(o, ts)
        PROVE  attemptState'[a] \in EndedAttemptStates
    BY <1>0, <2>1 DEF ApplyReconciliation, EndedAttemptStates
  <2>2. CASE \/ \E expected, mode : UpdateControl(expected, mode)
             \/ \E o \in Operators, ts \in Stamps : PreviewReconciliation(o, ts)
    BY <2>2 DEF UpdateControl, PreviewReconciliation, claimVars
  <2>3. QED BY <1>2, <2>1, <2>2 DEF OperatorStep
<1>3. CASE ForegroundStep
  <2>1. ASSUME NEW i \in Instances, NEW b \in Attempts, NEW ts \in Stamps,
               TryClaimNext(i, b, ts)
        PROVE  a = b
    BY <1>0, <2>1 DEF TryClaimNext
  <2>2. CASE \/ \E i \in Instances, ts \in 0..now : AcquireForeground(i, ts)
             \/ \E i \in Instances, ts \in 0..now : RenewForeground(i, ts)
             \/ \E i \in Instances : ReleaseForeground(i)
             \/ \E expected \in 0..control.revision : UpdateControl(expected, "stopped")
    BY <2>2 DEF AcquireForeground, RenewForeground, ReleaseForeground, UpdateControl,
                claimVars
  <2>3. QED BY <1>3, <2>1, <2>2 DEF ForegroundStep, ClaimStep
<1>4. CASE AdvanceTime \/ UNCHANGED vars
  BY <1>4 DEF AdvanceTime, vars, claimVars
<1>5. QED
  BY <1>1, <1>2, <1>3, <1>4 DEF Next

\* The flow a claim takes waits in the queue, which no cancelled flow does.
LEMMA ClaimedFlow ==
  ASSUME ClaimInv, NEW i \in Instances, NEW a \in Attempts, NEW ts \in Stamps,
         TryClaimNext(i, a, ts)
  PROVE  \E f \in Flows :
           /\ attempt' = [attempt EXCEPT ![a] =
                [flow |-> f, deadline |-> HardDeadline(f, ts)]]
           /\ HeadRow[f].state = "queued"
           /\ f \notin cancelRequested
           /\ attempt'[a].flow = f
<1>1. PICK f \in Eligible(ts) :
        attempt' = [attempt EXCEPT ![a] = [flow |-> f, deadline |-> HardDeadline(f, ts)]]
  BY DEF TryClaimNext
<1>2. InState(f, {"queued"}) /\ {"queued"} \in SUBSET FlowStates
  BY DEF Eligible, Claimable, FlowStates
<1>3. f \in Flows /\ HeadRow[f].state = "queued"
  BY <1>2, InStateOfHead DEF ClaimInv
<1>4. f \notin cancelRequested
  BY <1>3 DEF ClaimInv, CancelMarked, FinalStates
<1>5. attempt'[a].flow = f
  BY <1>1 DEF ClaimInv, TypeInv, TypeOK
<1>6. QED BY <1>1, <1>3, <1>4, <1>5

\* After a cancellation request no attempt of the flow is claimed, and none of
\* its claimed attempts records the intent to start a worker.
THEOREM CancelledNeverStarts == Spec => NoStartAfterCancel
<1>1. ASSUME ClaimInv, [Next]_vars, NEW a \in Attempts,
             attempt'[a] # NoAttempt, attempt'[a].flow \in cancelRequested,
             attemptState'[a] # attemptState[a]
      PROVE  attemptState'[a] \in EndedAttemptStates
  <2>1. ASSUME NEW i \in Instances, NEW ts \in Stamps, TryClaimNext(i, a, ts)
        PROVE  FALSE
    BY <1>1, <2>1, ClaimedFlow
  <2>2. ASSUME NEW ts \in Stamps, MarkDispatching(a, ts)
        PROVE  FALSE
    <3>1. /\ attempt' = attempt /\ attempt[a] # NoAttempt
          /\ HeadRow[attempt[a].flow].state = "running"
          /\ ~Current(attempt[a].flow).cancel
          /\ attempt[a].flow \in Flows
      BY <1>1, <2>2, ActiveHead
         DEF MarkDispatching, PermitsWork, ClaimInv, TypeInv, TypeOK
    <3>2. ~HeadRow[attempt[a].flow].cancel
      BY <1>1, <3>1, HeadIsCurrent DEF ClaimInv
    <3>3. QED BY <1>1, <3>1, <3>2 DEF ClaimInv, CancelMarked, FinalStates
  <2>3. QED BY <1>1, <2>1, <2>2, AttemptStateSteps
<1>2. ClaimInv /\ [Next]_vars => [StartsOnlyUncancelled]_vars
  BY <1>1 DEF StartsOnlyUncancelled
<1>3. QED
  BY <1>2, ClaimInvHolds, PTL DEF Spec, NoStartAfterCancel

\* No flow is claimed a second time, whatever became of its first attempt and
\* however many its specification allows.
THEOREM ClaimedAtMostOnce == Spec => NeverClaimedTwice
<1>1. ASSUME ClaimInv, [Next]_vars, NEW a \in Attempts,
             attempt[a] = NoAttempt, attempt'[a] # NoAttempt
      PROVE  AttemptsOf(attempt'[a].flow) = {}
  <2>1. PICK i \in Instances, b \in Attempts, ts \in Stamps : TryClaimNext(i, b, ts)
    BY <1>1 DEF Next, FlowStep, OperatorStep, ForegroundStep, ClaimStep, AdmitFlow,
       RequestCancellation, MarkDispatching, RenewClaim, CompleteAttempt,
       AcknowledgeCompletion, ReplayCompletion, UpdateControl, PreviewReconciliation,
       ApplyReconciliation, AcquireForeground, RenewForeground, ReleaseForeground,
       AdvanceTime, vars, claimVars
  <2>2. PICK f \in Flows :
          /\ attempt' = [attempt EXCEPT ![b] =
               [flow |-> f, deadline |-> HardDeadline(f, ts)]]
          /\ HeadRow[f].state = "queued"
          /\ attempt'[b].flow = f
    BY <1>1, <2>1, ClaimedFlow
  <2>3. a = b
    BY <1>1, <2>2 DEF ClaimInv, TypeInv, TypeOK
  <2>4. \A c \in Attempts : attempt[c] # NoAttempt => attempt[c].flow # f
    BY <1>1, <2>2 DEF ClaimInv, ClaimedLeftQueue
  <2>5. QED BY <2>2, <2>3, <2>4 DEF AttemptsOf
<1>2. ClaimInv /\ [Next]_vars => [ClaimsUnclaimed]_vars
  BY <1>1 DEF ClaimsUnclaimed
<1>3. QED
  BY <1>2, ClaimInvHolds, PTL DEF Spec, NeverClaimedTwice

-----------------------------------------------------------------------------
(* What a claim holder was granted is kept: the leases of the store, for   *)
(* every lag of the stamps that its transactions carry.                    *)

\* A lease row is the latest grant of a live attempt: it covers a key of the
\* attempt's flow and ends when the holder was told it would.
LeasesAreGrants ==
  \A k \in Keys : leases[k] # NoLease =>
    LET a == leases[k].owner
    IN  /\ a \in Attempts
        /\ IsLive(a)
        /\ k \in KeysOf(attempt[a].flow)
        /\ leases[k].expires = promised[a]
        /\ promised[a] = Lesser(leases[k].renewed + ClaimTTL, attempt[a].deadline)

LeaseInv == ClaimInv /\ LeasesAreGrants /\ GrantedClaimKept

\* The types this proof uses.
LEMMA LeaseTypes ==
  ASSUME TypeInv
  PROVE  /\ now \in Nat
         /\ attempt \in [Attempts -> [flow : Flows, deadline : Nat] \cup {NoAttempt}]
         /\ leases \in [Keys -> LeaseRows \cup {NoLease}]
         /\ promised \in [Attempts -> Nat]
  BY DEF TypeInv, TypeOK

LEMMA KeysOfType == ASSUME NEW f \in Flows PROVE KeysOf(f) \subseteq Keys
  BY FlowSpecAssumption DEF KeysOf, Keys, FlowSpecs

\* Steps that neither grant nor end a claim.
LEMMA LeaseInvFrame ==
  ASSUME LeaseInv, ClaimInv', UNCHANGED <<attempt, leases, promised>>,
         now' \in Nat, now' >= now,
         \A a \in Attempts : IsLive(a)' <=> IsLive(a)
  PROVE  LeaseInv'
<1>1. now \in Nat /\ promised \in [Attempts -> Nat]
  BY LeaseTypes DEF LeaseInv, ClaimInv
<1>2. LeasesAreGrants'
  BY DEF LeaseInv, LeasesAreGrants
<1>3. \A a \in Attempts : promised'[a] > now' => promised[a] > now
  BY <1>1
<1>4. GrantedClaimKept'
  BY <1>3 DEF LeaseInv, GrantedClaimKept
<1>5. QED BY <1>2, <1>4 DEF LeaseInv

LEMMA TryClaimNextLeases ==
  ASSUME LeaseInv, ClaimInv', NEW i \in Instances, NEW a \in Attempts, NEW ts \in Stamps,
         TryClaimNext(i, a, ts)
  PROVE  LeaseInv'
<1>1. PICK f \in Eligible(ts) :
        /\ leases' = [k \in Keys |->
             IF k \in KeysOf(f)
               THEN [owner |-> a, renewed |-> ts, expires |-> LeaseExpiry(f, ts)]
               ELSE leases[k]]
        /\ attempt' = [attempt EXCEPT ![a] = [flow |-> f, deadline |-> HardDeadline(f, ts)]]
        /\ attemptState' = [attemptState EXCEPT ![a] = "created"]
        /\ promised' = [promised EXCEPT ![a] = LeaseExpiry(f, ts)]
  BY DEF TryClaimNext
<1>2. /\ now' = now /\ attempt[a] = NoAttempt
      /\ f \in Flows /\ KeysOf(f) \subseteq Keys
      /\ ts \in Nat /\ ts <= now
      /\ LeasesAvailable(f, ts)
      /\ LeaseExpiry(f, ts) = Lesser(ts + ClaimTTL, HardDeadline(f, ts))
  BY KeysOfType, StampType
     DEF TryClaimNext, Eligible, LeaseExpiry, Stamps, LeaseInv, ClaimInv, TypeInv
<1>3. /\ now \in Nat
      /\ attempt \in [Attempts -> [flow : Flows, deadline : Nat] \cup {NoAttempt}]
      /\ leases \in [Keys -> LeaseRows \cup {NoLease}]
      /\ promised \in [Attempts -> Nat]
      /\ attemptState \in
           [Attempts -> {"unclaimed"} \cup LiveAttemptStates \cup EndedAttemptStates]
  BY LeaseTypes DEF LeaseInv, ClaimInv, TypeInv, TypeOK
<1>4. \A b \in Attempts : IsLive(b) => b # a
  BY <1>2 DEF LeaseInv, ClaimInv, LiveIsActive
<1>5. /\ IsLive(a)'
      /\ \A b \in Attempts \ {a} : IsLive(b)' <=> IsLive(b)
  BY <1>1, <1>3 DEF IsLive, LiveAttemptStates
<1>6. /\ attempt'[a].flow = f /\ attempt'[a].deadline = HardDeadline(f, ts)
      /\ promised'[a] = LeaseExpiry(f, ts)
      /\ \A b \in Attempts \ {a} : attempt'[b] = attempt[b] /\ promised'[b] = promised[b]
  BY <1>1, <1>3
<1> DEFINE row == [owner |-> a, renewed |-> ts, expires |-> LeaseExpiry(f, ts)]
<1>7. LeasesAreGrants'
  <2>1. SUFFICES ASSUME NEW k \in Keys, leases'[k] # NoLease
                 PROVE  /\ leases'[k].owner \in Attempts
                        /\ attemptState'[leases'[k].owner] \in LiveAttemptStates
                        /\ k \in KeysOf(attempt'[leases'[k].owner].flow)
                        /\ leases'[k].expires = promised'[leases'[k].owner]
                        /\ promised'[leases'[k].owner] =
                             Lesser(leases'[k].renewed + ClaimTTL,
                                    attempt'[leases'[k].owner].deadline)
    BY DEF LeasesAreGrants, IsLive, KeysOf
  <2>2. CASE k \in KeysOf(f)
    BY <1>1, <1>2, <1>5, <1>6, <2>2 DEF IsLive
  <2>3. CASE k \notin KeysOf(f)
    <3>1. leases'[k] = leases[k]
      BY <1>1, <2>3
    <3>2. leases[k].owner \in Attempts /\ IsLive(leases[k].owner)
      BY <2>1, <3>1 DEF LeaseInv, LeasesAreGrants
    <3>3. leases[k].owner # a
      BY <1>4, <3>2
    <3>4. QED BY <1>5, <1>6, <2>1, <3>1, <3>2, <3>3 DEF LeaseInv, LeasesAreGrants, IsLive
  <2>4. QED BY <2>2, <2>3
<1>8. GrantedClaimKept'
  <2>1. SUFFICES ASSUME NEW b \in Attempts, IsLive(b)', promised'[b] > now,
                        NEW k \in KeysOf(attempt'[b].flow)
                 PROVE  leases'[k] # NoLease /\ leases'[k].owner = b
    BY <1>2 DEF GrantedClaimKept, KeysOf
  <2>2. CASE b = a
    <3>1. leases'[k] = row
      BY <1>1, <1>2, <1>6, <2>1, <2>2
    <3>2. row # NoLease
      BY <1>2, HardDeadlineType, SentinelAssumption DEF LeaseInv, ClaimInv
    <3>3. QED BY <2>2, <3>1, <3>2
  <2>3. CASE b # a
    <3>1. /\ IsLive(b) /\ promised[b] > now /\ k \in KeysOf(attempt[b].flow)
      BY <1>5, <1>6, <2>1, <2>3
    <3>2. attempt[b] # NoAttempt /\ attempt[b].flow \in Flows
      BY <1>3, <3>1 DEF LeaseInv, ClaimInv, LiveIsActive
    <3>3. k \in Keys
      BY <3>1, <3>2, KeysOfType
    <3>4. leases[k] # NoLease /\ leases[k].owner = b
      BY <3>1 DEF LeaseInv, GrantedClaimKept
    <3>5. leases[k].expires > now
      BY <3>1, <3>3, <3>4 DEF LeaseInv, LeasesAreGrants
    <3>6. k \notin KeysOf(f)
      <4>1. leases[k].expires \in Nat
        BY <1>3, <3>3, <3>4 DEF LeaseRows
      <4>2. QED BY <1>2, <1>3, <3>4, <3>5, <4>1 DEF LeasesAvailable
    <3>7. QED BY <1>1, <3>3, <3>4, <3>6
  <2>4. QED BY <2>2, <2>3
<1>9. QED BY <1>7, <1>8 DEF LeaseInv

LEMMA RenewClaimLeases ==
  ASSUME LeaseInv, ClaimInv', NEW a \in Attempts, NEW ts \in Stamps, RenewClaim(a, ts)
  PROVE  LeaseInv'
<1> DEFINE
  f == attempt[a].flow
  expiry == Lesser(ts + ClaimTTL, attempt[a].deadline)
<1>1. /\ now \in Nat
      /\ attempt \in [Attempts -> [flow : Flows, deadline : Nat] \cup {NoAttempt}]
      /\ leases \in [Keys -> LeaseRows \cup {NoLease}]
      /\ promised \in [Attempts -> Nat]
      /\ ts \in Nat /\ ClaimTTL \in Nat
  BY LeaseTypes, StampType, ParameterAssumption DEF LeaseInv, ClaimInv, TypeInv
<1>2. /\ leases' = [k \in Keys |->
           IF k \in KeysOf(f)
             THEN [leases[k] EXCEPT !.renewed = ts, !.expires = expiry]
             ELSE leases[k]]
      /\ promised' = [promised EXCEPT ![a] = IF expiry > @ THEN expiry ELSE @]
      /\ UNCHANGED <<now, attempt, attemptState>>
      /\ attempt[a] # NoAttempt
      /\ \A k \in KeysOf(f) : leases[k] # NoLease /\ leases[k].owner = a /\ leases[k].renewed <= ts
  BY DEF RenewClaim, ClaimHeld, PermitsWork, IsActive
<1>3. f \in Flows /\ KeysOf(f) \subseteq Keys /\ f \in KeysOf(f) /\ attempt[a].deadline \in Nat
  BY <1>1, <1>2, KeysOfType DEF KeysOf
<1>4. expiry \in Nat /\ expiry >= promised[a]
  <2>1. /\ leases[f].renewed \in Nat /\ leases[f].renewed <= ts
        /\ promised[a] = Lesser(leases[f].renewed + ClaimTTL, attempt[a].deadline)
    BY <1>1, <1>2, <1>3 DEF LeaseInv, LeasesAreGrants, LeaseRows
  <2>2. QED BY <1>1, <1>3, <2>1 DEF Lesser
<1>5. expiry = Lesser(ts + ClaimTTL, attempt[a].deadline)
  OBVIOUS
<1> HIDE DEF expiry, f
<1>6. promised' = [promised EXCEPT ![a] = expiry]
  <2>1. promised[a] \in Nat
    BY <1>1
  <2>2. (IF expiry > promised[a] THEN expiry ELSE promised[a]) = expiry
    BY <1>4, <2>1
  <2>3. QED BY <1>2, <2>2
<1>7. \A k \in KeysOf(f) : /\ leases'[k] # NoLease
                          /\ leases'[k].owner = a /\ leases'[k].renewed = ts
                          /\ leases'[k].expires = expiry
  <2>1. SUFFICES ASSUME NEW k \in KeysOf(f)
                 PROVE  /\ leases'[k] # NoLease
                        /\ leases'[k].owner = a /\ leases'[k].renewed = ts
                        /\ leases'[k].expires = expiry
    OBVIOUS
  <2>2. k \in Keys /\ leases[k] \in LeaseRows
    BY <1>1, <1>2, <1>3
  <2>3. leases'[k] = [leases[k] EXCEPT !.renewed = ts, !.expires = expiry]
    BY <1>2, <2>2
  <2>4. /\ leases'[k].owner = a /\ leases'[k].renewed = ts /\ leases'[k].expires = expiry
        /\ leases'[k] \in [owner : Attempts \cup Instances, renewed : Nat, expires : Nat]
    BY <1>1, <1>2, <1>4, <2>2, <2>3 DEF LeaseRows
  <2>5. QED BY <2>4, SentinelAssumption
<1>8. \A k \in Keys \ KeysOf(f) : leases'[k] = leases[k]
  BY <1>2
<1>9. \A k \in Keys \ KeysOf(f) : leases[k] # NoLease => leases[k].owner # a
  BY DEF LeaseInv, LeasesAreGrants, f
<1>10. IsLive(a)
  <2>1. f \in Keys /\ leases[f] # NoLease /\ leases[f].owner = a
    BY <1>2, <1>3
  <2>2. QED BY <2>1 DEF LeaseInv, LeasesAreGrants
<1>11. LeasesAreGrants'
  <2>1. SUFFICES ASSUME NEW k \in Keys, leases'[k] # NoLease
                 PROVE  /\ leases'[k].owner \in Attempts
                        /\ attemptState[leases'[k].owner] \in LiveAttemptStates
                        /\ k \in KeysOf(attempt[leases'[k].owner].flow)
                        /\ leases'[k].expires = promised'[leases'[k].owner]
                        /\ promised'[leases'[k].owner] =
                             Lesser(leases'[k].renewed + ClaimTTL,
                                    attempt[leases'[k].owner].deadline)
    BY <1>2 DEF LeasesAreGrants, IsLive
  <2>2. CASE k \in KeysOf(f)
    BY <1>1, <1>5, <1>6, <1>7, <1>10, <2>2 DEF IsLive, f
  <2>3. CASE k \notin KeysOf(f)
    BY <1>6, <1>8, <1>9, <2>1, <2>3, <1>1 DEF LeaseInv, LeasesAreGrants, IsLive
  <2>4. QED BY <2>2, <2>3
<1>12. GrantedClaimKept'
  <2>1. SUFFICES ASSUME NEW b \in Attempts, IsLive(b)', promised'[b] > now,
                        NEW k \in KeysOf(attempt[b].flow)
                 PROVE  leases'[k] # NoLease /\ leases'[k].owner = b
    BY <1>2 DEF GrantedClaimKept
  <2>2. CASE b = a
    BY <1>7, <2>1, <2>2 DEF f
  <2>3. CASE b # a
    <3>1. IsLive(b) /\ promised[b] > now
      BY <1>1, <1>2, <1>6, <2>1, <2>3 DEF IsLive
    <3>2. leases[k] # NoLease /\ leases[k].owner = b
      BY <2>1, <3>1 DEF LeaseInv, GrantedClaimKept
    <3>3. k \in Keys
      <4>1. attempt[b].flow \in Flows
        BY <1>1, <3>1 DEF LeaseInv, ClaimInv, LiveIsActive
      <4>2. QED BY <2>1, <4>1, KeysOfType
    <3>4. k \notin KeysOf(f)
      BY <1>2, <2>3, <3>2
    <3>5. QED BY <1>8, <3>2, <3>3, <3>4
  <2>4. QED BY <2>2, <2>3
<1>13. QED BY <1>11, <1>12 DEF LeaseInv

\* Dropping the rows of attempts that end takes nothing from the others.
LEMMA ReleaseKeepsGrants ==
  ASSUME LeaseInv, ClaimInv', NEW ended,
         leases' = Released(ended),
         UNCHANGED <<now, attempt, promised>>,
         \A a \in Attempts : IsLive(a)' <=> IsLive(a) /\ a \notin ended
  PROVE  LeaseInv'
<1>1. \A k \in Keys : leases'[k] =
        IF leases[k] # NoLease /\ leases[k].owner \in ended THEN NoLease ELSE leases[k]
  BY DEF Released
<1>2. LeasesAreGrants'
  <2>1. SUFFICES ASSUME NEW k \in Keys, leases'[k] # NoLease
                 PROVE  /\ leases'[k].owner \in Attempts
                        /\ attemptState'[leases'[k].owner] \in LiveAttemptStates
                        /\ k \in KeysOf(attempt[leases'[k].owner].flow)
                        /\ leases'[k].expires = promised[leases'[k].owner]
                        /\ promised[leases'[k].owner] =
                             Lesser(leases'[k].renewed + ClaimTTL,
                                    attempt[leases'[k].owner].deadline)
    BY DEF LeasesAreGrants, IsLive
  <2>2. leases'[k] = leases[k] /\ leases[k] # NoLease /\ leases[k].owner \notin ended
    BY <1>1, <2>1
  <2>3. QED BY <2>2 DEF LeaseInv, LeasesAreGrants, IsLive
<1>3. GrantedClaimKept'
  <2>1. SUFFICES ASSUME NEW b \in Attempts, IsLive(b)', promised[b] > now,
                        NEW k \in KeysOf(attempt[b].flow)
                 PROVE  leases'[k] # NoLease /\ leases'[k].owner = b
    BY DEF GrantedClaimKept
  <2>2. IsLive(b) /\ b \notin ended
    BY <2>1
  <2>3. leases[k] # NoLease /\ leases[k].owner = b
    BY <2>1, <2>2 DEF LeaseInv, GrantedClaimKept
  <2>4. k \in Keys
    <3>1. attempt[b].flow \in Flows
      BY <2>2, LeaseTypes DEF LeaseInv, ClaimInv, LiveIsActive
    <3>2. QED BY <2>1, <3>1, KeysOfType
  <2>5. QED BY <1>1, <2>2, <2>3, <2>4
<1>4. QED BY <1>2, <1>3 DEF LeaseInv

LEMMA CompleteAttemptLeases ==
  ASSUME LeaseInv, ClaimInv', NEW a \in Attempts, NEW outcome \in Outcomes,
         NEW ts \in Stamps, NEW answered \in BOOLEAN,
         CompleteAttempt(a, outcome, ts, answered)
  PROVE  LeaseInv'
<1>1. attempt[a].flow \in Flows
  BY DEF CompleteAttempt, IsActive, InState, Admitted
<1>2. AttemptEnd(SelectedOutcome(attempt[a].flow, outcome)) \in EndedAttemptStates
  BY <1>1, OutcomeType
<1>3. /\ leases' = Released({a})
      /\ UNCHANGED <<now, attempt, promised>>
      /\ attemptState' =
           [attemptState EXCEPT ![a] = AttemptEnd(SelectedOutcome(attempt[a].flow, outcome))]
  BY DEF CompleteAttempt
<1>4. \A b \in Attempts : IsLive(b)' <=> IsLive(b) /\ b \notin {a}
  BY <1>2, <1>3
     DEF IsLive, LiveAttemptStates, EndedAttemptStates, LeaseInv, ClaimInv, TypeInv, TypeOK
<1>5. QED BY <1>3, <1>4, ReleaseKeepsGrants

LEMMA ApplyReconciliationLeases ==
  ASSUME LeaseInv, ClaimInv', NEW o \in Operators, NEW ts \in Stamps,
         ApplyReconciliation(o, ts)
  PROVE  LeaseInv'
<1> DEFINE
  cancelled == FlaggedAttempts(Audit(ts), "finalize_cancelled_pre_dispatch")
  lost      == FlaggedAttempts(Audit(ts), "mark_lost_pre_dispatch")
  orphaned  == FlaggedAttempts(Audit(ts), "release_orphan_attempt_leases")
<1>1. /\ leases' = Released(cancelled \cup lost \cup orphaned)
      /\ UNCHANGED <<now, attempt, promised>>
      /\ attemptState' = [a \in Attempts |->
           IF a \in cancelled THEN "cancelled"
           ELSE IF a \in lost THEN "lost" ELSE attemptState[a]]
  BY DEF ApplyReconciliation, sideVars
<1>2. \A a \in orphaned \cap Attempts : ~IsLive(a)
  <2>1. SUFFICES ASSUME NEW a \in orphaned, a \in Attempts, IsLive(a) PROVE FALSE
    OBVIOUS
  <2>2. PICK x \in Audit(ts) : x.action = "release_orphan_attempt_leases" /\ x.attempt = a
    BY DEF FlaggedAttempts
  <2>3. x \in OrphanLeases
    BY <2>2 DEF Audit, QueuedPastDeadline, MissingAttempts, ExpiredClaims,
                AmbiguousAttempts, UnpublishedFlows, UndeliveredCompletions, Finding
  <2>4. Current(attempt[a].flow).active # a
    BY <2>2, <2>3 DEF OrphanLeases, Finding
  <2>5. IsActive(a)
    BY <2>1, ActiveHead DEF LeaseInv, ClaimInv, LiveIsActive
  <2>6. QED BY <2>4, <2>5 DEF IsActive
<1>3. \A a \in Attempts :
        IsLive(a)' <=> IsLive(a) /\ a \notin cancelled \cup lost \cup orphaned
  <2> HIDE DEF cancelled, lost, orphaned
  <2>1. QED BY <1>1, <1>2 DEF IsLive, LiveAttemptStates
<1>4. QED
  <2> HIDE DEF cancelled, lost, orphaned
  <2>1. QED BY <1>1, <1>3, ReleaseKeepsGrants

-----------------------------------------------------------------------------
LEMMA LeaseInit == Init => LeaseInv
  BY ClaimInit DEF Init, LeaseInv, LeasesAreGrants, GrantedClaimKept, IsLive,
                   LiveAttemptStates

LEMMA LeaseStep == LeaseInv /\ [Next]_vars => LeaseInv'
<1> SUFFICES ASSUME LeaseInv, [Next]_vars PROVE LeaseInv'
  OBVIOUS
<1>1. ClaimInv' /\ now \in Nat
  BY ClaimStepLemma, LeaseTypes DEF LeaseInv, ClaimInv
<1>2. CASE /\ now' \in Nat /\ now' >= now
           /\ UNCHANGED claimVars
  BY <1>1, <1>2, LeaseInvFrame DEF claimVars, IsLive
<1>3. ASSUME NEW a \in Attempts, NEW ts \in Stamps, MarkDispatching(a, ts)
      PROVE  LeaseInv'
  <2>1. \A b \in Attempts : IsLive(b)' <=> IsLive(b)
    BY <1>3 DEF MarkDispatching, IsLive, LiveAttemptStates, LeaseInv, ClaimInv, TypeInv,
                TypeOK
  <2>2. UNCHANGED <<now, attempt, leases, promised>>
    BY <1>3 DEF MarkDispatching
  <2>3. QED BY <1>1, <2>1, <2>2, LeaseInvFrame
<1>4. CASE FlowStep
  <2>1. CASE \/ \E f \in Flows, ts \in Stamps : AdmitFlow(f, ts)
             \/ \E f \in Flows, ts \in Stamps : RequestCancellation(f, ts)
             \/ \E i \in outbox, c \in Consumers : AcknowledgeCompletion(i, c)
             \/ \E a, expected, outcome : ReplayCompletion(a, expected, outcome)
    <3>1. UNCHANGED <<now, claimVars>>
      BY <2>1 DEF AdmitFlow, RequestCancellation, AcknowledgeCompletion, ReplayCompletion
    <3>2. QED BY <1>1, <1>2, <3>1
  <2>2. QED
    BY <1>1, <1>3, <1>4, <2>1, RenewClaimLeases, CompleteAttemptLeases DEF FlowStep
<1>5. CASE OperatorStep
  <2>1. CASE \/ \E expected, mode : UpdateControl(expected, mode)
             \/ \E o \in Operators, ts \in Stamps : PreviewReconciliation(o, ts)
    <3>1. UNCHANGED <<now, claimVars>>
      BY <2>1 DEF UpdateControl, PreviewReconciliation
    <3>2. QED BY <1>1, <1>2, <3>1
  <2>2. QED BY <1>1, <1>5, <2>1, ApplyReconciliationLeases DEF OperatorStep
<1>6. CASE ForegroundStep
  <2>1. CASE \/ \E i \in Instances, ts \in 0..now : AcquireForeground(i, ts)
             \/ \E i \in Instances, ts \in 0..now : RenewForeground(i, ts)
             \/ \E i \in Instances : ReleaseForeground(i)
             \/ \E expected \in 0..control.revision : UpdateControl(expected, "stopped")
    <3>1. UNCHANGED <<now, claimVars>>
      BY <2>1 DEF AcquireForeground, RenewForeground, ReleaseForeground, UpdateControl
    <3>2. QED BY <1>1, <1>2, <3>1
  <2>2. QED BY <1>1, <1>6, <2>1, TryClaimNextLeases DEF ForegroundStep, ClaimStep
<1>7. CASE AdvanceTime
  BY <1>1, <1>2, <1>7 DEF AdvanceTime
<1>8. CASE UNCHANGED vars
  BY <1>1, <1>2, <1>8 DEF vars
<1>9. QED
  BY <1>4, <1>5, <1>6, <1>7, <1>8 DEF Next

LEMMA LeaseInvHolds == Spec => []LeaseInv
  BY LeaseInit, LeaseStep, PTL DEF Spec

\* No lease row outlives its attempt, strays from its flow's keys or passes the
\* attempt's fixed deadline: each transaction that ends an attempt drops its rows.
THEOREM LeasesHaveOwners == Spec => []NoOrphanLease
<1>1. LeaseInv => NoOrphanLease
  <2> SUFFICES ASSUME LeaseInv, NEW k \in Keys, leases[k] # NoLease
               PROVE  /\ IsLive(leases[k].owner)
                      /\ k \in KeysOf(attempt[leases[k].owner].flow)
                      /\ leases[k].expires <= attempt[leases[k].owner].deadline
    BY DEF NoOrphanLease
  <2> DEFINE a == leases[k].owner
  <2>1. /\ a \in Attempts /\ IsLive(a) /\ k \in KeysOf(attempt[a].flow)
        /\ leases[k].expires = Lesser(leases[k].renewed + ClaimTTL, attempt[a].deadline)
    BY DEF LeaseInv, LeasesAreGrants
  <2>2. leases[k] \in LeaseRows
    BY LeaseTypes DEF LeaseInv, ClaimInv
  <2>3. attempt[a].deadline \in Nat
    BY <2>1, LeaseTypes DEF LeaseInv, ClaimInv, LiveIsActive
  <2>4. leases[k].expires <= attempt[a].deadline
    BY <2>1, <2>2, <2>3, ParameterAssumption DEF Lesser, LeaseRows
  <2>5. QED BY <2>1, <2>4
<1>2. QED
  BY <1>1, LeaseInvHolds, PTL

\* Until the latest expiry its holder was ever told, a live attempt owns every
\* key of its flow, however far the stamps of any transaction lag its commit.
THEOREM GrantsAreKept == Spec => []GrantedClaimKept
<1>1. LeaseInv => GrantedClaimKept
  BY DEF LeaseInv
<1>2. QED
  BY <1>1, LeaseInvHolds, PTL

\* So no two holders with an unexpired grant ever work on the same resource.
THEOREM ResourcesAreExclusive == Spec => []ResourceExclusion
<1>1. GrantedClaimKept => ResourceExclusion
  BY DEF GrantedClaimKept, ResourceExclusion
<1>2. QED
  BY <1>1, GrantsAreKept, PTL

-----------------------------------------------------------------------------
(***************************************************************************)
(* Records: what the tables say of the work.  The histories are lawful, the*)
(* outbox is the history, replies and receipts repeat it, reconciliation   *)
(* gives up dead claims only, and each flow keeps its contract.            *)
(***************************************************************************)

-----------------------------------------------------------------------------
(* What one step does to the histories and the outbox. *)

\* A revision of this state goes to the outbox.
Due(revision) == revision.state \notin {"queued", "running"}

\* The revision that may follow the head of flow f.
Admits(old, new) ==
  /\ old.state = "absent"
  /\ new.state = "queued" /\ ~new.cancel /\ new.active = NoAttempt

Starts(old, new) ==
  /\ old.state = "queued" /\ ~old.cancel
  /\ new.state = "running" /\ ~new.cancel /\ new.active \in Attempts

Ends(old, new) ==
  /\ \/ old.state = "running" /\ new.state \in ReportableOutcomes
     \/ old.state = "queued" /\ new.state = "timed_out"
  /\ old.cancel => new.state = "cancelled"
  /\ new.cancel = old.cancel /\ new.active = NoAttempt

CancelsRun(old, new) ==
  /\ old.state = "running" /\ ~old.cancel
  /\ new.state = "running" /\ new.cancel /\ new.active = old.active

CancelsIdle(old, new) ==
  /\ old.state \in {"queued", "waiting", "blocked", "lost"} /\ ~old.cancel
  /\ new.state = "cancelled" /\ new.cancel /\ new.active = NoAttempt

Follows(old, new) ==
  \/ Admits(old, new) \/ Starts(old, new) \/ Ends(old, new)
  \/ CancelsRun(old, new) \/ CancelsIdle(old, new)

\* The intent that the revision after f's head owes to the outbox.
Owed(f, revision, operation) ==
  Intent(f, Len(history[f]) + 1, revision.state, HeadRow[f].active, operation)

\* The flows of E get one lawful revision each, the outbox gets the intents
\* that these owe, and no ending is stamped before the revision it ends.
Revises(E, row, operation) ==
  /\ \A f \in E : row[f] \in Revisions /\ Follows(HeadRow[f], row[f])
  /\ history' = [f \in Flows |->
       IF f \in E THEN Append(history[f], row[f]) ELSE history[f]]
  /\ outbox' = outbox \cup {Owed(f, row[f], operation) : f \in {g \in E : Due(row[g])}}
  /\ \A f \in E : Due(row[f]) => revisedAt'[f] >= revisedAt[f]

\* A flow that ended is revised no more.
EndIsLast ==
  \A f \in Flows : \A r \in 1..Len(history[f]) :
    history[f][r].state \in FinalStates => r = Len(history[f])

\* The intent of an attempt is its only one, and the attempt is over.
AttemptsEndOnce ==
  /\ \A i \in outbox : i.attempt # NoAttempt =>
       attempt[i.attempt] # NoAttempt /\ ~IsLive(i.attempt)
  /\ \A i, j \in outbox : i.attempt = j.attempt /\ i.attempt # NoAttempt => i = j

\* What a holder was told is what the outbox holds for its attempt.
RepliesAreIntents ==
  \A a \in Attempts : \A x \in replies[a] :
    \E i \in outbox : i.attempt = a /\ i.revision = x.revision /\ i.state = x.state

\* A revision commits when it was stamped, or later.
StampedBeforeCommit == \A f \in Flows : revisedAt[f] <= committedAt[f]

RecordInv ==
  /\ LeaseInv
  /\ EndIsLast
  /\ OutboxIsHistory
  /\ AttemptsEndOnce
  /\ RepliesAreIntents
  /\ OneReceiptPerCompletion
  /\ StampedBeforeCommit

\* The types and the facts about heads that these proofs use.
LEMMA RecordTypes ==
  ASSUME RecordInv
  PROVE  /\ TypeInv /\ ClaimInv
         /\ history \in [Flows -> Seq(Revisions)]
         /\ revisedAt \in [Flows -> Nat] /\ committedAt \in [Flows -> Nat]
         /\ outbox \in SUBSET Intents
         /\ now \in Nat
         /\ HeadRow \in [Flows -> HeadRows]
         /\ NoAttempt \notin Attempts
  BY HeadType, SentinelAssumption DEF RecordInv, LeaseInv, ClaimInv, TypeInv, TypeOK

\* No intent names a revision that the history does not hold yet.
LEMMA NextIsUnpublished ==
  ASSUME RecordInv, NEW i \in outbox PROVE i.flow \in Flows /\ i.revision # Len(history[i.flow]) + 1
<1>1. i.flow \in Flows /\ i.revision \in 2..Len(history[i.flow])
  BY RecordTypes DEF RecordInv, OutboxIsHistory, Intents
<1>2. Len(history[i.flow]) \in Nat
  BY <1>1, RecordTypes
<1>3. QED BY <1>1, <1>2

\* One revision of one flow.
LEMMA OneRevision ==
  ASSUME RecordInv, NEW f \in Flows, NEW r \in Revisions, NEW ts, NEW op,
         AppendRevision(f, r, ts), Follows(HeadRow[f], r),
         Due(r) => ts >= revisedAt[f],
         outbox' = IF Due(r) THEN Published(Owed(f, r, op)) ELSE outbox
  PROVE  Revises({f}, [g \in {f} |-> r], op)
<1>1. history' = [g \in Flows |-> IF g \in {f} THEN Append(history[g], r) ELSE history[g]]
  BY RecordTypes DEF AppendRevision
<1>2. revisedAt'[f] = ts
  BY RecordTypes DEF AppendRevision
<1>3. Owed(f, r, op).flow = f /\ Owed(f, r, op).revision = Len(history[f]) + 1
  BY DEF Owed, Intent
<1>4. Published(Owed(f, r, op)) = outbox \cup {Owed(f, r, op)}
  BY <1>3, NextIsUnpublished DEF Published
<1>5. QED BY <1>1, <1>2, <1>4 DEF Revises

\* No revision at all.
LEMMA NoRevision ==
  ASSUME RecordInv, UNCHANGED <<history, outbox>>, NEW op PROVE Revises({}, <<>>, op)
  BY RecordTypes DEF Revises

LEMMA AdmitFlowRevises ==
  ASSUME RecordInv, NEW f \in Flows, NEW ts \in Stamps, AdmitFlow(f, ts)
  PROVE  \E E \in SUBSET Flows : \E row, op : Revises(E, row, op)
<1> DEFINE r == Revision("queued", FALSE, NoAttempt)
<1>1. r \in Revisions /\ r.state = "queued" /\ ~r.cancel /\ r.active = NoAttempt
  BY DEF Revision, Revisions, FlowStates
<1>2. HeadRow[f].state = "absent"
  BY HeadIsCurrent, RecordTypes DEF AdmitFlow
<1>3. AppendRevision(f, r, ts) /\ outbox' = outbox
  BY DEF AdmitFlow
<1> HIDE DEF r
<1>4. Revises({f}, [g \in {f} |-> r], NoOperation)
  BY <1>1, <1>2, <1>3, OneRevision DEF Follows, Admits, Due
<1>5. QED BY <1>4

LEMMA TryClaimNextRevises ==
  ASSUME RecordInv, NEW i \in Instances, NEW a \in Attempts, NEW ts \in Stamps,
         TryClaimNext(i, a, ts)
  PROVE  \E E \in SUBSET Flows : \E row, op : Revises(E, row, op)
<1>1. PICK f \in Eligible(ts) : AppendRevision(f, Revision("running", FALSE, a), ts)
  BY DEF TryClaimNext
<1> DEFINE r == Revision("running", FALSE, a)
<1>2. r \in Revisions /\ r.state = "running" /\ ~r.cancel /\ r.active = a
  BY DEF Revision, Revisions, FlowStates
<1>3. InState(f, {"queued"}) /\ ~Current(f).cancel /\ {"queued"} \in SUBSET FlowStates
  BY DEF Eligible, Claimable, FlowStates
<1>4. f \in Flows /\ HeadRow[f].state = "queued" /\ ~HeadRow[f].cancel
  BY <1>3, InStateOfHead, HeadIsCurrent, RecordTypes DEF InState
<1>5. AppendRevision(f, r, ts) /\ outbox' = outbox
  BY <1>1 DEF TryClaimNext
<1> HIDE DEF r
<1>6. Revises({f}, [g \in {f} |-> r], NoOperation)
  BY <1>2, <1>4, <1>5, OneRevision DEF Follows, Starts, Due
<1>7. QED BY <1>4, <1>6

LEMMA RequestCancellationRevises ==
  ASSUME RecordInv, NEW f \in Flows, NEW ts \in Stamps, RequestCancellation(f, ts)
  PROVE  \E E \in SUBSET Flows : \E row, op : Revises(E, row, op)
<1>1. /\ f \in Admitted \ cancelRequested
      /\ ts >= revisedAt[f]
      /\ UNCHANGED attemptState
  BY DEF RequestCancellation, claimVars
<1>2. /\ Current(f) = HeadRow[f] /\ HeadRow[f] \in HeadRows
      /\ HeadRow[f].state \in FlowStates /\ ~HeadRow[f].cancel
  BY <1>1, HeadIsCurrent, RecordTypes DEF ClaimInv, CancelMarked, HeadRows
<1>3. CASE CancelFinal(f)
  BY <1>3, NoRevision DEF CancelFinal
<1>4. CASE CancelRunning(f, ts)
  <2> DEFINE r == Revision("running", TRUE, Current(f).active)
  <2>1. /\ r \in Revisions /\ r.state = "running" /\ r.cancel
        /\ r.active = HeadRow[f].active
    BY <1>2 DEF Revision, Revisions, FlowStates, HeadRows
  <2>2. HeadRow[f].state = "running" /\ AppendRevision(f, r, ts) /\ outbox' = outbox
    BY <1>2, <1>4 DEF CancelRunning, InState
  <2> HIDE DEF r
  <2>3. Revises({f}, [g \in {f} |-> r], NoOperation)
    BY <1>2, <2>1, <2>2, OneRevision DEF Follows, CancelsRun, Due
  <2>4. QED BY <2>3
<1>5. CASE CancelIdle(f, ts)
  <2> DEFINE r == Revision("cancelled", TRUE, NoAttempt)
  <2>1. r \in Revisions /\ r.state = "cancelled" /\ r.cancel /\ r.active = NoAttempt
    BY DEF Revision, Revisions, FlowStates
  <2>2. HeadRow[f].state \in {"queued", "waiting", "blocked", "lost"}
    BY <1>2, <1>5 DEF CancelIdle, InState, FlowStates, FinalStates
  <2>3. HeadRow[f].active = NoAttempt
    BY <2>2, RecordTypes DEF ClaimInv, RunningHasAttempt
  <2>4. outbox' = Published(Owed(f, r, NoOperation)) /\ AppendRevision(f, r, ts)
    BY <1>5, <2>1, <2>3 DEF CancelIdle, Owed
  <2> HIDE DEF r
  <2>5. Revises({f}, [g \in {f} |-> r], NoOperation)
    BY <1>1, <1>2, <2>1, <2>2, <2>4, OneRevision DEF Follows, CancelsIdle, Due
  <2>6. QED BY <2>5
<1>6. QED BY <1>3, <1>4, <1>5 DEF RequestCancellation

LEMMA CompleteAttemptRevises ==
  ASSUME RecordInv, NEW a \in Attempts, NEW outcome \in Outcomes, NEW ts \in Stamps,
         NEW answered \in BOOLEAN, CompleteAttempt(a, outcome, ts, answered)
  PROVE  \E E \in SUBSET Flows : \E row, op : Revises(E, row, op)
<1>1. PICK f \in Flows : f = attempt[a].flow /\ attempt[a] # NoAttempt
  BY DEF CompleteAttempt, IsActive, InState, Admitted
<1> DEFINE selected == SelectedOutcome(f, outcome)
           r == EndRevision(f, selected)
           op == Operation(Len(history[f]), outcome)
<1>2. /\ HeadRow[f].state = "running" /\ HeadRow[f].active = a
      /\ Current(f) = HeadRow[f] /\ HeadRow[f] \in HeadRows
  BY <1>1, ActiveHead, HeadIsCurrent, RecordTypes DEF CompleteAttempt
<1>3. /\ selected \in ReportableOutcomes /\ selected \in FlowStates
      /\ HeadRow[f].cancel => selected = "cancelled"
  BY <1>2, OutcomeType DEF SelectedOutcome
<1>4. /\ r \in Revisions /\ r.state = selected
      /\ r.cancel = HeadRow[f].cancel /\ r.active = NoAttempt
  BY <1>2, <1>3 DEF EndRevision, Revision, Revisions, HeadRows
<1>5. /\ AppendRevision(f, r, ts)
      /\ outbox' = Published(Intent(f, Len(history[f]) + 1, selected, a, op))
      /\ ts >= committedAt[f]
  BY <1>1 DEF CompleteAttempt, KnowsCurrent
<1>6. ts \in Nat /\ ts >= revisedAt[f]
  BY <1>5, StampType, RecordTypes DEF RecordInv, StampedBeforeCommit, TypeInv
<1>7. outbox' = Published(Owed(f, r, op))
  BY <1>2, <1>4, <1>5 DEF Owed
<1>8. Due(r)
  BY <1>3, <1>4 DEF Due, ReportableOutcomes
<1> HIDE DEF r, op, selected
<1>9. Revises({f}, [g \in {f} |-> r], op)
  BY <1>2, <1>3, <1>4, <1>5, <1>6, <1>7, <1>8, OneRevision DEF Follows, Ends
<1>10. QED BY <1>9

\* Every ended flow has its intent, so the audit finds nothing to republish.
LEMMA NothingUnpublished ==
  ASSUME RecordInv, NEW ts
  PROVE  UnpublishedFlows = {} /\ Flagged(Audit(ts), "repair_completion_outbox") = {}
<1>1. ASSUME NEW f \in Flows, InState(f, FinalStates)
      PROVE  \E i \in outbox : i.flow = f /\ i.revision = Len(history[f])
  <2>1. f \in Admitted /\ Current(f).state \in FinalStates
    BY <1>1 DEF InState
  <2>2. Len(history[f]) \in Nat \ {0}
    BY <2>1, CurrentType, RecordTypes DEF TypeInv
  <2>3. Len(history[f]) \in 1..Len(history[f]) /\ Owes(f, Len(history[f]))
    BY <2>1, <2>2 DEF Owes, Current, FinalStates
  <2>4. QED BY <2>3 DEF RecordInv, OutboxIsHistory
<1>2. UnpublishedFlows = {}
  BY <1>1 DEF UnpublishedFlows
<1>3. ASSUME NEW x \in Audit(ts), x.action = "repair_completion_outbox" PROVE FALSE
  <2>1. x \in UnpublishedFlows
    BY <1>3 DEF Audit, QueuedPastDeadline, ExpiredClaims, MissingAttempts,
                AmbiguousAttempts, OrphanLeases, UndeliveredCompletions, Finding
  <2>2. QED BY <1>2, <2>1
<1>4. QED BY <1>2, <1>3 DEF Flagged

LEMMA ApplyReconciliationRevises ==
  ASSUME RecordInv, NEW o \in Operators, NEW ts \in Stamps, ApplyReconciliation(o, ts)
  PROVE  \E E \in SUBSET Flows : \E row, op : Revises(E, row, op)
<1> DEFINE
  findings == Audit(ts)
  ended    == EndedFlows(findings)
  r(f)     == EndRevision(f, RepairedState(findings, f))
  row      == [f \in ended |-> r(f)]
<1>1. /\ history' = [f \in Flows |->
           IF f \in ended THEN Append(history[f], r(f)) ELSE history[f]]
      /\ revisedAt' = [f \in Flows |-> IF f \in ended THEN ts ELSE revisedAt[f]]
      /\ outbox' = outbox
           \cup {Intent(f, Len(history[f]) + 1, RepairedState(findings, f),
                        Current(f).active, NoOperation) : f \in ended}
           \cup {RepairIntent(f) : f \in Flagged(findings, "repair_completion_outbox")}
      /\ \A f \in ended : ts >= committedAt[f]
  BY DEF ApplyReconciliation, KnowsCurrent
<1>2. ts \in Nat /\ ClaimInv
  BY StampType, RecordTypes DEF TypeInv
<1>3. \A f \in ended :
        /\ f \in Flows
        /\ \/ /\ HeadRow[f].state = "queued"
              /\ RepairedState(findings, f) = "timed_out"
           \/ /\ HeadRow[f].state = "running"
              /\ RepairedState(findings, f) = IF HeadRow[f].cancel THEN "cancelled" ELSE "lost"
  BY <1>2, EndedByPlan
<1>4. Flagged(findings, "repair_completion_outbox") = {}
  BY NothingUnpublished
<1> HIDE DEF findings, ended
<1>5. ASSUME NEW f \in ended
      PROVE  /\ r(f) \in Revisions /\ r(f).state = RepairedState(findings, f)
             /\ r(f).state \in {"timed_out", "cancelled", "lost"}
             /\ Follows(HeadRow[f], r(f))
             /\ Current(f).active = HeadRow[f].active
             /\ ts >= revisedAt[f]
  <2>1. f \in Flows /\ Current(f) = HeadRow[f] /\ HeadRow[f] \in HeadRows
    BY <1>3, HeadIsCurrent, RecordTypes
  <2>2. RepairedState(findings, f) \in {"timed_out", "cancelled", "lost"}
    BY <1>3
  <2>3. /\ r(f) \in Revisions /\ r(f).state = RepairedState(findings, f)
        /\ r(f).cancel = HeadRow[f].cancel /\ r(f).active = NoAttempt
    BY <2>1, <2>2 DEF EndRevision, Revision, Revisions, HeadRows, FlowStates
  <2>4. HeadRow[f].state = "queued" => ~HeadRow[f].cancel
    BY <1>2, <2>1 DEF ClaimInv, CancelMarked, FinalStates
  <2>5. ts >= revisedAt[f]
    BY <1>1, <1>2, <2>1, RecordTypes DEF RecordInv, StampedBeforeCommit
  <2> HIDE DEF r
  <2>6. Follows(HeadRow[f], r(f))
    BY <1>3, <2>3, <2>4 DEF Follows, Ends, ReportableOutcomes
  <2>7. QED BY <2>1, <2>2, <2>3, <2>5, <2>6
<1>6. ended \in SUBSET Flows /\ \A f \in ended : row[f] = r(f) /\ Due(row[f])
  BY <1>3, <1>5 DEF Due
<1> HIDE DEF r
<1>7. \A f \in ended :
        Owed(f, row[f], NoOperation) =
          Intent(f, Len(history[f]) + 1, RepairedState(findings, f), Current(f).active,
                 NoOperation)
  BY <1>5, <1>6 DEF Owed
<1>8. outbox' = outbox \cup {Owed(f, row[f], NoOperation) : f \in {g \in ended : Due(row[g])}}
  BY <1>1, <1>4, <1>6, <1>7
<1>9. Revises(ended, row, NoOperation)
  BY <1>1, <1>5, <1>6, <1>8 DEF Revises
<1>10. QED BY <1>6, <1>9

\* Every step of the store revises some flows, none of them more than once.
LEMMA StepRevises ==
  ASSUME RecordInv, [Next]_vars
  PROVE  \E E \in SUBSET Flows : \E row, op : Revises(E, row, op)
<1>1. CASE FlowStep
  <2>1. CASE \/ \E a \in Attempts, ts \in Stamps : MarkDispatching(a, ts)
             \/ \E a \in Attempts, ts \in Stamps : RenewClaim(a, ts)
             \/ \E i \in outbox, c \in Consumers : AcknowledgeCompletion(i, c)
             \/ \E b, expected, outcome : ReplayCompletion(b, expected, outcome)
    BY <2>1, NoRevision DEF MarkDispatching, RenewClaim, AcknowledgeCompletion,
       ReplayCompletion, flowVars
  <2>2. QED
    BY <1>1, <2>1, AdmitFlowRevises, RequestCancellationRevises, CompleteAttemptRevises
       DEF FlowStep
<1>2. CASE OperatorStep
  <2>1. CASE \/ \E expected, mode : UpdateControl(expected, mode)
             \/ \E o \in Operators, ts \in Stamps : PreviewReconciliation(o, ts)
    BY <2>1, NoRevision DEF UpdateControl, PreviewReconciliation, flowVars
  <2>2. QED BY <1>2, <2>1, ApplyReconciliationRevises DEF OperatorStep
<1>3. CASE ForegroundStep
  <2>1. CASE \/ \E i \in Instances, ts \in 0..now : AcquireForeground(i, ts)
             \/ \E i \in Instances, ts \in 0..now : RenewForeground(i, ts)
             \/ \E i \in Instances : ReleaseForeground(i)
             \/ \E expected \in 0..control.revision : UpdateControl(expected, "stopped")
    BY <2>1, NoRevision DEF AcquireForeground, RenewForeground, ReleaseForeground,
       UpdateControl, flowVars
  <2>2. QED BY <1>3, <2>1, TryClaimNextRevises DEF ForegroundStep, ClaimStep
<1>4. CASE AdvanceTime \/ UNCHANGED vars
  BY <1>4, NoRevision DEF AdvanceTime, vars, flowVars
<1>5. QED
  BY <1>1, <1>2, <1>3, <1>4 DEF Next

-----------------------------------------------------------------------------
(* The inductive invariant. *)

LEMMA AppendedRows ==
  ASSUME NEW S, NEW s \in Seq(S), NEW e \in S
  PROVE  /\ Len(s) \in Nat
         /\ Len(Append(s, e)) = Len(s) + 1
         /\ Append(s, e)[Len(s) + 1] = e
         /\ \A r \in 1..Len(s) : Append(s, e)[r] = s[r]
         /\ Append(s, e) # <<>>
         /\ s # <<>> => Len(s) \in 1..Len(s)
<1>1. Len(s) \in Nat /\ Append(s, e) \in Seq(S) /\ Len(Append(s, e)) = Len(s) + 1
  OBVIOUS
<1>2. Append(s, e)[Len(s) + 1] = e /\ \A r \in 1..Len(s) : Append(s, e)[r] = s[r]
  OBVIOUS
<1>3. Append(s, e) # <<>>
  BY <1>1
<1>4. s # <<>> => Len(s) \in 1..Len(s)
  OBVIOUS
<1>5. QED BY <1>1, <1>2, <1>3, <1>4

\* What a step leaves of the rows of flow f, and the row it may add.
Kept(f) ==
  /\ Len(history[f]) \in Nat
  /\ Len(history'[f]) \in Nat
  /\ Len(history[f]) <= Len(history'[f])
  /\ \A r \in 1..Len(history[f]) : history'[f][r] = history[f][r]

Added(f, new) ==
  /\ new \in Revisions
  /\ history'[f] = Append(history[f], new)
  /\ Len(history'[f]) = Len(history[f]) + 1
  /\ history'[f][Len(history[f]) + 1] = new
  /\ HeadRow'[f] = new
  /\ Follows(HeadRow[f], new)
  /\ HeadRow[f].state = "absent" => history[f] = <<>>
  /\ HeadRow[f].state # "absent" =>
       /\ Len(history[f]) \in 1..Len(history[f])
       /\ HeadRow[f] = history[f][Len(history[f])]

LEMMA RevisedRows ==
  ASSUME RecordInv, NEW E \in SUBSET Flows, NEW row, NEW op, Revises(E, row, op),
         NEW f \in Flows
  PROVE  /\ Kept(f)
         /\ f \notin E => history'[f] = history[f]
         /\ f \in E => Added(f, row[f])
<1>1. /\ history[f] \in Seq(Revisions)
      /\ history' = [g \in Flows |-> IF g \in E THEN Append(history[g], row[g]) ELSE history[g]]
  BY RecordTypes DEF Revises
<1>2. CASE f \in E
  <2>1. row[f] \in Revisions /\ Follows(HeadRow[f], row[f])
    BY <1>2 DEF Revises
  <2>2. history'[f] = Append(history[f], row[f])
    BY <1>1, <1>2
  <2>3. /\ Len(history[f]) \in Nat
        /\ Len(history'[f]) = Len(history[f]) + 1
        /\ history'[f][Len(history[f]) + 1] = row[f]
        /\ \A r \in 1..Len(history[f]) : history'[f][r] = history[f][r]
        /\ history'[f] # <<>>
        /\ history[f] # <<>> => Len(history[f]) \in 1..Len(history[f])
    BY <1>1, <2>1, <2>2, AppendedRows
  <2>4. HeadRow'[f] = row[f]
    BY <2>3 DEF HeadRow, Current
  <2>5. /\ HeadRow[f].state = "absent" => history[f] = <<>>
        /\ HeadRow[f].state # "absent" => history[f] # <<>>
    BY HeadIsCurrent, RecordTypes DEF Admitted
  <2>6. HeadRow[f].state # "absent" => HeadRow[f] = history[f][Len(history[f])]
    BY <2>5 DEF HeadRow, Current
  <2>7. Kept(f)
    BY <2>3 DEF Kept
  <2>8. Added(f, row[f])
    BY <2>1, <2>2, <2>3, <2>4, <2>5, <2>6 DEF Added
  <2>9. QED BY <1>2, <2>7, <2>8
<1>3. CASE f \notin E
  BY <1>1, <1>3 DEF Kept
<1>4. QED BY <1>2, <1>3

LEMMA EndIsLastStep ==
  ASSUME RecordInv, NEW E \in SUBSET Flows, NEW row, NEW op, Revises(E, row, op)
  PROVE  EndIsLast'
<1> SUFFICES ASSUME NEW f \in Flows, NEW r \in 1..Len(history'[f]),
                    history'[f][r].state \in FinalStates
             PROVE  r = Len(history'[f])
  BY DEF EndIsLast
<1>1. EndIsLast
  BY DEF RecordInv
<1>2. CASE f \notin E
  <2>1. history'[f] = history[f]
    BY <1>2, RevisedRows
  <2>2. QED BY <1>1, <2>1 DEF EndIsLast
<1>3. CASE f \in E
  <2>1. Kept(f) /\ Added(f, row[f])
    BY <1>3, RevisedRows
  <2>2. HeadRow[f].state \notin FinalStates
    BY <2>1 DEF Added, Follows, Admits, Starts, Ends, CancelsRun, CancelsIdle, FinalStates
  <2>3. ASSUME r \in 1..Len(history[f]) PROVE FALSE
    <3>1. history[f][r].state \in FinalStates /\ history[f] # <<>>
      BY <2>1, <2>3 DEF Kept
    <3>2. r = Len(history[f])
      BY <1>1, <2>3, <3>1 DEF EndIsLast
    <3>3. QED BY <2>1, <2>2, <3>1, <3>2 DEF Added
  <2>4. QED BY <2>1, <2>3 DEF Added, Kept
<1>4. QED BY <1>2, <1>3

\* The intents that a step adds, and those it keeps.
NewIntent(i, E, row, op) ==
  /\ i.flow \in E /\ Due(row[i.flow])
  /\ i = Owed(i.flow, row[i.flow], op)
  /\ i.revision = Len(history[i.flow]) + 1
  /\ i.state = row[i.flow].state
  /\ i.attempt = HeadRow[i.flow].active
  /\ i.operation = op

LEMMA NewIntents ==
  ASSUME NEW E \in SUBSET Flows, NEW row, NEW op, Revises(E, row, op)
  PROVE  /\ outbox \subseteq outbox'
         /\ \A f \in E : Due(row[f]) => Owed(f, row[f], op) \in outbox'
         /\ \A i \in outbox' : i \in outbox \/ NewIntent(i, E, row, op)
<1>1. outbox' = outbox \cup {Owed(f, row[f], op) : f \in {g \in E : Due(row[g])}}
  BY DEF Revises
<1>2. \A f \in E : Due(row[f]) => NewIntent(Owed(f, row[f], op), E, row, op)
  BY DEF Owed, Intent, NewIntent
<1>3. QED BY <1>1, <1>2

LEMMA OutboxStep ==
  ASSUME RecordInv, NEW E \in SUBSET Flows, NEW row, NEW op, Revises(E, row, op)
  PROVE  OutboxIsHistory'
<1>0. OutboxIsHistory
  BY DEF RecordInv
<1>1. ASSUME NEW f \in Flows, NEW r \in 1..Len(history'[f]), Owes(f, r)'
      PROVE  \E i \in outbox' : i.flow = f /\ i.revision = r
  <2>1. CASE f \in E /\ r = Len(history[f]) + 1
    <3>1. Added(f, row[f])
      BY <2>1, RevisedRows
    <3>2. Due(row[f])
      BY <1>1, <2>1, <3>1 DEF Owes, Due, Added
    <3>3. Owed(f, row[f], op) \in outbox'
      BY <2>1, <3>2, NewIntents
    <3>4. Owed(f, row[f], op).flow = f /\ Owed(f, row[f], op).revision = r
      BY <2>1 DEF Owed, Intent
    <3>5. QED BY <3>3, <3>4
  <2>2. CASE ~(f \in E /\ r = Len(history[f]) + 1)
    <3>1. Kept(f) /\ (f \in E => Added(f, row[f])) /\ (f \notin E => history'[f] = history[f])
      BY RevisedRows
    <3>2. r \in 1..Len(history[f])
      BY <2>2, <3>1 DEF Kept, Added
    <3>3. Owes(f, r)
      BY <1>1, <3>1, <3>2 DEF Owes, Kept
    <3>4. PICK i \in outbox : i.flow = f /\ i.revision = r
      BY <1>0, <3>2, <3>3 DEF OutboxIsHistory
    <3>5. QED BY <3>4, NewIntents
  <2>3. QED BY <2>1, <2>2
<1>2. ASSUME NEW i \in outbox'
      PROVE  /\ i.revision \in 2..Len(history'[i.flow])
             /\ Owes(i.flow, i.revision)'
             /\ i.state = history'[i.flow][i.revision].state
             /\ i.attempt = history'[i.flow][i.revision - 1].active
  <2>1. CASE i \in outbox
    <3>1. i.flow \in Flows
      BY <2>1, NextIsUnpublished
    <3>2. /\ i.revision \in 2..Len(history[i.flow])
          /\ Owes(i.flow, i.revision)
          /\ i.state = history[i.flow][i.revision].state
          /\ i.attempt = history[i.flow][i.revision - 1].active
      BY <1>0, <2>1 DEF OutboxIsHistory
    <3>3. Kept(i.flow)
      BY <3>1, RevisedRows
    <3>4. /\ i.revision \in 1..Len(history[i.flow])
          /\ i.revision - 1 \in 1..Len(history[i.flow])
          /\ i.revision \in 2..Len(history'[i.flow])
      BY <3>2, <3>3 DEF Kept
    <3>5. /\ history'[i.flow][i.revision] = history[i.flow][i.revision]
          /\ history'[i.flow][i.revision - 1] = history[i.flow][i.revision - 1]
      BY <3>3, <3>4 DEF Kept
    <3>6. QED BY <3>2, <3>4, <3>5 DEF Owes
  <2>2. CASE NewIntent(i, E, row, op)
    <3>1. i.flow \in Flows /\ Added(i.flow, row[i.flow]) /\ Kept(i.flow)
      BY <2>2, RevisedRows DEF NewIntent
    <3>2. HeadRow[i.flow].state # "absent"
      BY <2>2, <3>1 DEF NewIntent, Due, Added, Follows, Admits, Starts, Ends, CancelsRun,
                        CancelsIdle
    <3>3. /\ Len(history[i.flow]) \in 1..Len(history[i.flow])
          /\ history'[i.flow][Len(history[i.flow])] = HeadRow[i.flow]
          /\ history'[i.flow][Len(history[i.flow]) + 1] = row[i.flow]
          /\ Len(history'[i.flow]) = Len(history[i.flow]) + 1
          /\ Len(history[i.flow]) \in Nat
      BY <3>1, <3>2 DEF Added, Kept
    <3>4. /\ i.revision = Len(history[i.flow]) + 1
          /\ i.revision - 1 = Len(history[i.flow])
          /\ i.revision \in 2..Len(history'[i.flow])
      BY <2>2, <3>3 DEF NewIntent
    <3>5. QED BY <2>2, <3>3, <3>4 DEF NewIntent, Owes, Due
  <2>3. QED BY <2>1, <2>2, NewIntents
<1>3. ASSUME NEW i \in outbox', NEW j \in outbox', i.flow = j.flow, i.revision = j.revision
      PROVE  i = j
  <2>1. CASE i \in outbox /\ j \in outbox
    BY <1>0, <1>3, <2>1 DEF OutboxIsHistory
  <2>2. CASE NewIntent(i, E, row, op) /\ NewIntent(j, E, row, op)
    BY <1>3, <2>2 DEF NewIntent
  <2>3. CASE i \in outbox /\ NewIntent(j, E, row, op)
    BY <1>3, <2>3, NextIsUnpublished DEF NewIntent
  <2>4. CASE NewIntent(i, E, row, op) /\ j \in outbox
    BY <1>3, <2>4, NextIsUnpublished DEF NewIntent
  <2>5. QED BY <2>1, <2>2, <2>3, <2>4, NewIntents
<1>4. QED BY <1>1, <1>2, <1>3 DEF OutboxIsHistory

\* A claimed attempt keeps its row, and one that is over stays so.
LEMMA AttemptsKept ==
  ASSUME ClaimInv, [Next]_vars, NEW a \in Attempts, attempt[a] # NoAttempt
  PROVE  attempt'[a] = attempt[a] /\ (IsLive(a)' => IsLive(a))
<1>1. attempt'[a] = attempt[a]
  <2>1. CASE \E i \in Instances, b \in Attempts, ts \in Stamps : TryClaimNext(i, b, ts)
    BY <2>1 DEF TryClaimNext, ClaimInv, TypeInv, TypeOK
  <2>2. CASE ~\E i \in Instances, b \in Attempts, ts \in Stamps : TryClaimNext(i, b, ts)
    BY <2>2 DEF Next, FlowStep, OperatorStep, ForegroundStep, ClaimStep, AdmitFlow,
       RequestCancellation, MarkDispatching, RenewClaim, CompleteAttempt,
       AcknowledgeCompletion, ReplayCompletion, UpdateControl, PreviewReconciliation,
       ApplyReconciliation, AcquireForeground, RenewForeground, ReleaseForeground,
       AdvanceTime, vars, claimVars
  <2>3. QED BY <2>1, <2>2
<1>2. CASE attemptState'[a] = attemptState[a]
  BY <1>1, <1>2 DEF IsLive
<1>3. CASE attemptState'[a] # attemptState[a]
  <2>1. ASSUME NEW i \in Instances, NEW ts \in Stamps, TryClaimNext(i, a, ts) PROVE FALSE
    BY <2>1 DEF TryClaimNext
  <2>2. ASSUME NEW ts \in Stamps, MarkDispatching(a, ts) PROVE IsLive(a)
    BY <2>2 DEF MarkDispatching, IsLive, LiveAttemptStates
  <2>3. attemptState'[a] \in EndedAttemptStates => ~IsLive(a)'
    BY DEF IsLive, LiveAttemptStates, EndedAttemptStates
  <2>4. QED BY <1>1, <1>3, <2>1, <2>2, <2>3, AttemptStateSteps
<1>4. QED BY <1>2, <1>3

LEMMA AttemptsEndOnceStep ==
  ASSUME RecordInv, LeaseInv', [Next]_vars,
         NEW E \in SUBSET Flows, NEW row, NEW op, Revises(E, row, op)
  PROVE  AttemptsEndOnce'
<1>1. ASSUME NEW i \in outbox, i.attempt # NoAttempt
      PROVE  /\ i.attempt \in Attempts
             /\ attempt[i.attempt] # NoAttempt /\ ~IsLive(i.attempt)
             /\ attempt'[i.attempt] # NoAttempt /\ ~IsLive(i.attempt)'
  <2>1. i.attempt \in Attempts
    BY <1>1, RecordTypes DEF Intents
  <2>2. attempt[i.attempt] # NoAttempt /\ ~IsLive(i.attempt)
    BY <1>1 DEF RecordInv, AttemptsEndOnce
  <2>3. QED BY <2>1, <2>2, AttemptsKept, RecordTypes
<1>2. ASSUME NEW i, NewIntent(i, E, row, op), i.attempt # NoAttempt
      PROVE  /\ i.attempt \in Attempts
             /\ IsLive(i.attempt) /\ attempt[i.attempt].flow = i.flow
             /\ attempt'[i.attempt] # NoAttempt /\ ~IsLive(i.attempt)'
  <2>1. /\ i.flow \in Flows /\ i.flow \in E /\ Due(row[i.flow])
        /\ i.attempt = HeadRow[i.flow].active
    BY <1>2 DEF NewIntent
  <2>2. /\ i.attempt \in Attempts /\ IsLive(i.attempt)
        /\ attempt[i.attempt] # NoAttempt /\ attempt[i.attempt].flow = i.flow
    BY <1>2, <2>1, RecordTypes DEF ClaimInv, RunningHasAttempt
  <2>3. attempt'[i.attempt] = attempt[i.attempt]
    BY <2>2, AttemptsKept, RecordTypes
  <2>4. Added(i.flow, row[i.flow])
    BY <2>1, RevisedRows
  <2>5. HeadRow'[i.flow].state # "running"
    BY <2>1, <2>4 DEF Due, Added
  <2>6. ~IsLive(i.attempt)'
    BY <2>2, <2>3, <2>5 DEF LeaseInv, ClaimInv, LiveIsActive
  <2>7. QED BY <2>2, <2>3, <2>6
<1>3. ASSUME NEW i \in outbox', NEW j \in outbox', i.attempt = j.attempt,
             i.attempt # NoAttempt
      PROVE  i = j
  <2>1. CASE i \in outbox /\ j \in outbox
    BY <1>3, <2>1 DEF RecordInv, AttemptsEndOnce
  <2>2. CASE NewIntent(i, E, row, op) /\ NewIntent(j, E, row, op)
    <3>1. i.flow = j.flow
      BY <1>2, <1>3, <2>2
    <3>2. QED BY <2>2, <3>1 DEF NewIntent
  <2>3. CASE i \in outbox /\ NewIntent(j, E, row, op)
    BY <1>1, <1>2, <1>3, <2>3
  <2>4. CASE NewIntent(i, E, row, op) /\ j \in outbox
    BY <1>1, <1>2, <1>3, <2>4
  <2>5. QED BY <2>1, <2>2, <2>3, <2>4, NewIntents
<1>4. ASSUME NEW i \in outbox', i.attempt # NoAttempt
      PROVE  attempt'[i.attempt] # NoAttempt /\ ~IsLive(i.attempt)'
  BY <1>1, <1>2, <1>4, NewIntents
<1>5. QED BY <1>3, <1>4 DEF AttemptsEndOnce

\* Only a holder's own call adds to what it was told, and what it adds is the
\* intent that the outbox holds for its attempt.
LEMMA RepliesStep ==
  ASSUME RecordInv, [Next]_vars, outbox \subseteq outbox'
  PROVE  RepliesAreIntents'
<1>0. replies \in [Attempts -> SUBSET [revision : Nat, state : FlowStates]]
  BY RecordTypes DEF TypeInv, TypeOK
<1>1. CASE replies' = replies
  BY <1>1 DEF RecordInv, RepliesAreIntents
<1>2. ASSUME NEW a \in Attempts, NEW i \in outbox', NEW revision, NEW state,
             Reply(a, revision, state),
             i.attempt = a, i.revision = revision, i.state = state
      PROVE  RepliesAreIntents'
  <2>1. ASSUME NEW b \in Attempts, NEW x \in replies'[b]
        PROVE  \E j \in outbox' : j.attempt = b /\ j.revision = x.revision /\ j.state = x.state
    <3>1. CASE x \in replies[b]
      BY <3>1 DEF RecordInv, RepliesAreIntents
    <3>2. CASE x \notin replies[b]
      <4>1. b = a /\ x = [revision |-> revision, state |-> state]
        BY <1>0, <1>2, <3>2 DEF Reply
      <4>2. QED BY <1>2, <4>1
    <3>3. QED BY <3>1, <3>2
  <2>2. QED BY <2>1 DEF RepliesAreIntents
<1>3. ASSUME NEW a \in Attempts, NEW outcome \in Outcomes, NEW ts \in Stamps,
             NEW answered \in BOOLEAN, CompleteAttempt(a, outcome, ts, answered)
      PROVE  RepliesAreIntents'
  <2>1. PICK f \in Flows : f = attempt[a].flow
    BY <1>3 DEF CompleteAttempt, IsActive, InState, Admitted
  <2> DEFINE n == Len(history[f])
             selected == SelectedOutcome(f, outcome)
             intent == Intent(f, n + 1, selected, a, Operation(n, outcome))
  <2>2. /\ outbox' = Published(intent)
        /\ replies' = replies \/ Reply(a, n + 1, selected)
    BY <1>3, <2>1 DEF CompleteAttempt
  <2>3. intent.attempt = a /\ intent.revision = n + 1 /\ intent.state = selected /\ intent.flow = f
    BY DEF Intent
  <2>4. intent \in Published(intent)
    BY <2>3, NextIsUnpublished DEF Published
  <2> HIDE DEF n, selected, intent
  <2>5. CASE Reply(a, n + 1, selected)
    BY <1>2, <2>2, <2>3, <2>4, <2>5
  <2>6. QED BY <1>1, <2>2, <2>5
<1>4. ASSUME NEW k \in outbox, NEW expected, NEW outcome,
             ReplayCompletion(k.attempt, expected, outcome)
      PROVE  RepliesAreIntents'
  <2>1. PICK i \in outbox : /\ i.attempt = k.attempt
                            /\ Reply(k.attempt, i.revision, ReplayedState(i))
    BY <1>4 DEF ReplayCompletion
  <2>2. i.state = ReplayedState(i) /\ i \in outbox'
    BY DEF RecordInv, OutboxIsHistory, ReplayedState
  <2>3. CASE k.attempt \in Attempts
    BY <1>2, <2>1, <2>2, <2>3
  <2>4. CASE k.attempt \notin Attempts
    BY <1>0, <1>1, <2>1, <2>4 DEF Reply
  <2>5. QED BY <2>3, <2>4
<1>5. CASE FlowStep
  <2>1. CASE \/ \E f \in Flows, ts \in Stamps : AdmitFlow(f, ts)
             \/ \E f \in Flows, ts \in Stamps : RequestCancellation(f, ts)
             \/ \E a \in Attempts, ts \in Stamps : MarkDispatching(a, ts)
             \/ \E a \in Attempts, ts \in Stamps : RenewClaim(a, ts)
             \/ \E i \in outbox, c \in Consumers : AcknowledgeCompletion(i, c)
    BY <1>1, <2>1 DEF AdmitFlow, RequestCancellation, MarkDispatching, RenewClaim,
       AcknowledgeCompletion, sideVars
  <2>2. QED BY <1>3, <1>4, <1>5, <2>1 DEF FlowStep
<1>6. CASE OperatorStep \/ ForegroundStep \/ AdvanceTime \/ UNCHANGED vars
  <2>1. replies' = replies
    BY <1>6 DEF OperatorStep, ForegroundStep, ClaimStep, UpdateControl, PreviewReconciliation,
       ApplyReconciliation, AcquireForeground, RenewForeground, ReleaseForeground,
       TryClaimNext, AdvanceTime, vars, sideVars
  <2>2. QED BY <1>1, <2>1
<1>7. QED BY <1>5, <1>6 DEF Next

\* A step adds at most the receipt of an intent that had none.
LEMMA ReceiptStep ==
  ASSUME [Next]_vars
  PROVE  \/ receipts' = receipts
         \/ \E i \in outbox, c \in Consumers : AcknowledgeCompletion(i, c)
  BY DEF Next, FlowStep, OperatorStep, ForegroundStep, ClaimStep, AdmitFlow,
     RequestCancellation, MarkDispatching, RenewClaim, CompleteAttempt,
     ReplayCompletion, UpdateControl, PreviewReconciliation, ApplyReconciliation,
     AcquireForeground, RenewForeground, ReleaseForeground, TryClaimNext, AdvanceTime,
     vars, sideVars

LEMMA ReceiptsStep ==
  ASSUME RecordInv, [Next]_vars, outbox \subseteq outbox'
  PROVE  OneReceiptPerCompletion'
<1>1. OneReceiptPerCompletion
  BY DEF RecordInv
<1>2. CASE receipts' = receipts
  BY <1>1, <1>2 DEF OneReceiptPerCompletion
<1>3. ASSUME NEW i \in outbox, NEW c \in Consumers, AcknowledgeCompletion(i, c)
      PROVE  OneReceiptPerCompletion'
  <2> DEFINE new == [flow |-> i.flow, revision |-> i.revision, consumer |-> c]
  <2>1. receipts' = receipts \cup {new} /\ new.flow = i.flow /\ new.revision = i.revision
    BY <1>3 DEF AcknowledgeCompletion
  <2>2. \A r \in receipts : ~(r.flow = i.flow /\ r.revision = i.revision)
    BY <1>3 DEF AcknowledgeCompletion, ReceiptOf
  <2> HIDE DEF new
  <2>3. \A r \in receipts' : \E j \in outbox' : j.flow = r.flow /\ j.revision = r.revision
    BY <1>1, <2>1 DEF OneReceiptPerCompletion
  <2>4. \A r, q \in receipts' : r.flow = q.flow /\ r.revision = q.revision => r = q
    BY <1>1, <2>1, <2>2 DEF OneReceiptPerCompletion
  <2>5. QED BY <2>3, <2>4 DEF OneReceiptPerCompletion
<1>4. QED BY <1>2, <1>3, ReceiptStep

LEMMA StampsStep ==
  ASSUME RecordInv, [Next]_vars
  PROVE  StampedBeforeCommit'
<1>0. revisedAt \in [Flows -> Nat] /\ committedAt \in [Flows -> Nat] /\ StampedBeforeCommit
  BY RecordTypes DEF RecordInv
<1>1. ASSUME NEW f \in Flows, NEW r, NEW ts \in Stamps, AppendRevision(f, r, ts)
      PROVE  StampedBeforeCommit'
  <2>1. ts <= now
    BY RecordTypes DEF Stamps
  <2>2. QED BY <1>0, <1>1, <2>1 DEF AppendRevision, StampedBeforeCommit
<1>2. CASE UNCHANGED <<revisedAt, committedAt>>
  BY <1>0, <1>2 DEF StampedBeforeCommit
<1>3. CASE FlowStep
  <2>1. ASSUME NEW f \in Flows, NEW ts \in Stamps,
               AdmitFlow(f, ts) \/ RequestCancellation(f, ts)
        PROVE  StampedBeforeCommit'
    BY <1>1, <1>2, <2>1 DEF AdmitFlow, RequestCancellation, CancelFinal, CancelRunning, CancelIdle
  <2>2. ASSUME NEW a \in Attempts, NEW outcome \in Outcomes, NEW ts \in Stamps,
               NEW answered \in BOOLEAN, CompleteAttempt(a, outcome, ts, answered)
        PROVE  StampedBeforeCommit'
    <3>1. attempt[a].flow \in Flows
      BY <2>2 DEF CompleteAttempt, IsActive, InState, Admitted
    <3>2. \E r : AppendRevision(attempt[a].flow, r, ts)
      BY <2>2 DEF CompleteAttempt
    <3>3. QED BY <1>1, <3>1, <3>2
  <2>3. CASE \/ \E a \in Attempts, ts \in Stamps : MarkDispatching(a, ts)
             \/ \E a \in Attempts, ts \in Stamps : RenewClaim(a, ts)
             \/ \E i \in outbox, c \in Consumers : AcknowledgeCompletion(i, c)
             \/ \E b, expected, outcome : ReplayCompletion(b, expected, outcome)
    BY <1>2, <2>3 DEF MarkDispatching, RenewClaim, AcknowledgeCompletion, ReplayCompletion,
       flowVars
  <2>4. QED BY <1>3, <2>1, <2>2, <2>3 DEF FlowStep
<1>4. CASE OperatorStep
  <2>1. ASSUME NEW o \in Operators, NEW ts \in Stamps, ApplyReconciliation(o, ts)
        PROVE  StampedBeforeCommit'
    <3>1. ts <= now
      BY RecordTypes DEF Stamps
    <3>2. \A f \in Flows : \/ revisedAt'[f] = ts /\ committedAt'[f] = now
                           \/ revisedAt'[f] = revisedAt[f] /\ committedAt'[f] = committedAt[f]
      BY <2>1 DEF ApplyReconciliation
    <3>3. QED BY <1>0, <3>1, <3>2 DEF StampedBeforeCommit
  <2>2. CASE \/ \E expected, mode : UpdateControl(expected, mode)
             \/ \E o \in Operators, ts \in Stamps : PreviewReconciliation(o, ts)
    BY <1>2, <2>2 DEF UpdateControl, PreviewReconciliation, flowVars
  <2>3. QED BY <1>4, <2>1, <2>2 DEF OperatorStep
<1>5. CASE ForegroundStep
  <2>1. ASSUME NEW i \in Instances, NEW a \in Attempts, NEW ts \in Stamps,
               TryClaimNext(i, a, ts)
        PROVE  StampedBeforeCommit'
    <3>1. \E f \in Flows : \E r : AppendRevision(f, r, ts)
      BY <2>1 DEF TryClaimNext, Eligible
    <3>2. QED BY <1>1, <3>1
  <2>2. CASE \/ \E i \in Instances, ts \in 0..now : AcquireForeground(i, ts)
             \/ \E i \in Instances, ts \in 0..now : RenewForeground(i, ts)
             \/ \E i \in Instances : ReleaseForeground(i)
             \/ \E expected \in 0..control.revision : UpdateControl(expected, "stopped")
    BY <1>2, <2>2 DEF AcquireForeground, RenewForeground, ReleaseForeground, UpdateControl,
       flowVars
  <2>3. QED BY <1>5, <2>1, <2>2 DEF ForegroundStep, ClaimStep
<1>6. CASE AdvanceTime \/ UNCHANGED vars
  BY <1>2, <1>6 DEF AdvanceTime, vars, flowVars
<1>7. QED BY <1>3, <1>4, <1>5, <1>6 DEF Next

LEMMA RecordInit == Init => RecordInv
<1> SUFFICES ASSUME Init PROVE RecordInv
  OBVIOUS
<1>1. LeaseInv
  BY LeaseInit
<1>2. history = [f \in Flows |-> <<>>] /\ outbox = {} /\ receipts = {}
      /\ replies = [a \in Attempts |-> {}]
      /\ revisedAt = [f \in Flows |-> 0] /\ committedAt = [f \in Flows |-> 0]
  BY DEF Init
<1>3. EndIsLast /\ StampedBeforeCommit /\ RepliesAreIntents
  BY <1>2 DEF EndIsLast, StampedBeforeCommit, RepliesAreIntents
<1>4. OutboxIsHistory /\ AttemptsEndOnce /\ OneReceiptPerCompletion
  BY <1>2 DEF OutboxIsHistory, AttemptsEndOnce, OneReceiptPerCompletion
<1>5. QED BY <1>1, <1>3, <1>4 DEF RecordInv

LEMMA RecordStep == RecordInv /\ [Next]_vars => RecordInv'
<1> SUFFICES ASSUME RecordInv, [Next]_vars PROVE RecordInv'
  OBVIOUS
<1>1. LeaseInv'
  BY LeaseStep DEF RecordInv
<1>2. PICK E \in SUBSET Flows : \E row, op : Revises(E, row, op)
  BY StepRevises
<1>3. outbox \subseteq outbox'
  BY <1>2, NewIntents
<1>4. EndIsLast' /\ OutboxIsHistory' /\ AttemptsEndOnce'
  BY <1>1, <1>2, EndIsLastStep, OutboxStep, AttemptsEndOnceStep
<1>5. RepliesAreIntents' /\ OneReceiptPerCompletion' /\ StampedBeforeCommit'
  BY <1>3, RepliesStep, ReceiptsStep, StampsStep
<1>6. QED BY <1>1, <1>4, <1>5 DEF RecordInv

LEMMA RecordInvHolds == Spec => []RecordInv
  BY RecordInit, RecordStep, PTL DEF Spec

-----------------------------------------------------------------------------
(* The theorems about the tables. *)

LEMMA NothingBroken == ASSUME RecordInv PROVE AuditFindsOnlyLapses
<1>1. UnpublishedFlows = {}
  BY NothingUnpublished
<1>2. ASSUME NEW f \in RunningFlows PROVE attempt[Current(f).active] # NoAttempt
  <2>1. {"running"} \in SUBSET FlowStates /\ InState(f, {"running"}) /\ f \in Flows
    BY DEF RunningFlows, FlowStates
  <2>2. HeadRow[f].state = "running" /\ Current(f) = HeadRow[f]
    BY <2>1, InStateOfHead, HeadIsCurrent, RecordTypes DEF InState
  <2>3. QED BY <2>1, <2>2, RecordTypes DEF ClaimInv, RunningHasAttempt
<1>3. MissingAttempts = {}
  BY <1>2 DEF MissingAttempts
<1>4. ASSUME NEW b \in Attempts, attempt[b] # NoAttempt,
             NEW k \in KeysOf(attempt[b].flow), leases[k] # NoLease, leases[k].owner = b
      PROVE  Current(attempt[b].flow).active = b
  <2>1. attempt[b].flow \in Flows
    BY <1>4, LeaseTypes, RecordTypes
  <2>2. k \in Keys
    BY <2>1, KeysOfType
  <2>3. IsLive(b)
    BY <1>4, <2>2 DEF RecordInv, LeaseInv, LeasesAreGrants
  <2>4. IsActive(b)
    BY <2>3, ActiveHead, RecordTypes DEF ClaimInv, LiveIsActive
  <2>5. QED BY <2>4 DEF IsActive
<1>5. OrphanLeases = {}
  BY <1>4 DEF OrphanLeases
<1>6. QED BY <1>1, <1>3, <1>5 DEF AuditFindsOnlyLapses

LEMMA EndingsAreFinal == ASSUME RecordInv PROVE OneFinalCompletion
<1> SUFFICES ASSUME NEW i \in outbox, NEW j \in outbox, i.flow = j.flow,
                    i.state \in FinalStates
             PROVE  j.revision <= i.revision
  BY DEF OneFinalCompletion
<1>1. /\ i.flow \in Flows
      /\ i.revision \in 2..Len(history[i.flow])
      /\ j.revision \in 2..Len(history[i.flow])
      /\ history[i.flow][i.revision].state \in FinalStates
  BY NextIsUnpublished DEF RecordInv, OutboxIsHistory
<1>2. Len(history[i.flow]) \in Nat
  BY <1>1, RecordTypes
<1>3. i.revision \in 1..Len(history[i.flow])
  BY <1>1
<1>4. i.revision = Len(history[i.flow])
  BY <1>1, <1>3 DEF RecordInv, EndIsLast
<1>5. QED BY <1>1, <1>2, <1>4

\* What one transaction (_insert_flow_revision, _insert_completion_intent,
\* acknowledge_completion) writes in several tables never drifts apart: the outbox
\* is the history, no ending is revised, each intent is settled at most once,
\* and the audit of the store's own work finds nothing broken.
THEOREM TablesNeverDrift == Spec => []TablesAgree
<1>1. RecordInv => TablesAgree
  BY NothingBroken, EndingsAreFinal DEF RecordInv, TablesAgree
<1>2. QED
  BY <1>1, RecordInvHolds, PTL

\* A claim holder that repeats complete_attempt reads the outcome it read, or
\* would have read, the first time.
THEOREM RepliesRepeat == Spec => []ReplayAgrees
<1>1. RecordInv => ReplayAgrees
  <2> SUFFICES ASSUME RecordInv, NEW a \in Attempts, NEW x \in replies[a], NEW y \in replies[a]
               PROVE  x = y
    BY DEF ReplayAgrees
  <2>1. PICK i \in outbox : i.attempt = a /\ i.revision = x.revision /\ i.state = x.state
    BY DEF RecordInv, RepliesAreIntents
  <2>2. PICK j \in outbox : j.attempt = a /\ j.revision = y.revision /\ j.state = y.state
    BY DEF RecordInv, RepliesAreIntents
  <2>3. i = j
    BY <2>1, <2>2, RecordTypes DEF RecordInv, AttemptsEndOnce
  <2>4. /\ x \in [revision : Nat, state : FlowStates]
        /\ y \in [revision : Nat, state : FlowStates]
    BY RecordTypes DEF TypeInv, TypeOK
  <2>5. QED BY <2>1, <2>2, <2>3, <2>4
<1>2. QED
  BY <1>1, RecordInvHolds, PTL

\* A revision that follows a head never trips a trigger of the schema.
LEMMA FollowsIsAllowed ==
  ASSUME RecordInv, NEW f \in Flows, NEW new \in Revisions,
         Follows(HeadRow[f], new), HeadRow[f].state # "absent"
  PROVE  AllowedRevision(HeadRow[f], new)
<1>1. HeadRow[f] \in HeadRows /\ NoAttempt \notin Attempts
  BY RecordTypes
<1>2. HeadRow[f].state = "running" => HeadRow[f].active \in Attempts
  BY RecordTypes DEF ClaimInv, RunningHasAttempt
<1>3. CASE Starts(HeadRow[f], new)
  BY <1>1, <1>3 DEF Starts, AllowedRevision
<1>4. CASE Ends(HeadRow[f], new)
  BY <1>1, <1>4 DEF Ends, AllowedRevision, ReportableOutcomes, FlowStates
<1>5. CASE CancelsRun(HeadRow[f], new)
  BY <1>1, <1>2, <1>5 DEF CancelsRun, AllowedRevision
<1>6. CASE CancelsIdle(HeadRow[f], new)
  BY <1>1, <1>6 DEF CancelsIdle, AllowedRevision
<1>7. QED BY <1>3, <1>4, <1>5, <1>6 DEF Follows, Admits

\* The guards of the transactions are all the triggers ask for, and no ending
\* is stamped before the revision it ends.
THEOREM HistoriesAreLawful == Spec => HistoryIsLawful
<1>1. ASSUME RecordInv, [Next]_vars, NEW f \in Flows,
             history'[f] # history[f], history[f] # <<>>
      PROVE  /\ \E new \in Revisions : history'[f] = Append(history[f], new)
             /\ AllowedRevision(history[f][Len(history[f])], history'[f][Len(history'[f])])
  <2>1. PICK E \in SUBSET Flows : \E row, op : Revises(E, row, op)
    BY <1>1, StepRevises
  <2>2. PICK row, op : Revises(E, row, op)
    BY <2>1
  <2>3. f \in E
    BY <1>1, <2>2, RevisedRows
  <2>4. Added(f, row[f])
    BY <1>1, <2>2, <2>3, RevisedRows
  <2>5. HeadRow[f].state # "absent"
    BY <1>1, HeadIsCurrent, RecordTypes DEF Admitted
  <2>6. /\ row[f] \in Revisions /\ history'[f] = Append(history[f], row[f])
        /\ HeadRow[f] = history[f][Len(history[f])]
        /\ history'[f][Len(history'[f])] = row[f]
        /\ AllowedRevision(HeadRow[f], row[f])
    BY <1>1, <2>4, <2>5, FollowsIsAllowed DEF Added
  <2>7. QED BY <2>6
<1>2. ASSUME RecordInv, [Next]_vars, NEW i \in outbox' \ outbox
      PROVE  revisedAt'[i.flow] >= revisedAt[i.flow]
  <2>1. PICK E \in SUBSET Flows : \E row, op : Revises(E, row, op)
    BY <1>2, StepRevises
  <2>2. PICK row, op : Revises(E, row, op)
    BY <2>1
  <2>3. i.flow \in E /\ Due(row[i.flow])
    BY <1>2, <2>2, NewIntents DEF NewIntent
  <2>4. QED BY <2>2, <2>3 DEF Revises
<1>3. RecordInv /\ [Next]_vars =>
        [/\ \A f \in Flows : history'[f] # history[f] /\ history[f] # <<>> =>
              /\ \E new \in Revisions : history'[f] = Append(history[f], new)
              /\ AllowedRevision(history[f][Len(history[f])], history'[f][Len(history'[f])])
         /\ \A i \in outbox' \ outbox : revisedAt'[i.flow] >= revisedAt[i.flow]]_vars
  BY <1>1, <1>2
<1>4. QED
  BY <1>3, RecordInvHolds, PTL
     DEF Spec, HistoryIsLawful, TriggersNeverTrip, EndingsFollowTheirSource

\* apply_reconciliation ends an attempt only when its grant is over and it never
\* recorded its dispatch intent.
THEOREM OnlyDeadClaimsAreGivenUp == Spec => ReconcilesOnlyDeadClaims
<1>1. ASSUME RecordInv, [Next]_vars, NEW a \in Attempts, EndedByReconciliation(a)
      PROVE  attemptState[a] = "created" /\ promised[a] <= now
  <2>1. PICK i \in outbox' \ outbox : i.attempt = a /\ i.operation = NoOperation
    BY <1>1 DEF EndedByReconciliation
  <2>2. PICK o \in Operators, ts \in Stamps : ApplyReconciliation(o, ts)
    <3>1. ASSUME NEW f \in Flows, NEW ts \in Stamps, RequestCancellation(f, ts)
          PROVE  FALSE
      <4>1. CancelIdle(f, ts)
        BY <2>1, <3>1 DEF RequestCancellation, CancelFinal, CancelRunning
      <4>2. i = Intent(f, Len(history[f]) + 1, "cancelled", NoAttempt, NoOperation)
        BY <2>1, <4>1 DEF CancelIdle, Published
      <4>3. QED BY <1>1, <2>1, <4>2, RecordTypes DEF Intent
    <3>2. ASSUME NEW b \in Attempts, NEW outcome \in Outcomes, NEW ts \in Stamps,
                 NEW answered \in BOOLEAN, CompleteAttempt(b, outcome, ts, answered)
          PROVE  FALSE
      <4>1. PICK f \in Flows : f = attempt[b].flow
        BY <3>2 DEF CompleteAttempt, IsActive, InState, Admitted
      <4>2. i = Intent(f, Len(history[f]) + 1, SelectedOutcome(f, outcome), b,
                       Operation(Len(history[f]), outcome))
        BY <2>1, <3>2, <4>1 DEF CompleteAttempt, Published
      <4>3. i.operation = Operation(Len(history[f]), outcome)
        BY <4>2 DEF Intent
      <4>4. Len(history[f]) \in Nat
        BY <1>1, RecordTypes
      <4>5. QED BY <2>1, <4>3, <4>4, SentinelAssumption DEF Operation
    <3>3. outbox' # outbox
      BY <2>1
    <3>4. QED
      BY <1>1, <3>1, <3>2, <3>3
         DEF Next, FlowStep, OperatorStep, ForegroundStep, ClaimStep, AdmitFlow,
       MarkDispatching, RenewClaim, AcknowledgeCompletion, ReplayCompletion, UpdateControl,
       PreviewReconciliation, AcquireForeground, RenewForeground, ReleaseForeground,
       TryClaimNext, AdvanceTime, vars
  <2>3. PICK f \in EndedFlows(Audit(ts)) : Current(f).active = a
    <3>1. Flagged(Audit(ts), "repair_completion_outbox") = {}
      BY <1>1, NothingUnpublished
    <3>2. PICK f \in EndedFlows(Audit(ts)) :
            i = Intent(f, Len(history[f]) + 1, RepairedState(Audit(ts), f), Current(f).active,
                       NoOperation)
      BY <2>1, <2>2, <3>1 DEF ApplyReconciliation
    <3>3. QED BY <2>1, <3>2 DEF Intent
  <2>4. attemptState[a] = "created" /\ ClaimLapsed(a, ts) /\ attempt[a] # NoAttempt
    <3>1. ts \in Nat /\ ClaimInv /\ TypeInv /\ NoAttempt \notin Attempts
      BY <1>1, StampType, RecordTypes DEF TypeInv
    <3>2. /\ f \in Flows
          /\ \/ HeadRow[f].state = "queued"
             \/ HeadRow[f].active \in FlaggedAttempts(Audit(ts), "finalize_cancelled_pre_dispatch")
                                \cup FlaggedAttempts(Audit(ts), "mark_lost_pre_dispatch")
      BY <3>1, EndedByPlan
    <3>3. HeadRow[f].state \in {"queued", "running"}
      BY <3>1, EndedByPlan
    <3>4. Current(f) = HeadRow[f]
      BY <3>1, <3>2, <3>3, HeadIsCurrent
    <3>5. HeadRow[f].state # "queued"
      BY <1>1, <2>3, <3>1, <3>2, <3>4 DEF ClaimInv, RunningHasAttempt
    <3>6. QED BY <2>3, <3>1, <3>2, <3>4, <3>5, EndedByPlan
  <2>5. promised[a] <= now
    <3>1. now \in Nat /\ promised[a] \in Nat /\ ts <= now /\ ts \in Nat
      BY <1>1, LeaseTypes, RecordTypes DEF Stamps
    <3>2. SUFFICES ASSUME promised[a] > now PROVE FALSE
      BY <3>1
    <3>3. IsLive(a)
      BY <2>4 DEF IsLive, LiveAttemptStates
    <3>4. PICK k \in KeysOf(attempt[a].flow) :
            leases[k] = NoLease \/ leases[k].owner # a \/ leases[k].expires <= ts
      BY <2>4 DEF ClaimLapsed
    <3>5. k \in Keys
      BY <1>1, <2>4, KeysOfType, LeaseTypes, RecordTypes
    <3>6. leases[k] # NoLease /\ leases[k].owner = a
      BY <1>1, <3>2, <3>3 DEF RecordInv, LeaseInv, GrantedClaimKept
    <3>7. leases[k].expires = promised[a]
      BY <1>1, <3>5, <3>6 DEF RecordInv, LeaseInv, LeasesAreGrants
    <3>8. QED BY <3>1, <3>2, <3>4, <3>6, <3>7
  <2>6. QED BY <2>4, <2>5
<1>2. RecordInv /\ [Next]_vars =>
        [\A a \in Attempts : EndedByReconciliation(a) =>
           attemptState[a] = "created" /\ promised[a] <= now]_vars
  BY <1>1
<1>3. QED
  BY <1>2, RecordInvHolds, PTL DEF Spec, ReconcilesOnlyDeadClaims

-----------------------------------------------------------------------------
(* The contract of each flow, step by step. *)

\* What the contract calls the phase of a flow, and whether it is cancelled.
LEMMA PhaseOfHead ==
  ASSUME TypeInv, NEW f \in Flows
  PROVE  /\ PhaseOf(f) = HeadRow[f].state
         /\ (f \in Admitted /\ Current(f).cancel) = HeadRow[f].cancel
         /\ HeadRow[f].cancel \in BOOLEAN
<1>1. HeadRow[f] \in HeadRows
  BY HeadType
<1>2. CASE f \in Admitted
  BY <1>1, <1>2, HeadIsCurrent DEF PhaseOf, HeadRows
<1>3. CASE f \notin Admitted
  BY <1>3 DEF PhaseOf, Admitted, HeadRow, NotAdmitted, Revision
<1>4. QED BY <1>2, <1>3

\* The contract's view of a flow is read off its head.
HeadsTellPhases ==
  \A f \in Flows : /\ PhaseOf(f) = HeadRow[f].state
                   /\ (f \in Admitted /\ Current(f).cancel) = HeadRow[f].cancel
                   /\ HeadRow[f].cancel \in BOOLEAN

\* Stated without assumptions, so that it holds in the next state too.
LEMMA PhasesOfHeads == RecordInv => HeadsTellPhases
  BY PhaseOfHead, RecordTypes DEF HeadsTellPhases

LEMMA NextPhasesOfHeads == RecordInv' => HeadsTellPhases'
  BY PhasesOfHeads, PTL

\* A revision publishes its own state, if it publishes at all.
LEMMA PublishedByRevision ==
  ASSUME RecordInv, NEW E \in SUBSET Flows, NEW row, NEW op, Revises(E, row, op),
         NEW f \in Flows
  PROVE  PublishedStates(f)' =
           IF f \in E /\ Due(row[f]) THEN PublishedStates(f) \cup {row[f].state}
                                     ELSE PublishedStates(f)
<1>1. PublishedStates(f) \subseteq PublishedStates(f)'
  BY NewIntents DEF PublishedStates
<1>2. f \in E /\ Due(row[f]) => row[f].state \in PublishedStates(f)'
  <2>1. SUFFICES ASSUME f \in E, Due(row[f]) PROVE row[f].state \in PublishedStates(f)'
    OBVIOUS
  <2>2. Owed(f, row[f], op) \in outbox'
    BY <2>1, NewIntents
  <2>3. Owed(f, row[f], op).flow = f /\ Owed(f, row[f], op).state = row[f].state
    BY DEF Owed, Intent
  <2>4. QED BY <2>2, <2>3 DEF PublishedStates
<1>3. ASSUME NEW x \in PublishedStates(f)', x \notin PublishedStates(f)
      PROVE  f \in E /\ Due(row[f]) /\ x = row[f].state
  <2>1. PICK i \in outbox' : i.flow = f /\ x = i.state
    BY DEF PublishedStates
  <2>2. i \notin outbox
    BY <1>3, <2>1 DEF PublishedStates
  <2>3. NewIntent(i, E, row, op)
    BY <2>2, NewIntents
  <2>4. QED BY <2>1, <2>3 DEF NewIntent
<1>4. QED BY <1>1, <1>2, <1>3

\* A new intent has no receipt yet.
LEMMA DeliveredByRevision ==
  ASSUME RecordInv, NEW E \in SUBSET Flows, NEW row, NEW op, Revises(E, row, op),
         receipts' = receipts, NEW f \in Flows
  PROVE  DeliveredStates(f)' = DeliveredStates(f)
<1>1. ASSUME NEW i \in outbox', ReceiptOf(i)' # {}
      PROVE  i \in outbox
  <2>1. PICK r \in receipts : r.flow = i.flow /\ r.revision = i.revision
    BY <1>1 DEF ReceiptOf
  <2>2. PICK j \in outbox : j.flow = r.flow /\ j.revision = r.revision
    BY DEF RecordInv, OneReceiptPerCompletion
  <2>3. ~NewIntent(i, E, row, op)
    BY <2>1, <2>2, NextIsUnpublished DEF NewIntent
  <2>4. QED BY <2>3, NewIntents
<1>2. \A i : ReceiptOf(i)' = ReceiptOf(i)
  BY DEF ReceiptOf
<1>3. outbox \subseteq outbox'
  BY NewIntents
<1>4. QED BY <1>1, <1>2, <1>3 DEF DeliveredStates

LEMMA DeliveredByReceipt ==
  ASSUME RecordInv, NEW i \in outbox, NEW c \in Consumers, AcknowledgeCompletion(i, c),
         NEW f \in Flows
  PROVE  DeliveredStates(f)' = IF f = i.flow THEN DeliveredStates(f) \cup {i.state}
                                             ELSE DeliveredStates(f)
<1> DEFINE new == [flow |-> i.flow, revision |-> i.revision, consumer |-> c]
<1>1. outbox' = outbox /\ receipts' = receipts \cup {new}
      /\ new.flow = i.flow /\ new.revision = i.revision
  BY DEF AcknowledgeCompletion
<1> HIDE DEF new
<1>2. ASSUME NEW j \in outbox PROVE ReceiptOf(j)' # {} <=> ReceiptOf(j) # {} \/ j = i
  <2>1. ReceiptOf(j)' # {} <=> ReceiptOf(j) # {} \/ (j.flow = i.flow /\ j.revision = i.revision)
    BY <1>1 DEF ReceiptOf
  <2>2. j.flow = i.flow /\ j.revision = i.revision => j = i
    BY DEF RecordInv, OutboxIsHistory
  <2>3. QED BY <2>1, <2>2
<1>3. QED BY <1>1, <1>2 DEF DeliveredStates

\* Each kind of revision is a step of the contract.
LEMMA RevisionKeepsContract ==
  ASSUME RecordInv, NEW f \in Flows, NEW new,
         Follows(HeadRow[f], new),
         PhaseOf(f) = HeadRow[f].state, PhaseOf(f)' = new.state,
         (f \in Admitted /\ Current(f).cancel) = HeadRow[f].cancel,
         (f \in Admitted /\ Current(f).cancel)' = new.cancel,
         HeadRow[f].cancel \in BOOLEAN, new.cancel \in BOOLEAN,
         PublishedStates(f)' =
           IF Due(new) THEN PublishedStates(f) \cup {new.state} ELSE PublishedStates(f),
         DeliveredStates(f)' = DeliveredStates(f)
  PROVE  Contract(f)!ContractNext
<1>1. CASE Admits(HeadRow[f], new)
  <2>1. HeadRow[f].cancel = FALSE
    <3>1. HeadRow[f].state = "absent"
      BY <1>1 DEF Admits
    <3>2. QED BY <3>1, RecordTypes DEF ClaimInv, CancelMarked, FinalStates
  <2>2. Contract(f)!Admit
    BY <1>1, <2>1 DEF Contract!Admit, Admits, Due
  <2>3. QED BY <2>2 DEF Contract!ContractNext
<1>2. CASE Starts(HeadRow[f], new)
  <2>1. Contract(f)!Start
    BY <1>2 DEF Contract!Start, Starts, Due
  <2>2. QED BY <2>1 DEF Contract!ContractNext
<1>3. CASE Ends(HeadRow[f], new)
  <2>1. CASE HeadRow[f].state = "running"
    <3>1. /\ new.state \in Contract(f)!Endings \cup Contract(f)!Parkings
          /\ Due(new)
      BY <1>3, <2>1 DEF Ends, ReportableOutcomes, Contract!Endings, Contract!Parkings, Due
    <3>2. Contract(f)!Reach(new.state)
      BY <3>1 DEF Contract!Reach
    <3>3. Contract(f)!Finish
      BY <1>3, <2>1, <3>1, <3>2 DEF Contract!Finish, Ends
    <3>4. QED BY <3>3 DEF Contract!ContractNext
  <2>2. CASE HeadRow[f].state = "queued"
    <3>1. new.state = "timed_out" /\ Due(new)
      BY <1>3, <2>2 DEF Ends, Due
    <3>2. Contract(f)!Reach("timed_out")
      BY <3>1 DEF Contract!Reach
    <3>3. Contract(f)!Expire
      BY <1>3, <2>2, <3>2 DEF Contract!Expire, Ends
    <3>4. QED BY <3>3 DEF Contract!ContractNext
  <2>3. QED BY <1>3, <2>1, <2>2 DEF Ends
<1>4. CASE CancelsRun(HeadRow[f], new)
  <2>1. Contract(f)!CancelRun
    BY <1>4 DEF Contract!CancelRun, CancelsRun, Due
  <2>2. QED BY <2>1 DEF Contract!ContractNext
<1>5. CASE CancelsIdle(HeadRow[f], new)
  <2>1. new.state = "cancelled" /\ Due(new)
    BY <1>5 DEF CancelsIdle, Due
  <2>2. Contract(f)!Reach("cancelled")
    BY <2>1 DEF Contract!Reach
  <2>3. HeadRow[f].state \in {"queued"} \cup Contract(f)!Parkings
    BY <1>5 DEF CancelsIdle, Contract!Parkings
  <2>4. Contract(f)!CancelIdleWork
    BY <1>5, <2>2, <2>3 DEF Contract!CancelIdleWork, CancelsIdle
  <2>5. QED BY <2>4 DEF Contract!ContractNext
<1>6. QED BY <1>1, <1>2, <1>3, <1>4, <1>5 DEF Follows

LEMMA ContractStep ==
  ASSUME RecordInv, RecordInv', [Next]_vars, NEW f \in Flows
  PROVE  [Contract(f)!ContractNext]_(Contract(f)!contractVars)
<1>1. /\ PhaseOf(f) = HeadRow[f].state
      /\ (f \in Admitted /\ Current(f).cancel) = HeadRow[f].cancel
      /\ HeadRow[f].cancel \in BOOLEAN
  BY PhaseOfHead, RecordTypes
<1>2. /\ PhaseOf(f)' = HeadRow'[f].state
      /\ (f \in Admitted /\ Current(f).cancel)' = HeadRow'[f].cancel
      /\ HeadRow'[f].cancel \in BOOLEAN
  BY NextPhasesOfHeads DEF HeadsTellPhases
<1>3. CASE receipts' = receipts
  <2>1. PICK E \in SUBSET Flows : \E row, op : Revises(E, row, op)
    BY StepRevises
  <2>2. PICK row, op : Revises(E, row, op)
    BY <2>1
  <2>3. DeliveredStates(f)' = DeliveredStates(f)
    BY <1>3, <2>2, DeliveredByRevision
  <2>4. CASE f \notin E
    <3>1. history'[f] = history[f]
      BY <2>2, <2>4, RevisedRows
    <3>2. HeadRow'[f] = HeadRow[f]
      BY <3>1 DEF HeadRow, Current
    <3>3. PublishedStates(f)' = PublishedStates(f)
      BY <2>2, <2>4, PublishedByRevision
    <3>4. UNCHANGED Contract(f)!contractVars
      BY <1>1, <1>2, <2>3, <3>2, <3>3 DEF Contract!contractVars
    <3>5. QED BY <3>4
  <2>5. CASE f \in E
    <3>1. Added(f, row[f])
      BY <2>2, <2>5, RevisedRows
    <3>2. HeadRow'[f] = row[f] /\ Follows(HeadRow[f], row[f])
      BY <3>1 DEF Added
    <3>3. PublishedStates(f)' =
            IF Due(row[f]) THEN PublishedStates(f) \cup {row[f].state} ELSE PublishedStates(f)
      BY <2>2, <2>5, PublishedByRevision
    <3>4. Contract(f)!ContractNext
      BY <1>1, <1>2, <2>3, <3>2, <3>3, RevisionKeepsContract
    <3>5. QED BY <3>4
  <2>6. QED BY <2>4, <2>5
<1>4. ASSUME NEW i \in outbox, NEW c \in Consumers, AcknowledgeCompletion(i, c)
      PROVE  [Contract(f)!ContractNext]_(Contract(f)!contractVars)
  <2>1. history' = history /\ outbox' = outbox
    BY <1>4 DEF AcknowledgeCompletion, flowVars
  <2>2. HeadRow' = HeadRow
    BY <2>1, HeadUnchanged
  <2>3. PublishedStates(f)' = PublishedStates(f)
    BY <2>1 DEF PublishedStates
  <2>4. DeliveredStates(f)' = IF f = i.flow THEN DeliveredStates(f) \cup {i.state}
                                            ELSE DeliveredStates(f)
    BY <1>4, DeliveredByReceipt
  <2>5. CASE f = i.flow /\ i.state \notin DeliveredStates(f)
    <3>1. i.state \in PublishedStates(f) \ DeliveredStates(f)
      BY <2>5 DEF PublishedStates
    <3>2. Contract(f)!Deliver
      BY <1>1, <1>2, <2>2, <2>3, <2>4, <2>5, <3>1 DEF Contract!Deliver
    <3>3. QED BY <3>2 DEF Contract!ContractNext
  <2>6. CASE ~(f = i.flow /\ i.state \notin DeliveredStates(f))
    <3>1. DeliveredStates(f)' = DeliveredStates(f)
      BY <2>4, <2>6
    <3>2. UNCHANGED Contract(f)!contractVars
      BY <1>1, <1>2, <2>2, <2>3, <3>1 DEF Contract!contractVars
    <3>3. QED BY <3>2
  <2>7. QED BY <2>5, <2>6
<1>5. QED BY <1>3, <1>4, ReceiptStep

\* Revisions, claims, leases, stale stamps, replays and repairs implement the
\* contract of every flow: it runs at most once, a cancellation before its end
\* decides the end, each outcome is published as it is reached.
THEOREM ContractIsKept == Spec => KeepsContract
<1>1. Init => \A f \in Flows : Contract(f)!ContractInit
  BY DEF Init, Contract!ContractInit, PhaseOf, Admitted, PublishedStates, DeliveredStates
<1>2. RecordInv /\ RecordInv' /\ [Next]_vars =>
        [\A f \in Flows : [Contract(f)!ContractNext]_(Contract(f)!contractVars)]_vars
  BY ContractStep
<1>3. QED
  BY <1>1, <1>2, RecordInvHolds, PTL DEF Spec, KeepsContract

-----------------------------------------------------------------------------
(***************************************************************************)
(* The foreground loop only takes steps of the store, and it never stops a *)
(* supervisor under which a flow still runs, for any number of processes   *)
(* and however long a tick stalls between its transactions.                *)
(***************************************************************************)

(* A tick's stamp is a past time and the revision it saw is an old one. *)

LoopRows == [at : Places, stamp : Nat, seen : Nat]

LoopInv ==
  /\ LoopTypeOK
  /\ \A i \in Instances : loop[i].stamp <= now /\ loop[i].seen <= control.revision

\* Every step of the loop and of those around it is a step of the store.
LEMMA LoopStepIsStoreStep == LoopInv /\ [LoopNext]_loopVars => [Next]_vars
<1> SUFFICES ASSUME LoopInv, [LoopNext]_loopVars PROVE [Next]_vars
  OBVIOUS
<1>1. \A i \in Instances : loop[i].stamp \in 0..now /\ loop[i].seen \in 0..control.revision
  BY DEF LoopInv, LoopTypeOK, TypeOK, LoopRows
<1>2. ASSUME NEW i \in Instances, StartProcess(i) \/ Tick(i) \/ Leave(i) \/ Crash(i)
      PROVE  ForegroundStep \/ UNCHANGED vars
  <2>1. CASE TickRenew(i)
    BY <1>1, <2>1 DEF TickRenew, StoreUnchanged, ForegroundStep
  <2>2. CASE TickAcquire(i)
    BY <1>1, <2>2 DEF TickAcquire, StoreUnchanged, ForegroundStep
  <2>3. CASE TickStop(i)
    BY <1>1, <2>3 DEF TickStop, StoreUnchanged, ForegroundStep
  <2>4. CASE Close(i)
    BY <2>4 DEF Close, ForegroundStep
  <2>5. CASE \/ StartProcess(i) \/ BeginTick(i) \/ TickRead(i) \/ TickCount(i)
             \/ Leave(i) \/ Crash(i)
    BY <2>5 DEF StartProcess, BeginTick, TickRead, TickCount, Leave, Crash, StoreUnchanged
  <2>6. QED BY <1>2, <2>1, <2>2, <2>3, <2>4, <2>5 DEF Tick
<1>3. CASE OthersStep
  BY <1>3 DEF OthersStep, Next, ForegroundStep
<1>4. CASE UNCHANGED loopVars
  BY <1>4 DEF loopVars
<1>5. QED BY <1>2, <1>3, <1>4 DEF LoopNext, Next

\* The clock and the control revision only move forward.
LEMMA Forward ==
  ASSUME TypeInv, [Next]_vars
  PROVE  /\ now' \in Nat /\ now' >= now
         /\ control'.revision \in Nat /\ control'.revision >= control.revision
<1>1. now \in Nat /\ control.revision \in Nat
  BY DEF TypeInv, TypeOK
<1>2. now' = now \/ now' = now + 1
  BY DEF Next, FlowStep, OperatorStep, ForegroundStep, ClaimStep, AdmitFlow,
     RequestCancellation, MarkDispatching, RenewClaim, CompleteAttempt,
     AcknowledgeCompletion, ReplayCompletion, UpdateControl, PreviewReconciliation,
     ApplyReconciliation, AcquireForeground, RenewForeground, ReleaseForeground,
     TryClaimNext, AdvanceTime, vars
<1>3. control' = control \/ \E expected, mode : UpdateControl(expected, mode)
  BY DEF Next, FlowStep, OperatorStep, ForegroundStep, ClaimStep, AdmitFlow,
     RequestCancellation, MarkDispatching, RenewClaim, CompleteAttempt,
     AcknowledgeCompletion, ReplayCompletion, PreviewReconciliation,
     ApplyReconciliation, AcquireForeground, RenewForeground, ReleaseForeground,
     TryClaimNext, AdvanceTime, vars
<1>4. ASSUME NEW expected, NEW mode, UpdateControl(expected, mode)
      PROVE  control'.revision = control.revision + 1
  BY <1>4 DEF UpdateControl
<1>5. QED BY <1>1, <1>2, <1>3, <1>4

LEMMA LoopInvStep ==
  ASSUME LoopInv, TypeInv, TypeInv', [Next]_vars, [LoopNext]_loopVars
  PROVE  LoopInv'
<1>1. /\ now \in Nat /\ now' \in Nat /\ now' >= now
      /\ control.revision \in Nat /\ control'.revision \in Nat
      /\ control'.revision >= control.revision
  BY Forward DEF TypeInv, TypeOK
<1>2. loop \in [Instances -> LoopRows] /\ granted \in [Instances -> Nat]
  BY DEF LoopInv, LoopTypeOK, LoopRows
<1>3. ForegroundTTL \in Nat
  BY ParameterAssumption
<1>4. granted' \in [Instances -> Nat]
  <2>1. ASSUME NEW i \in Instances, TickRenew(i) \/ TickAcquire(i)
        PROVE  granted' \in [Instances -> Nat]
    BY <1>2, <1>3, <2>1 DEF TickRenew, TickAcquire, LoopRows
  <2>2. QED
    BY <1>2, <2>1 DEF LoopNext, Tick, OthersStep, StartProcess, BeginTick, TickRead,
       TickCount, TickStop, Leave, Close, Crash, loopVars
<1>5. ASSUME NEW i \in Instances, NEW place \in Places, Goto(i, place)
      PROVE  /\ loop' \in [Instances -> LoopRows]
             /\ \A j \in Instances : loop'[j].stamp = loop[j].stamp /\ loop'[j].seen = loop[j].seen
  BY <1>2, <1>5 DEF Goto, LoopRows
<1>6. ASSUME NEW i \in Instances,
             \/ StartProcess(i) \/ TickRenew(i) \/ TickAcquire(i) \/ TickCount(i)
             \/ TickStop(i) \/ Leave(i) \/ Close(i) \/ Crash(i)
      PROVE  \E place \in Places : Goto(i, place)
  BY <1>6 DEF StartProcess, TickRenew, TickAcquire, TickCount, TickStop, Leave, Close,
              Crash, Places
<1>7. ASSUME NEW i \in Instances, BeginTick(i)
      PROVE  /\ loop' \in [Instances -> LoopRows]
             /\ loop'[i].stamp = now /\ loop'[i].seen = loop[i].seen
             /\ \A j \in Instances \ {i} : loop'[j] = loop[j]
  BY <1>1, <1>2, <1>7 DEF BeginTick, LoopRows, Places
<1>8. ASSUME NEW i \in Instances, TickRead(i)
      PROVE  /\ loop' \in [Instances -> LoopRows]
             /\ loop'[i].stamp = loop[i].stamp /\ loop'[i].seen = control.revision
             /\ \A j \in Instances \ {i} : loop'[j] = loop[j]
  BY <1>1, <1>2, <1>8 DEF TickRead, LoopRows, Places
<1>9. loop' \in [Instances -> LoopRows]
      /\ \A j \in Instances : loop'[j].stamp <= now' /\ loop'[j].seen <= control'.revision
  <2>0. \A j \in Instances : /\ loop[j].stamp \in Nat /\ loop[j].stamp <= now
                             /\ loop[j].seen \in Nat /\ loop[j].seen <= control.revision
    BY <1>2 DEF LoopInv, LoopRows
  <2>1. CASE \E i \in Instances, place \in Places : Goto(i, place)
    BY <1>1, <1>5, <2>0, <2>1
  <2>2. CASE \E i \in Instances : BeginTick(i)
    BY <1>1, <1>7, <2>0, <2>2
  <2>3. CASE \E i \in Instances : TickRead(i)
    BY <1>1, <1>8, <2>0, <2>3
  <2>4. CASE loop' = loop
    BY <1>1, <1>2, <2>0, <2>4
  <2>5. QED
    BY <1>6, <2>1, <2>2, <2>3, <2>4 DEF LoopNext, Tick, OthersStep, loopVars
<1>10. QED BY <1>4, <1>9 DEF LoopInv, LoopTypeOK, LoopRows, TypeInv

LEMMA LoopInitInv == LoopInit => Init /\ LoopInv
<1> SUFFICES ASSUME LoopInit PROVE LoopInv
  BY DEF LoopInit
<1>1. TypeOK
  BY TypeInit DEF LoopInit, TypeInv
<1>2. QED
  BY <1>1 DEF LoopInit, Init, LoopInv, LoopTypeOK, Places

-----------------------------------------------------------------------------
(* Stopping. *)

\* A process that is about to count or to stop, and whose revision is still the
\* current one, saw the mode that is in force; if it is about to stop, it also
\* counted no running flow, and none can have started since.
StopSeen ==
  \A i \in Instances : loop[i].seen = control.revision =>
    /\ loop[i].at \in {"count", "stop"} => Draining
    /\ loop[i].at = "stop" => RunningFlows = {}

StopInv == LeaseInv /\ LoopInv /\ StopSeen /\ StoppedMeansDrained

\* Only a claim starts a run, and only in mode "running".
LEMMA NoRunStarts ==
  ASSUME ClaimInv, ClaimInv', [Next]_vars, control.mode # "running", RunningFlows = {}
  PROVE  RunningFlows' = {}
<1>0. {"running"} \in SUBSET FlowStates
  BY DEF FlowStates
<1>1. ~(\E i \in Instances, a \in Attempts, ts \in Stamps : TryClaimNext(i, a, ts))
  BY DEF TryClaimNext
<1>2. attempt' = attempt
  BY <1>1 DEF Next, FlowStep, OperatorStep, ForegroundStep, ClaimStep, AdmitFlow,
     RequestCancellation, MarkDispatching, RenewClaim, CompleteAttempt,
     AcknowledgeCompletion, ReplayCompletion, UpdateControl, PreviewReconciliation,
     ApplyReconciliation, AcquireForeground, RenewForeground, ReleaseForeground,
     AdvanceTime, vars, claimVars
<1>3. \A a \in Attempts : attemptState[a] \notin LiveAttemptStates
  <2>1. SUFFICES ASSUME NEW a \in Attempts, IsLive(a) PROVE FALSE
    BY DEF IsLive
  <2>2. attempt[a].flow \in Flows /\ HeadRow[attempt[a].flow].state = "running"
    BY <2>1, LeaseTypes DEF ClaimInv, LiveIsActive
  <2>3. attempt[a].flow \in RunningFlows
    BY <1>0, <2>2, InStateOfHead DEF ClaimInv, RunningFlows
  <2>4. QED BY <2>3
<1>4. \A a \in Attempts : attemptState'[a] \notin LiveAttemptStates
  <2>1. SUFFICES ASSUME NEW a \in Attempts, attemptState'[a] \in LiveAttemptStates
                 PROVE  FALSE
    OBVIOUS
  <2>2. PICK ts \in Stamps : MarkDispatching(a, ts)
    BY <1>1, <1>3, <2>1, AttemptStateSteps DEF LiveAttemptStates, EndedAttemptStates
  <2>3. QED BY <1>3, <2>2 DEF MarkDispatching, LiveAttemptStates
<1>5. \A f \in Flows : HeadRow'[f].state # "running"
  BY <1>4 DEF ClaimInv, RunningHasAttempt, IsLive
<1>6. ASSUME NEW f \in Flows PROVE ~InState(f, {"running"})'
  <2>1. Admitted' = {g \in Flows : history'[g] # <<>>}
    BY DEF Admitted
  <2>2. f \in Admitted' => HeadRow'[f] = history'[f][Len(history'[f])]
    BY <2>1 DEF HeadRow, Current
  <2>3. QED BY <1>5, <2>2 DEF InState, Current
<1>7. QED BY <1>6 DEF RunningFlows

LEMMA StopStep == StopInv /\ [LoopNext]_loopVars => StopInv'
<1> SUFFICES ASSUME StopInv, [LoopNext]_loopVars PROVE StopInv'
  OBVIOUS
<1>1. [Next]_vars
  BY LoopStepIsStoreStep DEF StopInv
<1>2. LeaseInv' /\ ClaimInv' /\ TypeInv'
  BY <1>1, LeaseStep DEF StopInv, LeaseInv, ClaimInv
<1>3. LoopInv'
  BY <1>1, <1>2, LoopInvStep DEF StopInv, LeaseInv, ClaimInv
<1>4. control.mode # "running" /\ RunningFlows = {} => RunningFlows' = {}
  BY <1>1, <1>2, NoRunStarts DEF StopInv, LeaseInv
<1>5. \A i \in Instances : /\ loop[i].seen \in Nat /\ loop[i].seen <= control.revision
                          /\ loop[i] \in LoopRows
  BY DEF StopInv, LoopInv, LoopTypeOK, LoopRows
<1>6. control.revision \in Nat /\ loop \in [Instances -> LoopRows]
  BY DEF StopInv, LoopInv, LoopTypeOK, TypeOK, LoopRows
<1>7. \A i \in Instances : loop[i].seen = control.revision =>
        /\ loop[i].at \in {"count", "stop"} => Draining
        /\ loop[i].at = "stop" => RunningFlows = {}
  BY DEF StopInv, StopSeen
<1>8. control.mode = "stopped" => RunningFlows = {}
  BY DEF StopInv, StoppedMeansDrained
<1>9. Draining => control.mode # "running"
  BY DEF Draining
\* A control command outdates what every process saw.
<1>10. ASSUME NEW expected, NEW mode, UpdateControl(expected, mode), mode # "stopped",
              loop' = loop
       PROVE  StopSeen' /\ StoppedMeansDrained'
  <2>1. control'.revision = control.revision + 1 /\ control'.mode = mode
    BY <1>10 DEF UpdateControl
  <2>2. QED BY <1>5, <1>6, <1>10, <2>1 DEF StopSeen, StoppedMeansDrained
\* The step that stops rests on the count of its tick.
<1>11. ASSUME NEW i \in Instances, TickStop(i)
       PROVE  StopSeen' /\ StoppedMeansDrained'
  <2>1. /\ \A j \in Instances : loop'[j].seen = loop[j].seen
        /\ \A j \in Instances \ {i} : loop'[j] = loop[j]
        /\ loop'[i].at = "closing"
    BY <1>6, <1>11 DEF TickStop, Goto, LoopRows
  <2>2. CASE control.revision = loop[i].seen /\ UpdateControl(loop[i].seen, "stopped")
    <3>1. /\ control'.revision = control.revision + 1 /\ control'.mode = "stopped"
          /\ history' = history
      BY <2>2 DEF UpdateControl, flowVars
    <3>2. RunningFlows = {} /\ control.mode # "running"
      BY <1>7, <1>9, <1>11, <2>2 DEF TickStop
    <3>3. QED BY <1>4, <1>5, <1>6, <2>1, <3>1, <3>2 DEF StopSeen, StoppedMeansDrained
  <2>3. CASE UNCHANGED vars
    <3>1. control' = control /\ Draining' = Draining
      BY <2>3 DEF vars, Draining
    <3>2. QED BY <1>4, <1>7, <1>8, <1>9, <2>1, <3>1 DEF StopSeen, StoppedMeansDrained
  <2>4. QED BY <1>11, <2>2, <2>3 DEF TickStop, StoreUnchanged
\* Every other step keeps the mode, and whoever reads or counts now is right now.
<1>12. ASSUME control' = control, loop' = loop
       PROVE  StopSeen' /\ StoppedMeansDrained'
  BY <1>4, <1>7, <1>8, <1>9, <1>12 DEF StopSeen, StoppedMeansDrained, Draining
<1>13. ASSUME NEW i \in Instances, UNCHANGED control,
              \A j \in Instances \ {i} : loop'[j] = loop[j],
              \/ loop'[i].at \notin {"count", "stop"}
              \/ loop'[i].at = "count" /\ (loop'[i].seen = control.revision => Draining)
              \/ /\ loop'[i].at = "stop" /\ RunningFlows = {}
                 /\ loop'[i].seen = control.revision => Draining
       PROVE  StopSeen' /\ StoppedMeansDrained'
  BY <1>4, <1>7, <1>8, <1>9, <1>13 DEF StopSeen, StoppedMeansDrained, Draining
<1>14. ASSUME NEW i \in Instances,
              \/ StartProcess(i) \/ BeginTick(i) \/ TickRenew(i) \/ TickAcquire(i)
              \/ Leave(i) \/ Close(i) \/ Crash(i)
       PROVE  StopSeen' /\ StoppedMeansDrained'
  <2>1. /\ control' = control
        /\ \A j \in Instances \ {i} : loop'[j] = loop[j]
        /\ loop'[i].at \notin {"count", "stop"}
    BY <1>6, <1>14
       DEF StartProcess, BeginTick, TickRenew, TickAcquire, Leave, Close, Crash, Goto,
           StoreUnchanged, vars, RenewForeground, AcquireForeground, ReleaseForeground,
           LoopRows
  <2>2. QED BY <1>13, <2>1
<1>15. ASSUME NEW i \in Instances, TickRead(i)
       PROVE  StopSeen' /\ StoppedMeansDrained'
  <2>1. /\ control' = control
        /\ \A j \in Instances \ {i} : loop'[j] = loop[j]
        /\ \/ loop'[i].at \notin {"count", "stop"}
           \/ loop'[i].at = "count" /\ Draining
    BY <1>6, <1>15 DEF TickRead, StoreUnchanged, vars, LoopRows
  <2>2. QED BY <1>13, <2>1
<1>16. ASSUME NEW i \in Instances, TickCount(i)
       PROVE  StopSeen' /\ StoppedMeansDrained'
  <2>1. /\ control' = control
        /\ \A j \in Instances \ {i} : loop'[j] = loop[j]
        /\ loop'[i].seen = loop[i].seen /\ loop[i].at = "count"
        /\ loop'[i].at = IF RunningFlows = {} THEN "stop" ELSE "idle"
    BY <1>6, <1>16 DEF TickCount, Goto, StoreUnchanged, vars, LoopRows
  <2>2. QED BY <1>7, <1>13, <2>1
<1>17. ASSUME OthersStep PROVE StopSeen' /\ StoppedMeansDrained'
  <2>1. \/ control' = control
        \/ \E expected, mode : mode # "stopped" /\ UpdateControl(expected, mode)
    BY <1>17 DEF OthersStep, FlowStep, OperatorStep, OperatorModes, ClaimStep, AdmitFlow,
       RequestCancellation, MarkDispatching, RenewClaim, CompleteAttempt,
       AcknowledgeCompletion, ReplayCompletion, PreviewReconciliation,
       ApplyReconciliation, TryClaimNext, AdvanceTime
  <2>2. loop' = loop
    BY <1>17 DEF OthersStep
  <2>3. CASE control' = control
    BY <1>12, <2>2, <2>3
  <2>4. CASE \E expected, mode : mode # "stopped" /\ UpdateControl(expected, mode)
    BY <1>10, <2>2, <2>4
  <2>5. QED BY <2>1, <2>3, <2>4
<1>18. ASSUME UNCHANGED loopVars PROVE StopSeen' /\ StoppedMeansDrained'
  <2>1. control' = control /\ loop' = loop
    BY <1>18 DEF loopVars, vars
  <2>2. QED BY <1>12, <2>1
<1>19. StopSeen' /\ StoppedMeansDrained'
  <2>1. CASE \E i \in Instances : StartProcess(i) \/ Tick(i) \/ Leave(i) \/ Crash(i)
    BY <1>11, <1>14, <1>15, <1>16, <2>1 DEF Tick
  <2>2. QED BY <1>17, <1>18, <2>1 DEF LoopNext
<1>20. QED BY <1>2, <1>3, <1>19 DEF StopInv

LEMMA StopInit == LoopInit => StopInv
<1> SUFFICES ASSUME LoopInit PROVE StopInv
  OBVIOUS
<1>1. LeaseInv /\ LoopInv
  BY LoopInitInv, LeaseInit
<1>2. RunningFlows = {}
  BY DEF LoopInit, Init, RunningFlows, InState, Admitted
<1>3. QED BY <1>1, <1>2 DEF LoopInit, StopInv, StopSeen, StoppedMeansDrained

LEMMA StopInvHolds == LoopSpec => []StopInv
  BY StopInit, StopStep, PTL DEF LoopSpec

\* The loop, its crashes and its stalls included, is one behaviour of the store:
\* all that is proved of Spec holds of it.
THEOREM LoopImplementsStore == LoopSpec => Spec
<1>1. LoopInit => Init
  BY DEF LoopInit
<1>2. StopInv /\ [LoopNext]_loopVars => [Next]_vars
  BY LoopStepIsStoreStep DEF StopInv
<1>3. QED
  BY <1>1, <1>2, StopInvHolds, PTL DEF LoopSpec, Spec

\* Loop variables and store only ever hold values of their types.
THEOREM LoopTypeCorrect == LoopSpec => []LoopTypeOK
<1>1. StopInv => LoopTypeOK
  BY DEF StopInv, LoopInv
<1>2. QED
  BY <1>1, StopInvHolds, PTL

\* Although a tick reads the mode, counts and writes in separate transactions,
\* "stopped" is only ever written while no flow runs, and none runs afterwards.
THEOREM StopsDrained == LoopSpec => []StoppedMeansDrained
<1>1. StopInv => StoppedMeansDrained
  BY DEF StopInv
<1>2. QED
  BY <1>1, StopInvHolds, PTL

-----------------------------------------------------------------------------
(* The foreground lease. *)

\* A process that is up and inside a grant holds the row, which lasts at least
\* as long; one that has not started was never granted anything.
HoldsLease ==
  \A i \in Instances :
    /\ loop[i].at = "new" => granted[i] = 0
    /\ Up(i) /\ granted[i] > now =>
         foreground # NoLease /\ foreground.owner = i /\ foreground.expires >= granted[i]

\* Whoever is not the process that acts keeps what it had.
LEMMA HoldersElsewhere ==
  ASSUME StopInv, StopInv', HoldsLease, NEW i \in Instances, now' >= now,
         loop'[i] = loop[i], granted'[i] = granted[i], foreground' = foreground
  PROVE  /\ loop'[i].at = "new" => granted'[i] = 0
         /\ Up(i)' /\ granted'[i] > now' =>
              foreground' # NoLease /\ foreground'.owner = i /\ foreground'.expires >= granted'[i]
<1>1. now \in Nat /\ now' \in Nat /\ granted[i] \in Nat
  BY DEF StopInv, LoopInv, LoopTypeOK, TypeOK
<1>2. Up(i)' <=> Up(i)
  BY DEF Up
<1>3. granted'[i] > now' => granted[i] > now
  BY <1>1
<1>4. QED BY <1>2, <1>3 DEF HoldsLease

LEMMA HoldsStep == StopInv /\ StopInv' /\ HoldsLease /\ [LoopNext]_loopVars => HoldsLease'
<1> SUFFICES ASSUME StopInv, StopInv', HoldsLease, [LoopNext]_loopVars PROVE HoldsLease'
  OBVIOUS
<1>1. /\ now \in Nat /\ granted \in [Instances -> Nat] /\ loop \in [Instances -> LoopRows]
      /\ ForegroundTTL \in Nat
      /\ foreground \in [owner : Instances, renewed : Nat, expires : Nat] \cup {NoLease}
      /\ \A j \in Instances : loop[j].stamp \in Nat /\ loop[j].stamp <= now
  BY ParameterAssumption DEF StopInv, LoopInv, LoopTypeOK, TypeOK, LoopRows
<1>2. now' \in Nat /\ now' >= now
  BY LoopStepIsStoreStep, Forward DEF StopInv, LeaseInv, ClaimInv
\* What a process must have after a step of its own.
<1>3. ASSUME NEW i \in Instances, now' = now, foreground' = foreground,
             \A j \in Instances \ {i} : loop'[j] = loop[j] /\ granted'[j] = granted[j],
             granted'[i] = granted[i], loop'[i].at # "new", Up(i)' => Up(i) \/ granted[i] = 0
      PROVE  HoldsLease'
  <2>1. Up(i)' /\ granted'[i] > now' =>
          foreground' # NoLease /\ foreground'.owner = i /\ foreground'.expires >= granted'[i]
    BY <1>1, <1>3 DEF HoldsLease
  <2>2. QED BY <1>2, <1>3, <2>1, HoldersElsewhere DEF HoldsLease
\* A lease is granted over a row that is the process's own or has expired, so
\* nobody else is inside a grant.
<1>4. ASSUME NEW i \in Instances,
             ForegroundFree(loop[i].stamp) \/ (foreground # NoLease /\ foreground.owner = i),
             foreground' # NoLease, foreground'.owner = i, foreground'.expires = granted'[i],
             now' = now, loop'[i].at = "read",
             \A j \in Instances \ {i} : loop'[j] = loop[j] /\ granted'[j] = granted[j]
      PROVE  HoldsLease'
  <2>1. ASSUME NEW j \in Instances \ {i}, Up(j), granted[j] > now
        PROVE  FALSE
    <3>1. foreground # NoLease /\ foreground.owner = j /\ foreground.expires >= granted[j]
      BY <2>1 DEF HoldsLease
    <3>2. foreground.expires \in Nat /\ granted[j] \in Nat
      BY <1>1, <3>1
    <3>3. ~ ForegroundFree(loop[i].stamp)
      BY <1>1, <2>1, <3>1, <3>2 DEF ForegroundFree
    <3>4. QED BY <1>4, <3>1, <3>3
  <2>2. \A j \in Instances \ {i} : Up(j)' <=> Up(j)
    BY <1>4 DEF Up
  <2>3. \A j \in Instances \ {i} : granted'[j] = granted[j] /\ loop'[j].at = loop[j].at
    BY <1>4
  <2>4. granted'[i] \in Nat /\ granted'[i] >= granted'[i]
    BY DEF StopInv, LoopInv, LoopTypeOK
  <2>5. QED
    BY <1>4, <2>1, <2>2, <2>3, <2>4 DEF HoldsLease
<1>5. ASSUME NEW i \in Instances, TickRenew(i) PROVE HoldsLease'
  <2>1. CASE CanRenewForeground(i, loop[i].stamp)
    <3>1. foreground # NoLease /\ foreground.owner = i
      BY <2>1 DEF CanRenewForeground, ForegroundHeld
    <3>2. /\ foreground' = [foreground EXCEPT !.renewed = loop[i].stamp, !.expires = loop[i].stamp + ForegroundTTL]
          /\ granted' = [granted EXCEPT ![i] = loop[i].stamp + ForegroundTTL]
          /\ loop' = [loop EXCEPT ![i].at = "read"] /\ now' = now
      BY <1>5, <2>1 DEF TickRenew, RenewForeground, Goto
    <3>3. foreground \in [owner : Instances, renewed : Nat, expires : Nat]
      BY <1>1, <3>1
    <3>4. foreground' \in [owner : Instances, renewed : Nat, expires : Nat]
      <4>1. loop[i].stamp \in Nat /\ loop[i].stamp + ForegroundTTL \in Nat
        BY <1>1
      <4>2. QED BY <3>2, <3>3, <4>1
    <3>5. foreground' # NoLease
      BY <3>4, SentinelAssumption
    <3>6. foreground'.owner = i /\ foreground'.expires = granted'[i]
      BY <1>1, <3>1, <3>2, <3>3
    <3>7. loop'[i].at = "read"
      BY <1>1, <3>2 DEF LoopRows
    <3>8. QED BY <1>1, <1>4, <3>1, <3>2, <3>5, <3>6, <3>7
  <2>2. CASE ~ CanRenewForeground(i, loop[i].stamp)
    BY <1>1, <1>3, <1>5, <2>2 DEF TickRenew, Goto, StoreUnchanged, vars, Up, LoopRows
  <2>3. QED BY <2>1, <2>2
<1>6. ASSUME NEW i \in Instances, TickAcquire(i) PROVE HoldsLease'
  <2>1. CASE ForegroundFree(loop[i].stamp)
    <3>1. /\ foreground' = [owner |-> i, renewed |-> loop[i].stamp, expires |-> loop[i].stamp + ForegroundTTL]
          /\ granted' = [granted EXCEPT ![i] = loop[i].stamp + ForegroundTTL]
          /\ loop' = [loop EXCEPT ![i].at = "read"] /\ now' = now
      BY <1>6, <2>1 DEF TickAcquire, AcquireForeground, Goto
    <3>2. foreground' \in [owner : Instances, renewed : Nat, expires : Nat]
      BY <1>1, <3>1
    <3>3. foreground' # NoLease
      BY <3>2, SentinelAssumption
    <3>4. foreground'.owner = i /\ foreground'.expires = granted'[i]
      BY <1>1, <3>1
    <3>5. loop'[i].at = "read"
      BY <1>1, <3>1 DEF LoopRows
    <3>6. QED BY <1>1, <1>4, <2>1, <3>1, <3>3, <3>4, <3>5
  <2>2. CASE ~ ForegroundFree(loop[i].stamp)
    BY <1>1, <1>3, <1>6, <2>2 DEF TickAcquire, Goto, StoreUnchanged, vars, Up, LoopRows
  <2>3. QED BY <2>1, <2>2
<1>7. ASSUME NEW i \in Instances,
             \/ StartProcess(i) \/ BeginTick(i) \/ TickRead(i) \/ TickCount(i) \/ Leave(i) \/ Crash(i)
      PROVE  HoldsLease'
  <2>1. /\ UNCHANGED <<now, foreground, granted>>
        /\ \A j \in Instances \ {i} : loop'[j] = loop[j]
        /\ loop'[i].at \in Places \ {"new"}
    BY <1>1, <1>7 DEF StartProcess, BeginTick, TickRead, TickCount, Leave, Crash, Goto, StoreUnchanged, vars,
       LoopRows, Places
  <2>2. Up(i)' => Up(i) \/ granted[i] = 0
    BY <1>1, <1>7 DEF StartProcess, BeginTick, TickRead, TickCount, Leave, Crash, Goto, Up, HoldsLease, LoopRows
  <2>3. QED BY <1>3, <2>1, <2>2
<1>8. ASSUME NEW i \in Instances, TickStop(i) PROVE HoldsLease'
  <2>1. /\ UNCHANGED <<now, foreground, granted>>
        /\ \A j \in Instances \ {i} : loop'[j] = loop[j]
        /\ loop'[i].at = "closing" /\ Up(i)
    BY <1>1, <1>8 DEF TickStop, UpdateControl, Goto, StoreUnchanged, vars, Up, LoopRows
  <2>2. QED BY <1>3, <2>1
\* Who closes gives up its own row only.
<1>9. ASSUME NEW i \in Instances, Close(i) PROVE HoldsLease'
  <2>1. /\ UNCHANGED <<now, granted>>
        /\ \A j \in Instances \ {i} : loop'[j] = loop[j]
        /\ loop'[i].at = "gone"
        /\ foreground' = IF foreground # NoLease /\ foreground.owner = i THEN NoLease ELSE foreground
    BY <1>1, <1>9 DEF Close, ReleaseForeground, Goto, LoopRows
  <2>2. ASSUME NEW j \in Instances \ {i}, Up(j)', granted'[j] > now'
        PROVE  foreground' # NoLease /\ foreground'.owner = j /\ foreground'.expires >= granted'[j]
    <3>1. Up(j) /\ granted[j] > now
      BY <2>1, <2>2 DEF Up
    <3>2. QED BY <2>1, <3>1 DEF HoldsLease
  <2>3. ~ Up(i)'
    BY <2>1 DEF Up
  <2>4. QED BY <2>1, <2>2, <2>3 DEF HoldsLease
<1>10. ASSUME foreground' = foreground, UNCHANGED <<loop, granted>> PROVE HoldsLease'
  BY <1>2, <1>10, HoldersElsewhere DEF HoldsLease
<1>11. OthersStep => foreground' = foreground
  BY DEF OthersStep, FlowStep, OperatorStep, ClaimStep, AdmitFlow, RequestCancellation, MarkDispatching,
     RenewClaim, CompleteAttempt, AcknowledgeCompletion, ReplayCompletion, UpdateControl, PreviewReconciliation,
     ApplyReconciliation, TryClaimNext, AdvanceTime, vars
<1>12. CASE OthersStep
  BY <1>10, <1>11, <1>12 DEF OthersStep
<1>13. CASE UNCHANGED loopVars
  BY <1>10, <1>13 DEF loopVars, vars
<1>14. QED
  BY <1>5, <1>6, <1>7, <1>8, <1>9, <1>12, <1>13 DEF LoopNext, Tick

LEMMA HoldsInit == LoopInit => HoldsLease
  BY DEF LoopInit, HoldsLease, Up

\* Of any number of processes, of which some crash with the lease, stall past
\* its expiry or acquire it after one another, at most one is up and inside a
\* lease it was granted: acquire_foreground takes over what has expired only.
THEOREM ForegroundIsExclusive == LoopSpec => []OneForeground
<1>1. HoldsLease => OneForeground
  BY DEF HoldsLease, OneForeground
<1>2. QED
  BY <1>1, HoldsInit, HoldsStep, StopInvHolds, PTL DEF LoopSpec

=============================================================================
