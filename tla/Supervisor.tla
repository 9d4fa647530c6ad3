----------------------------- MODULE Supervisor -----------------------------
(***************************************************************************)
(* The durable supervisor store of Ordomata (src/ordomata/supervisor.py,   *)
(* SQLiteSupervisorStore): control revisions, flow revisions, fenced       *)
(* attempt claims over shared resource leases, sticky cancellation, the    *)
(* completion outbox with its receipts, and digest-bound reconciliation.   *)
(*                                                                         *)
(* Every public method of the store is one SQLite transaction taken with   *)
(* BEGIN IMMEDIATE, so every method is one action here and an exception    *)
(* (rolled back) is a step not taken.  What a transaction is NOT atomic    *)
(* with is its clock: each method reads the time before it waits for the   *)
(* write lock.  An action therefore takes a stamp ts that may lag the      *)
(* wall clock by up to MaxLag, and compares leases and deadlines with ts.  *)
(*                                                                         *)
(* An operator named Broken... is a plausible bug in the definition that   *)
(* follows it.  No specification uses one: each shows that some property   *)
(* of a run would notice that bug.                                         *)
(***************************************************************************)
EXTENDS Integers, Sequences, FiniteSets

CONSTANTS
  Flows,           \* flow identifiers; a flow also names its own lease key
  Attempts,        \* claim nonces: each names an attempt and its lease owner
  Resources,       \* the resource keys that flows may declare
  Instances,       \* foreground supervisor processes (instance_owner)
  Operators,       \* holders of a previewed reconciliation plan
  Consumers,       \* completion consumers, each with the result it reports
  Outcomes,        \* the outcomes that claim holders report
  SpecOf,          \* flow -> its immutable FlowSpec
  ClaimTTL,        \* ttl_seconds of claims and renewals
  ForegroundTTL,   \* lease_ttl_seconds of the foreground lease
  NoAttempt, NoLease, NoDeadline, NoPlan, NoOperation,
  MaxTime,         \* bound: the clock stops here
  MaxLag,          \* bound: how far a transaction's stamp trails the clock
  LastClaim,       \* bound: no claim or renewal is made after this time
  MaxControl       \* bound: the operator appends no control revision above this

-----------------------------------------------------------------------------
(* The state machines of the code. *)

FlowStates == {"queued", "running", "waiting", "blocked", "succeeded",
               "failed", "timed_out", "cancelled", "lost"}

FinalStates == {"succeeded", "failed", "timed_out", "cancelled"}

\* States an attempt leaves only through an event of its own.
LiveAttemptStates == {"created", "dispatching", "running"}

EndedAttemptStates == {"succeeded", "failed", "blocked", "timed_out",
                       "cancelled", "lost"}

ReportableOutcomes == {"succeeded", "failed", "blocked", "timed_out",
                       "cancelled", "lost", "waiting"}

\* The attempt state that ends an attempt whose flow moves to an outcome.
AttemptEnd(outcome) == IF outcome = "waiting" THEN "blocked" ELSE outcome

Modes == {"stopped", "running", "paused", "draining", "stop_requested"}

ControlTransitions ==
  [stopped        |-> {"running"},
   running        |-> {"paused", "draining", "stop_requested"},
   paused         |-> {"running", "draining", "stop_requested"},
   draining       |-> {"stopped"},
   stop_requested |-> {"stopped"}]

\* The modes a command of the operator asks for: never "stopped", which only
\* the foreground loop writes.
OperatorModes == {"running", "paused", "draining", "stop_requested"}

-----------------------------------------------------------------------------
FlowSpecs ==
  [resources : SUBSET Resources, available : Nat,
   deadline : Nat \cup {NoDeadline}, timeout : Nat \ {0},
   max_attempts : Nat \ {0}, rank : Nat]

\* What _validate_flow_spec accepts: a resource key never names a flow, and a
\* deadline comes after the flow is available.
ASSUME FlowSpecAssumption ==
  /\ SpecOf \in [Flows -> FlowSpecs]
  /\ Flows \cap Resources = {}
  /\ \A f \in Flows :
       SpecOf[f].deadline # NoDeadline => SpecOf[f].deadline > SpecOf[f].available

ASSUME SentinelAssumption ==
  /\ NoAttempt \notin Attempts \cup [flow : Flows, deadline : Nat]
  /\ NoOperation \notin [expected : Nat, outcome : Outcomes]
  /\ NoDeadline \notin Nat
  /\ NoLease \notin [owner : Attempts \cup Instances, renewed : Nat, expires : Nat]

ASSUME ParameterAssumption ==
  /\ Outcomes \subseteq ReportableOutcomes
  /\ ClaimTTL \in Nat \ {0}
  /\ ForegroundTTL \in Nat \ {0}
  /\ MaxTime \in Nat
  /\ MaxLag \in Nat
  /\ LastClaim \in Nat
  /\ MaxControl \in Nat

-----------------------------------------------------------------------------
VARIABLES
  now,              \* the wall clock
  control,          \* the newest control event
  foreground,       \* the lease row "supervisor:foreground"
  history,          \* flow -> its append-only revisions, oldest first
  revisedAt,        \* flow -> occurred_at of its newest revision
  committedAt,      \* flow -> wall clock when its newest revision committed
  cancelRequested,  \* flows with a row in supervisor_cancellation_requests
  attempt,          \* attempt -> its immutable row
  attemptState,     \* attempt -> state of its newest event
  leases,           \* flow or resource key -> its lease row
  outbox,           \* completion intents
  receipts,         \* completion receipts, each with its delivery event
  plan,             \* operator -> the plan it previewed, which fixes a digest
  promised,         \* attempt -> latest expiry its holder was ever granted
  replies           \* attempt -> what complete_attempt told the claim holder

claimVars == <<attempt, attemptState, leases, promised>>
flowVars  == <<history, revisedAt, committedAt, cancelRequested>>
sideVars  == <<receipts, plan, replies>>
vars == <<now, control, foreground, flowVars, claimVars, outbox, sideVars>>

-----------------------------------------------------------------------------
Keys == Flows \cup Resources

\* The sorted tuple {"flow:<id>", *resource_keys} of a claim.
KeysOf(f) == {f} \cup SpecOf[f].resources

Lesser(m, n) == IF m <= n THEN m ELSE n

\* The stamps a transaction that commits now may carry.
Stamps == {t \in 0..now : t + MaxLag >= now}

Admitted == {f \in Flows : history[f] # <<>>}

\* The newest revision of an admitted flow (_current_flow_in).
Current(f) == history[f][Len(history[f])]

InState(f, states) == f \in Admitted /\ Current(f).state \in states

Revision(state, cancel, active) ==
  [state |-> state, cancel |-> cancel, active |-> active]

\* One more row for flow f in supervisor_flow_revisions.
AppendRevision(f, revision, ts) ==
  /\ history' = [history EXCEPT ![f] = Append(@, revision)]
  /\ revisedAt' = [revisedAt EXCEPT ![f] = ts]
  /\ committedAt' = [committedAt EXCEPT ![f] = now]

BrokenKnowsCurrent(f, ts) == TRUE

\* A caller that names flow f's current revision has read it, so the stamp of
\* its transaction, taken later still, is not before that revision's commit.
KnowsCurrent(f, ts) == ts >= committedAt[f]

Intent(f, revision, state, a, operation) ==
  [flow |-> f, revision |-> revision, state |-> state, attempt |-> a,
   operation |-> operation]

\* _insert_completion_intent: (flow, source revision) keeps its first intent.
Published(intent) ==
  IF \E i \in outbox : i.flow = intent.flow /\ i.revision = intent.revision
    THEN outbox
    ELSE outbox \cup {intent}

AttemptsOf(f) == {a \in Attempts : attempt[a] # NoAttempt /\ attempt[a].flow = f}

\* DELETE FROM leases WHERE lease_key = ? AND owner_id = ?, for each key of the
\* attempts that end.
Released(endedAttempts) ==
  [k \in Keys |->
     IF leases[k] # NoLease /\ leases[k].owner \in endedAttempts
       THEN NoLease ELSE leases[k]]

-----------------------------------------------------------------------------
\* Foreground lease and control.

ForegroundHeld(i, ts) ==
  /\ foreground # NoLease
  /\ foreground.owner = i
  /\ foreground.expires > ts

BrokenForegroundFree(ts) == foreground # NoLease => foreground.renewed <= ts

\* Nobody holds the foreground lease unexpired.
ForegroundFree(ts) == foreground # NoLease => foreground.expires <= ts

\* acquire_foreground that writes the row.
AcquireForeground(i, ts) ==
  /\ ForegroundFree(ts)
  /\ foreground' = [owner |-> i, renewed |-> ts, expires |-> ts + ForegroundTTL]
  /\ UNCHANGED <<now, control, flowVars, claimVars, outbox, sideVars>>

CanRenewForeground(i, ts) == ForegroundHeld(i, ts) /\ foreground.renewed <= ts

RenewForeground(i, ts) ==
  /\ CanRenewForeground(i, ts)
  /\ foreground' = [foreground EXCEPT !.renewed = ts, !.expires = ts + ForegroundTTL]
  /\ UNCHANGED <<now, control, flowVars, claimVars, outbox, sideVars>>

ReleaseForeground(i) ==
  /\ foreground' = IF foreground # NoLease /\ foreground.owner = i
                     THEN NoLease ELSE foreground
  /\ UNCHANGED <<now, control, flowVars, claimVars, outbox, sideVars>>

\* update_control that appends a revision; the same mode, a stale revision and
\* a transition outside the table change nothing.
UpdateControl(expected, mode) ==
  /\ control.revision = expected
  /\ mode \in ControlTransitions[control.mode]
  /\ control' = [revision |-> control.revision + 1, mode |-> mode]
  /\ UNCHANGED <<now, foreground, flowVars, claimVars, outbox, sideVars>>

-----------------------------------------------------------------------------
\* Flows and claims.

\* admit_flow of new work; a replay returns what is stored, a conflict raises.
AdmitFlow(f, ts) ==
  /\ f \notin Admitted
  /\ AppendRevision(f, Revision("queued", FALSE, NoAttempt), ts)
  /\ UNCHANGED <<now, control, foreground, cancelRequested, claimVars, outbox,
                 sideVars>>

\* Offers a lost flow again.
BrokenClaimable(f, ts) ==
  /\ InState(f, {"queued", "lost"})
  /\ ~Current(f).cancel
  /\ Cardinality(AttemptsOf(f)) < SpecOf[f].max_attempts

\* The WHERE clause of try_claim_next.
Claimable(f, ts) ==
  /\ InState(f, {"queued"})
  /\ ~Current(f).cancel
  /\ SpecOf[f].available <= ts
  /\ SpecOf[f].deadline # NoDeadline => SpecOf[f].deadline > ts
  /\ Cardinality(AttemptsOf(f)) < SpecOf[f].max_attempts

LeasesAvailable(f, ts) ==
  \A k \in KeysOf(f) : leases[k] # NoLease => leases[k].expires <= ts

HardDeadline(f, ts) ==
  IF SpecOf[f].deadline = NoDeadline
    THEN ts + SpecOf[f].timeout
    ELSE Lesser(ts + SpecOf[f].timeout, SpecOf[f].deadline)

LeaseExpiry(f, ts) == Lesser(ts + ClaimTTL, HardDeadline(f, ts))

Eligible(ts) ==
  {f \in Flows : Claimable(f, ts) /\ LeasesAvailable(f, ts) /\ LeaseExpiry(f, ts) > ts}

\* try_claim_next: the eligible flow that the priority vector (its rank) puts
\* first is claimed under the fresh nonce a, in one transaction.
TryClaimNext(i, a, ts) ==
  /\ now <= LastClaim
  /\ ForegroundHeld(i, ts)
  /\ control.mode = "running"
  /\ attempt[a] = NoAttempt
  /\ \E f \in Eligible(ts) :
       /\ \A g \in Eligible(ts) : SpecOf[f].rank <= SpecOf[g].rank
       /\ leases' = [k \in Keys |->
            IF k \in KeysOf(f)
              THEN [owner |-> a, renewed |-> ts, expires |-> LeaseExpiry(f, ts)]
              ELSE leases[k]]
       /\ attempt' = [attempt EXCEPT ![a] =
            [flow |-> f, deadline |-> HardDeadline(f, ts)]]
       /\ attemptState' = [attemptState EXCEPT ![a] = "created"]
       /\ promised' = [promised EXCEPT ![a] = LeaseExpiry(f, ts)]
       /\ AppendRevision(f, Revision("running", FALSE, a), ts)
  /\ UNCHANGED <<now, control, foreground, cancelRequested, outbox, sideVars>>

\* Accepts a stamp from before the newest renewal.
BrokenClaimHeld(a, ts) ==
  \A k \in KeysOf(attempt[a].flow) :
    leases[k] # NoLease /\ leases[k].owner = a /\ leases[k].expires > ts

\* _require_claim: every key is still the attempt's own, unexpired, and was
\* not renewed after this transaction read its clock.
ClaimHeld(a, ts) ==
  \A k \in KeysOf(attempt[a].flow) :
    /\ leases[k] # NoLease
    /\ leases[k].owner = a
    /\ leases[k].expires > ts
    /\ leases[k].renewed <= ts

\* The flow still runs this attempt.
IsActive(a) ==
  /\ attempt[a] # NoAttempt
  /\ InState(attempt[a].flow, {"running"})
  /\ Current(attempt[a].flow).active = a

BrokenPermitsWork(a) == IsActive(a)

\* ... and nobody asked for its cancellation.
PermitsWork(a) == IsActive(a) /\ ~Current(attempt[a].flow).cancel

\* mark_attempt_dispatching: the durable intent to start a worker.
MarkDispatching(a, ts) ==
  /\ PermitsWork(a)
  /\ ClaimHeld(a, ts)
  /\ attemptState[a] = "created"
  /\ attemptState' = [attemptState EXCEPT ![a] = "dispatching"]
  /\ UNCHANGED <<now, control, foreground, flowVars, attempt, leases, promised,
                 outbox, sideVars>>

RenewClaim(a, ts) ==
  /\ now <= LastClaim
  /\ PermitsWork(a)
  /\ ClaimHeld(a, ts)
  /\ LET expiry == Lesser(ts + ClaimTTL, attempt[a].deadline) IN
       /\ expiry > ts
       /\ leases' = [k \in Keys |->
            IF k \in KeysOf(attempt[a].flow)
              THEN [leases[k] EXCEPT !.renewed = ts, !.expires = expiry]
              ELSE leases[k]]
       /\ promised' = [promised EXCEPT ![a] = IF expiry > @ THEN expiry ELSE @]
  /\ UNCHANGED <<now, control, foreground, flowVars, attempt, attemptState,
                 outbox, sideVars>>

-----------------------------------------------------------------------------
\* Cancellation and completion.

\* A final flow only gets the request row.
CancelFinal(f) ==
  /\ InState(f, FinalStates)
  /\ UNCHANGED <<history, revisedAt, committedAt, outbox>>

\* A running flow keeps its attempt, which the holder may still complete.
CancelRunning(f, ts) ==
  /\ InState(f, {"running"})
  /\ AppendRevision(f, Revision("running", TRUE, Current(f).active), ts)
  /\ UNCHANGED outbox

\* Forgets the outbox.
BrokenCancelIdleOutbox(f, ts) ==
  /\ InState(f, FlowStates \ (FinalStates \cup {"running"}))
  /\ AppendRevision(f, Revision("cancelled", TRUE, NoAttempt), ts)
  /\ UNCHANGED outbox

\* Any other flow is cancelled on the spot, and the outbox says so.
CancelIdle(f, ts) ==
  /\ InState(f, FlowStates \ (FinalStates \cup {"running"}))
  /\ AppendRevision(f, Revision("cancelled", TRUE, NoAttempt), ts)
  /\ outbox' = Published(
       Intent(f, Len(history[f]) + 1, "cancelled", NoAttempt, NoOperation))

\* request_cancellation: a second request returns the current revision.
RequestCancellation(f, ts) ==
  /\ f \in Admitted \ cancelRequested
  /\ ts >= revisedAt[f]
  /\ cancelRequested' = cancelRequested \cup {f}
  /\ CancelFinal(f) \/ CancelRunning(f, ts) \/ CancelIdle(f, ts)
  /\ UNCHANGED <<now, control, foreground, claimVars, sideVars>>

\* The inputs that operation_digest covers besides the attempt; the outcome
\* stands for the outcome and its reason code.
Operation(expected, outcome) == [expected |-> expected, outcome |-> outcome]

Reply(a, revision, state) ==
  replies' = [replies EXCEPT ![a] = @ \cup {[revision |-> revision, state |-> state]}]

\* The revision that ends a run or a wait: cancellation carries over.
EndRevision(f, state) == Revision(state, Current(f).cancel, NoAttempt)

BrokenSelectedOutcome(f, outcome) == outcome

SelectedOutcome(f, outcome) == IF Current(f).cancel THEN "cancelled" ELSE outcome

\* complete_attempt whose expected revision is the current one.  The holder may die
\* before it reads the answer (answered = FALSE) and ask again.
CompleteAttempt(a, outcome, ts, answered) ==
  /\ IsActive(a)
  /\ KnowsCurrent(attempt[a].flow, ts)
  /\ ClaimHeld(a, ts)
  /\ LET f == attempt[a].flow
         n == Len(history[f])
         selected == SelectedOutcome(f, outcome)
     IN  /\ AppendRevision(f, EndRevision(f, selected), ts)
         /\ attemptState' = [attemptState EXCEPT ![a] = AttemptEnd(selected)]
         /\ outbox' = Published(
              Intent(f, n + 1, selected, a, Operation(n, outcome)))
         /\ IF answered THEN Reply(a, n + 1, selected) ELSE UNCHANGED replies
  /\ leases' = Released({a})
  /\ UNCHANGED <<now, control, foreground, cancelRequested, attempt, promised,
                 receipts, plan>>

BrokenReplayedState(i) == Current(i.flow).state

\* The historical revision a replay returns.
ReplayedState(i) == history[i.flow][i.revision].state

\* complete_attempt with a revision that is no longer current: the newest
\* intent of the attempt answers when it is of the very same operation.
ReplayCompletion(a, expected, outcome) ==
  /\ attempt[a] # NoAttempt
  /\ expected # Len(history[attempt[a].flow])
  /\ \E i \in outbox :
       /\ i.attempt = a
       /\ \A j \in outbox : j.attempt = a => j.revision <= i.revision
       /\ i.operation = Operation(expected, outcome)
       /\ Reply(a, i.revision, ReplayedState(i))
  /\ UNCHANGED <<now, control, foreground, flowVars, claimVars, outbox, receipts,
                 plan>>

ReceiptOf(i) == {r \in receipts : r.flow = i.flow /\ r.revision = i.revision}

\* acknowledge_completion that appends the delivery event and the receipt; a
\* replay by the same consumer returns the receipt, any other call raises.
AcknowledgeCompletion(i, c) ==
  /\ ReceiptOf(i) = {}
  /\ receipts' = receipts \cup
       {[flow |-> i.flow, revision |-> i.revision, consumer |-> c]}
  /\ UNCHANGED <<now, control, foreground, flowVars, claimVars, outbox, plan,
                 replies>>

-----------------------------------------------------------------------------
\* Audit and reconciliation.

Finding(kind, f, a, revision, action) ==
  [kind |-> kind, flow |-> f, attempt |-> a, revision |-> revision, action |-> action]

\* The audit's own view of a running flow whose claim no longer holds.
ClaimLapsed(a, ts) ==
  \E k \in KeysOf(attempt[a].flow) :
    \/ leases[k] = NoLease
    \/ leases[k].owner # a
    \/ leases[k].expires <= ts

RunningFlows == {f \in Flows : InState(f, {"running"})}

QueuedPastDeadline(ts) ==
  {Finding("queued_deadline_elapsed", f, NoAttempt, Len(history[f]),
           "mark_queued_timed_out") :
     f \in {g \in Flows : /\ InState(g, {"queued"})
                          /\ SpecOf[g].deadline # NoDeadline
                          /\ SpecOf[g].deadline <= ts}}

MissingAttempts ==
  {Finding("missing_active_attempt", f, Current(f).active, Len(history[f]), "none") :
     f \in {g \in RunningFlows : attempt[Current(g).active] = NoAttempt}}

LapsedFlows(ts) ==
  {f \in RunningFlows : /\ attempt[Current(f).active] # NoAttempt
                        /\ ClaimLapsed(Current(f).active, ts)}

\* Gives up dispatched attempts, too.
BrokenExpiredClaims(ts) ==
  {Finding("expired_pre_dispatch_claim", f, Current(f).active, Len(history[f]),
           "mark_lost_pre_dispatch") : f \in LapsedFlows(ts)}

\* Leaves cancelled claims to their holders.
BrokenExpiredUncancelled(ts) ==
  {Finding("expired_pre_dispatch_claim", f, Current(f).active, Len(history[f]),
           "mark_lost_pre_dispatch") :
     f \in {g \in LapsedFlows(ts) :
              ~Current(g).cancel /\ attemptState[Current(g).active] = "created"}}

\* Only an attempt that never recorded its dispatch intent may be given up.
ExpiredClaims(ts) ==
  {Finding("expired_pre_dispatch_claim", f, Current(f).active, Len(history[f]),
           IF Current(f).cancel THEN "finalize_cancelled_pre_dispatch"
                                ELSE "mark_lost_pre_dispatch") :
     f \in {g \in LapsedFlows(ts) : attemptState[Current(g).active] = "created"}}

AmbiguousAttempts(ts) ==
  {Finding("ambiguous_expired_attempt", f, Current(f).active, Len(history[f]), "none") :
     f \in {g \in LapsedFlows(ts) : attemptState[Current(g).active] # "created"}}

UnpublishedFlows ==
  {Finding("terminal_without_completion", f, Current(f).active, Len(history[f]),
           "repair_completion_outbox") :
     f \in {g \in Flows : /\ InState(g, FinalStates)
                          /\ \A i \in outbox :
                               ~(i.flow = g /\ i.revision = Len(history[g]))}}

OrphanLeases ==
  {Finding("orphan_attempt_leases", attempt[a].flow, a,
           Len(history[attempt[a].flow]), "release_orphan_attempt_leases") :
     a \in {b \in Attempts :
              /\ attempt[b] # NoAttempt
              /\ Current(attempt[b].flow).active # b
              /\ \E k \in KeysOf(attempt[b].flow) :
                   leases[k] # NoLease /\ leases[k].owner = b}}

UndeliveredCompletions ==
  {Finding("undelivered_completion", i.flow, i.attempt, i.revision, "none") :
     i \in {j \in outbox : ReceiptOf(j) = {}}}

\* _audit_connection.
Audit(ts) ==
  QueuedPastDeadline(ts) \cup MissingAttempts \cup ExpiredClaims(ts)
    \cup AmbiguousAttempts(ts) \cup UnpublishedFlows \cup OrphanLeases
    \cup UndeliveredCompletions

\* reconciliation_plan: read-only; the operator keeps the digest.
PreviewReconciliation(o, ts) ==
  /\ plan' = [plan EXCEPT ![o] = Audit(ts)]
  /\ UNCHANGED <<now, control, foreground, flowVars, claimVars, outbox, receipts,
                 replies>>

\* The flows and attempts that the findings of a plan name for an action.
Flagged(findings, action) == {x.flow : x \in {y \in findings : y.action = action}}

BrokenFlaggedAttempts(findings, action) == {}

FlaggedAttempts(findings, action) ==
  {x.attempt : x \in {y \in findings : y.action = action}}

EndingActions ==
  {"mark_queued_timed_out", "finalize_cancelled_pre_dispatch", "mark_lost_pre_dispatch"}

EndedFlows(findings) == UNION {Flagged(findings, action) : action \in EndingActions}

BrokenRepairedState(findings, f) ==
  IF f \in Flagged(findings, "mark_queued_timed_out") THEN "timed_out" ELSE "lost"

RepairedState(findings, f) ==
  IF f \in Flagged(findings, "mark_queued_timed_out") THEN "timed_out"
  ELSE IF f \in Flagged(findings, "finalize_cancelled_pre_dispatch") THEN "cancelled"
  ELSE "lost"

\* _completion_outbox_repair_attempt_id: the attempt the preceding revision ran.
RepairIntent(f) ==
  Intent(f, Len(history[f]), Current(f).state, history[f][Len(history[f]) - 1].active,
         NoOperation)

\* apply_reconciliation: audits again inside the transaction, refuses unless
\* the findings are exactly those previewed, then repairs all of them or none.
\* A plan names each flow's revision, so whoever presents it has read them.
ApplyReconciliation(o, ts) ==
  LET findings  == Audit(ts)
      cancelled == FlaggedAttempts(findings, "finalize_cancelled_pre_dispatch")
      lost      == FlaggedAttempts(findings, "mark_lost_pre_dispatch")
      orphaned  == FlaggedAttempts(findings, "release_orphan_attempt_leases")
      ended     == EndedFlows(findings)
  IN
  /\ plan[o] = findings
  /\ \A f \in ended : KnowsCurrent(f, ts)
  /\ history' = [f \in Flows |->
       IF f \in ended
         THEN Append(history[f], EndRevision(f, RepairedState(findings, f)))
         ELSE history[f]]
  /\ revisedAt' = [f \in Flows |-> IF f \in ended THEN ts ELSE revisedAt[f]]
  /\ committedAt' = [f \in Flows |-> IF f \in ended THEN now ELSE committedAt[f]]
  /\ attemptState' = [a \in Attempts |->
       IF a \in cancelled THEN "cancelled"
       ELSE IF a \in lost THEN "lost" ELSE attemptState[a]]
  /\ outbox' = outbox
       \cup {Intent(f, Len(history[f]) + 1, RepairedState(findings, f),
                    Current(f).active, NoOperation) : f \in ended}
       \cup {RepairIntent(f) : f \in Flagged(findings, "repair_completion_outbox")}
  /\ leases' = Released(cancelled \cup lost \cup orphaned)
  /\ UNCHANGED <<now, control, foreground, cancelRequested, attempt, promised,
                 sideVars>>

-----------------------------------------------------------------------------
AdvanceTime ==
  /\ now < MaxTime
  /\ now' = now + 1
  /\ UNCHANGED <<control, foreground, flowVars, claimVars, outbox, sideVars>>

Init ==
  /\ now = 0
  /\ control = [revision |-> 0, mode |-> "stopped"]
  /\ foreground = NoLease
  /\ history = [f \in Flows |-> <<>>]
  /\ revisedAt = [f \in Flows |-> 0]
  /\ committedAt = [f \in Flows |-> 0]
  /\ cancelRequested = {}
  /\ attempt = [a \in Attempts |-> NoAttempt]
  /\ attemptState = [a \in Attempts |-> "unclaimed"]
  /\ leases = [k \in Keys |-> NoLease]
  /\ outbox = {}
  /\ receipts = {}
  /\ plan = [o \in Operators |-> NoPlan]
  /\ promised = [a \in Attempts |-> 0]
  /\ replies = [a \in Attempts |-> {}]

\* Work on flows: enqueue, cancel, the holders of claims, the outbox.
FlowStep ==
  \/ \E f \in Flows, ts \in Stamps : AdmitFlow(f, ts)
  \/ \E f \in Flows, ts \in Stamps : RequestCancellation(f, ts)
  \/ \E a \in Attempts, ts \in Stamps : MarkDispatching(a, ts)
  \/ \E a \in Attempts, ts \in Stamps : RenewClaim(a, ts)
  \/ \E a \in Attempts, outcome \in Outcomes, ts \in Stamps, answered \in BOOLEAN :
       CompleteAttempt(a, outcome, ts, answered)
  \/ \E i \in outbox, c \in Consumers : AcknowledgeCompletion(i, c)
  \/ \E i \in outbox :
       /\ i.operation # NoOperation
       /\ ReplayCompletion(i.attempt, i.operation.expected, i.operation.outcome)

\* A controller in the process of instance i claims work.
ClaimStep(i) == \E a \in Attempts, ts \in Stamps : TryClaimNext(i, a, ts)

\* The operator's own commands: control and reconcile.
OperatorStep ==
  \/ \E expected \in 0..(MaxControl - 1), mode \in OperatorModes :
       UpdateControl(expected, mode)
  \/ \E o \in Operators, ts \in Stamps : PreviewReconciliation(o, ts)
  \/ \E o \in Operators, ts \in Stamps : ApplyReconciliation(o, ts)

\* What a foreground process does to the store, at any time and in any order; a
\* tick may stall without bound between its clock reading and its transactions.
ForegroundStep ==
  \/ \E i \in Instances, ts \in 0..now : AcquireForeground(i, ts)
  \/ \E i \in Instances, ts \in 0..now : RenewForeground(i, ts)
  \/ \E i \in Instances : ReleaseForeground(i)
  \/ \E expected \in 0..control.revision : UpdateControl(expected, "stopped")
  \/ \E i \in Instances : ClaimStep(i)

Next == FlowStep \/ OperatorStep \/ ForegroundStep \/ AdvanceTime

Spec == Init /\ [][Next]_vars

-----------------------------------------------------------------------------
(* Types. *)

Revisions ==
  [state : FlowStates, cancel : BOOLEAN, active : Attempts \cup {NoAttempt}]

LeaseRows == [owner : Attempts, renewed : Nat, expires : Nat]

Operations == [expected : Nat, outcome : Outcomes]

Intents ==
  [flow : Flows, revision : Nat, state : FlowStates,
   attempt : Attempts \cup {NoAttempt}, operation : Operations \cup {NoOperation}]

FindingKinds ==
  {"queued_deadline_elapsed", "missing_active_attempt", "expired_pre_dispatch_claim",
   "ambiguous_expired_attempt", "terminal_without_completion",
   "orphan_attempt_leases", "undelivered_completion"}

Findings ==
  [kind : FindingKinds, flow : Flows, attempt : Attempts \cup {NoAttempt},
   revision : Nat,
   action : EndingActions \cup {"repair_completion_outbox",
                                "release_orphan_attempt_leases", "none"}]

\* Every variable holds rows of its table.
TypeOK ==
  /\ now \in Nat
  /\ control \in [revision : Nat, mode : Modes]
  /\ foreground \in [owner : Instances, renewed : Nat, expires : Nat] \cup {NoLease}
  /\ history \in [Flows -> Seq(Revisions)]
  /\ revisedAt \in [Flows -> Nat]
  /\ committedAt \in [Flows -> Nat]
  /\ cancelRequested \in SUBSET Flows
  /\ attempt \in [Attempts -> [flow : Flows, deadline : Nat] \cup {NoAttempt}]
  /\ attemptState \in
       [Attempts -> {"unclaimed"} \cup LiveAttemptStates \cup EndedAttemptStates]
  /\ leases \in [Keys -> LeaseRows \cup {NoLease}]
  /\ outbox \in SUBSET Intents
  /\ receipts \in SUBSET [flow : Flows, revision : Nat, consumer : Consumers]
  /\ plan \in [Operators -> (SUBSET Findings) \cup {NoPlan}]
  /\ promised \in [Attempts -> Nat]
  /\ replies \in [Attempts -> SUBSET [revision : Nat, state : FlowStates]]

-----------------------------------------------------------------------------
(* Safety. *)

IsLive(a) == attemptState[a] \in LiveAttemptStates

\* A flow runs exactly when one live attempt is its active one, and every live
\* attempt is the active attempt of its flow: no transaction (claim, cancel,
\* complete, reconcile) ever leaves a worker's attempt without its flow.
ActiveAttemptAgreement ==
  /\ \A f \in RunningFlows : IsLive(Current(f).active)
                              /\ attempt[Current(f).active] # NoAttempt
                              /\ attempt[Current(f).active].flow = f
  /\ \A a \in Attempts : IsLive(a) => IsActive(a)

\* A lease row of a claim belongs to a live attempt, covers a key of its flow
\* and ends by the attempt's fixed deadline: whatever ends an attempt also
\* drops its rows, and no renewal outlives the deadline.
NoOrphanLease ==
  \A k \in Keys : leases[k] # NoLease =>
    /\ IsLive(leases[k].owner)
    /\ k \in KeysOf(attempt[leases[k].owner].flow)
    /\ leases[k].expires <= attempt[leases[k].owner].deadline

\* What a claim holder was told is kept: until the latest expiry it was ever
\* granted, a live attempt owns every key of its flow, whatever stale stamps
\* the transactions of others (or of its own threads) carry.
GrantedClaimKept ==
  \A a \in Attempts : IsLive(a) /\ promised[a] > now =>
    \A k \in KeysOf(attempt[a].flow) : leases[k] # NoLease /\ leases[k].owner = a

\* Two live attempts never both hold an unexpired grant that shares a resource.
ResourceExclusion ==
  \A a, b \in Attempts :
    /\ a # b
    /\ IsLive(a) /\ promised[a] > now
    /\ IsLive(b) /\ promised[b] > now
    => KeysOf(attempt[a].flow) \cap KeysOf(attempt[b].flow) = {}

\* A flow that was cancelled before it ended can only still be running or be
\* cancelled; a request that found the flow ended leaves its revision alone.
CancellationWins ==
  \A f \in cancelRequested :
    InState(f, {"running", "cancelled"}) \/ (InState(f, FinalStates) /\ ~Current(f).cancel)

\* The intent that a revision of flow f owes to the outbox.
Owes(f, r) == history[f][r].state \notin {"queued", "running"}

\* The outbox is the history: each revision that takes a flow out of the queue
\* or out of a run has exactly one intent, with that revision's state and the
\* attempt the previous revision ran; there is no other intent.
OutboxIsHistory ==
  /\ \A f \in Flows : \A r \in 1..Len(history[f]) :
       Owes(f, r) => \E i \in outbox : i.flow = f /\ i.revision = r
  /\ \A i \in outbox :
       /\ i.revision \in 2..Len(history[i.flow])
       /\ Owes(i.flow, i.revision)
       /\ i.state = history[i.flow][i.revision].state
       /\ i.attempt = history[i.flow][i.revision - 1].active
  /\ \A i, j \in outbox : i.flow = j.flow /\ i.revision = j.revision => i = j

\* A consumer never sees two endings of a flow, nor one that is later revised.
OneFinalCompletion ==
  \A i, j \in outbox :
    i.flow = j.flow /\ i.state \in FinalStates => j.revision <= i.revision

\* However often a holder repeats complete_attempt after losing the answer, and
\* whatever happens to the flow in between, it reads one and the same outcome.
ReplayAgrees ==
  \A a \in Attempts : \A x, y \in replies[a] : x = y

\* One consumer's receipt settles an intent for good, and only an intent the
\* outbox holds can be settled.
OneReceiptPerCompletion ==
  /\ \A r \in receipts : \E i \in outbox : i.flow = r.flow /\ i.revision = r.revision
  /\ \A r, q \in receipts : r.flow = q.flow /\ r.revision = q.revision => r = q

\* The audit of a store that only its own transactions wrote finds what time
\* and absent consumers explain, never a broken row: the repairs for missing
\* attempts, missing intents and orphan leases are for damage from outside.
AuditFindsOnlyLapses ==
  MissingAttempts \cup UnpublishedFlows \cup OrphanLeases = {}

\* What one transaction writes in several tables never drifts apart.
TablesAgree ==
  OutboxIsHistory /\ OneFinalCompletion /\ OneReceiptPerCompletion /\ AuditFindsOnlyLapses

-----------------------------------------------------------------------------
(* Action properties. *)

\* The triggers of _SCHEMA_V2 as a relation between the head of a flow's
\* history and the row that follows it.
AllowedRevision(old, new) ==
  /\ old.cancel => new.cancel
  /\ (new.state = "running") <=> (new.active # NoAttempt)
  /\ \/ old.state = "queued" /\ new.state \in {"running", "timed_out", "cancelled"}
     \/ old.state = "running" /\ new.state \in FlowStates \ {"queued", "running"}
     \/ /\ old.state = "running" /\ new.state = "running"
        /\ ~old.cancel /\ new.cancel /\ new.active = old.active
     \/ /\ old.state \in {"waiting", "blocked", "lost"}
        /\ new.state \in {"queued", "cancelled"}

\* The transactions' own guards are enough: a flow's history only grows, by
\* one row at a time, and that row would never trip a trigger.
TriggersNeverTrip ==
  [][\A f \in Flows : history'[f] # history[f] /\ history[f] # <<>> =>
       /\ \E new \in Revisions : history'[f] = Append(history[f], new)
       /\ AllowedRevision(history[f][Len(history[f])], history'[f][Len(history'[f])])]_vars

StartsOnlyUncancelled ==
  \A a \in Attempts :
    /\ attempt'[a] # NoAttempt
    /\ attempt'[a].flow \in cancelRequested
    /\ attemptState'[a] # attemptState[a]
    => attemptState'[a] \in EndedAttemptStates

\* Once cancellation is requested, no attempt of the flow starts or reaches its
\* dispatch intent.
NoStartAfterCancel == [][StartsOnlyUncancelled]_vars

\* Only reconciliation ends an attempt without its holder's operation.
EndedByReconciliation(a) ==
  \E i \in outbox' \ outbox : i.attempt = a /\ i.operation = NoOperation

\* Reconciliation never gives up a claim that its holder may still rely on,
\* and never one that recorded its dispatch intent: a worker may have run, so
\* the outcome is unknown and stays so.
ReconcilesOnlyDeadClaims ==
  [][\A a \in Attempts : EndedByReconciliation(a) =>
       attemptState[a] = "created" /\ promised[a] <= now]_vars

ClaimsUnclaimed ==
  \A a \in Attempts : attempt[a] = NoAttempt /\ attempt'[a] # NoAttempt =>
    AttemptsOf(attempt'[a].flow) = {}

\* A flow that left the queue is never claimed again: a lost attempt, or one
\* whose outcome is unknown, is not retried behind the operator's back.
NeverClaimedTwice == [][ClaimsUnclaimed]_vars

\* No ending is stamped before the revision it ends, although every stamp is
\* read before its transaction waits for the lock: naming the current revision
\* is what orders them.  The audit's completion evidence requires this order.
EndingsFollowTheirSource ==
  [][\A i \in outbox' \ outbox : revisedAt'[i.flow] >= revisedAt[i.flow]]_vars

\* What a flow's history says happened can have happened, in that order.
HistoryIsLawful == TriggersNeverTrip /\ EndingsFollowTheirSource

-----------------------------------------------------------------------------
(* The contract of each flow. *)

PhaseOf(f) == IF f \in Admitted THEN Current(f).state ELSE "absent"

PublishedStates(f) == {i.state : i \in {j \in outbox : j.flow = f}}

DeliveredStates(f) ==
  {i.state : i \in {j \in outbox : j.flow = f /\ ReceiptOf(j) # {}}}

Contract(f) == INSTANCE FlowContract WITH
  phase     <- PhaseOf(f),
  cancelled <- f \in Admitted /\ Current(f).cancel,
  published <- PublishedStates(f),
  delivered <- DeliveredStates(f)

\* The store keeps the contract of every flow: revisions, claims, leases,
\* stale stamps, replays and repairs are all it takes to run the work at most
\* once and to publish each outcome exactly when the history reaches it.
\* (\A f \in Flows : Contract(f)!ContractSpec, with the quantifier moved inside.)
KeepsContract ==
  /\ \A f \in Flows : Contract(f)!ContractInit
  /\ [][\A f \in Flows :
          [Contract(f)!ContractNext]_(Contract(f)!contractVars)]_vars
=============================================================================
