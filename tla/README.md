# TLA+ models of Ordomata

Ordomata (`src/`) is a local control plane: one operator's machine runs neutral
tasks through subscription coding harnesses, and deterministic controller code
owns state, scheduling, permissions and billing safety. All durable state is
SQLite, which every process on the machine may open at any time, next to a few
files and the process groups of the harnesses. This directory holds TLA+ models
of the controller, the instances that TLC checks, and theorems about them that
TLAPS checks.

    tlc -config claims.cfg MCSupervisor       # likewise for the other runs below
    tlapm SupervisorProofs.tla

## 1. The system

| Component (source under `src/src/ordomata/`) | State | Operations | What is hard | What makes it correct | Modelled by |
|---|---|---|---|---|---|
| Supervisor store (`supervisor.py`) | control events, flows, attempts, leases, completion outbox, receipts, cancellation requests | admit, claim, mark dispatching, renew, cancel, complete, acknowledge, reconcile, control | interleaved transactions whose clock is read before they wait for the lock; lost answers; lapsed claims; stale plans | work runs at most once; cancellation wins; leases keep their promise; outbox equals history; repairs touch only dead claims | `Supervisor` |
| Supervisor evidence (`supervisor.py`, `supervisor_*_authorization.py`) | decisions, receipts and shadows beside the work | written by each transaction; inspected read-only | shadows that fail silently; stamps that trail commits; repairs; rows edited away | honest work inspects clean but for the shadows it lost; damage stays visible | `SupervisorEvidence`, `SupervisorAudit` |
| Foreground loop (`ForegroundSupervisor`, `cli.py`) | the foreground lease, a tick's clock reading and control revision | start, tick, close | a tick is five transactions on one clock reading; two processes; crash with the lease held | nothing runs in a stopped supervisor; one holder; a drain completes | `ForegroundSupervisor` |
| Billing dispatch guard (`state.py`, `runners/_harness.py`, `orchestrator.py`) | reservation leases, breakers, capacity rows | reserve, complete, interrupt, record the outcome, close a breaker | expiry while the owner still runs; completion that fails or commits and raises; late recording; crash | no live run follows one of unknown billing outcome; stale capacity evidence never unlocks | `BillingDispatch` |
| Schedule claims (`scheduler.py`, `state.py`) | slot claims, leases | inspect, claim, release | slot and misfire boundaries; clocks read before looking, looking before claiming | a slot is claimed once, ever; live claims are disjoint | `ScheduleClaims` |
| Process containment (`runners/containment.py`, `runners/_harness.py`) | a process group, one shared cleanup | launch, wait, terminate, reap, cancel | TERM/KILL races; interrupted waits; several cancellers | "cleaned up" is said only when the group is gone; every wait ends | `HarnessProcess` |
| Run ledger (`state.py`) | runs, events | create, append, append once, snapshot | two writers of one run | status follows its table; one terminal status | `RunLedger` |
| Run orchestration (`orchestrator.py`) | one run's rows | select, bind, admit, dispatch, observe, account, publish, finish | every row may be lost, every effect may fail after the one before it | no effect without its evidence; the ledger tells what happened | `TaskRun` |
| Comparison runs (`comparison.py`) | one run, one billing record and one artifact per trial | bind, invoke, price, account, publish, end, stop | every row, record and effect of a trial may fail, in the trial or in the handler of its failure | no trial follows one that may have cost something; the report is what is on record | `ComparisonRun` |
| Billing policy (`billing.py`, `orchestrator.py`) | none | allow a route; assess and reconcile what a run cost | evidence that expires, is missing, or contradicts the adapter | trust is earned; distrust stops what comes after | `BillingPolicy` |
| Candidate publication (`orchestrator.py`, `artifact_filesystem.py`) | a directory, receipts | stage, promote, record, undo | failure between file and record; others in the directory; loss of power | no file that the ledger denies | `CandidatePublication` |
| Run inspection (`authorization_inspection.py`) | none (read-only) | inspect | rules written apart from the writers | honest runs are clean; a clean report is evidence | `RunAudit`, `ComparisonAudit`, parts of `CandidatePublication` |
| Repository proposals (`repository_proposal*.py`) | one run's lineage; copied database files | bind, inspect, shadow, verify | rivals, retries, lying appends; files that change while they are copied | one lineage; evidence only for what is on record; a report is one moment | `ProposalBinding`, `ProposalInspection` |
| Executable evidence chain (`repository_executable_*.py`) | unlinked files, descriptors | stage, hand over, verify, clean up; resolve, inspect and stage what an executable names | interruptions between any two system calls; others in the directory; files, paths and leases that change while they are looked at | sealed bytes; verified cleanup is clean; a receipt is one moment, and nothing that is staged is read again | `StageLease`, `ExecutableChain`, `ExecutableInspections` |
| Everything else (section 6) | | | | | |

The processes of the system share one database. `ordomata supervisor
start|pause|drain|stop`, `enqueue`, `cancel` and `reconcile` are short-lived; a
controller in the foreground process claims work and holds attempts; a scheduler
pass is a process of its own; `run` and `compare` execute tasks. A task run uses
the ledger for everything it is about to do and has done, the billing guard
around a live harness, containment inside it, and publication at its end; the
inspections read what these leave behind.

## 2. Modules

| Modules | Extends / uses | Instance | Proofs |
|---|---|---|---|
| `Supervisor` | `FlowContract` (refined) | `MCSupervisor` | `SupervisorProofs` |
| `SupervisorEvidence`, `SupervisorAudit` | extend `Supervisor` | `MCSupervisor` | |
| `ForegroundSupervisor` | extends `Supervisor` | `MCForegroundSupervisor` | `SupervisorProofs` |
| `BillingDispatch` | | `MCBillingDispatch` | `BillingDispatchProofs` |
| `ScheduleClaims` | | `MCScheduleClaims` | `ScheduleClaimsProofs` |
| `HarnessProcess` | | `MCHarnessProcess` | `HarnessProcessProofs` |
| `CandidatePublication` | `PublicationContract` (refined) | `MCCandidatePublication` | `PublicationProofs` |
| `RunLedger` | | used by the next two | |
| `ProposalBinding`, `ProposalInspection` | `RunLedger`, `ProposalContract` (refined) | `MCProposalInspection` | `ProposalProofs` |
| `RunAudit`, `TaskRun` | `RunLedger` | `MCTaskRun` | `RunProofs` |
| `ComparisonAudit`, `ComparisonRun` | `TaskRun`, `BillingPolicy` | `MCTaskRun` | `RunProofs` |
| `BillingPolicy` (operators) | | used by `ComparisonRun` | `RunProofs` |
| `StageLease` | | `MCStageLease` | `ExecutableProofs` |
| `ExecutableChain`, `ExecutableInspections` (its table of calls) | | `MCStageLease` | `ExecutableProofs` |

## 3. The models

In all of them one SQLite transaction (`BEGIN IMMEDIATE ... COMMIT`) is one
action: its reads, its conditions and its writes. What the code does outside a
transaction, or in several, is several actions; a system call is an action
together with the reads around it. A call that raises without writing is no
step, unless the caller goes on from there. Where a call may fail, be
interrupted, or take effect and raise all the same, the action offers all of
these, and a counter in `faults` bounds how often.

### 3.1 Supervisor

| Code | Model |
|---|---|
| `supervisor_control_events` (head) | `control` |
| the `supervisor:foreground` row of `leases` | `foreground` |
| `supervisor_flow_revisions`, `supervisor_cancellation_requests` | `history` (a sequence per flow), `revisedAt`, `cancelRequested` |
| `supervisor_attempts`, `supervisor_attempt_events` (head) | `attempt`, `attemptState` |
| the rows of `leases` that claims hold | `leases`, by key (a resource, or the flow itself) |
| `supervisor_completion_outbox`, `supervisor_completion_receipts` | `outbox`, `receipts` |
| a plan an operator previewed and has not applied | `plan` |
| clock | `now`; `Stamps` are the readings a transaction may carry |

`promised` and `replies` are history variables: the latest expiry a holder was
ever granted, and the answers it read. `committedAt`, when a revision committed,
bounds who may name it: a caller that passes the current revision number has read
it, so its call began, and its stamp was read, after that commit.

*Clocks.* Each method reads the clock first and waits for the write lock then
(`SQLiteSupervisorStore._now` before `_transaction`). So an action takes a stamp
from `Stamps`, at most `MaxLag` behind `now`, and uses it for every comparison
and every row. That is the hazard behind the lease properties: a renewal with an
old stamp commits after a newer one, a claim looks at a row with an old time.

*Abstractions.* A resource, flow, attempt or operator is a model value. `rank` in
a flow's specification stands for the ORDER BY of the candidates. The audit's
findings are a set, and equality of plan digests is equality of these sets. An
`outcome` stands for the outcome and its reason code. The decision and receipt
rows of the built-in policies are written in the same transactions and always
permit, and shadow observations are written best-effort after the fact: neither
changes the work, so they are left to `SupervisorEvidence`. `reconciliation_plan` audits without a transaction;
a torn preview gives a digest that `apply_reconciliation` refuses, so preview is
atomic here. The transitions of the code's tables that no method takes (an attempt
`running`, a flow requeued) stay in `AllowedRevision`, which is the schema's
trigger, and have no action.

`FlowContract` is what the store promises of one flow: it is admitted once, runs
at most once, ends in one of the endings or parks, and publishes each outcome when
it reaches it. Its seven actions have no clock, no lease and no attempt.
`KeepsContract` maps `history`, `outbox` and `receipts` onto it.

*SupervisorEvidence* adds to each action the rows that its transaction leaves
besides the work: decisions and receipts, which it must write (`Appends`, `owed`), and
shadows, which it tries (`tried`) and may fail to write (`lapsed`, a history
variable). It also keeps what the inspection reads and `Supervisor` has no use for:
`controls`, `stamps`, `events`, `requested`, and `published` with the identifier of
each insertion into the outbox. A row is `[table, of, at, n, state]`: what it is
about, the time it names, the revision it binds and the state reached; digests are
these fields. `LoseEvidence`, `LoseReceipt` and `LoseIntent` remove a row behind the
store's back; the rows that the store works from stay.

*SupervisorAudit* is the read-only inspection, one operator for each of its parts,
from `FlowShadowFaults` to `CancellationFaults`, and one for each rule of lineage
that they share (`FlowLineage`, `ClaimLineage`, `IntentLineage`, `EndsAttempt`). The
inspection reads one snapshot, so it is a function of the state. It derives from
the rows of the work what evidence there must be and what it must say, without
knowing which transactions wrote it. Tables are sets: where the code compares
orders, and reports an order mismatch besides the row that is missing, only the row
is reported here.

### 3.2 ForegroundSupervisor

`ForegroundSupervisor.tick` reads its clock once, then runs up to five
transactions: `BeginTick`, `TickRenew`, `TickAcquire`, `TickRead`, `TickCount`,
`TickStop` with the process's place, stamp and control revision in `loop`.
Between any two of them anybody may commit (`OthersStep`), the process may stall
or die (`Crash`). `Close` is the `finally` clause. Claims and renewals of claims
are made by controllers that live in a process that is up.

### 3.3 BillingDispatch

| Code | Model |
|---|---|
| the route a run was verified for | `route`, chosen from `Routings` at the start |
| `billing_circuit_events`, newest per scope | `open`, the scopes whose newest event is `open` |
| `billing_capacity_events`, newest per scope | `capacity`: the time of a blocking one, else `Clean` |
| the two `billing-dispatch:v1:` leases | `leases` |
| one call of `_execute_with_bound_environment`, then the orchestrator's rows | `run[r]`: where it stands, its evidence, its reservation's expiry, its outcome |
| the contained process | `worker` |

`pardons` and `exhausted` are history: the breakers the operator closed and for
which runs, and the newest limit of an account that no newer evidence disproved.

Here the clock is read inside the transaction, so `now` is used. What makes it
hard lies between transactions. A controller may stall past the expiry of
its reservation, may crash and leave its worker alive, may find its completion
call failed, or failed after the commit (`CompleteRaises`), and tries once more
(`CompleteLast`). The orchestrator writes its rows later still, one transaction
per row, when the reservation is free and another run may be on its way.

An outcome is one of five: what `BillingPolicy.assess_post_run` and the two
reconciling functions can tell apart. `Assess` observes its evidence at `now`;
since any time may pass before `Reserve`, that covers older evidence. An
available capacity row is never compared with anything, so its time is dropped.
`BaseException` in the completion is a `Crash`. A changed account or a result
that contradicts its assessment is `Distrust`. `WorkerExits` stands for the
worker's own exit and for containment, which `HarnessProcess` has in full. The
runs have one harness adapter: no row of one adapter is read for another. Left
out: `reset_at`, which no caller in `src/` sets on a reservation or a completion;
`assert_closed`, a read-only preview. Closing breakers is open to the store's API
only, so `CloseBreaker` is the operator using it.

### 3.4 ScheduleClaims

`run_once` reads its clock (`BeginPass`), looks at the store (`Inspect`), and claims in a
transaction of its own (`TryClaim`, `RefuseClaim`), which re-checks the slot and the
leases; on a refusal it looks again to say why (`Explain`). Slots are floor divisions from the anchor, a
misfire is a slot entered later than its grace. `claims` is the claim table,
`leases` the lease rows of schedules and resources, `released` the holders that
called release, `TryAcquireLease` and `ReleaseLease` a process that leases a resource by itself. Passes may
be slower than a slot, and executions may outlive their slot.

### 3.5 HarnessProcess

One event loop and one process group. `leader` and `kids` are the group, which
forks, exits and is reaped between any two system calls; `told` is
`process.returncode`; `cleanup` is the one
`terminate_contained_process` that the execute task (`owner`) and the callers of
cancel (`caller`) share; its waits are between `wait_*` places. Tasks interleave at
awaits only: an action of the loop runs while `LoopIsFree`. The presence and
identity probes may also refuse to answer. The streams of the child are a failure
or an end.

### 3.6 CandidatePublication

`_publish_candidate_artifact` over `artifact_filesystem.py`: `disk` is the held
directory as programs see it, with two names (staged and final), links elsewhere,
and whether another file has been put in place; `stable` is what of it a loss of
power leaves. One step is one ledger append with its readback, or one system call.
Each may fail or be interrupted before or after its effect, other programs may
change the directory, and power may fail. `ctl` carries the exception in flight
through the handlers that the code has at each place. `Issues` are the
inspection's rules about this evidence.

`PublicationContract` has three variables: the intent is on record, a name leads
to the file, and the verdict of the receipt. A file appears only after the intent
and never under a verdict that denies it. `KeepsContract` maps `Exists`, which
looks at the directory, its stable half and links elsewhere, onto `linked`.

### 3.7 RunLedger, ProposalBinding, ProposalInspection

`RunLedger` is what one transaction of the store accepts: `Appends` (the status
must follow) and `AppendsOnce` (fenced on a status, on the exact history the writer
has read and on the type being new). `ProposalBinding` is
`bind_repository_proposal_attempt` run by several processes on one run: snapshot,
append, read back, settle, with appends that fail, commit and raise, or are
interrupted, callers that retry with other arguments, and foreign writers. It
implements `ProposalContract`, a write-once register that tells nobody anything
but its value. `ProposalInspection` composes it with the files under the store
(`main` and `wal` hold prefixes of the ledger), the inspector that copies and
judges them step by step, the shadow built on its report and the shadow's
verifier. Signatures of files are compared one by one, as the code does.

### 3.8 RunAudit, TaskRun

`TaskRun` is one run from its creation to its terminal event, as the rows it puts
on record before, around and after the one call of its runner. Its four `Modes`
are the ways to ask for a run: a mock under an explicit profile passes three
policy points (`enforcing`), a live run under a profile is `selected`, others are
plain. `Requires` is a row that must be on record before anything follows;
`Observes` is a best-effort one; `Decides` is a policy point. The publication is
one step with the outcomes that `CandidatePublication` arrives at.

`RunAudit` is what `inspect_authorization_shadows` concludes from such a history
alone: the order of rows, the presence of one given another, the stops it knows, and the
agreement of receipts, accounting and terminal event. It is a module of pure operators, so
the same rules are applied to what `TaskRun` leaves and to altered copies of it.

### 3.9 StageLease

A lease on executables whose bytes were measured: files that lose their name
before the first byte is written, then a set of read-only descriptors. `fds` says
what each descriptor the lease ever opened is now (a close that failed leaves it
in `limbo`; a number that others closed may be `reused`), `names`, `links`,
`stray` and `moved` are what other processes do to the staging root, `frame` the
descriptors that only the interrupted function owns. Every system call may fail
and the call may be interrupted between any two. What cannot be shown to be undone is
reported as unverifiable and may be tried again (`CleanUp`).

### 3.10 BillingPolicy, ComparisonAudit, ComparisonRun

`BillingPolicy` is two decisions as operators. `RouteAllowed` is the allowlist: a
route of known billing whose evidence and attestation are current now and until
the time the run may last (`required_valid_until`). `Resolve` is
`_resolve_billing_disposition`, which takes the assessments before and after a
run, what its events say and what its adapter claims, and returns what the run is
said to have cost: the computed outcome (`Computed`, which is `assess_post_run`)
combined with the claim, item by item, or an unknown outcome where they cannot
both be true. Signals are a set where the code searches the text of events, and an
attestation agrees with its assessment or does not.

`ComparisonRun` is `run_controlled_comparison`: trials one after the other, each
a run with its own rows. It extends `TaskRun`, whose writing operators and
variables it uses, with `trials` (history: what became of the earlier ones) and
`book` (what billing rows the current one has appended). A trial has three ends:
`CompleteTrial`, the handler of its errors (`AccountFailure`, `PriceFailure`,
`FailTrial`) and the handler of its interruption (`AccountInterruption`,
`PriceInterruption`, `InterruptTrial`); each of the handlers' own calls may fail,
too. What a trial costs is any value that `Resolve` returns for the inputs of the
instance, with the truth beside it (`harmless`), so that a property can say that
nothing follows a trial that *did* cost something. Trials of the model are live
or mock in any order. Scores and the evaluation of outputs are left out, but that
they may refuse an output (`EvaluateReview`). `ComparisonAudit` holds the
inspection's rules for such a run.

### 3.11 ExecutableChain, ExecutableInspections

The files `repository_executable_*.py` are some thirty inspections and stagings
in three links: the executables of the verification commands, the interpreters,
loaders and libraries that those name, and what these name in turn. Each takes the
same kinds of looks in an order of its own: at a lease (its fields, its
descriptors, an earlier inspection redone), at a file by its path (walk, pin, read,
open the name again, walk again), at the registration and its directories, and at
what it found before. `ExecutableInspections` gives each as a sequence, put together
from the sequences of the functions it calls, as the code does. `ExecutableChain`
runs one of them: an action per kind of look, and, before any look, other
processes that rewrite a file, lead a path elsewhere or to a file that the chain
staged, or change the registration, and other code of the process that ends a lease
or closes a descriptor of one. The first look that fails refuses the call.

A file is its identity, the place a walk found it in, and a version: every write,
link or rename changes its metadata, the change time at least. Directories are
compared by identity, mode and owner, so that an ancestor may be led away and back
unnoticed. What an earlier receipt says of a file is `Original`, since the call begins
before anybody changed it. `WellOrdered` says what a sequence must look at, and
when, for its receipt to be true; it is an assumption of the module, which TLC
evaluates on every sequence of the table.

## 4. The runs

| Run | Instance | Question |
|---|---|---|
| `claims` | 2 flows, 2 attempts, 1 resource, lag 1, time 4 | do leases keep what they promise? |
| `lifecycle` | 1 flow, 2 attempts, 2 consumers, all outcomes, lag 2, time 5; or with evidence: 1 attempt, 2 outcomes, lag 1, times 2 to 4, 1 shadow that fails, 1 row that disappears | do history, attempts, outbox and receipts agree, whatever happens in whatever order, and does the inspection tell honest work from damage? |
| `foreground` | 2 processes, 1 flow, 5 control commands, time 2 | does "stopped" mean that nothing runs? |
| `recovery` | 1 process, a diligent operator, fair | what can still hold a drain up? |
| `billing` | 2 runs in every overlap of account and profile, or 3 of one account | does any run follow one it must not follow? |
| `late_capacity` | 2 runs of one account and profile | may a blocking row give way to an older observation? (yes) |
| `schedule` | 2 schedules, 2 processes, 1 resource, 2 claims, time 6 | is a slot claimed once, by a clock that may be past? |
| `harness` | 1 child, 2 descendants, 2 cancellers, fair | what does a result prove of the processes, and does every wait end? |
| `publication` | 3 faults, 3 changes by others, a loss of power | what does the ledger say of the file? |
| `proposals` | 2 binders, 2 wishes, 2 faults, 1 retry, 1 foreign event; or 1 binder and 1 inspection | is there one lineage, and does the inspector see it? |
| `staging` | 2 executables, 3 faults, 3 changes by others, 2 cleanups; or every call of the chain with 2 files, 2 changes by others | does a verified cleanup mean that nothing is left? was what a receipt says ever true, and was nothing protected read? |
| `task_run` | 4 kinds of run with 3 faults, or 2 trials with 2; 2 observations; 13 postflights, 5 signals, 770 claims | do ledger, books and directory tell what happened, and does the inspection read them rightly? |

*Properties.* Each is stated in words where it is defined. Several are
conjunctions of named parts that one run checks together:

- `claims`: `ActiveAttemptAgreement`, `GrantedClaimKept`, `ReconcilesOnlyDeadClaims`,
  `NeverClaimedTwice`.
- `lifecycle`: `CancellationWins`; `RecordsAgree` (`ReplayAgrees` and, until a row
  disappears, `TablesAgree`, which is `OutboxIsHistory`, `OneFinalCompletion`,
  `OneReceiptPerCompletion`, `AuditFindsOnlyLapses`); `EvidenceIsExact`
  (with `DamageIsNoticed`); `NoStartAfterCancel`; `HistoryIsLawful`
  (`TriggersNeverTrip`, `EndingsFollowTheirSource`); `KeepsContractUntilDamage`,
  which is `KeepsContract` up to the first row that disappears.
- `foreground`: `StoppedMeansDrained`, `OneForeground`. `recovery`: `DrainRecovers`.
- `billing`: `OneWorkerPerScope`, `NoDispatchPastUnknown`, `NoDispatchAfterLimit`,
  `NoFalseAlarm`.
- `schedule`: `OneClaimPerSlot`, `ClaimsCurrentSlot`, `LiveClaimKeepsKeys`,
  `OvertakenOnlyAfterRelease`.
- `harness`: `ReportedGoneIsGone` (a verified cleanup, a known result and a cancel
  that joined one are proofs that the group is gone; one escalation),
  `InterruptionIsDeferred`, `EveryWaitEnds`.
- `publication`: `LedgerTellsTheEffect` (intent first, denied means gone, one
  verdict, the end fits it, success is durable), `InspectionIsRight`,
  `KeepsContract`.
- `proposals`: `CallersConverge`, `ReportsAreTrue`,
  `KeepsContract`.
- `staging`: `SealedWhileActive`; `CleanupVerdictIsRight` (`ReportedCleanIsClean`,
  `UndisturbedIsClean`, `RetryCanSucceed`); `OthersAreLeftAlone`; `MeasuredTogether`;
  `RestsOnLiveLeases`; `NothingProtectedIsRead`.
- `task_run`: `RunnersHaveTheirEvidence`; `OutcomesAreOnRecord` (of a comparison:
  `NothingFollowsCost`, `UnpricedIsQuarantined`, `OrphanIsQuarantined`,
  `ReportMatches`); `InspectionsCanBeReliedOn`,
  whose parts `TamperEvident` and `TrialTamperEvident` remove and swap rows of
  accepted histories; and `BillingIsConservative`, which asks of every state in
  which a trial has been given its billing outcome whether the resolution is
  conservative for all inputs of the instance (`BillingErrsSafely`: `EvidenceLasts`, `TrustIsEarned`, `DistrustStops`,
  `PaymentIsKept`).

*What `lifecycle` shows of the evidence.* As long as nobody edits the database, the
inspection reports a missing shadow for every shadow that could not be written and
nothing else (`EvidenceIsExact`). One is bound to be missing without any failure: a
completion whose clock was read before its dispatch intent's is committed, and its
shadow refused. A decision, receipt, shadow, delivery or delivery receipt that
disappears, or an undelivered outbox row, is noticed and stays noticed after repairs and
deliveries (`DamageIsNoticed`), but for two cases. An outbox row whose
shadow had not been written leaves no trace in the evidence when it goes. And the
repair of a cancellation on the spot that carries the request's own stamp is the row
that was lost.

*What `recovery` shows.* A drain is not certain to end. It waits for a
claim that lapsed until somebody reconciles, and, if the claim had recorded its
dispatch intent, no reconciliation exists that ends it: the supervisor then
drains for good. That is the code's choice (`ambiguous_expired_attempt` has no
action), and the property says exactly that nothing else can hold a drain up.

*What `staging` shows of the chain.* Two measurements that agree, with the second
made after the whole first, pin down a moment at which all files were as the
receipt says. The plain resolution of the commands measures each file once and
promises less: each was as it says at a moment of its own (`apart`). A lease may end
between the last look at its descriptors and the receipt: a receipt is evidence of
the time when the last file was read. The inspections that read no file, such as the
requirements of staged targets, close with an anchor on the descriptors of a
lease; so whether a lease is whole is noted (`alive`) wherever a call relies on it
(`Relies`): where it reads, where it looks at descriptors, and where it
goes by the fields of a lease that it anchors at its end (`anchored`).

*What `late_capacity` shows.* `docs/architecture.md` says that a blocking capacity
observation "can be superseded only by a strictly newer verified `available`
observation". The orchestrator appends a run's capacity row after the harness
released the reservation, with no look at what is there. In the run's
counterexample a first run completes; a second one of the same account and
profile reserves, reaches the limit and completes; then the first run's row
arrives and says "available". The dispatch is still stopped, because the
completion blocked the whole account too and the late row only speaks for the
account under its profile: `NoDispatchAfterLimit` holds in `billing`. It
would not if the first run had no profile, since its late row is then the account's,
and nor had the one that it misleads: three runs that the instance of `billing`
does not have, where one run at most is without. The command line always names a
profile, and section 5 proves the property for runs that have one.

*What else the models show of the code.* These are narrower than a property and have
no run; the properties are worded to leave exactly them out.

- `HarnessProcess`: a cancel that arrives in the postflight, after the execute task
  let go of its process, interrupts the postflight and returns as if all were well
  (`docs/implementation-status.md:1797` says otherwise). A descendant that leaves
  between the last poll and KILL is reported `already_exited`.
- `ProposalInspection`: the two files' signatures are compared in two calls, not at
  one instant as `docs/authorization-model.md:1139` has it; `ReportIsOneMoment` holds
  nevertheless.
- `StageLease`: a descriptor whose number is lost in an interrupted hand-over is
  never released although the cleanup is verified (state `lost`).
- `BillingPolicy`: an event that reports the included limit is forgotten when the
  evidence from before the run has expired by the time it is judged and the evidence
  after it says "available" (`Forgotten`); a claim that nothing ever ran
  (`NothingRan`) is taken at its word, whatever the events say; of several reasons
  an adapter claims with an unknown outcome the first is kept.
- `ComparisonRun`: a shadow whose append committed and raised is denied by the
  publication intent that follows, and the inspection notices (`shadow_claim`). The
  inspection sees neither a lost last observation nor whether billing came before
  RUNNING. A mock trial that is quarantined does not stop the comparison: only a
  mismatch or the cost of a live one does (`Untrusted`).
- `TaskRun`: the inspection expects a dispatch decision of an enforced run that
  was stopped by its billing inspection or because its runner had changed
  (`Undecided`), and calls the accounting of a mock result with the wrong billing a
  mismatch (`Misreported`). When putting the billing outcome on record fails outside every
  handler, the run stays RUNNING; the inspection reports it (`AbandonedIsReported`).

### Bounds

Times only matter relative to each other, and `MaxTime` stops the clock. Claims of
the `claims` run last 2, lag 1, and 4 units let one claim lapse by one unit of
lag, be reconciled and be followed by another. In `lifecycle` lag is as long as
a claim, and the queue deadline falls inside. `LastClaim` is the last time a
claim is made. It leaves every claim time to lapse in `foreground` and
`recovery`. `MaxControl` bounds control commands: 5 go once round the machine and
into a second round, which is where a stale revision could pass for a current
one. `MCSupervisor` starts from a store with a foreground lease and one start
command, which `Init` reaches in two steps; `lifecycle` has one more command, after
which nothing may be claimed.

The part of `lifecycle` that keeps evidence starts at `EvidenceStart`, two units before
the queue deadline, which is also when a claim made at once lapses; completions,
cancellations, claims and repairs may trail by `EvidenceLag`. One attempt is claimed:
the inspection treats attempts one by one, and no method requeues a flow. One shadow
fails, since each has its own `try`. Rows disappear at the last moment
(`EvidenceLost`), when only deliveries and repairs follow: whatever the tables hold
earlier, they can still hold then.

In `billing` a reservation lasts 1 (2 in `late_capacity`) and the clock
goes as far, so it can run out under its owner at any place, and evidence can be older
than a limit. Three runs are one that leaves something behind, one that acts on it
and one that is misled. The constraint `ThirdRunOnlyThere` lets the third one take
part only where it has the account of the other two and a profile of its own, and there the
operator closes nothing; in the overlaps of two runs the operator closes the
breaker of the shared account.

In `schedule`, 6 units are two whole slots of one schedule and three of the other, and a timeout is longer
than a slot. Two claims suffice to overlap, to overtake and to be disjoint.
In `harness` two descendants let one leave while another stays. Faults are
three in `publication`, `staging` and `task_run`: one that sends the code to a
handler, one that strikes in it, and one more; two in `proposals`, where each binder
has two appends. `RivalsUnwatched` lets an inspector look on at one binder that works
undisturbed, since the ledgers that rivals leave behind are no others: what it
judges are histories, and every prefix of a lineage and every foreign event arises
there, too.

In `staging` the chain has two files, so that one may change while the other is
looked at, and two changes by others: one that misleads a look and one that undoes
it or strikes at the next. Others change what the next look concerns (a file right
before a look at a file), since a change in between shows there at the earliest. The
executables of the lease and the chain rest while the other moves: they share
nothing but the name of a lease.

`SYMMETRY` is over attempts, consumers, processes, binders and wishes, or the two
runs of every overlap, in runs without liveness properties.
In `task_run` two trials are one that leaves something behind and one that must
not follow. They have two faults together (`TrialFaults`): one that sends a trial to its
handler and one that strikes there. `MCInstants` are a time at which the evidence from before
a run is current, the very time at which its window ends, and one at which it has
expired; lifetimes and windows of every length are what `BillingConservative` proves.

`CHECK_DEADLOCK FALSE` where the system does come to rest: a call or run that is
over, or a store with every process gone at the end of the clock.

### Fairness

`DiligentSpec` (`recovery`): a process that is up keeps ticking (a loop with a sleep in it), time
passes, processes are started, and an operator keeps previewing and applying the
plan. Nothing makes a process not crash or a claim holder answer. `FairSpec`
(`harness`): the event loop runs ready tasks, deadlines and the wall timeout fire
and a spawn resolves. Nothing is assumed of the child or its descendants, which
may ignore TERM. The other runs have no liveness: nothing obliges a process to go
on, and a task run is a chain of awaits without a loop.

## 5. The theorems

About `Spec` (or `LoopSpec`) of `Supervisor` for any flows, attempts, resources,
processes, lags and bounds, under its named assumptions
`FlowSpecAssumption` (a flow's own key is no resource, its deadline is after it
becomes available: `_validate_flow_spec`), `SentinelAssumption` (NULL is no row)
and `ParameterAssumption` (the outcomes are reportable, the TTLs positive):

- `TypeCorrect`. `TypeInv` adds that a history starts with the admission and that
  intents name revisions past it; without that a repair could read a revision that
  does not exist.
- `AttemptsAgree`, `CancellationDecides`, `CancelledNeverStarts`,
  `ClaimedAtMostOnce`. `ActiveAttemptAgreement` and
  `NeverClaimedTwice` need each other's facts: `ClaimInv` adds that an idle flow has
  no active attempt, that a flow that was ever claimed is past the queue for good,
  and that a cancellation request marks the head of its flow unless it found it
  ended.
- `LeasesHaveOwners`, `GrantsAreKept`, `ResourcesAreExclusive`. `LeaseInv`
  ties each row to its grant: it ends exactly when its holder was last promised,
  which is the row's renewal plus the TTL or the deadline, and a renewal with an
  older stamp than the row is refused, so that promises only grow. Exclusion
  follows from `GrantedClaimKept`, since one row has one owner.
- `ContractIsKept`, the refinement `KeepsContract`; `TablesNeverDrift`,
  `RepliesRepeat`, `HistoriesAreLawful`. They share one description of a step:
  it gives some flows one revision each, of one of five kinds (`Follows`: it
  admits, starts, ends, cancels a run, cancels idle work), and adds to the outbox
  what those revisions owe (`Revises`; `StepRevises` proves it of every action).
  Each kind is allowed by the triggers and is a step of `FlowContract`; every other
  step changes nothing the contract sees, or delivers. `RecordInv` adds to
  `LeaseInv` what that needs: an ended flow is revised no more, the outbox is the
  history (`OutboxIsHistory`), an attempt has at most one intent and is over once it
  has it (so replies cannot differ), a receipt has its intent (so a new intent is
  undelivered), and a revision's stamp is not after its commit (so naming the current
  revision orders the stamps).
- `OnlyDeadClaimsAreGivenUp`: of the steps that publish, only reconciliation does
  so without an operation and for an attempt; it names attempts in state `created`
  whose claim lapsed at its stamp, and since a grant is kept until the latest expiry
  its holder was told, the lapse means that the grant is over. `OutboxIsHistory` is needed
  here as well: a repair of a missing intent could name any attempt, and there is none
  to repair.
- `LoopImplementsStore`: the loop's steps are store steps or stutters, so
  everything proved about the store holds in the loop.
- `ForegroundIsExclusive`. `HoldsLease` adds to `StopInv` that a process which is up
  and inside the latest grant it was given owns the row, and the row lasts as long;
  a row is taken over only when it has expired.
- `LoopTypeCorrect`, `StopsDrained`. `StopInv`: a tick that is about to stop saw a
  revision; if that is still the current one the supervisor is still draining, and
  since nothing is claimed while it drains, a count of zero stays zero.

About `Spec` of `ScheduleClaims`, for any schedules, resources, processes,
anchors, intervals, graces and timeouts (`ScheduleAssumption`, `NoLeaseAssumption`):

- `TypeCorrect`; `SlotClaimedOnce`; `SlotIsCurrent`, which is arithmetic: a slot's
  start is at most the reading it was computed from and the next one is past it.
- `LiveClaimHolds`, `LiveClaimsDisjoint`. The invariant says that a lease of an
  unreleased claim is the claim's own until its deadline; a transaction that judges
  with a stamp of the past finds it live a fortiori.
- `OvertakingWaits`: a pass takes a slot older than a claimed one only after a
  holder of that or a newer slot released it, since the lease of the schedule stands
  in its way until then.

About `SystemSpec` of `ComparisonRun`, a task run in one of its four modes or a
comparison, for any number of faults, observations and trials (`TaskRunAssumption`,
`ComparisonAssumption`, `BillingPolicyAssumption`):

- `RunnersAreEvidenced`. Rows are only added, so what a row proved once it proves for
  good (`WroteKeeps`). `EvidenceInv` and `TrialEvidenceInv` say what is on record once
  the controller is past the place that writes it; a row that may be missing leads to
  a place from which the runner is not reached.
- `OutcomesAreRecorded`, for task runs. `PlaceInv` ties the status on record to the
  place of the controller. `ReceiptInv`: while the receipt of the effect is missing,
  the controller is at one of the places that may still write it or is about to stop
  in quarantine, and no other end was recorded. `SuccessInv`: past the last place at which
  a publication may be refused, artifact and receipt are there, and a report is that
  of the status on record.
- `OutcomesAreRecorded`, for comparisons. `BookInv`: a live trial whose rows are not
  in the books for certain (`Priced`) is not yet ended, or is quarantined. Both handlers write
  the unknown outcome unless the true one is known to be there, and a failure that could
  not write it is not reported; that a trial which cost something is seen to have
  needs `DistrustHolds` and `TrustEarned` of the policy (`CostsAreTold`). `OrphanInv`:
  where artifact and receipt disagree the error that the handler was given carries the
  doubt, since an interrupted or failed `ReceiveSuccess` or `ReceiveFailure` passes it on, and the
  doubt quarantines. That the handler cannot lose the doubt while it persists
  observations needs `SeenInv`: a doubt arises only when every observation is on record.
  `GoOnInv` and `ReportInv` carry what was true of a trial over to its summary. A lemma for each way a step may
  go (`SetupKeeps`, `JudgingKeeps`, `RaiseKeeps`, `HandlingKeeps`, `OverKeeps`)
  leaves little to the lemmas of the thirty actions.
- `BillingStaysConservative`, from `BillingConservative` below.

About `BillingPolicy`, which has no behaviours, for any accounts, assessments,
signals, claims and times (`BillingPolicyAssumption`: the inputs are of their
kinds):

- `BillingConservative`, of `EvidenceOutlasts`, `TrustEarned`, `DistrustHolds` and
  `PaymentKept`. `ComputedEnds` says that an assessment after a run ends in a
  breaker, in a verified limit or in nothing withheld; `LimitStays`, `FreedomStays`
  and `BreakerStays` say what a claim can make of each; `OutcomeEnds` puts them together
  with the decisions that precede the evidence (`ResolveEnds`), and each part of the
  property is a case of it.

About `Spec` of `BillingDispatch`, for any runs, accounts, profiles, routings,
closable breakers and times to live (`BillingAssumption`: NULL is nobody, and a
reservation lasts, as `_positive_duration` has it):

- `DispatchTypeCorrect`, `WorkersAreKeptApart`, `UnknownsBarTheNext`. `PlaceInv` says
  what is known at each place of a run. `ReservationInv`: a dispatch without an
  outcome still holds each lease of its reservation, or that had expired and whoever
  found it opened the breaker of every run (`Everywhere`). `SettledInv`: an unsafe
  outcome has left its breaker. A breaker that stood stands, or the operator closed
  it and answered for the run (`StandsStays`), so a reservation that succeeds meets
  nobody it is barred by (`ReservePassesPardoned`). `ActiveInv` is the property about
  workers, extended to the runs that may still start one.
- `BreakersHaveACause`: of the five kinds of steps (`StepKinds`) the three that
  open breakers have one, by the same invariant.
- `LimitsOutliveOlderEvidence`, where every run has a profile (`Named`), without
  which it is false (section 4). `LimitInv`: the limit blocks the account's own row
  at its time or later, and nobody holds the account's lease; a completion that finds
  its lease gone can only block it again.

About `ChainSpec` of `ExecutableChain`, for any number of files, any interference
and any table of calls that is `WellOrdered` (`ChainAssumption`, which TLC evaluates
on the table of the source in `staging`):

- `ChainTypeCorrect`, `ProtectedIsNeverRead`, `ReceiptsRestOnLiveLeases`.
- `ReceiptsAreMeasuredTogether`. `ChainInv` says what the state owes to each look
  that has passed, as long as no later one undid it: what is pinned is never newer
  than the file (`PinnedInv`), a lease that was not whole where the call last relied on it
  was relied on after every look at its descriptors (`LostLeaseInv`), measurements that were compared agree until one is taken anew
  (`AgreeInv`), copies are what was measured (`CopyInv`). Versions never go back, so
  at the end of the first of two equal measurements every file was at the version
  both found (`BetweenInv`), and that moment is the witness.

About `Spec` of `StageLease`, for any number of executables, faults, steps of others
and cleanups (`StageAssumption`):

- `LeasesAreSealed`. `LeaseInv` says at each place of the staging what the frame holds and
  what the lease does (`FrameInv`), which items are done and that the later ones are not
  begun (`ItemInv`), and that a file which holds bytes, or is about to, has lost its name and its
  links (`ContentInv`); nobody can give it one back. Only such files are retained, so that
  a release never has to keep one.
- `LeaseRespectsOthers`. `HoldInv`: every open descriptor is held by the lease or the frame,
  or the lease owns up to one that may not be closed (`stuck`), and what is pending is
  apart from what is retained, so that each is closed once. A cleanup is a composition of closes,
  one look for the pending name and one removal; the lemmas about it say that each
  keeps this (`Tidies`) wherever it fails.
- `CleanupsTellTrue`. A verified cleanup left nothing held (`EndInv`); `CalmInv` says that
  undisturbed nothing is ever out of its place; and a retry on a lease that is not stuck,
  where others took nothing away, closes all that is held (`RetrySucceeds`).

About `Spec` of `HarnessProcess`, for any number of descendants and cancellers
(`HarnessAssumption`):

- `GoneWhenReported`, `CancellationsSurvive`. `HarnessInv` says what each place of the
  execute task, of the shared cleanup and of a canceller rests on. Before the child
  exists there is nothing to clean up (`Unborn`); the signals that were sent are those
  the cleanup's place implies (`Escalation`), so that nothing is killed that was not
  asked to end; a result is there only once the cleanup is over (`ResultIsEarned`); an
  outcome is known only past a verified cleanup (`KnownIsVerified`), which the task
  does not pass by (`CleanupIsAwaited`); a cancellation that hit is deferred, is the
  reason of the collection, or has made the outcome unknown (`CancellationIsKept`).
  Verification lasts because a group that is gone stays gone.

About `Spec` of `ProposalBinding` and `InspectionSpec` of `ProposalInspection`, for any
binders, wishes, foreign events, faults, repeated calls and inspections:

- `CallersDoConverge`, `BindingKeepsContract`. `BindInv`: the ledger holds one lineage,
  events are only added at its end, and a binder that goes on has read a ledger which
  lacked its next event; the fence of the append then makes sure that it still lacks
  it, so that a step extends the lineage or leaves it, which is what the register of
  `ProposalContract` allows (`ExtendsRefines`, `ContinueRefines`). `CalmInv` is what
  convergence needs while the store works and nobody else writes: the ledger is one of
  three for every wish, a binder past its appends leaves a ledger that somebody
  carries on (`Carried`), and binders of one wish never disagree (`AgreedCalm`).
- `InspectionBinds`, `ReportsAreAlwaysTrue`. `InspectInv`: the main file and the log
  overlap and together hold the ledger (`FilesInv`); two signatures that were taken
  while the main file stood still are those of two files that hold a prefix of it
  (`TrueSignatures`), copies are what was signed, and a view that passes both looks is
  such a prefix, no shorter than the ledger was when the inspection began
  (`TrueView`). What remains is that the inspector's rules, written apart from the
  binders', say the same of every ledger `BindInv` allows (`AgreesAlways`).

About `Spec` of `CandidatePublication`, for any number of failed or interrupted calls
and of changes by other programs (`PublicationAssumption`: the bounds are numbers):

- `LedgerTellsTrue`, `PublicationKeepsContract`. `PubInv` follows the controller from
  place to place. Each event is written at one place and there only (`OrderInv`), so the
  ledger has one of each. Nothing exists before the effect is authorized, and once the
  controller is past its last chance to find the permit stale it is (`AuthInv`). From
  the staging on it holds the descriptors of its file, unless it never learned of it or
  saw the last link go (`HoldInv`); only that makes the count of links a proof. What was
  proved gone of a name stays gone, on disk and on stable storage, because other
  programs can only take links of the file away once none is left to link to
  (`Shrinks`, which every step but the creation and the link satisfies), and the two
  removals together leave none (`GoneInv`). The file is whole before it is linked, and
  undisturbed its final name is on stable storage before the success is reported
  (`LastInv`). Every way to the end of a run with a success or an unknown effect on
  record passes a doubt, which quarantines it (`EndInv`). A step that changes the intent
  or the receipt on record leaves the directory alone (`StepTells`): that is the
  refinement.
- `InspectionsAreRight`. That a leftover raises an issue follows from `PubInv`: where
  the file exists the intent and the permit are on record, so an action is expected, and
  each receipt that would satisfy it is excluded. That nothing is raised without a cause
  needs `CalmInv`: what the directory holds at each place of an undisturbed run, and the
  three ways such a run ends (`EndsBlocked`, `EndsStale`, `EndsPublished`).

The run `lifecycle` checks `TablesAgree` and `ReplayAgrees` (as `RecordsAgree`) and the
contract (as `KeepsContractUntilDamage`) of a database from which rows may also disappear behind
the store's back: up to the first loss that is what the theorems say; what survives
a loss is only model-checked.

*Only model-checked:* liveness, which the prover does not reach; the inspection of the
supervisor's evidence (`EvidenceIsExact`); `BlockOutlivesOlderEvidence`, which is false;
and that the inspections of task runs and comparisons can be relied on
(`InspectionsCanBeReliedOn`), which is about every history the controllers write,
each row of it taken out or exchanged with the next.

## 6. Not modelled

The components marked so in `PROJECT.json`, with the reason there. Most are record
construction, text, parsing or host I/O without a protocol of their own: contracts
and context, routing, scores and statistics over comparisons, the builders of policy requests, command line, diagnostics,
repository registration, the parsers of ELF and Mach-O headers and interpreter
directives.
Within the modelled parts, digests that only bind rows to each other are taken as
equal where the code recomputes them. Of the inspection of the supervisor's evidence,
the guards over the schema and its triggers, and the baselines of databases migrated
from before the evidence existed, are left out.

## 7. What comes next

1. A proof of the half of `InspectionsCanBeReliedOn` that says honest runs inspect
   clean, which needs the order of the rows at every place of the controllers.
2. Migrations of the schema, and the policy evaluator as a pure algorithm.
