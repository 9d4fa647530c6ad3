---------------------------- MODULE MCSupervisor ----------------------------
(***************************************************************************)
(* Instances of Supervisor for TLC.  Two flows share one resource; the     *)
(* second has a deadline that also cuts its attempt short.                 *)
(***************************************************************************)
EXTENDS SupervisorAudit, TLC

CONSTANTS f1, f2, r1,
  Recording,        \* which of the two: with evidence, or the work alone
  EvidenceStart,    \* bound with evidence: the clock starts here
  EvidenceTime,     \* bound with evidence: the clock stops here
  EvidenceLag,      \* bound with evidence: how far a stamp trails the clock
  EvidenceOutcomes  \* bound with evidence: the outcomes that holders report

VARIABLE recording

FlowSpecRow(available, deadline, timeout, rank) ==
  [resources |-> {r1}, available |-> available, deadline |-> deadline,
   timeout |-> timeout, max_attempts |-> 2, rank |-> rank]

\* Both compete for r1; f2 is behind f1 and must start before time 3.
ContendingSpecs ==
  [f \in Flows |-> IF f = f1 THEN FlowSpecRow(0, NoDeadline, 3, 0)
                             ELSE FlowSpecRow(0, 3, 2, 1)]

\* Any times at which a foreground process holds its lease throughout and the
\* operator has started the supervisor: reached from Init by acquiring the
\* lease at time 0 and one start command at the time the instance starts with.
StartedInit ==
  /\ recording \in Recording
  /\ now = IF recording THEN EvidenceStart ELSE 0
  /\ control = [revision |-> 1, mode |-> "running"]
  /\ \E i \in Instances :
       foreground = [owner |-> i, renewed |-> 0, expires |-> ForegroundTTL]
  /\ history = [f \in Flows |-> <<>>]
  /\ revisedAt = [f \in Flows |-> 0]
  /\ committedAt = [f \in Flows |-> 0]
  /\ cancelRequested = {}
  /\ attempt = [a \in Attempts |-> NoAttempt]
  /\ attemptState = [a \in Attempts |-> "unclaimed"]
  /\ leases = [k \in Keys |-> NoLease]
  /\ outbox = {}
  /\ receipts = {}
  /\ plan = [o \in Operators |-> NoPlan]
  /\ promised = [a \in Attempts |-> 0]
  /\ replies = [a \in Attempts |-> {}]
  /\ controls = <<[mode |-> "running", at |-> now, commit |-> now]>>
  /\ stamps = [f \in Flows |-> <<>>]
  /\ events = [a \in Attempts |-> <<>>]
  /\ requested = [f \in Flows |-> <<>>]
  /\ published = {}
  /\ evidence = ControlRows(1, "running", now) \cup {ControlShadow(1, "running", now)}
  /\ lapsed = {}
  /\ losses = 0

WorkNext ==
  FlowStep \/ (\E i \in Instances : ClaimStep(i)) \/ OperatorStep \/ AdvanceTime

EvidentStamps == {ts \in Stamps : ts + EvidenceLag >= now}

Repairs(findings) == {x \in findings : x.action # "none"}

\* The work, with its evidence.  Who repeats a completion, and renewals, add no
\* evidence; they are left out, and one attempt is claimed.  The operator drains
\* before anything ends.
EvidentWork ==
  \/ \E f \in Flows : EvidentAdmitFlow(f, now)
  \/ \E f \in Flows, ts \in EvidentStamps : EvidentCancel(f, ts)
  \/ \E i \in Instances, a \in Attempts, ts \in EvidentStamps :
       (\A b \in Attempts : attempt[b] = NoAttempt) /\ EvidentClaim(i, a, ts)
  \/ \E a \in Attempts : EvidentDispatch(a, now)
  \/ \E a \in Attempts, outcome \in EvidenceOutcomes, ts \in EvidentStamps : EvidentComplete(a, outcome, ts)
  \/ /\ control.revision < MaxControl /\ outbox = {}
     /\ EvidentUpdateControl(control.revision, "draining", now)

\* Rows disappear at the last moment, when no work follows: whatever the tables
\* held earlier, they can still hold then.
EvidenceLost ==
  /\ now = EvidenceTime /\ lapsed = {}
  /\ \/ \E r \in evidence : LoseEvidence(r)
     \/ \E r \in receipts : LoseReceipt(r)
     \/ \E i \in outbox, p \in published : LoseIntent(i, p)

\* Deliveries, repairs and time go on after a row has disappeared.
EvidentNext ==
  \/ losses = 0 /\ EvidentWork
  \/ \E i \in outbox, c \in Consumers : EvidentAcknowledge(i, c, now)
  \/ \E o \in Operators : Repairs(Audit(now)) # {} /\ EvidentPreview(o, now)
  \/ \E o \in Operators, ts \in EvidentStamps : Repairs(Audit(ts)) # {} /\ EvidentReconcile(o, ts)
  \/ EvidenceLost
  \/ now < EvidenceTime /\ AdvanceTime /\ UNCHANGED evidenceVars
  \/ now = EvidenceTime /\ UNCHANGED <<vars, evidenceVars>>

StartedNext ==
  /\ IF recording THEN EvidentNext ELSE WorkNext /\ UNCHANGED evidenceVars
  /\ UNCHANGED recording

\* The store's steps while that process stays up.
StartedSpec == StartedInit /\ [][StartedNext]_<<vars, evidenceVars, recording>>

\* A flow that may be claimed twice, with a deadline on its time in the queue.
LoneSpec ==
  [f \in Flows |-> FlowSpecRow(0, 4, 3, 0)]

AttemptSymmetry == Permutations(Attempts)

LifecycleSymmetry == Permutations(Attempts) \cup Permutations(Consumers)

\* What the tables say, and what repeated completions answered, as long as
\* nobody edits the database.
RecordsAgree == ReplayAgrees /\ (losses = 0 => TablesAgree)

\* Where evidence is kept, the inspection reports what is missing of it and
\* nothing else, and notices what disappears.
EvidenceIsExact == (recording => AuditIsExact) /\ DamageIsNoticed

\* The contract of each flow holds, up to the first row that disappears.
\* (\A f \in Flows : Contract(f)!ContractSpec, with the quantifier moved inside.)
KeepsContractUntilDamage ==
  /\ \A f \in Flows : Contract(f)!ContractInit
  /\ [][losses' = 0 => \A f \in Flows :
          [Contract(f)!ContractNext]_(Contract(f)!contractVars)]_vars
=============================================================================
