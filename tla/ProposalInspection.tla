------------------------- MODULE ProposalInspection -------------------------
(***************************************************************************)
(* The read side of repository proposals, composed with the binders:       *)
(* inspect_repository_proposal_evidence copies the database file and its   *)
(* write-ahead log while the store's processes go on committing,           *)
(* checkpointing and closing it, and judges the copy by rules of its own;  *)
(* the admission shadow is built on the report alone, and an independent   *)
(* verifier replays the shadow.                                            *)
(*                                                                         *)
(* The store's files hold prefixes of the ledger: `main' the first events, *)
(* the log those from one position to another.  A file's signature         *)
(* (device, inode, size, modification time) is taken to change with every  *)
(* write of the file, so that equal signatures mean equal contents.        *)
(***************************************************************************)
EXTENDS ProposalBinding

CONSTANT MaxInspections  \* bound on the inspections of one behaviour

MaxInspectedEvents == 4

VARIABLES
  main,      \* how many events the database file holds
  wal,       \* the events the write-ahead log holds, or NoWal
  step,      \* where the inspector is
  before,    \* the signatures it took first
  copy,      \* what its copies of the two files hold
  view,      \* the events it found in the copies
  since,     \* how many events the ledger had when the inspection began
  report,    \* its report, if any
  inspected  \* the inspections so far

files == <<main, wal>>
inspector == <<step, before, copy, view, since, report, inspected>>
allVars == <<vars, files, inspector>>

NoWal == [from |-> 0, to |-> 0]
NoReport == [coverage |-> "none"]

Steps == <<"statMain", "statWal", "copyMain", "copyWal", "recheckMain", "recheckWal",
           "inspect", "lastMain", "lastWal">>

InspectionInit ==
  /\ Init
  /\ main = 0
  /\ wal = NoWal
  /\ step = 0
  /\ before = [main |-> 0, wal |-> NoWal]
  /\ copy = [main |-> 0, wal |-> NoWal]
  /\ view = <<>>
  /\ since = 0
  /\ report = NoReport
  /\ inspected = 0

-----------------------------------------------------------------------------
(* The files under the store.                                              *)

\* A commit appends to the log, which starts afresh once all of it has been
\* copied into the database file.
LogAfterCommit ==
  wal' = IF history' = history THEN wal
         ELSE [from |-> IF wal = NoWal \/ main = wal.to THEN Len(history) ELSE wal.from,
               to |-> Len(history')]

StoreStep == BindingNext /\ LogAfterCommit /\ UNCHANGED <<main, inspector>>

Checkpoint ==
  /\ wal # NoWal
  /\ main < Len(history)
  /\ main' = Len(history)
  /\ UNCHANGED <<vars, wal, inspector>>

\* The last connection of the store checkpoints and removes the log.
CloseStore ==
  /\ wal # NoWal
  /\ main' = Len(history)
  /\ wal' = NoWal
  /\ UNCHANGED <<vars, inspector>>

-----------------------------------------------------------------------------
(* The judgement of a history, independent of the binders' own.            *)

Types == {"status", "selection", "binding"}

\* The one event of a type, or nothing when there are none or several.
TheOnly(h, type) ==
  {i \in Rows(h, type) : Rows(h, type) = {i}}

CreatedValid(h) == \E i \in TheOnly(h, "status") : i = 1 /\ h[1] = Created

\* (defect) Any runner's run is inspected alike.
BrokenRunnerCodes(kind) == {}

StatusCodes(h) ==
  (IF CreatedValid(h) THEN {} ELSE {"created_event_invalid"})
    \cup (IF CreatedValid(h) /\ AtMostOne(Bearing(h)) THEN {} ELSE {"run_status_invalid"})

Count(h, type, missing, duplicate) ==
  IF Rows(h, type) = {} THEN {missing}
  ELSE IF ~ AtMostOne(Rows(h, type)) THEN {duplicate}
  ELSE {}

CountCodes(h) ==
  UNION {
    IF \A i \in DOMAIN h : h[i].type \in Types THEN {} ELSE {"unexpected_event"},
    Count(h, "selection", "registration_selection_missing", "registration_selection_duplicate"),
    Count(h, "binding", "repository_proposal_binding_missing", "repository_proposal_binding_duplicate")}

LinkCodes(h) ==
  UNION {
    (IF TheOnly(h, "selection") = {} THEN {"proposal_event_order_invalid"} ELSE {})
      \cup UNION {IF h[s].of # h[b].of
                  THEN {"proposal_linkage_mismatch", "registration_component_linkage_mismatch"}
                  ELSE {} : s \in TheOnly(h, "selection")}
    : b \in TheOnly(h, "binding")}

OrderCodes(h) ==
  IF \/ \E c \in TheOnly(h, "status"), s \in TheOnly(h, "selection") : c >= s
     \/ \E s \in TheOnly(h, "selection"), b \in TheOnly(h, "binding") : s >= b
  THEN {"proposal_event_order_invalid"}
  ELSE {}

ExactPrefix(h) ==
  /\ TheOnly(h, "status") # {} /\ Bearing(h) # {} /\ AtMostOne(Bearing(h))
  /\ \A i \in DOMAIN h : h[i].type \in Types
  /\ \/ Len(h) = 1
     \/ Len(h) = 2 /\ TheOnly(h, "selection") # {}
     \/ Len(h) = 3 /\ TheOnly(h, "selection") # {} /\ TheOnly(h, "binding") # {}

RunnerCodes(kind) == IF kind = "proposal" THEN {} ELSE {"runner_invalid"}

Codes(kind, h) ==
  IF Len(h) > MaxInspectedEvents
  THEN {"history_cardinality_invalid", "event_limit_exceeded"} \cup RunnerCodes(kind)
  ELSE UNION {RunnerCodes(kind), StatusCodes(h), CountCodes(h), LinkCodes(h), OrderCodes(h),
              IF ExactPrefix(h) THEN {} ELSE {"history_cardinality_invalid"}}

IncompleteCodes == {"registration_selection_missing", "repository_proposal_binding_missing"}

Coverage(kind, h) ==
  LET codes == Codes(kind, h)
  IN IF codes = {} /\ Len(h) = 3 THEN "complete"
     ELSE IF \/ Len(h) = 1 /\ codes = IncompleteCodes
             \/ Len(h) = 2 /\ codes = {"repository_proposal_binding_missing"}
     THEN "incomplete"
     ELSE "invalid"

Report(kind, h) ==
  [coverage |-> Coverage(kind, h),
   findings |-> Codes(kind, h),
   events |-> IF Len(h) > MaxInspectedEvents THEN MaxInspectedEvents ELSE Len(h)]

-----------------------------------------------------------------------------
(* The admission shadow and its verifier.                                  *)

Clean(r) == r.coverage = "complete" /\ r.findings = {} /\ r.events = 3

\* A report that is not clean and complete is not evaluated; the evaluation
\* of one that is may fail or disagree with its replay.
Shadow(r, evaluates) ==
  IF ~ Clean(r)
  THEN [status |-> "not_evaluated", blocks |-> {"inspection_not_clean_complete"},
        material |-> FALSE, report |-> r]
  ELSE IF evaluates # "replays"
  THEN [status |-> "failed", blocks |-> {evaluates}, material |-> FALSE, report |-> r]
  ELSE [status |-> "evaluated", blocks |-> {}, material |-> TRUE, report |-> r]

Evaluations == {"replays", "authorization_evaluation_failed", "authorization_replay_mismatch"}

\* The verifier's own facts about a report; it trusts nothing but the values.
CleanComplete(r) == r.coverage = "complete" /\ r.findings = {} /\ r.events = 3

VerifiesEvaluated(s) == CleanComplete(s.report) /\ s.blocks = {} /\ s.material

VerifiesNotEvaluated(s) ==
  ~ CleanComplete(s.report) /\ s.blocks = {"inspection_not_clean_complete"} /\ ~ s.material

VerifiesFailed(s) ==
  /\ ~ s.material
  /\ CleanComplete(s.report)
  /\ s.blocks \in {{"authorization_evaluation_failed"}, {"authorization_replay_mismatch"}}

Verifies(s) ==
  CASE s.status = "evaluated" -> VerifiesEvaluated(s)
    [] s.status = "not_evaluated" -> VerifiesNotEvaluated(s)
    [] OTHER -> VerifiesFailed(s)

-----------------------------------------------------------------------------
(* One inspection, a file operation at a time.                             *)

At(name) == step \in DOMAIN Steps /\ Steps[step] = name
Advance == step' = step + 1
Idle == UNCHANGED <<vars, files>>

\* Every change of a file that is noticed ends the inspection.
Changed == step' = 0 /\ report' = [coverage |-> "changed"]

Begin ==
  /\ step = 0
  /\ inspected < MaxInspections
  /\ run # "absent"
  /\ step' = 1
  /\ inspected' = inspected + 1
  /\ since' = Len(history)
  /\ report' = NoReport
  /\ Idle /\ UNCHANGED <<before, copy, view>>

StatMain ==
  /\ At("statMain")
  /\ before' = [before EXCEPT !.main = main]
  /\ Advance
  /\ Idle /\ UNCHANGED <<copy, view, since, report, inspected>>

StatWal ==
  /\ At("statWal")
  /\ before' = [before EXCEPT !.wal = wal]
  /\ Advance
  /\ Idle /\ UNCHANGED <<copy, view, since, report, inspected>>

Unchanged(file, signature) == file = signature

\* A copy is taken from the open file, whose signature is compared before
\* the first and after the last byte; a log that was not there is not copied.
CopyMain ==
  /\ At("copyMain")
  /\ copy' = [copy EXCEPT !.main = main]
  /\ IF Unchanged(main, before.main) THEN Advance /\ UNCHANGED report ELSE Changed
  /\ Idle /\ UNCHANGED <<before, view, since, inspected>>

CopyWal ==
  /\ At("copyWal")
  /\ copy' = [copy EXCEPT !.wal = IF before.wal = NoWal THEN NoWal ELSE wal]
  /\ IF before.wal = NoWal \/ Unchanged(wal, before.wal) THEN Advance /\ UNCHANGED report ELSE Changed
  /\ Idle /\ UNCHANGED <<before, view, since, inspected>>

Recheck ==
  /\ \/ At("recheckMain") /\ IF Unchanged(main, before.main) THEN Advance /\ UNCHANGED report ELSE Changed
     \/ At("recheckWal") /\ IF Unchanged(wal, before.wal) THEN Advance /\ UNCHANGED report ELSE Changed
  /\ Idle /\ UNCHANGED <<before, copy, view, since, inspected>>

\* Opening the copies replays the log's events over the database file's.
Found(c) ==
  SubSeq(history, 1, c.main)
    \o SubSeq(history, 1 + (IF c.wal.from > c.main THEN c.wal.from ELSE c.main), c.wal.to)

Inspect ==
  /\ At("inspect")
  /\ view' = Found(copy)
  /\ Advance
  /\ Idle /\ UNCHANGED <<before, copy, since, report, inspected>>

LastCheckMain ==
  /\ At("lastMain")
  /\ IF Unchanged(main, before.main) THEN Advance /\ UNCHANGED report ELSE Changed
  /\ Idle /\ UNCHANGED <<before, copy, view, since, inspected>>

LastCheckWal ==
  /\ At("lastWal")
  /\ IF Unchanged(wal, before.wal)
     THEN step' = 0 /\ report' = Report(run, view)
     ELSE Changed
  /\ before' = [main |-> 0, wal |-> NoWal]
  /\ copy' = [main |-> 0, wal |-> NoWal]
  /\ Idle /\ UNCHANGED <<view, since, inspected>>

InspectionNext ==
  \/ StoreStep \/ Checkpoint \/ CloseStore
  \/ Begin \/ StatMain \/ StatWal \/ CopyMain \/ CopyWal \/ Recheck \/ Inspect
  \/ LastCheckMain \/ LastCheckWal

InspectionSpec == InspectionInit /\ [][InspectionNext]_allVars

-----------------------------------------------------------------------------
(* What must hold.                                                         *)

InspectionTypeOK ==
  /\ TypeOK
  /\ main \in 0 .. Len(history)
  /\ wal.from <= wal.to /\ wal.to <= Len(history)
  /\ step \in 0 .. Len(Steps)
  /\ report.coverage \in {"none", "changed", "complete", "incomplete", "invalid"}

\* No event of the ledger is in neither file.
FilesHoldTheLedger == main = Len(history) \/ (wal.from <= main /\ wal.to = Len(history))

Judged(r) == r.coverage \in {"complete", "incomplete", "invalid"}

\* A report tells of the ledger as it was at one moment of the inspection,
\* never of a mixture of moments, although the files are read one after the
\* other while the store is being used.
ReportIsOneMoment ==
  Judged(report) => IsPrefix(view, history) /\ Len(view) >= since

\* The inspector and the binders, whose rules are written apart, agree on
\* every ledger they meet: it is complete exactly when a call for some wish
\* would hand out evidence for it, incomplete exactly when such a call would
\* have to append, and invalid exactly when every call would refuse it.
InspectorAgreesWithBinders ==
  history # <<>> =>
    LET accepted == {w \in Wishes : run = "proposal" /\ Acceptable(history, w)}
        complete == {w \in accepted : Missing(history) = "none"}
    IN /\ Coverage(run, history) = "complete" <=> complete # {} /\ Len(history) = 3
       /\ Coverage(run, history) = "incomplete" <=> accepted # complete
       /\ Coverage(run, history) = "invalid" <=> accepted = {}

\* Evidence a binder holds is confirmed by every inspection until another
\* writer touches the run.
EvidenceInspectsComplete ==
  (\E b \in Binders : evidence[b] # {}) /\ foreign = 0 => Coverage(run, history) = "complete"

\* The verifier accepts every shadow built on a report, and would refuse the
\* same shadow under another status.
ShadowsVerify ==
  Judged(report) =>
    \A evaluates \in Evaluations :
      LET shadow == Shadow(report, evaluates)
      IN /\ Verifies(shadow)
         /\ \A status \in {"evaluated", "not_evaluated", "failed"} \ {shadow.status} :
              ~ Verifies([shadow EXCEPT !.status = status])

\* What an inspection reports, and what is built on it, is true of the ledger
\* at a moment of the inspection, and is what the binders would say of it.
ReportsAreTrue ==
  /\ InspectionTypeOK /\ InspectorAgreesWithBinders
  /\ FilesHoldTheLedger /\ ReportIsOneMoment
  /\ EvidenceInspectsComplete /\ ShadowsVerify

=============================================================================
