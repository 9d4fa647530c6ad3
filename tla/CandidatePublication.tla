------------------------ MODULE CandidatePublication ------------------------
(***************************************************************************)
(* The publication of one accepted candidate (orchestrator.py,             *)
(* _publish_candidate_artifact, and the handlers of its caller) over the   *)
(* filesystem primitives of artifact_filesystem.py.                        *)
(*                                                                         *)
(* One step is one ledger append with its readback, or one system call     *)
(* that changes the directory together with the reads around it.  Each may *)
(* fail or be interrupted, before or after its effect; other programs may  *)
(* touch the directory between two steps; the power may fail.              *)
(***************************************************************************)
EXTENDS Integers, Sequences, FiniteSets

CONSTANTS
  MaxFaults,    \* bound: calls that fail or are interrupted
  MaxMeddles    \* bound: changes of the directory by other programs

ASSUME PublicationAssumption == MaxFaults \in Nat /\ MaxMeddles \in Nat

VARIABLES
  enforcing,  \* the attempt is a current one: publication needs its own permit
  disk,       \* the held directory as programs see it
  stable,     \* what of it has reached stable storage
  ledger,     \* the run's publication events and its terminal status, in order
  row,        \* the artifact metadata is on record
  ctl,        \* the controller: where it is and what it knows
  faults, meddles

vars == <<enforcing, disk, stable, ledger, row, ctl, faults, meddles>>

Names == {"final", "staged"}

\* What a name of the directory leads to.
Entries == {"none", "own", "other"}

Kinds == {"error", "interrupt"}

Opposite(name) == IF name = "final" THEN "staged" ELSE "final"

\* st_nlink of the controller's inode.
LinksIn(d) == Cardinality({n \in Names : d.at[n] = "own"}) + d.alias

Links == LinksIn(disk)

Recorded(type) == {ledger[i].value : i \in {j \in DOMAIN ledger : ledger[j].type = type}}

Event(type, value) == [type |-> type, value |-> value]

Receipt == IF Recorded("receipt") = {} THEN "none" ELSE CHOOSE r \in Recorded("receipt") : TRUE

-----------------------------------------------------------------------------
\* Control flow.

\* Where an exception raised at a step is caught: inside stage_artifact, inside
\* publish_staged_artifact, by the cleanup of the effect, or by the caller.
Handler(at) ==
  IF at \in {"create", "write", "stage_sync"} THEN "unstage"
  ELSE IF at \in {"link_check", "unlink", "unlink_check"} THEN "unlink_final"
  ELSE IF at \in {"open", "parent_sync", "row", "link", "final_sync", "verify"} THEN "undo_final"
  ELSE "conclude"

Fails(kind) == ctl' = [ctl EXCEPT !.at = Handler(ctl.at), !.err = kind]

Goes(at) == ctl' = [ctl EXCEPT !.at = at]

\* A call that raises without having done anything.  Before a decision is made
\* the evidence it goes by is read again, and may turn out to be invalid.
Raises ==
  /\ ctl.at \in {"decide", "fresh", "open", "create", "write", "stage_sync", "parent_sync", "link", "link_check",
                 "unlink_check", "final_sync", "verify"}
  /\ faults < MaxFaults
  /\ faults' = faults + 1
  /\ \E kind \in Kinds \cup {"invalid"} : (kind = "invalid" => ctl.at = "decide") /\ Fails(kind)
  /\ UNCHANGED <<enforcing, disk, stable, ledger, row, meddles>>

\* What comes of a write to the ledger: whether it was committed, what the call
\* raised, and what an exact readback after that tells.
Writes ==
  {w \in [kept : BOOLEAN, raised : Kinds \cup {"none"},
          read : {"exact", "absent", "unreadable", "interrupted"}, cost : 0..2] :
     /\ w.raised = "none" => w.kept /\ w.read = "exact" /\ w.cost = 0
     /\ w.raised # "none" =>
          w.cost = IF w.read \in {"exact", "absent"} THEN 1 ELSE 2
     /\ w.read = "exact" => w.kept
     /\ w.read = "absent" => ~w.kept}

Pays(cost) == faults + cost <= MaxFaults /\ faults' = faults + cost

Writing(event, w) == ledger' = IF w.kept THEN Append(ledger, event) ELSE ledger

\* _append_required_event returns: committed, or found committed by the readback.
Accepted(w) == w.raised = "none" \/ (w.raised = "error" /\ w.read = "exact")

\* ... or what it raises instead.
RaisedBy(w) ==
  IF w.read = "unreadable" THEN "error"
  ELSE IF w.read = "interrupted" THEN "interrupt" ELSE w.raised

-----------------------------------------------------------------------------
\* Evidence before the effect.

\* _best_effort_shadow_observation swallows every failure but an interruption.
ObserveShadow ==
  /\ ctl.at = "shadow"
  /\ \E w \in Writes :
       /\ Pays(w.cost)
       /\ Writing(Event("shadow", "observed"), w)
       /\ IF w.raised = "interrupt" \/ w.read = "interrupted" THEN Fails("interrupt")
          ELSE Goes(IF enforcing THEN "decide" ELSE "intent")
  /\ UNCHANGED <<enforcing, disk, stable, row, meddles>>

\* evaluate_local_candidate_publication_authorization: a decision, or a failure
\* payload when the evaluation raised, which is put on record too.
Decide ==
  /\ ctl.at = "decide"
  /\ \E d \in {"permit", "deny", "failed", "interrupted"}, w \in Writes :
       /\ Pays(w.cost + (IF d = "interrupted" THEN 1 ELSE 0))
       /\ Writing(Event("decision", d), w)
       /\ CASE d = "interrupted" -> Fails("interrupt")
            [] d # "interrupted" /\ ~Accepted(w) -> Fails(RaisedBy(w))
            [] d \in {"deny", "failed"} /\ Accepted(w) -> Fails("blocked")
            [] d = "permit" /\ Accepted(w) -> Goes("intent")
  /\ UNCHANGED <<enforcing, disk, stable, row, meddles>>

RecordIntent ==
  /\ ctl.at = "intent"
  /\ \E w \in Writes :
       /\ Pays(w.cost)
       /\ Writing(Event("intent", "recorded"), w)
       /\ IF Accepted(w) THEN Goes(IF enforcing THEN "fresh" ELSE "open") ELSE Fails(RaisedBy(w))
  /\ UNCHANGED <<enforcing, disk, stable, row, meddles>>

\* The permit is asserted again at the start of the effect.
AssertFresh ==
  /\ ctl.at = "fresh"
  /\ \/ ctl' = [ctl EXCEPT !.at = "open", !.current = TRUE]
     \/ Fails("stale")
  /\ UNCHANGED <<enforcing, disk, stable, ledger, row, faults, meddles>>

-----------------------------------------------------------------------------
\* stage_artifact

EffectStep == UNCHANGED <<enforcing, ledger, row, meddles>>

\* The path must be an ordinary directory, none that was put in its place.
OpenParent ==
  /\ ctl.at = "open"
  /\ IF disk.swapped THEN Fails("invalid") ELSE Goes("create")
  /\ UNCHANGED <<disk, stable, faults>> /\ EffectStep

CreateStaged ==
  /\ ctl.at = "create"
  /\ IF \E n \in Names : disk.at[n] # "none"
     THEN Fails("invalid") /\ UNCHANGED <<disk, faults>>
     ELSE /\ disk' = [disk EXCEPT !.at["staged"] = "own"]
          /\ \/ ctl' = [ctl EXCEPT !.at = "write", !.identity = TRUE, !.learned = TRUE] /\ UNCHANGED faults
             \* Created, but the call or the fstat after it raises.
             \/ (\E kind \in Kinds : Fails(kind)) /\ Pays(1)
  /\ UNCHANGED stable /\ EffectStep

WriteStaged ==
  /\ ctl.at = "write"
  /\ disk' = [disk EXCEPT !.whole = TRUE]
  /\ stable' = [stable EXCEPT !.whole = TRUE]
  /\ Goes("stage_sync")
  /\ UNCHANGED faults /\ EffectStep

\* fsync of the held directory.
Synced == [stable EXCEPT !.at = disk.at]

CheckStaged ==
  /\ ctl.at = "stage_sync"
  /\ IF disk.at["staged"] = "own" /\ Links = 1
     THEN /\ stable' = Synced
          /\ IF disk.swapped THEN Fails("error")
             ELSE ctl' = [ctl EXCEPT !.at = "parent_sync", !.anchored = TRUE]
     ELSE UNCHANGED stable /\ Fails("error")
  /\ UNCHANGED <<disk, faults>> /\ EffectStep

\* _remove_owned_entry_at: what the directory is after it, and whether the name
\* was proved absent; a fault leaves that unproved.
Removed(d, name) == IF d.at[name] = "own" THEN [d EXCEPT !.at[name] = "none"] ELSE d

ProvedAbsent(d, name) == d.at[name] # "other"

Removes(name) ==
  /\ disk' = Removed(disk, name)
  /\ stable' = IF ProvedAbsent(disk, name) THEN [stable EXCEPT !.at = disk'.at] ELSE stable

RemovalFails(name) ==
  /\ disk' \in {disk, Removed(disk, name)}
  /\ UNCHANGED stable

\* The handler of stage_artifact: its own file is removed, and forgotten only
\* when the inode has no link left.
Unstage ==
  /\ ctl.at = "unstage"
  /\ \/ /\ ~ctl.identity
        /\ ctl' = [ctl EXCEPT !.at = "undo_final"]
        /\ UNCHANGED <<disk, stable, faults>>
     \/ /\ ctl.identity /\ Removes("staged")
        /\ LET gone == ProvedAbsent(disk, "staged") /\ LinksIn(disk') = 0
           IN  ctl' = [ctl EXCEPT !.at = "undo_final", !.identity = ~gone, !.anchored = ~gone]
        /\ UNCHANGED faults
     \/ /\ ctl.identity /\ RemovalFails("staged") /\ Pays(1)
        /\ ctl' = [ctl EXCEPT !.at = "undo_final", !.anchored = TRUE]
  /\ EffectStep

\* fsync_artifact_parent opens the path again, whatever it names now.
SyncParent ==
  /\ ctl.at \in {"parent_sync", "final_sync"}
  /\ stable' = IF disk.swapped THEN stable ELSE Synced
  /\ Goes(IF ctl.at = "parent_sync" THEN "row" ELSE "verify")
  /\ UNCHANGED <<disk, faults>> /\ EffectStep

\* _append_artifact_with_readback
RecordArtifact ==
  /\ ctl.at = "row"
  /\ \E w \in Writes :
       /\ Pays(w.cost)
       /\ row' = w.kept
       /\ IF Accepted(w) THEN Goes("link")
          ELSE ctl' = [ctl EXCEPT !.at = "undo_final", !.err = RaisedBy(w),
                         !.uncertain = IF w.read = "unreadable" THEN "unobserved" ELSE @]
  /\ UNCHANGED <<enforcing, disk, stable, ledger, meddles>>

-----------------------------------------------------------------------------
\* publish_staged_artifact

\* A changed parent takes the staging name back at once; the final name is
\* taken only while nothing holds it.
LinkFinal ==
  /\ ctl.at = "link"
  /\ IF disk.swapped
     THEN Removes("staged") /\ Fails("error") /\ UNCHANGED faults
     ELSE IF disk.at["staged"] # "own" \/ Links # 1
     THEN Fails("error") /\ UNCHANGED <<disk, stable, faults>>
     ELSE IF disk.at["final"] # "none"
     THEN Fails("invalid") /\ UNCHANGED <<disk, stable, faults>>
     ELSE /\ disk' = [disk EXCEPT !.at["final"] = "own"]
          /\ UNCHANGED stable
          /\ \/ Goes("link_check") /\ UNCHANGED faults
             \* Linked, but interrupted before "linked" was set.
             \/ Fails("interrupt") /\ Pays(1)
  /\ EffectStep

\* _rollback_changed_namespace
RollBack ==
  /\ disk' = Removed(Removed(disk, "final"), "staged")
  /\ stable' = IF \A n \in Names : ProvedAbsent(disk, n) THEN [stable EXCEPT !.at = disk'.at] ELSE stable
  /\ ctl' = [ctl EXCEPT !.at = "undo_final", !.err = "error"]

CheckLinked ==
  /\ ctl.at = "link_check"
  /\ IF disk.at["final"] # "own" \/ Links # 2
     THEN Fails("error") /\ UNCHANGED <<disk, stable>>
     ELSE IF disk.swapped THEN RollBack
     ELSE stable' = Synced /\ Goes("unlink") /\ UNCHANGED disk
  /\ UNCHANGED faults /\ EffectStep

\* A staging name that cannot be removed is noticed by the next check.
UnlinkStaged ==
  /\ ctl.at = "unlink"
  /\ \/ /\ disk' = [disk EXCEPT !.at["staged"] = "none"]
        /\ \/ Goes("unlink_check") /\ UNCHANGED faults
           \/ Fails("interrupt") /\ Pays(1)
     \/ Pays(1) /\ (Goes("unlink_check") \/ Fails("interrupt")) /\ UNCHANGED disk
  /\ UNCHANGED stable /\ EffectStep

CheckUnlinked ==
  /\ ctl.at = "unlink_check"
  /\ IF disk.at["final"] # "own" \/ Links # 1
     THEN Fails("error") /\ UNCHANGED <<disk, stable>>
     ELSE IF disk.swapped THEN RollBack
     ELSE stable' = Synced /\ Goes("final_sync") /\ UNCHANGED disk
  /\ UNCHANGED faults /\ EffectStep

\* The handler of publish_staged_artifact removes the final name if it can.
UnlinkFinal ==
  /\ ctl.at = "unlink_final"
  /\ Goes("undo_final")
  /\ \/ Removes("final") /\ UNCHANGED faults
     \/ RemovalFails("final") /\ Pays(1)
  /\ EffectStep

\* published_artifact_state says "matches".
Matches == disk.at["final"] = "own" /\ disk.whole /\ Links = 1 /\ ~disk.swapped

Verify ==
  /\ ctl.at = "verify"
  /\ IF Matches THEN Goes("receipt") ELSE Fails("error")
  /\ UNCHANGED <<disk, stable, faults>> /\ EffectStep

-----------------------------------------------------------------------------
\* The effect could not be completed, or its receipt could not.

\* Asks only whether the name is free.
BrokenGoneAfter(d, name) == ProvedAbsent(d, name)

\* remove_owned_published_artifact: the name is proved absent in the directory
\* the path still names, and no link of the inode is left unaccounted for.
GoneAfter(d, name) ==
  /\ ProvedAbsent(d, name)
  /\ ~d.swapped
  /\ IF ctl.anchored THEN d.alias = 0 ELSE d.at[name] = "none"

\* Without the descriptors nothing is known to be its own.
Undo(name, next) ==
  \/ /\ IF ctl.anchored THEN Removes(name)
        ELSE /\ stable' = IF disk.at[name] = "none" /\ ~disk.swapped THEN Synced ELSE stable
             /\ UNCHANGED disk
     /\ ctl' = [ctl EXCEPT !.at = next, !.gone[name] = GoneAfter(disk, name)]
     /\ UNCHANGED faults
  \/ /\ IF ctl.anchored THEN RemovalFails(name) ELSE UNCHANGED <<disk, stable>>
     /\ ctl' = [ctl EXCEPT !.at = next, !.gone[name] = FALSE]
     /\ Pays(1)

UndoFinal == ctl.at = "undo_final" /\ Undo("final", "undo_staged") /\ EffectStep

UndoStaged == ctl.at = "undo_staged" /\ Undo("staged", "failure_receipt") /\ EffectStep

ProvedGone == \A n \in Names : ctl.gone[n]

FailureOutcome ==
  IF ~ProvedGone THEN "unknown" ELSE IF ctl.err = "interrupt" THEN "cancelled" ELSE "failed"

\* _append_action_receipt_or_raise, then the failure itself is raised again,
\* wrapped when the effect is unknown.  "known" is what is left on disk.
Concludes(w, observed, known) ==
  ctl' = [ctl EXCEPT !.at = "conclude",
            !.err = IF Accepted(w) THEN IF known THEN @ ELSE "error"
                    ELSE IF w.read = "interrupted" \/ (w.kept /\ w.read = "exact") THEN "interrupt"
                    ELSE "error",
            !.uncertain = IF Accepted(w) /\ known THEN @
                          ELSE IF Accepted(w) \/ w.read # "absent" \/ observed = "observed" THEN observed
                          ELSE @]

RecordFailure ==
  /\ ctl.at = "failure_receipt"
  /\ \E w \in Writes :
       /\ Pays(w.cost)
       /\ Writing(Event("receipt", FailureOutcome), w)
       /\ Concludes(w, IF ProvedGone THEN "unobserved" ELSE "observed", ProvedGone)
  /\ UNCHANGED <<enforcing, disk, stable, row, meddles>>

-----------------------------------------------------------------------------
\* The receipt of a completed effect.

\* The readback proved that no receipt was committed.
ReceiptLost(w) == w.read = "absent"

RecordSuccess ==
  /\ ctl.at = "receipt"
  /\ \E w \in Writes :
       /\ Pays(w.cost)
       /\ Writing(Event("receipt", "succeeded"), w)
       /\ IF w.raised = "none" THEN Goes("recheck")
          ELSE IF ReceiptLost(w) THEN ctl' = [ctl EXCEPT !.at = "take_back", !.err = w.raised]
          ELSE IF w.read = "exact" /\ w.raised = "error" /\ Matches THEN Goes("terminal")
          ELSE ctl' = [ctl EXCEPT !.at = "conclude",
                         !.err = IF w.read = "interrupted" \/ (w.read = "exact" /\ w.raised = "interrupt" /\ Matches)
                                 THEN "interrupt" ELSE "error",
                         !.uncertain = IF w.read = "unreadable" /\ disk.at["final"] = "none" /\ ~disk.swapped
                                       THEN "unobserved" ELSE "observed"]
  /\ UNCHANGED <<enforcing, disk, stable, row, meddles>>

\* build_action_receipt raises.  Only a success receipt that was built and not
\* committed is followed by the receipt of a failure.
BuildFails ==
  /\ Pays(1)
  /\ \E kind \in Kinds :
       \/ ctl.at = "receipt" /\ ctl' = [ctl EXCEPT !.at = "take_back_silently", !.err = kind]
       \/ /\ ctl.at = "failure_receipt" \/ (ctl.at = "taken_back" /\ ctl.gone["final"])
          /\ ctl' = [ctl EXCEPT !.at = "conclude", !.err = kind,
                       !.uncertain = IF ctl.at = "failure_receipt" /\ ~ProvedGone THEN "observed" ELSE @]
  /\ UNCHANGED <<disk, stable>> /\ EffectStep

TakeBack ==
  /\ ctl.at \in {"take_back", "take_back_silently"}
  /\ Undo("final", IF ctl.at = "take_back" THEN "taken_back" ELSE "taken_back_silently")
  /\ EffectStep

RecordTakenBack ==
  /\ ctl.at = "taken_back"
  /\ \/ /\ ~ctl.gone["final"]
        /\ ctl' = [ctl EXCEPT !.at = "conclude", !.err = "error", !.uncertain = "observed"]
        /\ UNCHANGED <<ledger, faults>>
     \/ /\ ctl.gone["final"]
        /\ \E w \in Writes :
             /\ Pays(w.cost)
             /\ Writing(Event("receipt", IF ctl.err = "interrupt" THEN "cancelled" ELSE "failed"), w)
             /\ Concludes(w, "unobserved", TRUE)
  /\ UNCHANGED <<enforcing, disk, stable, row, meddles>>

TakenBackSilently ==
  /\ ctl.at = "taken_back_silently"
  /\ LET gone == ctl.gone["final"] /\ GoneAfter(disk, "staged")
     IN  ctl' = [ctl EXCEPT !.at = "conclude", !.uncertain = IF gone THEN @ ELSE "observed"]
  /\ Removes("staged")
  /\ UNCHANGED faults /\ EffectStep

Recheck ==
  /\ ctl.at = "recheck"
  /\ IF Matches THEN Goes("terminal")
     ELSE ctl' = [ctl EXCEPT !.at = "conclude", !.err = "error", !.uncertain = "observed"]
  /\ UNCHANGED <<disk, stable, faults>> /\ EffectStep

-----------------------------------------------------------------------------
\* The caller.

\* The terminal event of a run: its status, the phase it names, and whether it
\* says that an artifact was observed.
Ended(status, phase, observed) == [status |-> status, phase |-> phase, observed |-> observed]

\* _finalize_result ends the run; the publication stands if that fails.
RecordSucceeded ==
  /\ ctl.at = "terminal"
  /\ \E w \in Writes :
       /\ Pays(w.cost)
       /\ Writing(Event("terminal", Ended("SUCCEEDED", "result", "yes")), w)
       /\ IF Accepted(w) THEN Goes("end")
          ELSE ctl' = [ctl EXCEPT !.at = "conclude", !.err = RaisedBy(w), !.uncertain = "observed"]
  /\ UNCHANGED <<enforcing, disk, stable, row, meddles>>

\* The except clauses of run_chief_of_staff, in their order.
BrokenTerminalStatus ==
  CASE ctl.err \in {"stale", "blocked"} -> "BLOCKED"
    [] ctl.err = "invalid" -> "QUARANTINED"
    [] ctl.err = "interrupt" -> "CANCELLED"
    [] ctl.err = "error" -> IF ctl.uncertain # "none" THEN "QUARANTINED" ELSE "FAILED"

TerminalStatus ==
  CASE ctl.err \in {"stale", "blocked"} -> "BLOCKED"
    [] ctl.err = "invalid" -> "QUARANTINED"
    [] ctl.err \in Kinds /\ ctl.uncertain # "none" -> "QUARANTINED"
    [] ctl.err = "interrupt" /\ ctl.uncertain = "none" -> "CANCELLED"
    [] ctl.err = "error" /\ ctl.uncertain = "none" -> "FAILED"

TerminalPhase ==
  CASE ctl.err = "stale" -> "freshness"
    [] ctl.err = "blocked" -> "authorization"
    [] OTHER -> "finalization"

TerminalObserved ==
  IF ctl.err \notin Kinds THEN "unsaid" ELSE IF ctl.uncertain = "observed" THEN "yes" ELSE "no"

\* _best_effort_terminal_status: nothing when the run has ended or cannot be read.
Conclude ==
  /\ ctl.at = "conclude"
  /\ Goes("end")
  /\ \/ Recorded("terminal") # {} /\ UNCHANGED <<ledger, faults>>
     \/ Pays(1) /\ UNCHANGED ledger
     \/ /\ Recorded("terminal") = {}
        /\ \E w \in Writes :
             Pays(w.cost) /\ Writing(Event("terminal", Ended(TerminalStatus, TerminalPhase, TerminalObserved)), w)
  /\ UNCHANGED <<enforcing, disk, stable, row, meddles>>

-----------------------------------------------------------------------------
\* Everybody else.

Alive == ctl.at # "dead"

Meddle(d) ==
  /\ meddles < MaxMeddles /\ Alive
  /\ meddles' = meddles + 1
  /\ disk' = d
  /\ UNCHANGED <<enforcing, stable, ledger, row, ctl, faults>>

PlantFile == \E n \in Names : disk.at[n] = "none" /\ Meddle([disk EXCEPT !.at[n] = "other"])

DropName == \E n \in Names : disk.at[n] # "none" /\ Meddle([disk EXCEPT !.at[n] = "none"])

AddAlias == Links > 0 /\ disk.alias = 0 /\ Meddle([disk EXCEPT !.alias = 1])

SwapParent == Meddle([disk EXCEPT !.swapped = ~@])

\* The machine restarts: each name is as it was or as it was last synced.
LosePower ==
  /\ Alive
  /\ ctl' = [ctl EXCEPT !.at = "dead"]
  /\ \E at \in [Names -> Entries] :
       /\ \A n \in Names : at[n] \in {disk.at[n], stable.at[n]}
       /\ disk' = [disk EXCEPT !.at = at, !.whole = stable.whole]
  /\ stable' = [stable EXCEPT !.at = disk'.at]
  /\ UNCHANGED <<enforcing, ledger, row, faults, meddles>>

Init ==
  /\ enforcing \in BOOLEAN
  /\ disk = [at |-> [n \in Names |-> "none"], alias |-> 0, whole |-> FALSE, swapped |-> FALSE]
  /\ stable = [at |-> [n \in Names |-> "none"], whole |-> FALSE]
  /\ ledger = << >>
  /\ row = FALSE
  /\ ctl = [at |-> "shadow", err |-> "none", uncertain |-> "none", current |-> FALSE, identity |-> FALSE,
            learned |-> FALSE, anchored |-> FALSE, gone |-> [n \in Names |-> FALSE]]
  /\ faults = 0 /\ meddles = 0

Controller ==
  \/ Raises \/ ObserveShadow \/ Decide \/ RecordIntent \/ AssertFresh
  \/ OpenParent \/ CreateStaged \/ WriteStaged \/ CheckStaged \/ Unstage
  \/ SyncParent \/ RecordArtifact
  \/ LinkFinal \/ CheckLinked \/ UnlinkStaged \/ CheckUnlinked \/ UnlinkFinal \/ Verify
  \/ UndoFinal \/ UndoStaged \/ RecordFailure
  \/ RecordSuccess \/ BuildFails \/ TakeBack \/ RecordTakenBack \/ TakenBackSilently \/ Recheck
  \/ RecordSucceeded \/ Conclude

Environment == PlantFile \/ DropName \/ AddAlias \/ SwapParent \/ LosePower

Next == Controller \/ Environment

Spec == Init /\ [][Next]_vars

-----------------------------------------------------------------------------
\* The read-only inspection of these events (authorization_inspection.py).

Terminal == IF Recorded("terminal") = {} THEN Ended("RUNNING", "none", "unsaid")
            ELSE CHOOSE t \in Recorded("terminal") : TRUE

Permitted == Recorded("decision") = {"permit"}

\* _is_local_candidate_publication_freshness_stop
FreshnessStop == Permitted /\ Terminal = Ended("BLOCKED", "freshness", "unsaid")

PublicationExpected ==
  IF enforcing THEN Permitted
  ELSE Terminal.status = "SUCCEEDED" \/ \E type \in {"shadow", "intent", "receipt"} : Recorded(type) # {}

\* _inspect_task_action_terminal_linkage: the receipt, the status and what the
\* terminal event says of the artifact go together.
TerminalFits ==
  CASE Receipt = "none" -> TRUE
    [] Receipt = "succeeded" -> Terminal.status \in {"SUCCEEDED", "QUARANTINED"} /\ Terminal.observed = "yes" /\ row
    [] Receipt = "failed" -> Terminal.status \in {"FAILED", "QUARANTINED"} /\ Terminal.observed = "no"
    [] Receipt = "cancelled" -> Terminal.status \in {"CANCELLED", "QUARANTINED"} /\ Terminal.observed = "no"
    [] Receipt = "unknown" -> Terminal.status = "QUARANTINED" /\ Terminal.observed # "unsaid"

\* Does not ask for the receipt of an effect.
BrokenIssues ==
  {i \in {"effect_after_nonpermit", "pre_effect_missing", "action_orphaned", "terminal_mismatch"} :
     CASE i = "effect_after_nonpermit" -> enforcing /\ ~Permitted /\ Recorded("intent") # {}
       [] i = "pre_effect_missing" -> PublicationExpected /\ Recorded("intent") = {}
       [] i = "action_orphaned" -> Recorded("intent") = {} /\ Receipt # "none"
       [] i = "terminal_mismatch" -> ~TerminalFits}

\* _inspect_task_artifact_receipts and the two checks of the terminal event.
Issues ==
  {i \in {"effect_after_nonpermit", "pre_effect_missing", "action_missing", "action_orphaned",
          "metadata_unlinked", "artifact_mismatch", "terminal_mismatch", "terminal_invalid"} :
     CASE i = "effect_after_nonpermit" ->
            enforcing /\ ~Permitted /\ (Recorded("intent") # {} \/ Receipt # "none" \/ row)
       [] i = "pre_effect_missing" -> PublicationExpected /\ Recorded("intent") = {}
       [] i = "action_missing" -> PublicationExpected /\ ~FreshnessStop /\ Receipt = "none"
       [] i = "action_orphaned" -> Recorded("intent") = {} /\ Receipt # "none"
       [] i = "metadata_unlinked" -> row /\ Receipt = "none"
       [] i = "artifact_mismatch" -> Receipt = "succeeded" /\ ~row
       [] i = "terminal_mismatch" -> ~TerminalFits
       [] i = "terminal_invalid" -> Receipt = "succeeded" /\ Terminal.status # "SUCCEEDED"}

-----------------------------------------------------------------------------
\* The run ended, or the machine did.
Over == ctl.at \in {"end", "dead"}

OwnAt(at) == \E n \in Names : at[n] = "own"

\* A link of the controller's file exists, or comes back after a loss of power.
\* (A link made elsewhere counts if the controller ever learned the identity of
\* its file: one it created and could not look at may be renamed unnoticed.)
Exists == OwnAt(disk.at) \/ OwnAt(stable.at) \/ (ctl.learned /\ disk.alias > 0)

\* The state of the publication at every step: a directory, what is stable of
\* it, an append-only list of events, and a bounded number of disturbances.
TypeOK ==
  /\ disk \in [at : [Names -> Entries], alias : {0, 1}, whole : BOOLEAN, swapped : BOOLEAN]
  /\ stable \in [at : [Names -> Entries], whole : BOOLEAN]
  /\ row \in BOOLEAN /\ enforcing \in BOOLEAN
  /\ ctl.err \in Kinds \cup {"none", "invalid", "blocked", "stale"}
  /\ ctl.uncertain \in {"none", "observed", "unobserved"}
  /\ faults \in 0..MaxFaults /\ meddles \in 0..MaxMeddles
  /\ Len(ledger) <= 5

\* The controller's bytes never have a name before the intent is on record and,
\* for a current attempt, before a permit is on record that was still current
\* when the effect began.
EffectsFollowIntent ==
  Exists =>
    /\ Recorded("intent") # {}
    /\ enforcing => Permitted /\ ctl.current

\* A receipt that says the publication failed or was cancelled is a proof: no
\* name leads to the file, nor will one after a restart, whatever other programs
\* did to the directory meanwhile.
DeniedMeansGone == Receipt \in {"failed", "cancelled"} => ~Exists

\* A succeeded receipt is never taken back: while no other program touches the
\* directory, the whole file and its final name are on stable storage, and the
\* controller will not remove them.
SucceededIsDurable ==
  Receipt = "succeeded" /\ meddles = 0 =>
    disk.at["final"] = "own" /\ disk.whole /\ stable.at["final"] = "own" /\ stable.whole

\* One publication has one receipt, and a run ends once.
OneVerdict ==
  \A type \in {"intent", "receipt", "terminal"} : Cardinality({i \in DOMAIN ledger : ledger[i].type = type}) <= 1

\* A run that is on record as succeeded has the receipt and the metadata of its
\* artifact; one whose receipt is unknown, or whose controller could not settle
\* the receipt, is quarantined and nothing else.
TerminalTellsTheEffect ==
  /\ Terminal.status = "SUCCEEDED" => Receipt = "succeeded" /\ row
  /\ Receipt = "unknown" => Terminal.status \in {"RUNNING", "QUARANTINED"}
  /\ Terminal.status \in {"FAILED", "CANCELLED", "BLOCKED"} => Receipt # "succeeded"

\* The events of a publication tell its effect: the intent comes first, there is
\* one receipt at most, success is durable and denial certain, and the end of the
\* run fits it.
LedgerTellsTheEffect ==
  /\ TypeOK
  /\ EffectsFollowIntent /\ SucceededIsDurable /\ DeniedMeansGone
  /\ OneVerdict /\ TerminalTellsTheEffect

\* A file left behind does not pass the inspection: if the run is over and
\* neither succeeded nor quarantined, the file is gone or an issue is raised.
NoSilentLeftover ==
  Over /\ Issues = {} /\ Terminal.status \notin {"SUCCEEDED", "QUARANTINED"} => ~Exists

\* What the controller writes undisturbed, the inspection accepts.
UndisturbedIsClean == ctl.at = "end" /\ faults = 0 /\ meddles = 0 => Issues = {}

\* The inspection raises an issue exactly where one is due.
InspectionIsRight == NoSilentLeftover /\ UndisturbedIsClean

\* What the ledger says of the file, all failures and meddling included, is what
\* the contract promises.
Contract ==
  INSTANCE PublicationContract WITH
    intended <- Recorded("intent") # {}, linked <- Exists, verdict <- Receipt

KeepsContract == Contract!Spec

=============================================================================
