-------------------------- MODULE ProposalBinding --------------------------
(***************************************************************************)
(* bind_repository_proposal_attempt of repository_proposal.py, run by      *)
(* several processes against one run of a shared store.                    *)
(*                                                                         *)
(* A binder reads the run's history in one snapshot, appends the           *)
(* selection and the binding it misses, each fenced on exactly the         *)
(* history it has read, reads every append back, and hands out evidence    *)
(* only for a history of exactly three events.  Between any two of its     *)
(* transactions other binders and other writers of the store may commit;   *)
(* an append may fail, commit without saying so, or be interrupted; a      *)
(* caller whose call failed may make it again with the same arguments.     *)
(* A wish stands for the proposal digest and the registration evidence,    *)
(* of which the digests of both events are functions.                      *)
(***************************************************************************)
EXTENDS RunLedger, FiniteSets

CONSTANTS
  Binders,     \* the processes that bind the run
  Wishes,      \* what a caller may ask for
  MaxFaults,   \* bound on failures of the store and interruptions
  MaxRetries,  \* bound on the calls a binder makes after its first
  MaxForeign   \* bound on events of other writers of the run

ASSUME BindingAssumption ==
  /\ {MaxFaults, MaxRetries, MaxForeign} \subseteq Nat
  /\ Wishes # {}

VARIABLES
  run,       \* whether the run exists and is made for the proposal runner
  history,   \* the events of the run, <<>> before it exists
  wish,      \* the arguments of each binder's call
  pc,        \* where each binder is
  read,      \* the history each binder's last snapshot returned
  result,    \* how each binder's latest call ended
  evidence,  \* the wishes each binder holds evidence for, over all its calls
  faults, retries, foreign  \* how much of each bound is used

callers == <<wish, pc, read, result, evidence>>
vars == <<run, history, callers, faults, retries, foreign>>

Stages == {"idle", "selection", "binding", "confirm", "settle", "reread", "done"}
Results == {"none", "bound", "invalid", "persistence", "interrupted"}

NoWish == "none"
Created == [type |-> "status", status |-> "created", of |-> NoWish]
Selection(w) == [type |-> "selection", status |-> NoStatus, of |-> w]
Binding(w) == [type |-> "binding", status |-> NoStatus, of |-> w]
Lineage(w) == <<Created, Selection(w), Binding(w)>>
ForeignEvents ==
  {[type |-> "status", status |-> s, of |-> NoWish] : s \in {"running", "cancelled"}}
    \cup {[type |-> "note", status |-> NoStatus, of |-> NoWish]}

Init ==
  /\ run = "absent"
  /\ history = <<>>
  /\ wish \in [Binders -> Wishes]
  /\ pc = [b \in Binders |-> "idle"]
  /\ read = [b \in Binders |-> <<>>]
  /\ result = [b \in Binders |-> "none"]
  /\ evidence = [b \in Binders |-> {}]
  /\ faults = 0
  /\ retries = [b \in Binders |-> 0]
  /\ foreign = 0

-----------------------------------------------------------------------------
(* The store's other callers.                                              *)

CreateRun ==
  /\ run = "absent"
  /\ run' \in {"proposal", "other"}
  /\ history' = <<Created>>
  /\ UNCHANGED <<callers, faults, retries, foreign>>

AppendForeign ==
  /\ foreign < MaxForeign
  /\ \E event \in ForeignEvents :
       /\ Appends(history, event)
       /\ history' = Append(history, event)
  /\ foreign' = foreign + 1
  /\ UNCHANGED <<run, callers, faults, retries>>

-----------------------------------------------------------------------------
(* One call of a binder.                                                   *)

Fault == faults < MaxFaults /\ faults' = faults + 1
NoFault == UNCHANGED faults

Finish(b, outcome) ==
  /\ pc' = [pc EXCEPT ![b] = "done"]
  /\ result' = [result EXCEPT ![b] = outcome]

\* (defect) The selection read back is taken for this call's, whoever wrote it.
BrokenAcceptable(h, w) == h # <<>> /\ h[1] = Created /\ CurrentStatus(h) = "created"

\* A history the binder may go on from: created first and never again given
\* a status, nothing foreign, at most one selection and one binding in this
\* order, and both for the wish of this call.
Acceptable(h, w) ==
  /\ h # <<>>
  /\ h[1] = Created
  /\ Bearing(h) = {1} /\ Rows(h, "status") = {1}
  /\ \A i \in DOMAIN h : h[i].type \in {"status", "selection", "binding"}
  /\ AtMostOne(Rows(h, "selection")) /\ AtMostOne(Rows(h, "binding"))
  /\ \A i \in Rows(h, "selection") : h[i] = Selection(w)
  /\ \A i \in Rows(h, "binding") :
        h[i] = Binding(w) /\ \E j \in Rows(h, "selection") : j < i

\* The event a history still misses.
Missing(h) ==
  IF Rows(h, "selection") = {} THEN "selection"
  ELSE IF Rows(h, "binding") = {} THEN "binding"
  ELSE "none"

EventFor(type, w) == IF type = "selection" THEN Selection(w) ELSE Binding(w)

\* Evidence is built from a history of exactly the three events.
Conclude(b, h) ==
  /\ IF Len(h) = 3
     THEN /\ Finish(b, "bound")
          /\ evidence' = [evidence EXCEPT ![b] = @ \cup {h[3].of}]
     ELSE Finish(b, "invalid") /\ UNCHANGED evidence

\* (defect) The snapshot that follows an append must show nothing but that append.
BrokenContinue(b, appended) ==
  /\ read' = [read EXCEPT ![b] = history]
  /\ IF \/ run # "proposal" \/ ~ Acceptable(history, wish[b]) \/ Missing(history) = appended
        \/ appended # "nothing" /\ Len(history) # Len(read[b]) + 1
     THEN Finish(b, "invalid") /\ UNCHANGED evidence
     ELSE IF Missing(history) = "none"
     THEN Conclude(b, history)
     ELSE /\ pc' = [pc EXCEPT ![b] = Missing(history)]
          /\ UNCHANGED <<result, evidence>>

\* Going on from an acceptable snapshot, or refusing one that is not, or one
\* that still misses the event just appended.
Continue(b, appended) ==
  /\ read' = [read EXCEPT ![b] = history]
  /\ IF run # "proposal" \/ ~ Acceptable(history, wish[b]) \/ Missing(history) = appended
     THEN Finish(b, "invalid") /\ UNCHANGED evidence
     ELSE IF Missing(history) = "none"
     THEN Conclude(b, history)
     ELSE /\ pc' = [pc EXCEPT ![b] = Missing(history)]
          /\ UNCHANGED <<result, evidence>>

Unread(b) == Fault /\ Finish(b, "persistence") /\ UNCHANGED <<read, evidence>>

Start(b) ==
  /\ pc[b] = "idle"
  /\ (NoFault /\ Continue(b, "nothing")) \/ Unread(b)
  /\ UNCHANGED <<run, history, wish, retries, foreign>>

\* The append is fenced on the history that was read.  A store that fails may
\* do so before or after its commit, and an interruption ends the call
\* whichever it was.
AppendOnce(b) ==
  LET event == EventFor(pc[b], wish[b])
      accepted == AppendsOnce(history, event, "created", read[b])
  IN /\ pc[b] \in {"selection", "binding"}
     /\ \/ /\ accepted
           /\ history' = Append(history, event)
           /\ \/ NoFault /\ pc' = [pc EXCEPT ![b] = "confirm"] /\ UNCHANGED result
              \/ Fault /\ pc' = [pc EXCEPT ![b] = "settle"] /\ UNCHANGED result
              \/ Fault /\ Finish(b, "interrupted")
        \/ /\ UNCHANGED history
           /\ \/ /\ IF accepted THEN Fault ELSE NoFault
                 /\ pc' = [pc EXCEPT ![b] = "settle"]
                 /\ UNCHANGED result
              \/ Fault /\ Finish(b, "interrupted")
     /\ UNCHANGED <<run, wish, read, evidence, retries, foreign>>

\* The event the binder was appending when it went to read it back.
Pending(b) == EventFor(Missing(read[b]), wish[b])

\* Only the one event of its type, equal to the one wanted, settles an append.
ReadBack(b) ==
  /\ \E i \in DOMAIN history : history[i] = Pending(b)
  /\ AtMostOne(Rows(history, Pending(b).type))

Confirm(b) ==
  /\ pc[b] \in {"confirm", "settle"}
  /\ \/ NoFault /\ IF ReadBack(b)
                   THEN pc' = [pc EXCEPT ![b] = "reread"] /\ UNCHANGED result
                   ELSE Finish(b, "persistence")
     \/ Fault /\ Finish(b, "persistence")
  /\ UNCHANGED <<run, history, wish, read, evidence, retries, foreign>>

Reread(b) ==
  /\ pc[b] = "reread"
  /\ (NoFault /\ Continue(b, Missing(read[b]))) \/ Unread(b)
  /\ UNCHANGED <<run, history, wish, retries, foreign>>

\* A process may die between any two of its transactions.
Die(b) ==
  /\ pc[b] \notin {"idle", "done"}
  /\ Fault
  /\ Finish(b, "interrupted")
  /\ UNCHANGED <<run, history, wish, read, evidence, retries, foreign>>

\* The caller asks again for the same, or for something else.
Retry(b) ==
  /\ pc[b] = "done"
  /\ retries[b] < MaxRetries
  /\ retries' = [retries EXCEPT ![b] = @ + 1]
  /\ wish' \in {[wish EXCEPT ![b] = w] : w \in Wishes}
  /\ pc' = [pc EXCEPT ![b] = "idle"]
  /\ result' = [result EXCEPT ![b] = "none"]
  /\ UNCHANGED <<run, history, read, evidence, faults, foreign>>

Call(b) == Start(b) \/ AppendOnce(b) \/ Confirm(b) \/ Reread(b)

BindingNext ==
  CreateRun \/ AppendForeign \/ \E b \in Binders : Call(b) \/ Die(b) \/ Retry(b)

Spec == Init /\ [][BindingNext]_vars

-----------------------------------------------------------------------------
(* What must hold.                                                         *)

TypeOK ==
  /\ run \in {"absent", "proposal", "other"}
  /\ Len(history) <= 3 + MaxForeign
  /\ wish \in [Binders -> Wishes]
  /\ pc \in [Binders -> Stages]
  /\ result \in [Binders -> Results]
  /\ evidence \in [Binders -> SUBSET Wishes]
  /\ \A b \in Binders : pc[b] = "done" <=> result[b] # "none"

\* However the binders' transactions interleave, fail and are repeated, the
\* events they leave in the ledger are one lineage: a selection directly
\* after the run's creation and a binding for the same wish directly after
\* the selection, and none of them once another writer has touched the run.
OneLineage ==
  \A i \in DOMAIN history :
    /\ history[i].type = "selection" => i = 2
    /\ history[i].type = "binding" => i = 3 /\ history[2] = Selection(history[3].of)

\* Whoever holds evidence, from whichever of its calls, can point at the
\* ledger: the run starts with the whole lineage it was told of, and a call
\* that succeeded was told of the one it asked for.
EvidenceIsDurable ==
  \A b \in Binders :
    /\ \A w \in evidence[b] : IsPrefix(Lineage(w), history)
    /\ result[b] = "bound" => wish[b] \in evidence[b]

\* Callers who ask for the same never spoil each other's calls: while the
\* store works and nobody else writes to the run, each call that ends on a
\* proposal run ends with evidence, although only one of them wrote each event.
SameWishConverges ==
  (/\ run = "proposal"
   /\ faults = 0
   /\ foreign = 0
   /\ \A b \in Binders : retries[b] = 0
   /\ \A b, c \in Binders : wish[b] = wish[c])
    => \A b \in Binders : result[b] \in {"none", "bound", "invalid"} /\
         (result[b] = "invalid" => read[b] = <<>>)

\* Rivals cannot starve each other out: once all first calls on a proposal
\* run have ended undisturbed, at least one of those that saw the run holds
\* evidence.
SomeRivalWins ==
  (/\ run = "proposal"
   /\ faults = 0
   /\ foreign = 0
   /\ \A b \in Binders : retries[b] = 0 /\ pc[b] = "done"
   /\ \E b \in Binders : read[b] # <<>>)
    => \E b \in Binders : result[b] = "bound"

\* However many callers race, whoever should get evidence does.
CallersConverge ==
  TypeOK /\ OneLineage /\ EvidenceIsDurable /\ SameWishConverges /\ SomeRivalWins

\* The contract's register, read off the ledger.
Register ==
  IF Len(history) >= 3 /\ history[3].type = "binding"
  THEN [step |-> "bound", wish |-> history[3].of]
  ELSE IF Len(history) >= 2 /\ history[2].type = "selection"
  THEN [step |-> "selected", wish |-> history[2].of]
  ELSE [step |-> "open"]

Contract == INSTANCE ProposalContract WITH lineage <- Register, told <- evidence

\* The calls implement the write-once register of the contract.
KeepsContract == Contract!Spec

=============================================================================
