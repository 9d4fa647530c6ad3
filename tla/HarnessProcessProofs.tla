------------------------ MODULE HarnessProcessProofs ------------------------
(***************************************************************************)
(* Proofs about HarnessProcess: whoever says that the processes of a       *)
(* harness are gone tells the truth, and a cancellation is not lost, for   *)
(* every number of cancellers and of descendants.                          *)
(***************************************************************************)
EXTENDS HarnessProcess, SequenceTheorems, TLAPS

\* Before the child is created there is nothing to clean up.
Unborn ==
  owner.at \in {"start", "creating"} =>
    /\ leader = "none" /\ kids = 0 /\ ~told
    /\ cleanup = NoCleanup

\* The run is known to its cancellers while it runs and is collected.
ActiveWhileOwned == active <=> owner.at \in {"running", "collect"}

\* Which signals the cleanup has sent, by where it is.
Escalation ==
  /\ cleanup.at \in {"none", "presence", "identity", "wait_early", "term"} =>
       cleanup.term = "unsent"
  /\ cleanup.at \in {"identity_again", "kill", "wait_kill"} => cleanup.term = "sent"
  /\ cleanup.at = "wait_term" => cleanup.term # "unsent"
  /\ cleanup.kill => cleanup.at \in {"wait_kill", "done"} /\ cleanup.term = "sent"
  /\ sent = IF cleanup.term # "sent" THEN <<>>
            ELSE IF cleanup.kill THEN <<"TERM", "KILL">> ELSE <<"TERM">>

\* Only a cleanup that is over has a result, and one that killed says so.
ResultIsEarned ==
  /\ cleanup.at # "done" => cleanup.result = NoResult
  /\ cleanup.result.reason = "already_exited" => ~cleanup.kill

\* A known outcome is past a verified cleanup that it waited for.
KnownIsVerified ==
  owner.at \in {"postflight", "result"} /\ ~owner.unknown =>
    /\ Gone
    /\ cleanup.at = "done"
    /\ ~owner.timedOut /\ ~owner.cancelled => ~cleanup.kill

\* The execute task does not pass its cleanup by.
CleanupIsAwaited == owner.at = "postflight" \/ Ended => cleanup.at \in {"none", "done"}

\* Where a cancellation of the execute task is kept until it is raised.
CancellationIsKept ==
  owner.hit =>
    /\ owner.at \notin {"start", "running"}
    /\ owner.at \in {"creating", "launch_cleanup"} => owner.deferred = "cancel"
    /\ owner.at = "collect" => owner.why = "interrupt" \/ owner.deferred = "cancel"
    /\ owner.at \in {"postflight", "result"} => owner.unknown

\* TypeOK, one variable after the other.
GroupType ==
  /\ leader \in {"none", "alive", "zombie", "gone"}
  /\ kids \in 0 .. MaxKids
  /\ told \in BOOLEAN /\ active \in BOOLEAN /\ requested \in BOOLEAN
CleanupType ==
  cleanup \in [at : Places, term : {"unsent", "sent", "absent"}, kill : BOOLEAN,
               result : Results]
OwnerType ==
  owner \in [at : {"start", "creating", "launch_cleanup", "running", "collect",
                   "postflight", "result", "raised"},
             why : {"none", "vanished", "unverified", "exit", "limit", "error",
                    "timeout", "interrupt"},
             deferred : {"no", "timeout", "cancel"},
             hit : BOOLEAN, unknown : BOOLEAN, timedOut : BOOLEAN, cancelled : BOOLEAN]
CallerType ==
  caller \in [Cancellers ->
       [at : {"idle", "collecting", "waiting", "returned", "failed", "cancelled"},
        via : {"none", "collecting", "waiting"}, deferred : BOOLEAN]]

HarnessInv ==
  /\ GroupType /\ CleanupType /\ OwnerType /\ CallerType
  /\ Unborn /\ ActiveWhileOwned
  /\ Escalation /\ ResultIsEarned
  /\ VerifiedMeansGone /\ KnownIsVerified /\ JoinedCancelIsVerified
  /\ CleanupIsAwaited /\ CancellationIsKept

LEMMA AppendSecond == ASSUME NEW a, NEW b PROVE Append(<<a>>, b) = <<a, b>>
<1> DEFINE one == <<a>>
           two == <<a, b>>
<1>1. one \in Seq({a, b}) /\ two \in Seq({a, b})
  OBVIOUS
<1>2. Len(one) = 1 /\ one[1] = a /\ Len(two) = 2 /\ two[1] = a /\ two[2] = b
  OBVIOUS
<1>3. 1 .. 2 = {1, 2}
  OBVIOUS
<1> HIDE DEF one, two
<1>4. b \in {a, b}
  OBVIOUS
<1>6. /\ Append(one, b) \in Seq({a, b})
      /\ Len(Append(one, b)) = Len(one) + 1
      /\ \A i \in 1 .. Len(one) : Append(one, b)[i] = one[i]
      /\ Append(one, b)[Len(one) + 1] = b
  BY <1>1, <1>4, AppendProperties
<1>7. Len(Append(one, b)) = 2 /\ Append(one, b)[1] = a /\ Append(one, b)[2] = b
  BY <1>2, <1>6
<1>5. Append(one, b) = two
  BY <1>1, <1>2, <1>3, <1>6, <1>7, SeqEqual
<1> QED
  BY <1>5 DEF one, two

USE DEF NoCleanup, NoResult, Uncertain, Awaiting, Places, Results

-----------------------------------------------------------------------------
(* The invariant says what the properties say.                             *)

LEMMA InvariantStartsOut == Init => HarnessInv
<1> SUFFICES ASSUME Init PROVE HarnessInv
  OBVIOUS
<1>1. GroupType /\ CleanupType /\ OwnerType /\ CallerType
  <2>1. GroupType
    <3>1. 0 \in 0 .. MaxKids
      BY HarnessAssumption
    <3> QED
      BY <3>1 DEF Init, GroupType
  <2>2. CleanupType
    BY DEF Init, CleanupType
  <2>3. OwnerType
    BY DEF Init, OwnerType
  <2>4. CallerType
    BY DEF Init, CallerType
  <2> QED
    BY <2>1, <2>2, <2>3, <2>4
<1>2. Unborn /\ ActiveWhileOwned /\ CancellationIsKept
  BY DEF Init, Unborn, ActiveWhileOwned, CancellationIsKept
<1>3. Escalation /\ ResultIsEarned /\ VerifiedMeansGone
  BY DEF Init, Escalation, ResultIsEarned, VerifiedMeansGone
<1>4. KnownIsVerified /\ JoinedCancelIsVerified /\ CleanupIsAwaited
  BY DEF Init, KnownIsVerified, JoinedCancelIsVerified, CleanupIsAwaited, Ended
<1> QED
  BY <1>1, <1>2, <1>3, <1>4 DEF HarnessInv

LEMMA InvariantTellsTheTruth == HarnessInv => ReportedGoneIsGone
<1> SUFFICES ASSUME HarnessInv PROVE ReportedGoneIsGone
  OBVIOUS
<1>1. TypeOK
  BY DEF HarnessInv, TypeOK, GroupType, CleanupType, OwnerType, CallerType
<1>2. OneEscalation
  BY DEF HarnessInv, OneEscalation, Escalation
<1>3. KnownMeansGone
  BY DEF HarnessInv, KnownMeansGone, KnownIsVerified
<1>4. KnownExitWasNotKilled
  BY DEF HarnessInv, KnownExitWasNotKilled, OrdinaryResult, KnownIsVerified, Escalation
<1> QED
  BY <1>1, <1>2, <1>3, <1>4 DEF HarnessInv, ReportedGoneIsGone

LEMMA InvariantDefersInterruptions == HarnessInv => InterruptionIsDeferred
  BY DEF HarnessInv, OwnerType, InterruptionIsDeferred, NoCleanupLeftBehind,
         CancellationIsNotLost, CleanupIsAwaited, CancellationIsKept, Ended

-----------------------------------------------------------------------------
(* The processes.                                                          *)

LEMMA LeaderExitsKeeps ==
  ASSUME HarnessInv, LeaderExits
  PROVE  HarnessInv'
<1>1. GroupType'
  BY HarnessAssumption DEF HarnessInv, LeaderExits, GroupType
<1>2. CleanupType'
  BY DEF HarnessInv, LeaderExits, CleanupType
<1>3. OwnerType'
  BY DEF HarnessInv, LeaderExits, OwnerType
<1>4. CallerType'
  BY DEF HarnessInv, LeaderExits, CallerType
<1>5. Unborn'
  BY DEF HarnessInv, LeaderExits, Unborn, OwnerType, CleanupType
<1>6. ActiveWhileOwned'
  BY DEF HarnessInv, LeaderExits, ActiveWhileOwned, OwnerType
<1>7. Escalation'
  BY DEF HarnessInv, LeaderExits, Escalation, CleanupType
<1>8. ResultIsEarned'
  BY DEF HarnessInv, LeaderExits, ResultIsEarned, CleanupType
<1>9. VerifiedMeansGone'
  BY DEF HarnessInv, LeaderExits, VerifiedMeansGone, CleanupType, Gone, Unborn
<1>10. KnownIsVerified'
  BY DEF HarnessInv, LeaderExits, KnownIsVerified, CleanupType, OwnerType, Gone, VerifiedMeansGone, ResultIsEarned
<1>11. JoinedCancelIsVerified'
  BY DEF HarnessInv, LeaderExits, JoinedCancelIsVerified, CallerType, Gone
<1>12. CleanupIsAwaited'
  BY DEF HarnessInv, LeaderExits, CleanupIsAwaited, CleanupType, OwnerType, Ended
<1>13. CancellationIsKept'
  BY DEF HarnessInv, LeaderExits, CancellationIsKept, OwnerType
<1> QED
  BY <1>1, <1>2, <1>3, <1>4, <1>5, <1>6, <1>7, <1>8, <1>9, <1>10, <1>11, <1>12, <1>13 DEF HarnessInv

LEMMA ReapKeeps ==
  ASSUME HarnessInv, Reap
  PROVE  HarnessInv'
<1>1. GroupType'
  BY HarnessAssumption DEF HarnessInv, Reap, GroupType
<1>2. CleanupType'
  BY DEF HarnessInv, Reap, CleanupType
<1>3. OwnerType'
  BY DEF HarnessInv, Reap, OwnerType
<1>4. CallerType'
  BY DEF HarnessInv, Reap, CallerType
<1>5. Unborn'
  BY DEF HarnessInv, Reap, Unborn, OwnerType, CleanupType
<1>6. ActiveWhileOwned'
  BY DEF HarnessInv, Reap, ActiveWhileOwned, OwnerType
<1>7. Escalation'
  BY DEF HarnessInv, Reap, Escalation, CleanupType
<1>8. ResultIsEarned'
  BY DEF HarnessInv, Reap, ResultIsEarned, CleanupType
<1>9. VerifiedMeansGone'
  BY DEF HarnessInv, Reap, VerifiedMeansGone, CleanupType, Gone, Unborn
<1>10. KnownIsVerified'
  BY DEF HarnessInv, Reap, KnownIsVerified, CleanupType, OwnerType, Gone, VerifiedMeansGone, ResultIsEarned
<1>11. JoinedCancelIsVerified'
  BY DEF HarnessInv, Reap, JoinedCancelIsVerified, CallerType, Gone
<1>12. CleanupIsAwaited'
  BY DEF HarnessInv, Reap, CleanupIsAwaited, CleanupType, OwnerType, Ended
<1>13. CancellationIsKept'
  BY DEF HarnessInv, Reap, CancellationIsKept, OwnerType
<1> QED
  BY <1>1, <1>2, <1>3, <1>4, <1>5, <1>6, <1>7, <1>8, <1>9, <1>10, <1>11, <1>12, <1>13 DEF HarnessInv

LEMMA HearKeeps ==
  ASSUME HarnessInv, Hear
  PROVE  HarnessInv'
<1>1. GroupType'
  BY HarnessAssumption DEF HarnessInv, Hear, GroupType, LoopIsFree
<1>2. CleanupType'
  BY DEF HarnessInv, Hear, LoopIsFree, CleanupType
<1>3. OwnerType'
  BY DEF HarnessInv, Hear, LoopIsFree, OwnerType
<1>4. CallerType'
  BY DEF HarnessInv, Hear, LoopIsFree, CallerType
<1>5. Unborn'
  BY DEF HarnessInv, Hear, LoopIsFree, Unborn, OwnerType, CleanupType
<1>6. ActiveWhileOwned'
  BY DEF HarnessInv, Hear, LoopIsFree, ActiveWhileOwned, OwnerType
<1>7. Escalation'
  BY DEF HarnessInv, Hear, LoopIsFree, Escalation, CleanupType
<1>8. ResultIsEarned'
  BY DEF HarnessInv, Hear, LoopIsFree, ResultIsEarned, CleanupType
<1>9. VerifiedMeansGone'
  BY DEF HarnessInv, Hear, LoopIsFree, VerifiedMeansGone, CleanupType, Gone, Unborn
<1>10. KnownIsVerified'
  BY DEF HarnessInv, Hear, LoopIsFree, KnownIsVerified, CleanupType, OwnerType, Gone, VerifiedMeansGone, ResultIsEarned
<1>11. JoinedCancelIsVerified'
  BY DEF HarnessInv, Hear, LoopIsFree, JoinedCancelIsVerified, CallerType, Gone
<1>12. CleanupIsAwaited'
  BY DEF HarnessInv, Hear, LoopIsFree, CleanupIsAwaited, CleanupType, OwnerType, Ended
<1>13. CancellationIsKept'
  BY DEF HarnessInv, Hear, LoopIsFree, CancellationIsKept, OwnerType
<1> QED
  BY <1>1, <1>2, <1>3, <1>4, <1>5, <1>6, <1>7, <1>8, <1>9, <1>10, <1>11, <1>12, <1>13 DEF HarnessInv

LEMMA ForkKeeps ==
  ASSUME HarnessInv, Fork
  PROVE  HarnessInv'
<1>1. GroupType'
  BY HarnessAssumption DEF HarnessInv, Fork, GroupType
<1>2. CleanupType'
  BY DEF HarnessInv, Fork, CleanupType
<1>3. OwnerType'
  BY DEF HarnessInv, Fork, OwnerType
<1>4. CallerType'
  BY DEF HarnessInv, Fork, CallerType
<1>5. Unborn'
  BY DEF HarnessInv, Fork, Unborn, OwnerType, CleanupType
<1>6. ActiveWhileOwned'
  BY DEF HarnessInv, Fork, ActiveWhileOwned, OwnerType
<1>7. Escalation'
  BY DEF HarnessInv, Fork, Escalation, CleanupType
<1>8. ResultIsEarned'
  BY DEF HarnessInv, Fork, ResultIsEarned, CleanupType
<1>9. VerifiedMeansGone'
  BY DEF HarnessInv, Fork, VerifiedMeansGone, CleanupType, Gone, Unborn
<1>10. KnownIsVerified'
  BY DEF HarnessInv, Fork, KnownIsVerified, CleanupType, OwnerType, Gone, VerifiedMeansGone, ResultIsEarned
<1>11. JoinedCancelIsVerified'
  BY DEF HarnessInv, Fork, JoinedCancelIsVerified, CallerType, Gone
<1>12. CleanupIsAwaited'
  BY DEF HarnessInv, Fork, CleanupIsAwaited, CleanupType, OwnerType, Ended
<1>13. CancellationIsKept'
  BY DEF HarnessInv, Fork, CancellationIsKept, OwnerType
<1> QED
  BY <1>1, <1>2, <1>3, <1>4, <1>5, <1>6, <1>7, <1>8, <1>9, <1>10, <1>11, <1>12, <1>13 DEF HarnessInv

LEMMA KidLeavesKeeps ==
  ASSUME HarnessInv, KidLeaves
  PROVE  HarnessInv'
<1>1. GroupType'
  BY HarnessAssumption DEF HarnessInv, KidLeaves, GroupType
<1>2. CleanupType'
  BY DEF HarnessInv, KidLeaves, CleanupType
<1>3. OwnerType'
  BY DEF HarnessInv, KidLeaves, OwnerType
<1>4. CallerType'
  BY DEF HarnessInv, KidLeaves, CallerType
<1>5. Unborn'
  BY DEF HarnessInv, KidLeaves, Unborn, OwnerType, CleanupType
<1>6. ActiveWhileOwned'
  BY DEF HarnessInv, KidLeaves, ActiveWhileOwned, OwnerType
<1>7. Escalation'
  BY DEF HarnessInv, KidLeaves, Escalation, CleanupType
<1>8. ResultIsEarned'
  BY DEF HarnessInv, KidLeaves, ResultIsEarned, CleanupType
<1>9. VerifiedMeansGone'
  BY DEF HarnessInv, KidLeaves, VerifiedMeansGone, CleanupType, Gone, Unborn
<1>10. KnownIsVerified'
  BY DEF HarnessInv, KidLeaves, KnownIsVerified, CleanupType, OwnerType, Gone, VerifiedMeansGone, ResultIsEarned
<1>11. JoinedCancelIsVerified'
  BY DEF HarnessInv, KidLeaves, JoinedCancelIsVerified, CallerType, Gone
<1>12. CleanupIsAwaited'
  BY DEF HarnessInv, KidLeaves, CleanupIsAwaited, CleanupType, OwnerType, Ended
<1>13. CancellationIsKept'
  BY DEF HarnessInv, KidLeaves, CancellationIsKept, OwnerType
<1> QED
  BY <1>1, <1>2, <1>3, <1>4, <1>5, <1>6, <1>7, <1>8, <1>9, <1>10, <1>11, <1>12, <1>13 DEF HarnessInv

-----------------------------------------------------------------------------
(* The cleanup.                                                            *)

\* The cleanup goes on without a signal.
LEMMA MoveKeeps ==
  ASSUME HarnessInv, NEW a \in Places, CleanupStep, UNCHANGED sent,
         cleanup' = [cleanup EXCEPT !.at = a],
         \/ /\ cleanup.at \in {"presence", "identity"}
            /\ a \in {"identity", "wait_early", "term"}
         \/ /\ cleanup.at \in {"wait_term", "identity_again"} /\ cleanup.term = "sent"
            /\ a \in {"identity_again", "kill"}
  PROVE  HarnessInv'
<1>1. GroupType'
  BY DEF HarnessInv, CleanupStep, GroupType
<1>2. CleanupType'
  BY DEF HarnessInv, CleanupStep, CleanupType
<1>3. OwnerType'
  BY DEF HarnessInv, CleanupStep, OwnerType
<1>4. CallerType'
  BY DEF HarnessInv, CleanupStep, CallerType
<1>5. Unborn'
  BY DEF HarnessInv, CleanupStep, Unborn, OwnerType, CleanupType
<1>6. ActiveWhileOwned'
  BY DEF HarnessInv, CleanupStep, ActiveWhileOwned, OwnerType
<1>7. Escalation'
  BY DEF HarnessInv, CleanupStep, Escalation, CleanupType
<1>8. ResultIsEarned'
  BY DEF HarnessInv, CleanupStep, ResultIsEarned, CleanupType
<1>9. VerifiedMeansGone'
  BY DEF HarnessInv, CleanupStep, VerifiedMeansGone, CleanupType, Gone, Unborn
<1>10. KnownIsVerified'
  BY DEF HarnessInv, CleanupStep, KnownIsVerified, CleanupType, OwnerType, Gone, VerifiedMeansGone, ResultIsEarned
<1>11. JoinedCancelIsVerified'
  BY DEF HarnessInv, CleanupStep, JoinedCancelIsVerified, CallerType, Gone
<1>12. CleanupIsAwaited'
  BY DEF HarnessInv, CleanupStep, CleanupIsAwaited, CleanupType, OwnerType, Ended
<1>13. CancellationIsKept'
  BY DEF HarnessInv, CleanupStep, CancellationIsKept, OwnerType
<1> QED
  BY <1>1, <1>2, <1>3, <1>4, <1>5, <1>6, <1>7, <1>8, <1>9, <1>10, <1>11, <1>12, <1>13 DEF HarnessInv

\* The cleanup ends without having verified anything.
LEMMA EndKeeps ==
  ASSUME HarnessInv, CleanupStep, UNCHANGED sent, CleanupDone(Uncertain),
         cleanup.at \notin {"none", "done"}
  PROVE  HarnessInv'
<1>1. GroupType'
  BY DEF HarnessInv, CleanupStep, CleanupDone, GroupType
<1>2. CleanupType'
  BY DEF HarnessInv, CleanupStep, CleanupDone, CleanupType
<1>3. OwnerType'
  BY DEF HarnessInv, CleanupStep, CleanupDone, OwnerType
<1>4. CallerType'
  BY DEF HarnessInv, CleanupStep, CleanupDone, CallerType
<1>5. Unborn'
  BY DEF HarnessInv, CleanupStep, CleanupDone, Unborn, OwnerType, CleanupType
<1>6. ActiveWhileOwned'
  BY DEF HarnessInv, CleanupStep, CleanupDone, ActiveWhileOwned, OwnerType
<1>7. Escalation'
  BY DEF HarnessInv, CleanupStep, CleanupDone, Escalation, CleanupType
<1>8. ResultIsEarned'
  BY DEF HarnessInv, CleanupStep, CleanupDone, ResultIsEarned, CleanupType
<1>9. VerifiedMeansGone'
  BY DEF HarnessInv, CleanupStep, CleanupDone, VerifiedMeansGone, CleanupType, Gone, Unborn
<1>10. KnownIsVerified'
  BY DEF HarnessInv, CleanupStep, CleanupDone, KnownIsVerified, CleanupType, OwnerType, Gone, VerifiedMeansGone, ResultIsEarned
<1>11. JoinedCancelIsVerified'
  BY DEF HarnessInv, CleanupStep, CleanupDone, JoinedCancelIsVerified, CallerType, Gone
<1>12. CleanupIsAwaited'
  BY DEF HarnessInv, CleanupStep, CleanupDone, CleanupIsAwaited, CleanupType, OwnerType, Ended
<1>13. CancellationIsKept'
  BY DEF HarnessInv, CleanupStep, CleanupDone, CancellationIsKept, OwnerType
<1> QED
  BY <1>1, <1>2, <1>3, <1>4, <1>5, <1>6, <1>7, <1>8, <1>9, <1>10, <1>11, <1>12, <1>13 DEF HarnessInv

\* The cleanup ends with the group gone and the child reaped.
LEMMA VerifiedEndKeeps ==
  ASSUME HarnessInv, CleanupStep, UNCHANGED sent, Gone, told,
         cleanup.at \in {"wait_early", "wait_term", "wait_kill"},
         CleanupDone(FinalResult("absent"))
  PROVE  HarnessInv'
<1>1. GroupType'
  BY DEF HarnessInv, CleanupStep, CleanupDone, FinalResult, VerifiedReason, GroupType
<1>2. CleanupType'
  BY DEF HarnessInv, CleanupStep, CleanupDone, FinalResult, VerifiedReason, CleanupType
<1>3. OwnerType'
  BY DEF HarnessInv, CleanupStep, CleanupDone, FinalResult, VerifiedReason, OwnerType
<1>4. CallerType'
  BY DEF HarnessInv, CleanupStep, CleanupDone, FinalResult, VerifiedReason, CallerType
<1>5. Unborn'
  BY DEF HarnessInv, CleanupStep, CleanupDone, FinalResult, VerifiedReason, Unborn, OwnerType, CleanupType
<1>6. ActiveWhileOwned'
  BY DEF HarnessInv, CleanupStep, CleanupDone, FinalResult, VerifiedReason, ActiveWhileOwned, OwnerType
<1>7. Escalation'
  BY DEF HarnessInv, CleanupStep, CleanupDone, FinalResult, VerifiedReason, Escalation, CleanupType
<1>8. ResultIsEarned'
  BY DEF HarnessInv, CleanupStep, CleanupDone, FinalResult, VerifiedReason, ResultIsEarned, CleanupType
<1>9. VerifiedMeansGone'
  BY DEF HarnessInv, CleanupStep, CleanupDone, FinalResult, VerifiedReason, VerifiedMeansGone, CleanupType, Gone, Unborn
<1>10. KnownIsVerified'
  BY DEF HarnessInv, CleanupStep, CleanupDone, FinalResult, VerifiedReason, KnownIsVerified, CleanupType, OwnerType, Gone, VerifiedMeansGone, ResultIsEarned
<1>11. JoinedCancelIsVerified'
  BY DEF HarnessInv, CleanupStep, CleanupDone, FinalResult, VerifiedReason, JoinedCancelIsVerified, CallerType, Gone
<1>12. CleanupIsAwaited'
  BY DEF HarnessInv, CleanupStep, CleanupDone, FinalResult, VerifiedReason, CleanupIsAwaited, CleanupType, OwnerType, Ended
<1>13. CancellationIsKept'
  BY DEF HarnessInv, CleanupStep, CleanupDone, FinalResult, VerifiedReason, CancellationIsKept, OwnerType
<1> QED
  BY <1>1, <1>2, <1>3, <1>4, <1>5, <1>6, <1>7, <1>8, <1>9, <1>10, <1>11, <1>12, <1>13 DEF HarnessInv

LEMMA CheckPresenceKeeps ==
  ASSUME HarnessInv, CheckPresence
  PROVE  HarnessInv'
<1>1. CleanupStep /\ UNCHANGED sent /\ cleanup.at = "presence"
  BY DEF CheckPresence
<1>2. CASE cleanup' = [cleanup EXCEPT !.at = "wait_early"]
  BY <1>1, <1>2, MoveKeeps
<1>3. CASE CleanupDone(Uncertain)
  BY <1>1, <1>3, EndKeeps
<1>4. CASE cleanup' = [cleanup EXCEPT !.at = "term"]
  BY <1>1, <1>4, MoveKeeps
<1>5. CASE cleanup' = [cleanup EXCEPT !.at = "identity"]
  BY <1>1, <1>5, MoveKeeps
<1> QED
  BY <1>2, <1>3, <1>4, <1>5 DEF CheckPresence

LEMMA CheckIdentityKeeps ==
  ASSUME HarnessInv, CheckIdentity
  PROVE  HarnessInv'
<1>1. CleanupStep /\ UNCHANGED sent /\ cleanup.at \in {"identity", "identity_again"}
  BY DEF CheckIdentity
<1>2. CASE CleanupDone(Uncertain)
  BY <1>1, <1>2, EndKeeps
<1>3. CASE cleanup.at = "identity" /\ cleanup' = [cleanup EXCEPT !.at = "term"]
  BY <1>1, <1>3, MoveKeeps
<1>4. CASE cleanup.at = "identity_again" /\ cleanup' = [cleanup EXCEPT !.at = "kill"]
  <2>1. cleanup.term = "sent"
    BY <1>4 DEF HarnessInv, Escalation
  <2> QED
    BY <1>1, <1>4, <2>1, MoveKeeps
<1> QED
  BY <1>1, <1>2, <1>3, <1>4 DEF CheckIdentity

LEMMA SendTermSignals ==
  ASSUME HarnessInv, CleanupStep, cleanup.at = "term",
         NEW t \in {"sent", "absent"},
         cleanup' = [cleanup EXCEPT !.at = "wait_term", !.term = t],
         sent' = IF t = "sent" THEN Append(sent, "TERM") ELSE sent
  PROVE  HarnessInv'
<1>1. GroupType'
  BY DEF HarnessInv, CleanupStep, GroupType
<1>2. CleanupType'
  BY DEF HarnessInv, CleanupStep, CleanupType
<1>3. OwnerType'
  BY DEF HarnessInv, CleanupStep, OwnerType
<1>4. CallerType'
  BY DEF HarnessInv, CleanupStep, CallerType
<1>5. Unborn'
  BY DEF HarnessInv, CleanupStep, Unborn, OwnerType, CleanupType
<1>6. ActiveWhileOwned'
  BY DEF HarnessInv, CleanupStep, ActiveWhileOwned, OwnerType
<1>7. Escalation'
  <2>1. sent = <<>> /\ ~cleanup.kill
    BY DEF HarnessInv, Escalation
  <2>2. sent' = IF t = "sent" THEN <<"TERM">> ELSE <<>>
    BY <2>1
  <2>3. cleanup'.at = "wait_term" /\ cleanup'.term = t /\ cleanup'.kill = cleanup.kill
    BY DEF HarnessInv, CleanupType
  <2> QED
    BY <2>1, <2>2, <2>3 DEF Escalation
<1>8. ResultIsEarned'
  BY DEF HarnessInv, CleanupStep, ResultIsEarned, CleanupType
<1>9. VerifiedMeansGone'
  BY DEF HarnessInv, CleanupStep, VerifiedMeansGone, CleanupType, Gone, Unborn
<1>10. KnownIsVerified'
  BY DEF HarnessInv, CleanupStep, KnownIsVerified, CleanupType, OwnerType, Gone, VerifiedMeansGone, ResultIsEarned
<1>11. JoinedCancelIsVerified'
  BY DEF HarnessInv, CleanupStep, JoinedCancelIsVerified, CallerType, Gone
<1>12. CleanupIsAwaited'
  BY DEF HarnessInv, CleanupStep, CleanupIsAwaited, CleanupType, OwnerType, Ended
<1>13. CancellationIsKept'
  BY DEF HarnessInv, CleanupStep, CancellationIsKept, OwnerType
<1> QED
  BY <1>1, <1>2, <1>3, <1>4, <1>5, <1>6, <1>7, <1>8, <1>9, <1>10, <1>11, <1>12, <1>13 DEF HarnessInv

LEMMA SendTermKeeps ==
  ASSUME HarnessInv, SendTerm
  PROVE  HarnessInv'
<1>1. CleanupStep /\ cleanup.at = "term"
  BY DEF SendTerm
<1>2. CASE CleanupDone(Uncertain) /\ UNCHANGED sent
  BY <1>1, <1>2, EndKeeps
<1>3. CASE /\ cleanup' = [cleanup EXCEPT !.at = "wait_term", !.term = "sent"]
           /\ sent' = Append(sent, "TERM")
  BY <1>1, <1>3, SendTermSignals
<1>4. CASE /\ cleanup' = [cleanup EXCEPT !.at = "wait_term", !.term = "absent"]
           /\ sent' = sent
  BY <1>1, <1>4, SendTermSignals
<1> QED
  BY <1>2, <1>3, <1>4 DEF SendTerm

LEMMA SendKillSignals ==
  ASSUME HarnessInv, CleanupStep, cleanup.at = "kill", NEW k \in BOOLEAN,
         cleanup' = [cleanup EXCEPT !.at = "wait_kill", !.kill = k],
         sent' = IF k THEN Append(sent, "KILL") ELSE sent
  PROVE  HarnessInv'
<1>1. GroupType'
  BY DEF HarnessInv, CleanupStep, GroupType
<1>2. CleanupType'
  BY DEF HarnessInv, CleanupStep, CleanupType
<1>3. OwnerType'
  BY DEF HarnessInv, CleanupStep, OwnerType
<1>4. CallerType'
  BY DEF HarnessInv, CleanupStep, CallerType
<1>5. Unborn'
  BY DEF HarnessInv, CleanupStep, Unborn, OwnerType, CleanupType
<1>6. ActiveWhileOwned'
  BY DEF HarnessInv, CleanupStep, ActiveWhileOwned, OwnerType
<1>7. Escalation'
  <2>1. sent = <<"TERM">> /\ ~cleanup.kill /\ cleanup.term = "sent"
    BY DEF HarnessInv, Escalation
  <2>2. Append(<<"TERM">>, "KILL") = <<"TERM", "KILL">>
    BY AppendSecond
  <2>4. sent' = IF k THEN <<"TERM", "KILL">> ELSE <<"TERM">>
    BY <2>1, <2>2
  <2>3. cleanup'.at = "wait_kill" /\ cleanup'.term = "sent" /\ cleanup'.kill = k
    BY <2>1 DEF HarnessInv, CleanupType
  <2> QED
    BY <2>3, <2>4 DEF Escalation
<1>8. ResultIsEarned'
  BY DEF HarnessInv, CleanupStep, ResultIsEarned, CleanupType
<1>9. VerifiedMeansGone'
  BY DEF HarnessInv, CleanupStep, VerifiedMeansGone, CleanupType, Gone, Unborn
<1>10. KnownIsVerified'
  BY DEF HarnessInv, CleanupStep, KnownIsVerified, CleanupType, OwnerType, Gone, VerifiedMeansGone, ResultIsEarned
<1>11. JoinedCancelIsVerified'
  BY DEF HarnessInv, CleanupStep, JoinedCancelIsVerified, CallerType, Gone
<1>12. CleanupIsAwaited'
  BY DEF HarnessInv, CleanupStep, CleanupIsAwaited, CleanupType, OwnerType, Ended
<1>13. CancellationIsKept'
  BY DEF HarnessInv, CleanupStep, CancellationIsKept, OwnerType
<1> QED
  BY <1>1, <1>2, <1>3, <1>4, <1>5, <1>6, <1>7, <1>8, <1>9, <1>10, <1>11, <1>12, <1>13 DEF HarnessInv

LEMMA SendKillKeeps ==
  ASSUME HarnessInv, SendKill
  PROVE  HarnessInv'
<1>1. CleanupStep /\ cleanup.at = "kill"
  BY DEF SendKill
<1>2. PICK p \in Presences :
        /\ cleanup' = [cleanup EXCEPT !.at = "wait_kill", !.kill = (p = "present")]
        /\ sent' = IF p = "present" THEN Append(sent, "KILL") ELSE sent
  BY DEF SendKill
<1>3. (p = "present") \in BOOLEAN
  OBVIOUS
<1> QED
  BY <1>1, <1>2, <1>3, SendKillSignals

LEMMA WaitSucceedsKeeps ==
  ASSUME HarnessInv, WaitSucceeds
  PROVE  HarnessInv'
  BY VerifiedEndKeeps DEF WaitSucceeds

LEMMA WaitExpiresKeeps ==
  ASSUME HarnessInv, WaitExpires
  PROVE  HarnessInv'
<1>1. /\ CleanupStep /\ UNCHANGED sent
      /\ cleanup.at \in {"wait_early", "wait_term", "wait_kill"}
  BY DEF WaitExpires
<1>2. PICK p \in Presences :
        IF cleanup.at = "wait_term" /\ cleanup.term = "sent"
             /\ p # "unknown" /\ ~(p = "absent" /\ told)
        THEN cleanup' = [cleanup EXCEPT !.at = IF told THEN "kill" ELSE "identity_again"]
        ELSE CleanupDone(FinalResult(p))
  BY DEF WaitExpires
<1>3. CASE /\ cleanup.at = "wait_term" /\ cleanup.term = "sent"
           /\ cleanup' = [cleanup EXCEPT !.at = IF told THEN "kill" ELSE "identity_again"]
  BY <1>1, <1>3, MoveKeeps
<1>4. CASE CleanupDone(FinalResult(p))
  <2>1. CASE p = "absent" /\ told
    <3>1. Gone
      BY <2>1 DEF Presences
    <3> QED
      BY <1>1, <1>4, <2>1, <3>1, VerifiedEndKeeps
  <2>2. CASE ~(p = "absent" /\ told)
    <3>1. FinalResult(p) = Uncertain
      BY <2>2 DEF FinalResult
    <3> QED
      BY <1>1, <1>4, <3>1, EndKeeps
  <2> QED
    BY <2>1, <2>2
<1> QED
  BY <1>2, <1>3, <1>4

-----------------------------------------------------------------------------
(* The execute task.                                                       *)

LEMMA JoinKeeps ==
  ASSUME HarnessInv, JoinCleanup
  PROVE  /\ CleanupType'
         /\ \/ cleanup' = cleanup
            \/ cleanup.at = "none" /\ cleanup'.at = "presence" /\ cleanup'.result = NoResult
               /\ cleanup'.term = "unsent" /\ ~cleanup'.kill
  BY DEF HarnessInv, JoinCleanup, CleanupType, CleanupStarted

LEMMA LaunchKeeps ==
  ASSUME HarnessInv, Launch
  PROVE  HarnessInv'
<1>1. GroupType'
  BY DEF HarnessInv, Launch, OwnerStep, group, GroupType
<1>2. CleanupType'
  BY DEF HarnessInv, Launch, OwnerStep, group, CleanupType
<1>3. OwnerType'
  BY DEF HarnessInv, Launch, OwnerStep, group, OwnerType
<1>4. CallerType'
  BY DEF HarnessInv, Launch, OwnerStep, group, CallerType
<1>5. Unborn'
  BY DEF HarnessInv, Launch, OwnerStep, group, Unborn, OwnerType, CleanupType
<1>6. ActiveWhileOwned'
  BY DEF HarnessInv, Launch, OwnerStep, group, ActiveWhileOwned, OwnerType
<1>7. Escalation'
  BY DEF HarnessInv, Launch, OwnerStep, group, Escalation, CleanupType
<1>8. ResultIsEarned'
  BY DEF HarnessInv, Launch, OwnerStep, group, ResultIsEarned, CleanupType
<1>9. VerifiedMeansGone'
  BY DEF HarnessInv, Launch, OwnerStep, group, VerifiedMeansGone, CleanupType, Gone, Unborn
<1>10. KnownIsVerified'
  BY DEF HarnessInv, Launch, OwnerStep, group, KnownIsVerified, CleanupType, OwnerType, Gone, VerifiedMeansGone, ResultIsEarned
<1>11. JoinedCancelIsVerified'
  BY DEF HarnessInv, Launch, OwnerStep, group, JoinedCancelIsVerified, CallerType, Gone
<1>12. CleanupIsAwaited'
  BY DEF HarnessInv, Launch, OwnerStep, group, OwnerType, Unborn, CleanupIsAwaited, Ended
<1>13. CancellationIsKept'
  BY DEF HarnessInv, Launch, OwnerStep, group, CancellationIsKept, OwnerType
<1> QED
  BY <1>1, <1>2, <1>3, <1>4, <1>5, <1>6, <1>7, <1>8, <1>9, <1>10, <1>11, <1>12, <1>13 DEF HarnessInv

LEMMA CreationFailsKeeps ==
  ASSUME HarnessInv, CreationFails
  PROVE  HarnessInv'
<1>1. GroupType'
  BY DEF HarnessInv, CreationFails, OwnerStep, group, GroupType
<1>2. CleanupType'
  BY DEF HarnessInv, CreationFails, OwnerStep, group, CleanupType
<1>3. OwnerType'
  BY DEF HarnessInv, CreationFails, OwnerStep, group, OwnerType
<1>4. CallerType'
  BY DEF HarnessInv, CreationFails, OwnerStep, group, CallerType
<1>5. Unborn'
  BY DEF HarnessInv, CreationFails, OwnerStep, group, Unborn, OwnerType, CleanupType
<1>6. ActiveWhileOwned'
  BY DEF HarnessInv, CreationFails, OwnerStep, group, ActiveWhileOwned, OwnerType
<1>7. Escalation'
  BY DEF HarnessInv, CreationFails, OwnerStep, group, Escalation, CleanupType
<1>8. ResultIsEarned'
  BY DEF HarnessInv, CreationFails, OwnerStep, group, ResultIsEarned, CleanupType
<1>9. VerifiedMeansGone'
  BY DEF HarnessInv, CreationFails, OwnerStep, group, VerifiedMeansGone, CleanupType, Gone, Unborn
<1>10. KnownIsVerified'
  BY DEF HarnessInv, CreationFails, OwnerStep, group, KnownIsVerified, CleanupType, OwnerType, Gone, VerifiedMeansGone, ResultIsEarned
<1>11. JoinedCancelIsVerified'
  BY DEF HarnessInv, CreationFails, OwnerStep, group, JoinedCancelIsVerified, CallerType, Gone
<1>12. CleanupIsAwaited'
  BY DEF HarnessInv, CreationFails, OwnerStep, group, OwnerType, Unborn, CleanupIsAwaited, Ended
<1>13. CancellationIsKept'
  BY DEF HarnessInv, CreationFails, OwnerStep, group, CancellationIsKept, OwnerType
<1> QED
  BY <1>1, <1>2, <1>3, <1>4, <1>5, <1>6, <1>7, <1>8, <1>9, <1>10, <1>11, <1>12, <1>13 DEF HarnessInv

LEMMA CreatedKeeps ==
  ASSUME HarnessInv, Created
  PROVE  HarnessInv'
<1>1. GroupType'
  BY DEF HarnessInv, Created, CleanupStarted, GroupType
<1>2. CleanupType'
  BY DEF HarnessInv, Created, CleanupStarted, CleanupType
<1>3. OwnerType'
  BY DEF HarnessInv, Created, CleanupStarted, OwnerType
<1>4. CallerType'
  BY DEF HarnessInv, Created, CleanupStarted, CallerType
<1>5. Unborn'
  <2>1. owner'.at \in {"running", "launch_cleanup"}
    BY DEF HarnessInv, Created, OwnerType
  <2> QED
    BY <2>1 DEF Unborn
<1>6. ActiveWhileOwned'
  <2>1. CASE active' = TRUE /\ owner' = [owner EXCEPT !.at = "running"]
    BY <2>1 DEF HarnessInv, OwnerType, ActiveWhileOwned
  <2>2. CASE active' = active /\ owner'.at = "launch_cleanup"
    BY <2>2 DEF HarnessInv, Created, ActiveWhileOwned
  <2> QED
    BY <2>1, <2>2 DEF HarnessInv, Created, OwnerType
<1>7. Escalation'
  BY DEF HarnessInv, Created, CleanupStarted, Unborn, Escalation
<1>8. ResultIsEarned'
  BY DEF HarnessInv, Created, CleanupStarted, ResultIsEarned, CleanupType
<1>9. VerifiedMeansGone'
  BY DEF HarnessInv, Created, CleanupStarted, VerifiedMeansGone, CleanupType, Gone, Unborn
<1>10. KnownIsVerified'
  BY DEF HarnessInv, Created, CleanupStarted, KnownIsVerified, CleanupType, OwnerType, Gone, VerifiedMeansGone, ResultIsEarned
<1>11. JoinedCancelIsVerified'
  BY DEF HarnessInv, Created, Unborn, JoinedCancelIsVerified, Gone
<1>12. CleanupIsAwaited'
  BY DEF HarnessInv, Created, CleanupStarted, CleanupIsAwaited, CleanupType, OwnerType, Ended
<1>13. CancellationIsKept'
  BY DEF HarnessInv, Created, CleanupStarted, CancellationIsKept, OwnerType
<1> QED
  BY <1>1, <1>2, <1>3, <1>4, <1>5, <1>6, <1>7, <1>8, <1>9, <1>10, <1>11, <1>12, <1>13 DEF HarnessInv

LEMMA LaunchAcceptedKeeps ==
  ASSUME HarnessInv, OwnerStep, owner.at = "launch_cleanup", cleanup.at = "done",
         owner.deferred = "no", LaunchAccepted,
         owner' = [owner EXCEPT !.at = "running"], active' = TRUE, cleanup' = NoCleanup
  PROVE  HarnessInv'
<1>1. GroupType'
  BY DEF HarnessInv, OwnerStep, group, LaunchAccepted, GroupType
<1>2. CleanupType'
  BY DEF HarnessInv, OwnerStep, group, LaunchAccepted, CleanupType
<1>3. OwnerType'
  BY DEF HarnessInv, OwnerStep, group, LaunchAccepted, OwnerType
<1>4. CallerType'
  BY DEF HarnessInv, OwnerStep, group, LaunchAccepted, CallerType
<1>5. Unborn'
  BY DEF HarnessInv, OwnerStep, group, LaunchAccepted, Unborn, OwnerType, CleanupType
<1>6. ActiveWhileOwned'
  BY DEF HarnessInv, OwnerStep, group, LaunchAccepted, ActiveWhileOwned, OwnerType
<1>7. Escalation'
  BY DEF HarnessInv, OwnerStep, group, LaunchAccepted, Escalation, CleanupType
<1>8. ResultIsEarned'
  BY DEF HarnessInv, OwnerStep, group, LaunchAccepted, ResultIsEarned, CleanupType
<1>9. VerifiedMeansGone'
  BY DEF HarnessInv, OwnerStep, group, LaunchAccepted, VerifiedMeansGone, CleanupType, Gone, Unborn
<1>10. KnownIsVerified'
  BY DEF HarnessInv, OwnerStep, group, LaunchAccepted, KnownIsVerified, CleanupType, OwnerType, Gone, VerifiedMeansGone, ResultIsEarned
<1>11. JoinedCancelIsVerified'
  BY DEF HarnessInv, OwnerStep, group, LaunchAccepted, JoinedCancelIsVerified, CallerType, Gone
<1>12. CleanupIsAwaited'
  BY DEF HarnessInv, OwnerStep, group, LaunchAccepted, CleanupIsAwaited, CleanupType, OwnerType, Ended
<1>13. CancellationIsKept'
  BY DEF HarnessInv, OwnerStep, group, LaunchAccepted, CancellationIsKept, OwnerType
<1> QED
  BY <1>1, <1>2, <1>3, <1>4, <1>5, <1>6, <1>7, <1>8, <1>9, <1>10, <1>11, <1>12, <1>13 DEF HarnessInv

LEMMA LaunchAbandonedKeeps ==
  ASSUME HarnessInv, OwnerStep, owner.at = "launch_cleanup", cleanup.at = "done",
         UNCHANGED <<cleanup, active>>, NEW late \in BOOLEAN,
         owner' = [owner EXCEPT !.at = "postflight", !.unknown = TRUE,
                                !.timedOut = IF late THEN TRUE ELSE @]
  PROVE  HarnessInv'
<1>1. GroupType'
  BY DEF HarnessInv, OwnerStep, group, GroupType
<1>2. CleanupType'
  BY DEF HarnessInv, OwnerStep, group, CleanupType
<1>3. OwnerType'
  BY DEF HarnessInv, OwnerStep, group, OwnerType
<1>4. CallerType'
  BY DEF HarnessInv, OwnerStep, group, CallerType
<1>5. Unborn'
  BY DEF HarnessInv, OwnerStep, group, Unborn, OwnerType, CleanupType
<1>6. ActiveWhileOwned'
  BY DEF HarnessInv, OwnerStep, group, ActiveWhileOwned, OwnerType
<1>7. Escalation'
  BY DEF HarnessInv, OwnerStep, group, Escalation, CleanupType
<1>8. ResultIsEarned'
  BY DEF HarnessInv, OwnerStep, group, ResultIsEarned, CleanupType
<1>9. VerifiedMeansGone'
  BY DEF HarnessInv, OwnerStep, group, VerifiedMeansGone, CleanupType, Gone, Unborn
<1>10. KnownIsVerified'
  BY DEF HarnessInv, OwnerStep, group, KnownIsVerified, CleanupType, OwnerType, Gone, VerifiedMeansGone, ResultIsEarned
<1>11. JoinedCancelIsVerified'
  BY DEF HarnessInv, OwnerStep, group, JoinedCancelIsVerified, CallerType, Gone
<1>12. CleanupIsAwaited'
  BY DEF HarnessInv, OwnerStep, group, CleanupIsAwaited, CleanupType, OwnerType, Ended
<1>13. CancellationIsKept'
  BY DEF HarnessInv, OwnerStep, group, CancellationIsKept, OwnerType
<1> QED
  BY <1>1, <1>2, <1>3, <1>4, <1>5, <1>6, <1>7, <1>8, <1>9, <1>10, <1>11, <1>12, <1>13 DEF HarnessInv

LEMMA LaunchRaisedKeeps ==
  ASSUME HarnessInv, OwnerStep, owner.at = "launch_cleanup", cleanup.at = "done",
         UNCHANGED <<cleanup, active>>, owner' = [owner EXCEPT !.at = "raised"]
  PROVE  HarnessInv'
<1>1. GroupType'
  BY DEF HarnessInv, OwnerStep, group, GroupType
<1>2. CleanupType'
  BY DEF HarnessInv, OwnerStep, group, CleanupType
<1>3. OwnerType'
  BY DEF HarnessInv, OwnerStep, group, OwnerType
<1>4. CallerType'
  BY DEF HarnessInv, OwnerStep, group, CallerType
<1>5. Unborn'
  BY DEF HarnessInv, OwnerStep, group, Unborn, OwnerType, CleanupType
<1>6. ActiveWhileOwned'
  BY DEF HarnessInv, OwnerStep, group, ActiveWhileOwned, OwnerType
<1>7. Escalation'
  BY DEF HarnessInv, OwnerStep, group, Escalation, CleanupType
<1>8. ResultIsEarned'
  BY DEF HarnessInv, OwnerStep, group, ResultIsEarned, CleanupType
<1>9. VerifiedMeansGone'
  BY DEF HarnessInv, OwnerStep, group, VerifiedMeansGone, CleanupType, Gone, Unborn
<1>10. KnownIsVerified'
  BY DEF HarnessInv, OwnerStep, group, KnownIsVerified, CleanupType, OwnerType, Gone, VerifiedMeansGone, ResultIsEarned
<1>11. JoinedCancelIsVerified'
  BY DEF HarnessInv, OwnerStep, group, JoinedCancelIsVerified, CallerType, Gone
<1>12. CleanupIsAwaited'
  BY DEF HarnessInv, OwnerStep, group, CleanupIsAwaited, CleanupType, OwnerType, Ended
<1>13. CancellationIsKept'
  BY DEF HarnessInv, OwnerStep, group, CancellationIsKept, OwnerType
<1> QED
  BY <1>1, <1>2, <1>3, <1>4, <1>5, <1>6, <1>7, <1>8, <1>9, <1>10, <1>11, <1>12, <1>13 DEF HarnessInv

LEMMA LaunchCleanedKeeps ==
  ASSUME HarnessInv, LaunchCleaned
  PROVE  HarnessInv'
<1>1. OwnerStep /\ owner.at = "launch_cleanup" /\ cleanup.at = "done"
  BY DEF LaunchCleaned
<1>2. CASE owner' = [owner EXCEPT !.at = "raised"] /\ UNCHANGED <<cleanup, active>>
  BY <1>1, <1>2, LaunchRaisedKeeps
<1>3. CASE /\ owner' = [owner EXCEPT !.at = "postflight", !.timedOut = TRUE, !.unknown = TRUE]
           /\ UNCHANGED <<cleanup, active>>
  <2>1. owner' = [owner EXCEPT !.at = "postflight", !.unknown = TRUE,
                               !.timedOut = IF TRUE THEN TRUE ELSE @]
    BY <1>3 DEF HarnessInv, OwnerType
  <2> QED
    BY <1>1, <1>3, <2>1, LaunchAbandonedKeeps
<1>4. CASE /\ owner' = [owner EXCEPT !.at = "postflight", !.unknown = TRUE]
           /\ UNCHANGED <<cleanup, active>>
  <2>1. owner' = [owner EXCEPT !.at = "postflight", !.unknown = TRUE,
                               !.timedOut = IF FALSE THEN TRUE ELSE @]
    BY <1>4 DEF HarnessInv, OwnerType
  <2> QED
    BY <1>1, <1>4, <2>1, LaunchAbandonedKeeps
<1>5. CASE /\ owner.deferred = "no" /\ LaunchAccepted
           /\ owner' = [owner EXCEPT !.at = "running"] /\ active' = TRUE /\ cleanup' = NoCleanup
  BY <1>1, <1>5, LaunchAcceptedKeeps
<1> QED
  BY <1>2, <1>3, <1>4, <1>5 DEF LaunchCleaned

LEMMA CollectsKeeps ==
  ASSUME HarnessInv, NEW why \in {"exit", "limit", "error", "timeout"},
         Collects(why)
  PROVE  HarnessInv'
<1>1. GroupType'
  BY DEF HarnessInv, Collects, OwnerStep, group, GroupType
<1>2. CleanupType'
  BY JoinKeeps DEF Collects
<1>3. OwnerType'
  BY DEF HarnessInv, Collects, OwnerStep, group, OwnerType
<1>4. CallerType'
  BY DEF HarnessInv, Collects, OwnerStep, group, CallerType
<1>5. Unborn'
  BY DEF HarnessInv, Collects, OwnerStep, group, Unborn, OwnerType, CleanupType
<1>6. ActiveWhileOwned'
  BY DEF HarnessInv, Collects, OwnerStep, group, ActiveWhileOwned, OwnerType
<1>7. Escalation'
  BY JoinKeeps DEF Collects, OwnerStep, group, HarnessInv, Escalation
<1>8. ResultIsEarned'
  BY JoinKeeps DEF Collects, HarnessInv, ResultIsEarned
<1>9. VerifiedMeansGone'
  BY JoinKeeps DEF Collects, OwnerStep, group, HarnessInv, VerifiedMeansGone, Gone
<1>10. KnownIsVerified'
  BY DEF HarnessInv, Collects, OwnerStep, group, KnownIsVerified, CleanupType, OwnerType, Gone, VerifiedMeansGone, ResultIsEarned
<1>11. JoinedCancelIsVerified'
  BY DEF HarnessInv, Collects, OwnerStep, group, JoinedCancelIsVerified, CallerType, Gone
<1>12. CleanupIsAwaited'
  BY DEF HarnessInv, Collects, OwnerStep, group, CleanupIsAwaited, CleanupType, OwnerType, Ended
<1>13. CancellationIsKept'
  BY DEF HarnessInv, Collects, OwnerStep, group, CancellationIsKept, OwnerType
<1> QED
  BY <1>1, <1>2, <1>3, <1>4, <1>5, <1>6, <1>7, <1>8, <1>9, <1>10, <1>11, <1>12, <1>13 DEF HarnessInv

LEMMA WaitEndsKeeps ==
  ASSUME HarnessInv, ExitSeen \/ StreamFails \/ TimeoutFires
  PROVE  HarnessInv'
  BY CollectsKeeps DEF ExitSeen, StreamFails, TimeoutFires

LEMMA TimeoutDeferredKeeps ==
  ASSUME HarnessInv, TimeoutDeferred
  PROVE  HarnessInv'
<1>1. GroupType'
  BY DEF HarnessInv, TimeoutDeferred, OwnerStep, group, GroupType
<1>2. CleanupType'
  BY DEF HarnessInv, TimeoutDeferred, OwnerStep, group, CleanupType
<1>3. OwnerType'
  BY DEF HarnessInv, TimeoutDeferred, OwnerStep, group, OwnerType
<1>4. CallerType'
  BY DEF HarnessInv, TimeoutDeferred, OwnerStep, group, CallerType
<1>5. Unborn'
  BY DEF HarnessInv, TimeoutDeferred, OwnerStep, group, Unborn, OwnerType, CleanupType
<1>6. ActiveWhileOwned'
  BY DEF HarnessInv, TimeoutDeferred, OwnerStep, group, ActiveWhileOwned, OwnerType
<1>7. Escalation'
  BY DEF HarnessInv, TimeoutDeferred, OwnerStep, group, Escalation, CleanupType
<1>8. ResultIsEarned'
  BY DEF HarnessInv, TimeoutDeferred, OwnerStep, group, ResultIsEarned, CleanupType
<1>9. VerifiedMeansGone'
  BY DEF HarnessInv, TimeoutDeferred, OwnerStep, group, VerifiedMeansGone, CleanupType, Gone, Unborn
<1>10. KnownIsVerified'
  BY DEF HarnessInv, TimeoutDeferred, OwnerStep, group, KnownIsVerified, CleanupType, OwnerType, Gone, VerifiedMeansGone, ResultIsEarned
<1>11. JoinedCancelIsVerified'
  BY DEF HarnessInv, TimeoutDeferred, OwnerStep, group, JoinedCancelIsVerified, CallerType, Gone
<1>12. CleanupIsAwaited'
  BY DEF HarnessInv, TimeoutDeferred, OwnerStep, group, CleanupIsAwaited, CleanupType, OwnerType, Ended
<1>13. CancellationIsKept'
  BY DEF HarnessInv, TimeoutDeferred, OwnerStep, group, CancellationIsKept, OwnerType
<1> QED
  BY <1>1, <1>2, <1>3, <1>4, <1>5, <1>6, <1>7, <1>8, <1>9, <1>10, <1>11, <1>12, <1>13 DEF HarnessInv

\* An exit turns out to be something else.
LEMMA CollectedOnKeeps ==
  ASSUME HarnessInv, OwnerStep, owner.at = "collect", cleanup.at = "done",
         owner.why = "exit", UNCHANGED <<cleanup, active>>,
         NEW u \in BOOLEAN, NEW w \in {"limit", "timeout", "interrupt"},
         owner' = [owner EXCEPT !.deferred = "no", !.unknown = @ \/ u, !.why = w],
         owner.deferred = "cancel" => w = "interrupt"
  PROVE  HarnessInv'
<1>1. GroupType'
  BY DEF HarnessInv, OwnerStep, group, GroupType
<1>2. CleanupType'
  BY DEF HarnessInv, OwnerStep, group, CleanupType
<1>3. OwnerType'
  BY DEF HarnessInv, OwnerStep, group, OwnerType
<1>4. CallerType'
  BY DEF HarnessInv, OwnerStep, group, CallerType
<1>5. Unborn'
  BY DEF HarnessInv, OwnerStep, group, Unborn, OwnerType, CleanupType
<1>6. ActiveWhileOwned'
  BY DEF HarnessInv, OwnerStep, group, ActiveWhileOwned, OwnerType
<1>7. Escalation'
  BY DEF HarnessInv, OwnerStep, group, Escalation, CleanupType
<1>8. ResultIsEarned'
  BY DEF HarnessInv, OwnerStep, group, ResultIsEarned, CleanupType
<1>9. VerifiedMeansGone'
  BY DEF HarnessInv, OwnerStep, group, VerifiedMeansGone, CleanupType, Gone, Unborn
<1>10. KnownIsVerified'
  BY DEF HarnessInv, OwnerStep, group, KnownIsVerified, CleanupType, OwnerType, Gone, VerifiedMeansGone, ResultIsEarned
<1>11. JoinedCancelIsVerified'
  BY DEF HarnessInv, OwnerStep, group, JoinedCancelIsVerified, CallerType, Gone
<1>12. CleanupIsAwaited'
  BY DEF HarnessInv, OwnerStep, group, CleanupIsAwaited, CleanupType, OwnerType, Ended
<1>13. CancellationIsKept'
  BY DEF HarnessInv, OwnerStep, group, CancellationIsKept, OwnerType
<1> QED
  BY <1>1, <1>2, <1>3, <1>4, <1>5, <1>6, <1>7, <1>8, <1>9, <1>10, <1>11, <1>12, <1>13 DEF HarnessInv

\* The task is through with its child.
LEMMA LeavesKeeps ==
  ASSUME HarnessInv, OwnerStep, owner.at = "collect", cleanup.at = "done",
         NEW place \in {"postflight", "raised"}, NEW u \in BOOLEAN, Leaves(place, u),
         place = "postflight" => ~owner.hit,
         place = "postflight" /\ ~u =>
           cleanup.result.verified /\ (owner.why = "timeout" \/ ExitIsKnown)
  PROVE  HarnessInv'
<1>1. GroupType'
  BY DEF HarnessInv, Leaves, OwnerStep, group, ExitIsKnown, GroupType
<1>2. CleanupType'
  BY DEF HarnessInv, Leaves, OwnerStep, group, ExitIsKnown, CleanupType
<1>3. OwnerType'
  BY DEF HarnessInv, Leaves, OwnerStep, group, GroupType, OwnerType
<1>4. CallerType'
  BY DEF HarnessInv, Leaves, OwnerStep, group, ExitIsKnown, CallerType
<1>5. Unborn'
  BY DEF HarnessInv, Leaves, OwnerStep, group, ExitIsKnown, Unborn, OwnerType, CleanupType
<1>6. ActiveWhileOwned'
  BY DEF HarnessInv, Leaves, OwnerStep, group, ExitIsKnown, ActiveWhileOwned, OwnerType
<1>7. Escalation'
  BY DEF HarnessInv, Leaves, OwnerStep, group, ExitIsKnown, Escalation, CleanupType
<1>8. ResultIsEarned'
  BY DEF HarnessInv, Leaves, OwnerStep, group, ExitIsKnown, ResultIsEarned, CleanupType
<1>9. VerifiedMeansGone'
  BY DEF HarnessInv, Leaves, OwnerStep, group, ExitIsKnown, VerifiedMeansGone, CleanupType, Gone, Unborn
<1>10. KnownIsVerified'
  BY DEF HarnessInv, Leaves, OwnerStep, group, ExitIsKnown, KnownIsVerified, CleanupType, OwnerType, Gone, VerifiedMeansGone, ResultIsEarned
<1>11. JoinedCancelIsVerified'
  BY DEF HarnessInv, Leaves, OwnerStep, group, ExitIsKnown, JoinedCancelIsVerified, CallerType, Gone
<1>12. CleanupIsAwaited'
  BY DEF HarnessInv, Leaves, OwnerStep, group, ExitIsKnown, CleanupIsAwaited, CleanupType, OwnerType, Ended
<1>13. CancellationIsKept'
  BY DEF HarnessInv, Leaves, OwnerStep, group, ExitIsKnown, CancellationIsKept, OwnerType
<1> QED
  BY <1>1, <1>2, <1>3, <1>4, <1>5, <1>6, <1>7, <1>8, <1>9, <1>10, <1>11, <1>12, <1>13 DEF HarnessInv

LEMMA CollectedKeeps ==
  ASSUME HarnessInv, Collected
  PROVE  HarnessInv'
<1>1. OwnerStep /\ owner.at = "collect" /\ cleanup.at = "done"
  BY DEF Collected
<1>2. owner.hit => owner.why = "interrupt" \/ owner.deferred = "cancel"
  BY <1>1 DEF HarnessInv, CancellationIsKept
<1>3. ExitIsKnown \in BOOLEAN
  BY DEF HarnessInv, CleanupType, GroupType, ExitIsKnown
<1>4. CASE owner.why = "exit" /\ owner.deferred = "no" /\ Leaves("postflight", ~ExitIsKnown)
  BY <1>1, <1>2, <1>3, <1>4, LeavesKeeps DEF ExitIsKnown
<1>5. CASE /\ owner.why = "exit" /\ UNCHANGED <<cleanup, active>>
           /\ owner' = [owner EXCEPT !.deferred = "no",
                !.unknown = @ \/ (owner.deferred = "no" /\ ~ExitIsKnown),
                !.why = CASE owner.deferred = "no" -> "limit"
                          [] owner.deferred = "timeout" -> "timeout"
                          [] owner.deferred = "cancel" -> "interrupt"]
  <2> DEFINE u == owner.deferred = "no" /\ ~ExitIsKnown
             w == CASE owner.deferred = "no" -> "limit"
                    [] owner.deferred = "timeout" -> "timeout"
                    [] owner.deferred = "cancel" -> "interrupt"
  <2>1. u \in BOOLEAN
    OBVIOUS
  <2>2. w \in {"limit", "timeout", "interrupt"} /\ (owner.deferred = "cancel" => w = "interrupt")
    BY DEF HarnessInv, OwnerType
  <2>3. owner' = [owner EXCEPT !.deferred = "no", !.unknown = @ \/ u, !.why = w]
    BY <1>5
  <2> QED
    BY <1>1, <1>5, <2>1, <2>2, <2>3, CollectedOnKeeps
<1>6. CASE Leaves("raised", FALSE)
  BY <1>1, <1>6, LeavesKeeps
<1>7. CASE owner.why \in {"limit", "error"} /\ owner.deferred = "no" /\ Leaves("postflight", TRUE)
  BY <1>1, <1>2, <1>7, LeavesKeeps
<1>8. CASE /\ owner.why = "timeout" /\ owner.deferred = "no"
           /\ \E unsettled \in BOOLEAN :
                Leaves("postflight", ~cleanup.result.verified \/ unsettled)
  <2>1. PICK unsettled \in BOOLEAN : Leaves("postflight", ~cleanup.result.verified \/ unsettled)
    BY <1>8
  <2>2. (~cleanup.result.verified \/ unsettled) \in BOOLEAN
    OBVIOUS
  <2> QED
    BY <1>1, <1>2, <1>8, <2>1, <2>2, LeavesKeeps
<1> QED
  BY <1>4, <1>5, <1>6, <1>7, <1>8 DEF Collected, ExitCollected, FailureCollected

LEMMA FinishKeeps ==
  ASSUME HarnessInv, Finish
  PROVE  HarnessInv'
<1>1. GroupType'
  BY DEF HarnessInv, Finish, OwnerStep, group, GroupType
<1>2. CleanupType'
  BY DEF HarnessInv, Finish, OwnerStep, group, CleanupType
<1>3. OwnerType'
  BY DEF HarnessInv, Finish, OwnerStep, group, OwnerType
<1>4. CallerType'
  BY DEF HarnessInv, Finish, OwnerStep, group, CallerType
<1>5. Unborn'
  BY DEF HarnessInv, Finish, OwnerStep, group, Unborn, OwnerType, CleanupType
<1>6. ActiveWhileOwned'
  BY DEF HarnessInv, Finish, OwnerStep, group, ActiveWhileOwned, OwnerType
<1>7. Escalation'
  BY DEF HarnessInv, Finish, OwnerStep, group, Escalation, CleanupType
<1>8. ResultIsEarned'
  BY DEF HarnessInv, Finish, OwnerStep, group, ResultIsEarned, CleanupType
<1>9. VerifiedMeansGone'
  BY DEF HarnessInv, Finish, OwnerStep, group, VerifiedMeansGone, CleanupType, Gone, Unborn
<1>10. KnownIsVerified'
  BY DEF HarnessInv, Finish, OwnerStep, group, KnownIsVerified, CleanupType, OwnerType, Gone, VerifiedMeansGone, ResultIsEarned
<1>11. JoinedCancelIsVerified'
  BY DEF HarnessInv, Finish, OwnerStep, group, JoinedCancelIsVerified, CallerType, Gone
<1>12. CleanupIsAwaited'
  BY DEF HarnessInv, Finish, OwnerStep, group, CleanupIsAwaited, CleanupType, OwnerType, Ended
<1>13. CancellationIsKept'
  BY DEF HarnessInv, Finish, OwnerStep, group, CancellationIsKept, OwnerType
<1> QED
  BY <1>1, <1>2, <1>3, <1>4, <1>5, <1>6, <1>7, <1>8, <1>9, <1>10, <1>11, <1>12, <1>13 DEF HarnessInv

LEMMA OwnerCancelledKeeps ==
  ASSUME HarnessInv, OwnerCancelled
  PROVE  HarnessInv'
<1>1. GroupType'
  BY DEF HarnessInv, OwnerCancelled, Interrupted, OwnerStep, group, GroupType
<1>2. CleanupType'
  BY JoinKeeps DEF HarnessInv, OwnerCancelled, CleanupType
<1>3. OwnerType'
  BY DEF HarnessInv, OwnerCancelled, Interrupted, OwnerStep, group, OwnerType
<1>4. CallerType'
  BY DEF HarnessInv, OwnerCancelled, Interrupted, OwnerStep, group, CallerType
<1>5. Unborn'
  BY DEF HarnessInv, OwnerCancelled, Interrupted, OwnerStep, group, Unborn, OwnerType, CleanupType
<1>6. ActiveWhileOwned'
  BY DEF HarnessInv, OwnerCancelled, Interrupted, OwnerStep, group, ActiveWhileOwned, OwnerType
<1>7. Escalation'
  BY JoinKeeps DEF OwnerCancelled, OwnerStep, group, HarnessInv, Escalation
<1>8. ResultIsEarned'
  BY JoinKeeps DEF OwnerCancelled, HarnessInv, ResultIsEarned
<1>9. VerifiedMeansGone'
  BY JoinKeeps DEF OwnerCancelled, OwnerStep, group, HarnessInv, VerifiedMeansGone, Gone
<1>10. KnownIsVerified'
  BY DEF HarnessInv, OwnerCancelled, Interrupted, OwnerStep, group, KnownIsVerified, CleanupType, OwnerType, Gone, VerifiedMeansGone, ResultIsEarned
<1>11. JoinedCancelIsVerified'
  BY DEF HarnessInv, OwnerCancelled, Interrupted, OwnerStep, group, JoinedCancelIsVerified, CallerType, Gone
<1>12. CleanupIsAwaited'
  BY DEF HarnessInv, OwnerCancelled, Interrupted, OwnerStep, OwnerType, Unborn, CleanupIsAwaited, Ended
<1>13. CancellationIsKept'
  BY DEF HarnessInv, OwnerCancelled, Interrupted, OwnerType, CancellationIsKept, Ended
<1> QED
  BY <1>1, <1>2, <1>3, <1>4, <1>5, <1>6, <1>7, <1>8, <1>9, <1>10, <1>11, <1>12, <1>13 DEF HarnessInv

-----------------------------------------------------------------------------
(* The callers of cancel.                                                  *)

LEMMA CancelActiveKeeps ==
  ASSUME HarnessInv, NEW c \in Cancellers, CancelActive(c)
  PROVE  HarnessInv'
<1>1. GroupType'
  BY DEF HarnessInv, CancelActive, group, GroupType
<1>2. CleanupType'
  BY JoinKeeps DEF CancelActive
<1>3. OwnerType'
  BY DEF HarnessInv, CancelActive, group, OwnerType
<1>4. CallerType'
  BY DEF HarnessInv, CancelActive, group, CallerType
<1>5. Unborn'
  BY DEF HarnessInv, CancelActive, ActiveWhileOwned, Unborn
<1>6. ActiveWhileOwned'
  BY DEF HarnessInv, CancelActive, group, ActiveWhileOwned, OwnerType
<1>7. Escalation'
  BY JoinKeeps DEF CancelActive, group, HarnessInv, Escalation
<1>8. ResultIsEarned'
  BY JoinKeeps DEF CancelActive, HarnessInv, ResultIsEarned
<1>9. VerifiedMeansGone'
  BY JoinKeeps DEF CancelActive, group, HarnessInv, VerifiedMeansGone, Gone
<1>10. KnownIsVerified'
  BY DEF HarnessInv, CancelActive, ActiveWhileOwned, KnownIsVerified
<1>11. JoinedCancelIsVerified'
  BY DEF HarnessInv, CancelActive, group, JoinedCancelIsVerified, CallerType, Gone
<1>12. CleanupIsAwaited'
  BY DEF HarnessInv, CancelActive, ActiveWhileOwned, CleanupIsAwaited, Ended
<1>13. CancellationIsKept'
  BY DEF HarnessInv, CancelActive, group, CancellationIsKept, OwnerType
<1> QED
  BY <1>1, <1>2, <1>3, <1>4, <1>5, <1>6, <1>7, <1>8, <1>9, <1>10, <1>11, <1>12, <1>13 DEF HarnessInv

LEMMA CancelOwnerKeeps ==
  ASSUME HarnessInv, NEW c \in Cancellers, CancelOwner(c)
  PROVE  HarnessInv'
<1>1. GroupType'
  BY DEF HarnessInv, CancelOwner, Interrupted, group, GroupType
<1>2. CleanupType'
  BY DEF HarnessInv, CancelOwner, Interrupted, group, CleanupType
<1>3. OwnerType'
  BY DEF HarnessInv, CancelOwner, Interrupted, group, OwnerType
<1>4. CallerType'
  BY DEF HarnessInv, CancelOwner, Interrupted, group, CallerType
<1>5. Unborn'
  BY DEF HarnessInv, CancelOwner, Interrupted, group, Unborn, OwnerType, CleanupType
<1>6. ActiveWhileOwned'
  BY DEF HarnessInv, CancelOwner, Interrupted, group, ActiveWhileOwned, OwnerType
<1>7. Escalation'
  BY DEF HarnessInv, CancelOwner, Interrupted, group, Escalation, CleanupType
<1>8. ResultIsEarned'
  BY DEF HarnessInv, CancelOwner, Interrupted, group, ResultIsEarned, CleanupType
<1>9. VerifiedMeansGone'
  BY DEF HarnessInv, CancelOwner, Interrupted, group, VerifiedMeansGone, CleanupType, Gone, Unborn
<1>10. KnownIsVerified'
  BY DEF HarnessInv, CancelOwner, Interrupted, group, KnownIsVerified, CleanupType, OwnerType, Gone, VerifiedMeansGone, ResultIsEarned
<1>11. JoinedCancelIsVerified'
  BY DEF HarnessInv, CancelOwner, Interrupted, group, JoinedCancelIsVerified, CallerType, Gone
<1>12. CleanupIsAwaited'
  BY DEF HarnessInv, CancelOwner, Interrupted, OwnerType, Unborn, ActiveWhileOwned, CleanupIsAwaited, Ended
<1>13. CancellationIsKept'
  BY DEF HarnessInv, CancelOwner, Interrupted, OwnerType, ActiveWhileOwned, CancellationIsKept, Ended
<1> QED
  BY <1>1, <1>2, <1>3, <1>4, <1>5, <1>6, <1>7, <1>8, <1>9, <1>10, <1>11, <1>12, <1>13 DEF HarnessInv

LEMMA CallerCancelledKeeps ==
  ASSUME HarnessInv, NEW c \in Cancellers, CallerCancelled(c)
  PROVE  HarnessInv'
<1>1. GroupType'
  BY DEF HarnessInv, CallerCancelled, CallerStep, group, GroupType
<1>2. CleanupType'
  BY DEF HarnessInv, CallerCancelled, CallerStep, group, CleanupType
<1>3. OwnerType'
  BY DEF HarnessInv, CallerCancelled, CallerStep, group, OwnerType
<1>4. CallerType'
  BY DEF HarnessInv, CallerCancelled, CallerStep, group, CallerType
<1>5. Unborn'
  BY DEF HarnessInv, CallerCancelled, CallerStep, group, Unborn, OwnerType, CleanupType
<1>6. ActiveWhileOwned'
  BY DEF HarnessInv, CallerCancelled, CallerStep, group, ActiveWhileOwned, OwnerType
<1>7. Escalation'
  BY DEF HarnessInv, CallerCancelled, CallerStep, group, Escalation, CleanupType
<1>8. ResultIsEarned'
  BY DEF HarnessInv, CallerCancelled, CallerStep, group, ResultIsEarned, CleanupType
<1>9. VerifiedMeansGone'
  BY DEF HarnessInv, CallerCancelled, CallerStep, group, VerifiedMeansGone, CleanupType, Gone, Unborn
<1>10. KnownIsVerified'
  BY DEF HarnessInv, CallerCancelled, CallerStep, group, KnownIsVerified, CleanupType, OwnerType, Gone, VerifiedMeansGone, ResultIsEarned
<1>11. JoinedCancelIsVerified'
  BY DEF HarnessInv, CallerCancelled, CallerStep, group, JoinedCancelIsVerified, CallerType, Gone
<1>12. CleanupIsAwaited'
  BY DEF HarnessInv, CallerCancelled, CallerStep, group, CleanupIsAwaited, CleanupType, OwnerType, Ended
<1>13. CancellationIsKept'
  BY DEF HarnessInv, CallerCancelled, CallerStep, group, CancellationIsKept, OwnerType
<1> QED
  BY <1>1, <1>2, <1>3, <1>4, <1>5, <1>6, <1>7, <1>8, <1>9, <1>10, <1>11, <1>12, <1>13 DEF HarnessInv

LEMMA CancelCollectedKeeps ==
  ASSUME HarnessInv, NEW c \in Cancellers, CancelCollected(c)
  PROVE  HarnessInv'
<1>1. GroupType'
  BY DEF HarnessInv, CancelCollected, CallerStep, group, CancelFailed, GroupType
<1>2. CleanupType'
  BY DEF HarnessInv, CancelCollected, CallerStep, group, CancelFailed, CleanupType
<1>3. OwnerType'
  BY DEF HarnessInv, CancelCollected, CallerStep, group, CancelFailed, OwnerType
<1>4. CallerType'
  BY DEF HarnessInv, CancelCollected, CallerStep, group, CancelFailed, CallerType
<1>5. Unborn'
  BY DEF HarnessInv, CancelCollected, CallerStep, group, CancelFailed, Unborn, OwnerType, CleanupType
<1>6. ActiveWhileOwned'
  BY DEF HarnessInv, CancelCollected, CallerStep, group, CancelFailed, ActiveWhileOwned, OwnerType
<1>7. Escalation'
  BY DEF HarnessInv, CancelCollected, CallerStep, group, CancelFailed, Escalation, CleanupType
<1>8. ResultIsEarned'
  BY DEF HarnessInv, CancelCollected, CallerStep, group, CancelFailed, ResultIsEarned, CleanupType
<1>9. VerifiedMeansGone'
  BY DEF HarnessInv, CancelCollected, CallerStep, group, CancelFailed, VerifiedMeansGone, CleanupType, Gone, Unborn
<1>10. KnownIsVerified'
  BY DEF HarnessInv, CancelCollected, CallerStep, group, CancelFailed, KnownIsVerified, CleanupType, OwnerType, Gone, VerifiedMeansGone, ResultIsEarned
<1>11. JoinedCancelIsVerified'
  BY DEF HarnessInv, CancelCollected, CallerStep, group, CancelFailed, JoinedCancelIsVerified, CallerType, Gone
<1>12. CleanupIsAwaited'
  BY DEF HarnessInv, CancelCollected, CallerStep, group, CancelFailed, CleanupIsAwaited, CleanupType, OwnerType, Ended
<1>13. CancellationIsKept'
  BY DEF HarnessInv, CancelCollected, CallerStep, group, CancelFailed, CancellationIsKept, OwnerType
<1> QED
  BY <1>1, <1>2, <1>3, <1>4, <1>5, <1>6, <1>7, <1>8, <1>9, <1>10, <1>11, <1>12, <1>13 DEF HarnessInv

LEMMA CancelWaitedKeeps ==
  ASSUME HarnessInv, NEW c \in Cancellers, CancelWaited(c)
  PROVE  HarnessInv'
<1>1. GroupType'
  BY DEF HarnessInv, CancelWaited, CallerStep, group, GroupType
<1>2. CleanupType'
  BY DEF HarnessInv, CancelWaited, CallerStep, group, CleanupType
<1>3. OwnerType'
  BY DEF HarnessInv, CancelWaited, CallerStep, group, OwnerType
<1>4. CallerType'
  BY DEF HarnessInv, CancelWaited, CallerStep, group, CallerType
<1>5. Unborn'
  BY DEF HarnessInv, CancelWaited, CallerStep, group, Unborn, OwnerType, CleanupType
<1>6. ActiveWhileOwned'
  BY DEF HarnessInv, CancelWaited, CallerStep, group, ActiveWhileOwned, OwnerType
<1>7. Escalation'
  BY DEF HarnessInv, CancelWaited, CallerStep, group, Escalation, CleanupType
<1>8. ResultIsEarned'
  BY DEF HarnessInv, CancelWaited, CallerStep, group, ResultIsEarned, CleanupType
<1>9. VerifiedMeansGone'
  BY DEF HarnessInv, CancelWaited, CallerStep, group, VerifiedMeansGone, CleanupType, Gone, Unborn
<1>10. KnownIsVerified'
  BY DEF HarnessInv, CancelWaited, CallerStep, group, KnownIsVerified, CleanupType, OwnerType, Gone, VerifiedMeansGone, ResultIsEarned
<1>11. JoinedCancelIsVerified'
  BY DEF HarnessInv, CancelWaited, CallerStep, group, JoinedCancelIsVerified, CallerType, Gone
<1>12. CleanupIsAwaited'
  BY DEF HarnessInv, CancelWaited, CallerStep, group, CleanupIsAwaited, CleanupType, OwnerType, Ended
<1>13. CancellationIsKept'
  BY DEF HarnessInv, CancelWaited, CallerStep, group, CancellationIsKept, OwnerType
<1> QED
  BY <1>1, <1>2, <1>3, <1>4, <1>5, <1>6, <1>7, <1>8, <1>9, <1>10, <1>11, <1>12, <1>13 DEF HarnessInv

LEMMA StutterKeeps ==
  ASSUME HarnessInv, UNCHANGED vars
  PROVE  HarnessInv'
<1>1. GroupType'
  BY DEF HarnessInv, vars, group, GroupType
<1>2. CleanupType'
  BY DEF HarnessInv, vars, group, CleanupType
<1>3. OwnerType'
  BY DEF HarnessInv, vars, group, OwnerType
<1>4. CallerType'
  BY DEF HarnessInv, vars, group, CallerType
<1>5. Unborn'
  BY DEF HarnessInv, vars, group, Unborn, OwnerType, CleanupType
<1>6. ActiveWhileOwned'
  BY DEF HarnessInv, vars, group, ActiveWhileOwned, OwnerType
<1>7. Escalation'
  BY DEF HarnessInv, vars, group, Escalation, CleanupType
<1>8. ResultIsEarned'
  BY DEF HarnessInv, vars, group, ResultIsEarned, CleanupType
<1>9. VerifiedMeansGone'
  BY DEF HarnessInv, vars, group, VerifiedMeansGone, CleanupType, Gone, Unborn
<1>10. KnownIsVerified'
  BY DEF HarnessInv, vars, group, KnownIsVerified, CleanupType, OwnerType, Gone, VerifiedMeansGone, ResultIsEarned
<1>11. JoinedCancelIsVerified'
  BY DEF HarnessInv, vars, group, JoinedCancelIsVerified, CallerType, Gone
<1>12. CleanupIsAwaited'
  BY DEF HarnessInv, vars, group, CleanupIsAwaited, CleanupType, OwnerType, Ended
<1>13. CancellationIsKept'
  BY DEF HarnessInv, vars, group, CancellationIsKept, OwnerType
<1> QED
  BY <1>1, <1>2, <1>3, <1>4, <1>5, <1>6, <1>7, <1>8, <1>9, <1>10, <1>11, <1>12, <1>13 DEF HarnessInv

-----------------------------------------------------------------------------
(* The theorems.                                                           *)

LEMMA InvariantIsKept == HarnessInv /\ [Next]_vars => HarnessInv'
<1> SUFFICES ASSUME HarnessInv, [Next]_vars PROVE HarnessInv'
  OBVIOUS
<1>1. CASE Processes
  BY <1>1, LeaderExitsKeeps, ReapKeeps, HearKeeps, ForkKeeps, KidLeavesKeeps DEF Processes
<1>2. CASE Terminate
  BY <1>2, CheckPresenceKeeps, CheckIdentityKeeps, SendTermKeeps, SendKillKeeps,
     WaitSucceedsKeeps, WaitExpiresKeeps DEF Terminate
<1>3. CASE Execute
  BY <1>3, LaunchKeeps, CreationFailsKeeps, CreatedKeeps, LaunchCleanedKeeps, WaitEndsKeeps,
     CollectedKeeps, FinishKeeps DEF Execute
<1>4. CASE StreamFails \/ TimeoutDeferred \/ OwnerCancelled
  BY <1>4, WaitEndsKeeps, TimeoutDeferredKeeps, OwnerCancelledKeeps
<1>5. CASE \E c \in Cancellers :
             Cancel(c) \/ CancelActive(c) \/ CancelOwner(c) \/ CallerCancelled(c)
  BY <1>5, CancelCollectedKeeps, CancelWaitedKeeps, CancelActiveKeeps, CancelOwnerKeeps,
     CallerCancelledKeeps DEF Cancel
<1>6. CASE UNCHANGED vars
  BY <1>6, StutterKeeps
<1> QED
  BY <1>1, <1>2, <1>3, <1>4, <1>5, <1>6 DEF Next

LEMMA InvariantHolds == Spec => []HarnessInv
  BY InvariantStartsOut, InvariantIsKept, PTL DEF Spec

\* Whoever reports the processes of a harness gone, the verified cleanup, the
\* result whose outcome is known or the cancel that returns, tells the truth,
\* and no group is escalated against twice (terminate_contained_process and its
\* callers in _harness.py).
THEOREM GoneWhenReported == Spec => []ReportedGoneIsGone
  BY InvariantHolds, InvariantTellsTheTruth, PTL

\* The execute task never ends during its cleanup, and a cancellation of it is
\* raised or leaves the outcome unknown (_harness.py, execute).
THEOREM CancellationsSurvive == Spec => []InterruptionIsDeferred
  BY InvariantHolds, InvariantDefersInterruptions, PTL

=============================================================================
