--------------------------- MODULE HarnessProcess ---------------------------
(***************************************************************************)
(* One live harness child and everybody who waits for it: the process      *)
(* group launched and cleaned up by runners/containment.py, the execute    *)
(* task of runners/_harness.py that owns it, and the callers of cancel.    *)
(*                                                                         *)
(* The tasks share one event loop: they interleave at their awaits only.   *)
(* The processes do not: they fork, exit and are reaped between any two    *)
(* system calls.  Group ids are not reused while a cleanup looks at them.  *)
(***************************************************************************)
EXTENDS Integers, Sequences

CONSTANTS
  Cancellers,   \* callers of cancel(run_id)
  MaxKids       \* bound: descendants of the child in its group at one time

ASSUME HarnessAssumption == MaxKids \in Nat

VARIABLES
  leader,     \* the direct child: "none", "alive", "zombie" or "gone" (reaped)
  kids,       \* descendants alive in the original group
  told,       \* process.returncode is set
  sent,       \* history: the signals that reached the group
  cleanup,    \* terminate_contained_process: where it is and what it has seen
  owner,      \* the execute task
  active,     \* the run is in _active_processes
  requested,  \* active.cancel_requested
  caller      \* canceller -> where its call is

group == <<leader, kids, told, sent>>
vars == <<group, cleanup, owner, active, requested, caller>>

-----------------------------------------------------------------------------
Gone == leader = "gone" /\ kids = 0

NoResult == [verified |-> FALSE, reason |-> "none"]

\* _cleanup_result: an uncertain one, whatever the reason.
Uncertain == [verified |-> FALSE, reason |-> "uncertain"]

\* The cleanup has not begun, waits between two polls, or has its result.
Awaiting == {"none", "wait_early", "wait_term", "wait_kill", "done"}

\* No task is between two of its awaits.
LoopIsFree == cleanup.at \in Awaiting

NoCleanup == [at |-> "none", term |-> "unsent", kill |-> FALSE, result |-> NoResult]

CleanupDone(result) == cleanup' = [cleanup EXCEPT !.at = "done", !.result = result]

\* _process_group_presence, where the system may also refuse to tell.
Presences == {IF Gone THEN "absent" ELSE "present", "unknown"}

\* The direct child is known as the leader of its group, and still there.
Identities == {IF leader = "gone" THEN "vanished" ELSE "verified", "unknown"}

-----------------------------------------------------------------------------
\* The processes.

LeaderExits ==
  /\ leader = "alive"
  /\ leader' = "zombie"
  /\ UNCHANGED <<kids, told, sent, cleanup, owner, active, requested, caller>>

\* The child watcher reaps it ...
Reap ==
  /\ leader = "zombie"
  /\ leader' = "gone"
  /\ UNCHANGED <<kids, told, sent, cleanup, owner, active, requested, caller>>

\* ... and the event loop hears of it later.
Hear ==
  /\ LoopIsFree
  /\ leader = "gone" /\ ~told
  /\ told' = TRUE
  /\ UNCHANGED <<leader, kids, sent, cleanup, owner, active, requested, caller>>

Fork ==
  /\ leader = "alive" \/ kids > 0
  /\ "KILL" \notin {sent[i] : i \in DOMAIN sent}
  /\ kids < MaxKids
  /\ kids' = kids + 1
  /\ UNCHANGED <<leader, told, sent, cleanup, owner, active, requested, caller>>

\* A descendant exits, or moves to a group of its own.
KidLeaves ==
  /\ kids > 0
  /\ kids' = kids - 1
  /\ UNCHANGED <<leader, told, sent, cleanup, owner, active, requested, caller>>

-----------------------------------------------------------------------------
\* terminate_contained_process, one system call at a time.

CleanupStep == UNCHANGED <<leader, kids, told, owner, active, requested, caller>>

CheckPresence ==
  /\ cleanup.at = "presence"
  /\ \E p \in Presences :
       \/ p = "absent" /\ cleanup' = [cleanup EXCEPT !.at = "wait_early"]
       \/ p = "unknown" /\ CleanupDone(Uncertain)
       \/ p = "present" /\ cleanup' = [cleanup EXCEPT !.at = IF told THEN "term" ELSE "identity"]
  /\ UNCHANGED sent /\ CleanupStep

\* A leader that has not been reaped must still be its own before any signal.
CheckIdentity ==
  /\ cleanup.at \in {"identity", "identity_again"}
  /\ \E i \in Identities :
       \/ /\ i = "verified"
          /\ cleanup' = [cleanup EXCEPT !.at = IF @ = "identity" THEN "term" ELSE "kill"]
       \/ i # "verified" /\ CleanupDone(Uncertain)
  /\ UNCHANGED sent /\ CleanupStep

SendTerm ==
  /\ cleanup.at = "term"
  /\ \E p \in Presences :
       \/ p = "unknown" /\ CleanupDone(Uncertain) /\ UNCHANGED sent
       \/ /\ p # "unknown"
          /\ cleanup' = [cleanup EXCEPT !.at = "wait_term",
                           !.term = IF p = "present" THEN "sent" ELSE "absent"]
          /\ sent' = IF p = "present" THEN Append(sent, "TERM") ELSE sent
  /\ CleanupStep

SendKill ==
  /\ cleanup.at = "kill"
  /\ \E p \in Presences :
       /\ cleanup' = [cleanup EXCEPT !.at = "wait_kill", !.kill = (p = "present")]
       /\ sent' = IF p = "present" THEN Append(sent, "KILL") ELSE sent
  /\ CleanupStep

\* What a cleanup that found the group gone calls it.
VerifiedReason ==
  IF cleanup.kill THEN "killed"
  ELSE IF cleanup.at = "wait_term" /\ cleanup.term = "sent" THEN "terminated"
  ELSE "already_exited"

\* _final_cleanup_result
FinalResult(p) ==
  IF p = "absent" /\ told THEN [verified |-> TRUE, reason |-> VerifiedReason] ELSE Uncertain

\* _wait_for_absence_and_reap returns early, with the group gone and the child
\* reaped; otherwise it polls on.
WaitSucceeds ==
  /\ cleanup.at \in {"wait_early", "wait_term", "wait_kill"}
  /\ Gone /\ told
  /\ CleanupDone(FinalResult("absent"))
  /\ UNCHANGED sent /\ CleanupStep

\* Its deadline passes: after TERM the group is killed, if it is still ours.
WaitExpires ==
  /\ cleanup.at \in {"wait_early", "wait_term", "wait_kill"}
  /\ \E p \in Presences :
       IF cleanup.at = "wait_term" /\ cleanup.term = "sent"
            /\ p # "unknown" /\ ~(p = "absent" /\ told)
       THEN cleanup' = [cleanup EXCEPT !.at = IF told THEN "kill" ELSE "identity_again"]
       ELSE CleanupDone(FinalResult(p))
  /\ UNCHANGED sent /\ CleanupStep

-----------------------------------------------------------------------------
\* The execute task.

Ended == owner.at \in {"result", "raised"}

\* A task of its own runs the cleanup once, whoever asks first.
CleanupStarted == [NoCleanup EXCEPT !.at = "presence"]

JoinCleanup ==
  IF cleanup.at = "none" THEN cleanup' = CleanupStarted ELSE UNCHANGED cleanup

OwnerStep == LoopIsFree /\ UNCHANGED <<group, requested, caller>>

\* The wall timeout is still armed and the launch is attempted.
Launch ==
  /\ OwnerStep
  /\ owner.at = "start"
  /\ owner' = [owner EXCEPT !.at = "creating"]
  /\ UNCHANGED <<cleanup, active>>

\* Creation fails: no process, but nobody knows what was started.
CreationFails ==
  /\ OwnerStep
  /\ owner.at = "creating"
  /\ owner' = [owner EXCEPT !.at = "postflight", !.unknown = TRUE]
  /\ UNCHANGED <<cleanup, active>>

\* Creation returns a child, which may have forked and exited meanwhile.  Only a
\* verified one becomes active at once; an interruption that came during creation is
\* kept until the child has been cleaned up.
Created ==
  /\ LoopIsFree
  /\ owner.at = "creating"
  /\ leader' \in {"alive", "gone"}
  /\ told' \in IF leader' = "gone" THEN BOOLEAN ELSE {FALSE}
  /\ kids' \in 0..MaxKids
  /\ \/ /\ owner.deferred = "no" /\ leader' = "alive"
        /\ owner' = [owner EXCEPT !.at = "running"]
        /\ active' = TRUE
        /\ UNCHANGED cleanup
     \/ /\ owner' = [owner EXCEPT !.at = "launch_cleanup",
                       !.why = IF leader' = "gone" THEN "vanished" ELSE "unverified"]
        /\ cleanup' = CleanupStarted
        /\ UNCHANGED active
  /\ UNCHANGED <<sent, requested, caller>>

\* A child that came and went by itself, proved by an untouched, empty group.
LaunchAccepted ==
  /\ owner.why = "vanished"
  /\ cleanup.result = [verified |-> TRUE, reason |-> "already_exited"]
  /\ cleanup.term # "sent" /\ ~cleanup.kill

\* The end of launch_contained_process when it had to clean up.
LaunchCleaned ==
  /\ OwnerStep
  /\ owner.at = "launch_cleanup" /\ cleanup.at = "done"
  /\ IF owner.deferred # "no" /\ cleanup.result.verified
     THEN \/ owner' = [owner EXCEPT !.at = "raised"] /\ UNCHANGED <<cleanup, active>>
          \/ /\ owner.deferred = "timeout"
             /\ owner' = [owner EXCEPT !.at = "postflight", !.timedOut = TRUE, !.unknown = TRUE]
             /\ UNCHANGED <<cleanup, active>>
     ELSE IF owner.deferred = "no" /\ LaunchAccepted
     THEN /\ owner' = [owner EXCEPT !.at = "running"]
          /\ active' = TRUE
          /\ cleanup' = NoCleanup
     ELSE /\ owner' = [owner EXCEPT !.at = "postflight", !.unknown = TRUE]
          /\ UNCHANGED <<cleanup, active>>

\* The wait ends: the child exits, a stream breaks a limit or fails, or the
\* wall timeout fires.
Collects(why) ==
  /\ OwnerStep
  /\ owner.at = "running"
  /\ owner' = [owner EXCEPT !.at = "collect", !.why = why]
  /\ JoinCleanup
  /\ UNCHANGED active

ExitSeen == told /\ Collects("exit")
StreamFails == \E why \in {"limit", "error"} : Collects(why)
TimeoutFires == Collects("timeout")

\* The timeout fires while the exit is being collected: the cancellation it
\* sends is deferred.
TimeoutDeferred ==
  /\ OwnerStep
  /\ \/ owner.at = "collect" /\ owner.why = "exit"
     \/ owner.at \in {"creating", "launch_cleanup"}
  /\ owner.deferred = "no"
  /\ owner' = [owner EXCEPT !.deferred = "timeout"]
  /\ UNCHANGED <<cleanup, active>>

\* A known exit left nothing behind that had to be removed.
ExitIsKnown ==
  cleanup.result.verified /\ (cleanup.result.reason = "already_exited" \/ requested)

\* The task leaves the try block, with its run out of _active_processes.
Leaves(place, unknown) ==
  /\ owner' = [owner EXCEPT !.at = place, !.unknown = @ \/ unknown,
                 !.timedOut = @ \/ owner.why = "timeout",
                 !.cancelled = requested]
  /\ active' = FALSE
  /\ UNCHANGED cleanup

\* Forgets a cancellation that came during the cleanup.
BrokenExitCollected ==
  /\ owner.why = "exit"
  /\ Leaves("postflight", ~ExitIsKnown)

\* After a collected exit the streams settle, or break a limit after all.
ExitCollected ==
  /\ owner.why = "exit"
  /\ \/ owner.deferred = "no" /\ Leaves("postflight", ~ExitIsKnown)
     \/ /\ owner' = [owner EXCEPT !.deferred = "no",
              !.unknown = @ \/ (owner.deferred = "no" /\ ~ExitIsKnown),
              !.why = CASE owner.deferred = "no" -> "limit"
                        [] owner.deferred = "timeout" -> "timeout"
                        [] owner.deferred = "cancel" -> "interrupt"]
        /\ UNCHANGED <<cleanup, active>>

\* Takes the cleanup after a timeout for granted.
BrokenFailureCollected ==
  \/ /\ owner.why = "interrupt" \/ owner.deferred = "cancel"
     /\ Leaves("raised", FALSE)
  \/ /\ owner.why \in {"limit", "error"} /\ owner.deferred = "no"
     /\ Leaves("postflight", TRUE)
  \/ /\ owner.why = "timeout" /\ owner.deferred = "no"
     /\ \E unsettled \in BOOLEAN : Leaves("postflight", unsettled)

\* The handlers: a limit or an error after launch is an unknown outcome, a
\* timeout is when the cleanup or the tasks could not be settled.
FailureCollected ==
  \/ /\ owner.why = "interrupt" \/ owner.deferred = "cancel"
     /\ Leaves("raised", FALSE)
  \/ /\ owner.why \in {"limit", "error"} /\ owner.deferred = "no"
     /\ Leaves("postflight", TRUE)
  \/ /\ owner.why = "timeout" /\ owner.deferred = "no"
     /\ \E unsettled \in BOOLEAN : Leaves("postflight", ~cleanup.result.verified \/ unsettled)

Collected ==
  /\ OwnerStep
  /\ owner.at = "collect" /\ cleanup.at = "done"
  /\ ExitCollected \/ FailureCollected

\* The result is built, unless the output or its removal makes it unknown.
Finish ==
  /\ OwnerStep
  /\ owner.at = "postflight"
  /\ \E unreadable \in BOOLEAN :
       owner' = [owner EXCEPT !.at = "result", !.unknown = @ \/ unreadable]
  /\ UNCHANGED <<cleanup, active>>

\* The execute task is cancelled: at once where nothing runs, after the cleanup
\* where something may.
Interrupted ==
  /\ ~Ended
  /\ owner' =
       IF owner.at \in {"start", "postflight"}
       THEN [owner EXCEPT !.at = "raised", !.hit = TRUE]
       ELSE IF owner.at = "running"
       THEN [owner EXCEPT !.at = "collect", !.why = "interrupt", !.hit = TRUE]
       ELSE [owner EXCEPT !.deferred = "cancel", !.hit = TRUE]

OwnerCancelled ==
  /\ OwnerStep
  /\ ~owner.hit
  /\ Interrupted
  /\ active' = (active /\ owner'.at # "raised")
  /\ IF owner'.at = "collect" THEN JoinCleanup ELSE UNCHANGED cleanup

-----------------------------------------------------------------------------
\* cancel(run_id)

CancelActive(c) ==
  /\ LoopIsFree
  /\ caller[c].at = "idle" /\ active
  /\ requested' = TRUE
  /\ caller' = [caller EXCEPT ![c].at = "collecting"]
  /\ JoinCleanup
  /\ UNCHANGED <<group, owner, active>>

\* No process is known: the task is cancelled, and waited for.
CancelOwner(c) ==
  /\ LoopIsFree
  /\ caller[c].at = "idle" /\ ~active /\ ~Ended
  /\ caller' = [caller EXCEPT ![c].at = "waiting"]
  /\ Interrupted
  /\ UNCHANGED <<group, cleanup, active, requested>>

CallerStep == LoopIsFree /\ UNCHANGED <<group, cleanup, owner, active, requested>>

\* The caller itself is cancelled while it waits.
CallerCancelled(c) ==
  /\ CallerStep
  /\ caller[c].at \in {"collecting", "waiting"} /\ ~caller[c].deferred
  /\ caller' = [caller EXCEPT ![c].deferred = TRUE]

CancelFailed == ~cleanup.result.verified

CancelCollected(c) ==
  /\ CallerStep
  /\ caller[c].at = "collecting" /\ cleanup.at = "done"
  /\ caller' = [caller EXCEPT ![c].via = "collecting",
       ![c].at = IF CancelFailed THEN "failed"
                 ELSE IF caller[c].deferred THEN "cancelled" ELSE "returned"]

\* Waits for a result that an interrupted task never gives.
BrokenCancelWaited(c) ==
  /\ CallerStep
  /\ caller[c].at = "waiting" /\ owner.at = "result"
  /\ caller' = [caller EXCEPT ![c].via = "waiting", ![c].at = "returned"]

\* The task has ended: only a result that demands quarantine is a failure.
CancelWaited(c) ==
  /\ CallerStep
  /\ caller[c].at = "waiting" /\ Ended
  /\ caller' = [caller EXCEPT ![c].via = "waiting",
       ![c].at = IF owner.at = "result" /\ owner.unknown THEN "failed"
                 ELSE IF caller[c].deferred THEN "cancelled" ELSE "returned"]

-----------------------------------------------------------------------------
Init ==
  /\ leader = "none" /\ kids = 0 /\ told = FALSE /\ sent = <<>>
  /\ cleanup = NoCleanup
  /\ owner = [at |-> "start", why |-> "none", deferred |-> "no", hit |-> FALSE,
              unknown |-> FALSE, timedOut |-> FALSE, cancelled |-> FALSE]
  /\ active = FALSE /\ requested = FALSE
  /\ caller = [c \in Cancellers |-> [at |-> "idle", via |-> "none", deferred |-> FALSE]]

Processes == LeaderExits \/ Reap \/ Hear \/ Fork \/ KidLeaves

Terminate ==
  \/ CheckPresence \/ CheckIdentity \/ SendTerm \/ SendKill \/ WaitSucceeds \/ WaitExpires

\* What the loop, the wall timeout and the system see to.
Execute ==
  \/ Launch \/ CreationFails \/ Created \/ LaunchCleaned \/ ExitSeen \/ TimeoutFires
  \/ Collected \/ Finish

Cancel(c) == CancelCollected(c) \/ CancelWaited(c)

Next ==
  \/ Processes \/ Terminate \/ Execute
  \/ StreamFails \/ TimeoutDeferred \/ OwnerCancelled
  \/ \E c \in Cancellers :
       Cancel(c) \/ CancelActive(c) \/ CancelOwner(c) \/ CallerCancelled(c)

Spec == Init /\ [][Next]_vars

\* The loop runs the tasks, their deadlines and the wall timeout fire and a
\* spawn resolves.  Nothing is assumed of the processes, whatever is sent to them.
FairSpec ==
  /\ Spec
  /\ WF_vars(Terminate) /\ WF_vars(Execute)
  /\ \A c \in Cancellers : WF_vars(Cancel(c))

-----------------------------------------------------------------------------
Places == Awaiting \cup {"presence", "identity", "identity_again", "term", "kill"}
Results ==
  {NoResult, Uncertain}
    \cup [verified : {TRUE}, reason : {"already_exited", "terminated", "killed"}]

\* What every variable holds: a cleanup is verified for a reason, or uncertain.
TypeOK ==
  /\ leader \in {"none", "alive", "zombie", "gone"}
  /\ kids \in 0 .. MaxKids
  /\ told \in BOOLEAN /\ active \in BOOLEAN /\ requested \in BOOLEAN
  /\ cleanup \in [at : Places, term : {"unsent", "sent", "absent"}, kill : BOOLEAN,
                  result : Results]
  /\ owner \in [at : {"start", "creating", "launch_cleanup", "running", "collect",
                      "postflight", "result", "raised"},
                why : {"none", "vanished", "unverified", "exit", "limit", "error",
                       "timeout", "interrupt"},
                deferred : {"no", "timeout", "cancel"},
                hit : BOOLEAN, unknown : BOOLEAN, timedOut : BOOLEAN, cancelled : BOOLEAN]
  /\ caller \in [Cancellers ->
       [at : {"idle", "collecting", "waiting", "returned", "failed", "cancelled"},
        via : {"none", "collecting", "waiting"}, deferred : BOOLEAN]]

\* A verified cleanup is proof: the child is reaped and its original group is
\* empty, then and ever after (terminate_contained_process).
VerifiedMeansGone == cleanup.result.verified => Gone /\ told

\* Whoever joins whom, the group is sent TERM at most once and KILL only after it
\* (collect_cleanup shares one cleanup among the task and its cancellers).
OneEscalation == sent \in {<<>>, <<"TERM">>, <<"TERM", "KILL">>}

\* A result whose outcome is known leaves nothing of the group behind: this is
\* what the billing guard relies on when it frees the account for the next run.
KnownMeansGone == owner.at = "result" /\ ~owner.unknown => Gone

OrdinaryResult ==
  owner.at = "result" /\ ~owner.unknown /\ ~owner.timedOut /\ ~owner.cancelled

\* An ordinary, known result (no timeout, no cancellation) is of a child that left
\* no descendant that had to be killed.
KnownExitWasNotKilled == OrdinaryResult => sent \in {<<>>, <<"TERM">>}

\* The execute task does not end, not even when it is cancelled, while a cleanup
\* is under way: nobody is left to hear of its result.
NoCleanupLeftBehind == Ended => cleanup.at \in {"none", "done"}

\* A cancellation of the execute task is deferred, never lost: it is raised in the
\* end, or the outcome is unknown.
CancellationIsNotLost == Ended /\ owner.hit => owner.at = "raised" \/ owner.unknown

\* cancel returns as if all were well only when the cleanup it joined was verified.
JoinedCancelIsVerified ==
  \A c \in Cancellers :
    caller[c].at \in {"returned", "cancelled"} /\ caller[c].via = "collecting" => Gone

\* Whoever says that the processes are gone tells the truth: the cleanup whose
\* result is verified, the harness result whose outcome is known and the cancel
\* that returns; and the one cleanup they share was not begun twice.
ReportedGoneIsGone ==
  /\ TypeOK
  /\ OneEscalation
  /\ VerifiedMeansGone
  /\ KnownMeansGone /\ KnownExitWasNotKilled
  /\ JoinedCancelIsVerified

\* However a cancellation of the execute task meets the cleanup, both survive it.
InterruptionIsDeferred == NoCleanupLeftBehind /\ CancellationIsNotLost

ExecutionEnds == <>Ended

CancelIsAnswered ==
  \A c \in Cancellers :
    caller[c].at # "idle" ~> caller[c].at \in {"returned", "failed", "cancelled"}

\* Whatever the processes do, the execution ends and every cancel is answered:
\* all waits of the cleanup are bounded and nobody waits for somebody who waits.
EveryWaitEnds == ExecutionEnds /\ CancelIsAnswered
=============================================================================
