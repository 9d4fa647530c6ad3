------------------------ MODULE ForegroundSupervisor ------------------------
(***************************************************************************)
(* The foreground control loop (`ordomata supervise`: ForegroundSupervisor *)
(* in src/ordomata/supervisor.py, run by _run_foreground_supervisor in     *)
(* cli.py) over the store of module Supervisor.                            *)
(*                                                                         *)
(* A tick is not one transaction.  It reads the clock once, renews or      *)
(* acquires the foreground lease, reads the control head, counts running   *)
(* flows and only then may write "stopped": five steps between which any   *)
(* other process may commit, the lease may lapse and the loop may die.     *)
(***************************************************************************)
EXTENDS Supervisor

VARIABLES
  loop,    \* instance -> where its process stands
  granted  \* instance -> expiry of the last foreground lease it was granted

loopVars == <<vars, loop, granted>>

Places == {"new", "idle", "renew", "acquire", "read", "count", "stop", "closing", "gone"}

\* An instance owner is a fresh name per process: once gone, it never returns.
Up(i) == loop[i].at \notin {"new", "gone"}

Goto(i, place) == loop' = [loop EXCEPT ![i].at = place]

StoreUnchanged == UNCHANGED vars

Draining == control.mode \in {"draining", "stop_requested"}

-----------------------------------------------------------------------------
StartProcess(i) ==
  /\ loop[i].at = "new"
  /\ Goto(i, "idle")
  /\ StoreUnchanged /\ UNCHANGED granted

\* The only clock reading of a tick: every later step of it uses this stamp.
BeginTick(i) ==
  /\ loop[i].at = "idle"
  /\ loop' = [loop EXCEPT ![i].at = "renew", ![i].stamp = now]
  /\ StoreUnchanged /\ UNCHANGED granted

TickRenew(i) ==
  /\ loop[i].at = "renew"
  /\ IF CanRenewForeground(i, loop[i].stamp)
       THEN /\ RenewForeground(i, loop[i].stamp)
            /\ granted' = [granted EXCEPT ![i] = loop[i].stamp + ForegroundTTL]
            /\ Goto(i, "read")
       ELSE /\ Goto(i, "acquire")
            /\ StoreUnchanged /\ UNCHANGED granted

\* acquire_foreground takes a free or expired row, accepts its own unexpired
\* row without a write, and otherwise the tick raises and the loop closes.
TickAcquire(i) ==
  /\ loop[i].at = "acquire"
  /\ IF ForegroundFree(loop[i].stamp)
       THEN /\ AcquireForeground(i, loop[i].stamp)
            /\ granted' = [granted EXCEPT ![i] = loop[i].stamp + ForegroundTTL]
            /\ Goto(i, "read")
       ELSE /\ Goto(i, IF foreground.owner = i THEN "read" ELSE "closing")
            /\ StoreUnchanged /\ UNCHANGED granted

TickRead(i) ==
  /\ loop[i].at = "read"
  /\ loop' = [loop EXCEPT
       ![i].seen = control.revision,
       ![i].at = CASE Draining -> "count"
                   [] control.mode = "stopped" -> "closing"
                   [] OTHER -> "idle"]
  /\ StoreUnchanged /\ UNCHANGED granted

TickCount(i) ==
  /\ loop[i].at = "count"
  /\ Goto(i, IF RunningFlows = {} THEN "stop" ELSE "idle")
  /\ StoreUnchanged /\ UNCHANGED granted

\* Stops whatever revision is current.
BrokenTickStop(i) ==
  /\ loop[i].at = "stop"
  /\ IF Draining THEN UpdateControl(control.revision, "stopped") ELSE StoreUnchanged
  /\ Goto(i, "closing")
  /\ UNCHANGED granted

\* update_control to "stopped"; a revision that moved since raises instead.
TickStop(i) ==
  /\ loop[i].at = "stop"
  /\ IF control.revision = loop[i].seen
       THEN UpdateControl(loop[i].seen, "stopped")
       ELSE StoreUnchanged
  /\ Goto(i, "closing")
  /\ UNCHANGED granted

\* --once, --max-ticks or an interrupt between ticks.
Leave(i) ==
  /\ loop[i].at = "idle"
  /\ Goto(i, "closing")
  /\ StoreUnchanged /\ UNCHANGED granted

\* The finally clause: release_foreground, whatever ended the loop.
Close(i) ==
  /\ loop[i].at = "closing"
  /\ ReleaseForeground(i)
  /\ Goto(i, "gone")
  /\ UNCHANGED granted

\* The process dies anywhere; its lease row stays until it expires.
Crash(i) ==
  /\ Up(i)
  /\ Goto(i, "gone")
  /\ StoreUnchanged /\ UNCHANGED granted

-----------------------------------------------------------------------------
LoopInit ==
  /\ Init
  /\ loop = [i \in Instances |-> [at |-> "new", stamp |-> 0, seen |-> 0]]
  /\ granted = [i \in Instances |-> 0]

Tick(i) ==
  \/ BeginTick(i) \/ TickRenew(i) \/ TickAcquire(i) \/ TickRead(i)
  \/ TickCount(i) \/ TickStop(i) \/ Close(i)

\* Everyone else: other commands, and claims by controllers in live processes.
OthersStep ==
  /\ \/ FlowStep
     \/ OperatorStep
     \/ AdvanceTime
     \/ \E i \in Instances : Up(i) /\ ClaimStep(i)
  /\ UNCHANGED <<loop, granted>>

LoopNext ==
  \/ \E i \in Instances : StartProcess(i) \/ Tick(i) \/ Leave(i) \/ Crash(i)
  \/ OthersStep

LoopSpec == LoopInit /\ [][LoopNext]_loopVars

\* A live process keeps running, time passes, and an operator who drains does
\* start the processes that are to carry the drain out.  Nothing obliges a
\* process not to crash, a claim holder to answer or an operator to reconcile.
LoopFairness ==
  /\ \A i \in Instances : WF_loopVars(Tick(i)) /\ WF_loopVars(StartProcess(i))
  /\ WF_loopVars(AdvanceTime /\ UNCHANGED <<loop, granted>>)

FairLoopSpec == LoopSpec /\ LoopFairness

-----------------------------------------------------------------------------
LoopTypeOK ==
  /\ TypeOK
  /\ loop \in [Instances -> [at : Places, stamp : Nat, seen : Nat]]
  /\ granted \in [Instances -> Nat]

\* "stopped" is only ever written over an idle store: although the tick reads
\* the mode, counts and writes in separate transactions, no flow is running
\* while the supervisor is stopped.
StoppedMeansDrained == control.mode = "stopped" => RunningFlows = {}

\* Of two live processes at most one is inside a lease it was granted.
OneForeground ==
  \A i, j \in Instances :
    Up(i) /\ granted[i] > now /\ Up(j) /\ granted[j] > now => i = j

NoProcessLeft == \A i \in Instances : loop[i].at = "gone"

\* An operator who keeps previewing and applying the reconciliation plan.
DiligentSpec ==
  /\ FairLoopSpec
  /\ \A o \in Operators :
       /\ WF_loopVars((\E ts \in Stamps : PreviewReconciliation(o, ts))
                       /\ UNCHANGED <<loop, granted>>)
       /\ WF_loopVars((\E ts \in Stamps : ApplyReconciliation(o, ts))
                       /\ UNCHANGED <<loop, granted>>)

\* With such an operator a drain or stop command completes, unless every process
\* is gone or an attempt that recorded its dispatch intent lapsed: its outcome is
\* unknown, no repair exists for it, and the flow it belongs to keeps the supervisor
\* draining for good.
DrainRecovers ==
  Draining ~> (control.mode = "stopped" \/ NoProcessLeft \/ AmbiguousAttempts(now) # {})
=============================================================================
