----------------------------- MODULE StageLease -----------------------------
(***************************************************************************)
(* The one-shot lease of repository_executable_staging.py: executables     *)
(* whose bytes were measured are copied into files that lose their name    *)
(* before the first byte is written, and the lease then owns nothing but   *)
(* read-only descriptors, which cleanup gives back.                        *)
(*                                                                         *)
(* Every system call may fail and the call may be interrupted between any  *)
(* two of them; meanwhile other processes of the user may remove, replace  *)
(* or link the names they find in the staging root, leave a file there or  *)
(* move the root away, and between the calls other code of the process may *)
(* close one of the lease's descriptors, whose number is then reused.      *)
(* What cannot be shown to be undone must be reported as unverifiable, and *)
(* may be tried again.                                                     *)
(*                                                                         *)
(* The stagings of interpreter, loader and dependency targets repeat the   *)
(* protocol; they also adopt a handle whose hand-over to the lease was     *)
(* interrupted (Adopts).                                                   *)
(***************************************************************************)
EXTENDS Naturals, FiniteSets

CONSTANTS
  Items,       \* how many executables are staged, one after the other
  Adopts,      \* whether an interrupted hand-over is recovered
  MaxFaults,   \* bound on failing calls and interruptions
  MaxMeddles,  \* bound on the steps of others
  MaxCleanups  \* bound on the cleanups the caller asks for

ASSUME StageAssumption ==
  /\ Items \in Nat \ {0}
  /\ {MaxFaults, MaxMeddles, MaxCleanups} \subseteq Nat
  /\ Adopts \in BOOLEAN

VARIABLES
  lease,     \* the fields of the lease
  pc, item,  \* where the staging call is, and on which item
  frame,     \* the descriptors that only the staging frame owns
  fds,       \* what each descriptor the lease ever opened is now
  names,     \* what each item's name in the staging root leads to
  links,     \* whether an item's file has a second name elsewhere
  written,   \* the items whose bytes have been written
  stray,     \* whether the root holds an entry of someone else
  moved,     \* whether the root's path leads elsewhere
  result,    \* how the staging call ended
  faults, meddles, cleanups

world == <<names, links, stray, moved>>
bounds == <<faults, meddles, cleanups>>
vars == <<lease, pc, item, frame, fds, world, written, result, bounds>>

Item == 1 .. Items
Ends == {"writer", "reader"}
Root == <<0, "root">>
Fd == {Root} \cup (Item \X Ends)

\* A look that fails, and a directory that does not sync once a name is gone.
Look == <<0, "look">>
Sync == <<0, "sync">>

NewLease ==
  [state |-> "new", receipt |-> FALSE, cleanup |-> "none", stuck |-> FALSE,
   pendName |-> FALSE, pendFds |-> {}, files |-> {}, root |-> FALSE]

Init ==
  /\ lease = NewLease
  /\ pc = "idle" /\ item = 1 /\ frame = {}
  /\ fds = [d \in Fd |-> "none"]
  /\ names = [i \in Item |-> "none"]
  /\ links = [i \in Item |-> FALSE]
  /\ written = {}
  /\ stray = FALSE /\ moved = FALSE
  /\ result = "none"
  /\ faults = 0 /\ meddles = 0 /\ cleanups = 0

\* Closing: the descriptors in `failing' report an error and may be gone or not.
Closed(f, ds, failing) ==
  [d \in Fd |-> IF d \notin ds THEN f[d] ELSE IF d \in failing THEN "limbo" ELSE "closed"]

\* What may fail of what a step tries: closes of ds, a look, a sync.
Failures(ds) == {s \in SUBSET (ds \cup {Look, Sync}) : faults + Cardinality(s) <= MaxFaults}

RootEmpty(n) == ~ stray /\ \A i \in Item : n[i] = "none"

-----------------------------------------------------------------------------
(* Cleaning up.  A step of a cleanup is a record of the lease, the         *)
(* descriptors and the names, with `ok' telling whether it was verified.   *)

Now == [lease |-> lease, fds |-> fds, names |-> names, ok |-> TRUE]

Marked(s) == [s EXCEPT !.lease.state = "unverifiable", !.lease.cleanup = "unverifiable", !.ok = FALSE]

\* (defect) A descriptor that is no longer the lease's is closed all the same.
BrokenOurs(s, d) == TRUE

\* Only a descriptor that still is the lease's own file is closed.
Ours(s, d) == s.fds[d] = "open"

\* (defect) The link count is not looked at.
BrokenDetached(i) == TRUE

\* Once its name is gone, a file is detached if no other link remains.
Detached(i) == ~ links[i]

\* Without the root, the name and a descriptor to compare there is nothing to
\* go by.  An entry of another file is left alone.
AttemptPendingName(s, i, failing) ==
  LET pending == s.lease.pendFds
      known == s.lease.root /\ s.fds[Root] = "open" /\ s.lease.pendName /\ pending # {}
      unlinked == [s EXCEPT !.names[i] = IF @ = "own" THEN "none" ELSE @]
  IN IF ~ known \/ Look \in failing \/ s.names[i] = "foreign"
     THEN [s EXCEPT !.ok = FALSE]
     ELSE IF ~ Detached(i) \/ moved \/ Sync \in failing \/ \E d \in pending : ~ Ours(s, d)
     THEN [unlinked EXCEPT !.ok = FALSE]
     ELSE [unlinked EXCEPT
             !.fds = Closed(@, pending, failing),
             !.lease.pendName = FALSE,
             !.lease.pendFds = {},
             !.lease.stuck = @ \/ pending \cap failing # {},
             !.ok = pending \cap failing = {}]

\* A file that has a link again is kept.
ReleaseFiles(s, failing) ==
  LET kept == {i \in s.lease.files : Ours(s, <<i, "reader">>) /\ ~ Detached(i)}
      held == {<<i, "reader">> : i \in s.lease.files \ kept}
      ours == {d \in held : Ours(s, d)}
      lost == held # ours \/ ours \cap failing # {}
  IN [s EXCEPT !.fds = Closed(@, ours, failing),
               !.lease.files = kept,
               !.lease.stuck = @ \/ lost,
               !.ok = kept = {} /\ ~ (s.lease.stuck \/ lost)]

CloseRoot(s, failing) ==
  IF ~ s.lease.root
  THEN [s EXCEPT !.ok = ~ s.lease.stuck]
  ELSE IF s.fds[Root] = "open" /\ Root \notin failing
  THEN [s EXCEPT !.fds[Root] = "closed", !.lease.root = FALSE, !.ok = TRUE]
  ELSE [s EXCEPT !.fds[Root] = IF @ = "open" THEN "limbo" ELSE @,
                 !.lease.root = FALSE, !.lease.stuck = TRUE, !.ok = FALSE]

\* The root is the one that was adopted, still in its place, and empty.
RootVerified(s) == s.fds[Root] = "open" /\ RootEmpty(s.names) /\ ~ moved

Cleaned(s, outcome) ==
  [s EXCEPT !.lease.state = "cleaned", !.lease.cleanup = outcome, !.ok = TRUE]

Then(s, following(_)) == IF s.ok THEN following(s) ELSE Marked(s)

\* (defect) The root is given up without looking whether it is empty.
BrokenRootChecked(s, failing) == [s EXCEPT !.ok = TRUE]

RootChecked(s, failing) == [s EXCEPT !.ok = s.lease.root => RootVerified(s) /\ Look \notin failing]

\* _abort_staging: pending name, then the root, the retained files, the root's
\* descriptor; the first of them that cannot be verified ends it.
Abort(s, i, failing) ==
  IF s.lease.state = "unverifiable"
  THEN [s EXCEPT !.ok = FALSE]
  ELSE LET pending == s.lease.pendName \/ s.lease.pendFds # {}
           removed == pending /\ s.names[i] = "own"
           Finish(t) == Cleaned(t, IF removed THEN "removed" ELSE "absent")
           Close(t) == Then(CloseRoot(t, failing), Finish)
           Release(t) == Then(ReleaseFiles(t, failing), Close)
           Check(t) == Then(RootChecked(t, failing), Release)
       IN Then(IF pending THEN AttemptPendingName(s, i, failing) ELSE s, Check)

\* An active lease is released if every retained file is still what was staged.
CleanUpActive(s, failing) ==
  IF Look \in failing \/ \E i \in s.lease.files : ~ Ours(s, <<i, "reader">>)
  THEN Marked(s)
  ELSE Then(ReleaseFiles(s, failing), LAMBDA t : Cleaned(t, "absent"))

\* Descriptors that are pending without a name are closed one by one; those
\* whose file still has a link are kept.
ReleasePending(s, i, failing) ==
  LET kept == {d \in s.lease.pendFds : s.fds[d] = "open" /\ links[i]}
      ours == {d \in s.lease.pendFds : s.fds[d] = "open"} \ kept
      lost == s.lease.pendFds \ (kept \cup ours)
  IN [s EXCEPT !.fds = Closed(@, ours, failing),
               !.lease.pendFds = kept,
               !.lease.stuck = @ \/ lost # {} \/ ours \cap failing # {},
               !.ok = kept = {}]

\* The conservative retry of a cleanup that could not be verified.
RetryCleanup(s, i, failing) ==
  LET removed == s.lease.pendName /\ s.names[i] = "own"
      Finish(t) == IF t.lease.stuck THEN Marked(t)
                   ELSE Cleaned(t, IF removed THEN "removed" ELSE "absent")
      Close(t) == IF ~ t.lease.root THEN Finish(t)
                  ELSE IF ~ RootChecked(t, failing).ok THEN Marked(t)
                  ELSE Then(CloseRoot(t, failing), Finish)
      Release(t) == Then(ReleaseFiles(t, failing), Close)
  IN Then(IF s.lease.pendName THEN AttemptPendingName(s, i, failing)
          ELSE ReleasePending(s, i, failing), Release)

\* (defect) A cleanup that could not be verified is not tried again.
BrokenOutcome(s, i, failing) ==
  CASE s.lease.state = "cleaned" -> s
    [] s.lease.state = "active" -> CleanUpActive(s, failing)
    [] OTHER -> Abort(s, i, failing)

\* What a cleanup of the lease does, by the state it is in.
Outcome(s, i, failing) ==
  CASE s.lease.state = "cleaned" -> s
    [] s.lease.state = "new" -> Abort(s, i, failing)
    [] s.lease.state = "active" -> CleanUpActive(s, failing)
    [] OTHER -> RetryCleanup(s, i, failing)

Become(s, failing) ==
  /\ lease' = s.lease
  /\ fds' = s.fds
  /\ names' = s.names
  /\ faults' = faults + Cardinality({d \in failing : d \in Fd => s.fds[d] # fds[d]})

CleanUp ==
  /\ pc \in {"idle", "done"}
  /\ cleanups < MaxCleanups
  /\ cleanups' = cleanups + 1
  /\ \E failing \in Failures({d \in Fd : fds[d] = "open"}) :
       Become(Outcome(Now, item, failing), failing)
  /\ UNCHANGED <<pc, item, frame, links, stray, moved, written, result, meddles>>

\* An interruption among the closes: some descriptors are gone, and the lease
\* still lists all of them.
InterruptedCleanUp ==
  /\ pc = "done"
  /\ lease.state = "active"
  /\ cleanups < MaxCleanups /\ faults < MaxFaults
  /\ cleanups' = cleanups + 1
  /\ faults' = faults + 1
  /\ \E gone \in SUBSET {<<i, "reader">> : i \in lease.files} :
       /\ \A d \in gone : fds[d] = "open"
       /\ fds' = Closed(fds, gone, {})
  /\ UNCHANGED <<lease, pc, item, frame, world, written, result, meddles>>

-----------------------------------------------------------------------------
(* Staging one item after the other.                                       *)

Fault == faults < MaxFaults /\ faults' = faults + 1
Goto(place) == pc' = place
Fails == Fault /\ Goto("handle")
Proceeds(place) == (Goto(place) /\ UNCHANGED faults) \/ Fails

\* Nothing has been touched when the arguments or the sources do not check out.
Begin ==
  /\ pc \in {"idle", "done"}
  /\ lease = NewLease
  /\ \/ Goto("root") /\ result' = "none" /\ UNCHANGED faults
     \/ Fault /\ Goto("done") /\ result' = "invalid"
  /\ UNCHANGED <<lease, item, frame, fds, world, written, meddles, cleanups>>

\* The lease adopts the root's descriptor only when it is known to be empty
\* and where it was looked for; a refused root is closed here.
PrepareRoot ==
  /\ pc = "root"
  /\ \/ /\ RootEmpty(names)
        /\ fds' = [fds EXCEPT ![Root] = "open"]
        /\ lease' = [lease EXCEPT !.root = TRUE]
        /\ Goto("open") /\ UNCHANGED faults
     \/ /\ Goto("abort")
        /\ \/ ~ RootEmpty(names) /\ UNCHANGED faults
           \/ Fault
        /\ fds' = [fds EXCEPT ![Root] = "closed"]
        /\ UNCHANGED lease
     \/ /\ ~ RootEmpty(names) /\ Fault /\ Goto("abort")
        /\ fds' = [fds EXCEPT ![Root] = "limbo"]
        /\ lease' = Marked([Now EXCEPT !.lease.stuck = TRUE]).lease
  /\ UNCHANGED <<item, frame, world, written, result, meddles, cleanups>>

\* An interrupted hand-over loses the number of the descriptor, unless the
\* lease adopts it in the handler.
HandOverFails(d) == ~ Adopts /\ Fails /\ fds' = [fds EXCEPT ![d] = "lost"]

\* The new file is handed to the lease as its pending name.
OpenWriter ==
  LET d == <<item, "writer">>
      handed == [lease EXCEPT !.pendName = TRUE, !.pendFds = {d}]
  IN /\ pc = "open"
     /\ \/ Fails /\ UNCHANGED <<lease, frame, fds, names>>
        \/ /\ names' = [names EXCEPT ![item] = "own"]
           /\ \/ /\ lease' = handed /\ frame' = {d}
                 /\ fds' = [fds EXCEPT ![d] = "open"]
                 /\ Proceeds("pair")
              \/ HandOverFails(d) /\ UNCHANGED <<lease, frame>>
     /\ UNCHANGED <<item, links, stray, moved, written, result, meddles, cleanups>>

\* The name must still lead to the file just created, which has no other link.
OpenReader ==
  LET d == <<item, "reader">>
  IN /\ pc = "pair"
     /\ \/ Fails /\ UNCHANGED <<lease, frame, fds>>
        \/ names[item] # "own" /\ Goto("handle") /\ UNCHANGED <<lease, frame, fds, faults>>
        \/ /\ names[item] = "own"
           /\ \/ /\ fds' = [fds EXCEPT ![d] = "open"]
                 /\ frame' = frame \cup {d}
                 /\ lease' = [lease EXCEPT !.pendFds = @ \cup {d}]
                 /\ Proceeds("detach")
              \/ HandOverFails(d) /\ UNCHANGED <<lease, frame>>
     /\ UNCHANGED <<item, world, written, result, meddles, cleanups>>

\* No byte is written before the file is detached.
Detach ==
  /\ pc = "detach"
  /\ \/ names[item] # "own" /\ Goto("handle") /\ UNCHANGED <<lease, names, faults>>
     \/ Fails /\ UNCHANGED <<lease, names>>
     \/ /\ names[item] = "own"
        /\ names' = [names EXCEPT ![item] = "none"]
        /\ \/ ~ Detached(item) /\ Goto("handle") /\ UNCHANGED <<lease, faults>>
           \/ Fails /\ UNCHANGED lease
           \/ /\ Detached(item)
              /\ lease' = [lease EXCEPT !.pendName = FALSE, !.pendFds = {}]
              /\ Goto("write") /\ UNCHANGED faults
  /\ UNCHANGED <<item, frame, fds, links, stray, moved, written, result, meddles, cleanups>>

Write ==
  /\ pc = "write"
  /\ \/ written' = written \cup {item} /\ Goto("single") /\ UNCHANGED faults
     \/ written' \in {written, written \cup {item}} /\ Fails
  /\ UNCHANGED <<lease, item, frame, fds, world, result, meddles, cleanups>>

\* A writer that does not close is never touched again; its reader is pending.
CloseWriter ==
  LET d == <<item, "writer">>
  IN /\ pc = "single"
     /\ \/ /\ fds' = [fds EXCEPT ![d] = "closed"]
           /\ frame' = frame \ {d}
           /\ Goto("install") /\ UNCHANGED <<lease, faults>>
        \/ /\ Fails
           /\ fds' = [fds EXCEPT ![d] = "limbo"]
           /\ frame' = {}
           /\ lease' = [lease EXCEPT !.stuck = TRUE, !.pendFds = {<<item, "reader">>}]
     /\ UNCHANGED <<item, world, written, result, meddles, cleanups>>

LastItem == item >= Items

\* A failure may come before or after the lease has taken the reader.
Install ==
  LET taken == [lease EXCEPT !.files = @ \cup {item}]
  IN /\ pc = "install"
     /\ \/ /\ lease' = taken /\ frame' = {}
           /\ \/ /\ LastItem
                 /\ Goto("verify") /\ UNCHANGED <<item, faults>>
              \/ /\ ~ LastItem
                 /\ Goto("open") /\ item' = item + 1 /\ UNCHANGED faults
              \/ Fails /\ UNCHANGED item
        \/ Fails /\ UNCHANGED <<lease, frame, item>>
     /\ UNCHANGED <<fds, world, written, result, meddles, cleanups>>

\* The sources are measured again, the root must be empty and in its place,
\* every retained file unchanged; then the root is closed and the lease active.
Activate ==
  /\ pc = "verify"
  /\ \/ /\ RootVerified(Now)
        /\ \E failing \in SUBSET {Root} :
             LET s == CloseRoot(Now, failing)
             IN /\ faults + Cardinality(failing) <= MaxFaults
                /\ Become(s, failing)
                /\ Goto(IF s.ok THEN "active" ELSE "abort")
     \/ ~ RootVerified(Now) /\ Goto("abort") /\ UNCHANGED <<lease, fds, names, faults>>
     \/ Fault /\ Goto("abort") /\ UNCHANGED <<lease, fds, names>>
  /\ UNCHANGED <<item, frame, links, stray, moved, written, result, meddles, cleanups>>

Grant ==
  /\ pc = "active"
  /\ \/ /\ lease' = [lease EXCEPT !.receipt = TRUE, !.state = "active"]
        /\ Goto("done") /\ result' = "staged" /\ UNCHANGED faults
     \/ Fault /\ Goto("abort") /\ UNCHANGED <<lease, result>>
  /\ UNCHANGED <<item, frame, fds, world, written, meddles, cleanups>>

-----------------------------------------------------------------------------
(* What the failing item and then the failing call take back.              *)

\* While the file is linked its name is cleaned up first; what that cannot
\* settle stays pending.  A detached file has only its descriptors.
Handled(s, i, failing) ==
  IF s.lease.pendName
  THEN LET t == AttemptPendingName(s, i, failing)
       IN IF t.ok THEN t
          ELSE Marked([t EXCEPT !.lease.pendFds =
                 IF ~ t.lease.stuck /\ frame # {} THEN frame ELSE @])
  ELSE IF frame # {} /\ Look \in failing
  THEN Marked([s EXCEPT !.lease.pendFds = frame])
  ELSE LET failed == frame \cap failing
           t == [s EXCEPT !.fds = Closed(@, frame, failing),
                          !.lease.stuck = @ \/ failed # {},
                          !.lease.pendFds = IF failed # {} THEN {} ELSE @]
       IN IF failed = {} THEN t ELSE Marked(t)

Handle ==
  /\ pc = "handle"
  /\ \E failing \in Failures(frame) : Become(Handled(Now, item, failing), failing)
  /\ frame' = {}
  /\ Goto("abort")
  /\ UNCHANGED <<item, links, stray, moved, written, result, meddles, cleanups>>

Untouched(l) ==
  ~ l.stuck /\ ~ l.root /\ l.files = {} /\ ~ l.pendName /\ l.pendFds = {}

AbortStaging ==
  /\ pc = "abort"
  /\ \E failing \in Failures({d \in Fd : fds[d] = "open"}) :
       LET s == IF Untouched(lease) /\ lease.state = "new" THEN Now ELSE Abort(Now, item, failing)
       IN /\ Become(s, failing)
          /\ result' = IF s.ok THEN "invalid" ELSE "uncertain"
  /\ Goto("done")
  /\ UNCHANGED <<item, frame, links, stray, moved, written, meddles, cleanups>>

-----------------------------------------------------------------------------
(* What others do meanwhile.                                               *)

Meddle ==
  /\ meddles < MaxMeddles
  /\ meddles' = meddles + 1
  /\ \/ /\ \E i \in Item, now \in {"none", "foreign"} :
             names[i] # "none" /\ names[i] # now /\ names' = [names EXCEPT ![i] = now]
        /\ UNCHANGED <<links, stray, moved, fds>>
     \/ /\ \E i \in Item : (names[i] = "own" \/ links[i]) /\ links' = [links EXCEPT ![i] = ~ @]
        /\ UNCHANGED <<names, stray, moved, fds>>
     \/ stray' = ~ stray /\ UNCHANGED <<names, links, moved, fds>>
     \/ lease.root /\ moved' = ~ moved /\ UNCHANGED <<names, links, stray, fds>>
     \/ /\ pc = "done"
        /\ \E d \in Fd : fds[d] = "open" /\ fds' = [fds EXCEPT ![d] = "reused"]
        /\ UNCHANGED <<names, links, stray, moved>>
  /\ UNCHANGED <<lease, pc, item, frame, written, result, faults, cleanups>>

Next ==
  \/ Begin \/ PrepareRoot \/ OpenWriter \/ OpenReader \/ Detach \/ Write \/ CloseWriter
  \/ Install \/ Activate \/ Grant \/ Handle \/ AbortStaging
  \/ CleanUp \/ InterruptedCleanUp \/ Meddle

Spec == Init /\ [][Next]_vars

-----------------------------------------------------------------------------
(* Properties.                                                             *)

FdStates == {"none", "open", "closed", "limbo", "lost", "reused"}
LeaseStates == {"new", "active", "cleaned", "unverifiable"}

TypeOK ==
  /\ lease \in [state : LeaseStates, receipt : BOOLEAN, stuck : BOOLEAN,
                cleanup : {"none", "removed", "absent", "unverifiable"},
                pendName : BOOLEAN, pendFds : SUBSET Fd, files : SUBSET Item, root : BOOLEAN]
  /\ item \in Item /\ frame \subseteq Fd /\ written \subseteq Item
  /\ fds \in [Fd -> FdStates]
  /\ names \in [Item -> {"none", "own", "foreign"}]
  /\ links \in [Item -> BOOLEAN] /\ stray \in BOOLEAN /\ moved \in BOOLEAN
  /\ result \in {"none", "staged", "invalid", "uncertain"}
  /\ faults \in 0 .. MaxFaults /\ meddles \in 0 .. MaxMeddles /\ cleanups \in 0 .. MaxCleanups

NothingHeld ==
  /\ \A i \in Item : names[i] # "own"
  /\ \A d \in Fd : fds[d] \in {"none", "closed", "lost"}

\* A cleanup receipt that calls the absence of names and the release of
\* descriptors verified is true, and so is the error of a call that fails
\* without calling its cleanup uncertain: no name of the lease is left, and
\* every descriptor that ever reached the lease was closed by it, exactly once.
ReportedCleanIsClean ==
  lease.state = "cleaned" \/ (pc = "done" /\ result = "invalid") => NothingHeld

\* Captured bytes are never reachable through a name, the lease's or another,
\* whatever others do to the name while the file is empty.  (Of a process that
\* opened the name in that time and holds a descriptor, it says nothing.)
NoContentUnderAName == \A i \in written : names[i] # "own" /\ ~ links[i]

\* An active lease holds exactly one reader for every executable and nothing
\* that a cleanup would still have to look for.
ActiveHoldsExactly ==
  lease.state = "active" =>
    /\ lease.receipt /\ lease.files = Item /\ written = Item
    /\ ~ lease.root /\ ~ lease.pendName /\ lease.pendFds = {} /\ frame = {}

\* What an active lease holds is what was captured for it, one descriptor each,
\* and no name leads to it: who did not open the file while it was empty does not
\* reach it.
SealedWhileActive == TypeOK /\ NoContentUnderAName /\ ActiveHoldsExactly

\* The lease never closes a number that others may have reused, never closes
\* one twice, and never removes an entry that is not its own.
OthersAreLeftAlone ==
  [][meddles' = meddles =>
       /\ \A d \in Fd : fds[d] \in {"limbo", "lost", "reused"} => fds'[d] = fds[d]
       /\ \A i \in Item : names[i] = "foreign" => names'[i] = "foreign"]_vars

\* Nothing is uncertain when nothing failed and nobody interfered.
UndisturbedIsClean == faults = 0 /\ meddles = 0 => lease.state # "unverifiable"

Held == lease.pendFds \cup {<<i, "reader">> : i \in lease.files} \cup (IF lease.root THEN {Root} ELSE {})

\* Uncertainty is not forever: once the root is back in its place with no
\* entry but the pending one, and no descriptor was lost, one more cleanup
\* that meets no failure is verified.
RetryCanSucceed ==
  LET restored == /\ ~ stray /\ ~ moved
                  /\ \A i \in Item : ~ links[i]
                  /\ \A i \in Item : names[i] = "none" \/ (names[i] = "own" /\ lease.pendName /\ i = item)
  IN pc = "done" /\ lease.state = "unverifiable" /\ ~ lease.stuck /\ restored
       /\ (\A d \in Held : fds[d] = "open")
     => Outcome(Now, item, {}).lease.state = "cleaned"

\* A cleanup that calls itself verified left nothing, and one that calls itself
\* uncertain has a cause and is uncertain for no longer than that.
CleanupVerdictIsRight == ReportedCleanIsClean /\ UndisturbedIsClean /\ RetryCanSucceed

=============================================================================
