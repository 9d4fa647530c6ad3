--------------------------- MODULE BillingDispatch ---------------------------
(***************************************************************************)
(* The billing guard around one live harness run: the reservation leases,  *)
(* breakers and capacity rows of src/ordomata/state.py, the protocol of    *)
(* runners/_harness.py that reserves before a worker process starts and    *)
(* records its billing outcome before it lets go, and the rows that        *)
(* orchestrator.py appends once the harness has returned.                  *)
(*                                                                         *)
(* Reserving and completing are one transaction each, whose clock is read  *)
(* inside it.  Everything between them belongs to one process among        *)
(* several, may take any time, may fail and may never happen.  One harness *)
(* adapter (runner_id) is modelled: no two of them share a row.            *)
(***************************************************************************)
EXTENDS Integers, Sequences, FiniteSets

CONSTANTS
  Runs,        \* live runs; a run also names the owner of its reservation
  Accounts,    \* account_identity_fingerprint values
  Profiles,    \* execution profiles
  Anyone,      \* NULL: the account or profile of a scope that covers them all
  Routings,    \* the ways the runs may be routed: run -> [account, profile]
  NoLease,
  TTL,         \* ttl_seconds of a reservation
  Cover,       \* what must be left of it when the worker is cleared to start
  Closable,    \* bound: the scopes whose breaker the operator closes
  MaxTime      \* bound: the clock stops here

ASSUME BillingAssumption ==
  /\ Routings \subseteq [Runs -> [account : Accounts, profile : Profiles \cup {Anyone}]]
  /\ Anyone \notin Accounts \cup Profiles
  /\ NoLease \notin [owner : Runs, expires : Nat]
  /\ TTL \in Nat \ {0} /\ Cover \in Nat /\ Cover =< TTL
  /\ MaxTime \in Nat

VARIABLES
  now,
  route,      \* run -> the account and the profile its route was verified for
  open,       \* scopes whose newest breaker event says "open"
  capacity,   \* scope -> when its newest capacity event blocked it, or Clean
  leases,     \* key -> its lease row
  run,        \* run -> where its controller stands
  worker,     \* runs whose worker process is alive
  pardons,    \* <<run, scope>>: history of what the operator decided
  exhausted   \* account -> history: the newest limit nobody has disproved

tables == <<open, capacity, leases>>
vars == <<now, route, tables, run, worker, pardons, exhausted>>

-----------------------------------------------------------------------------
Scopes == (Accounts \cup {Anyone}) \X (Profiles \cup {Anyone})

\* The breakers and capacity rows that stop a run, and those of its account.
ScopesOf(r) == {Anyone, route[r].account} \X {Anyone, route[r].profile}
AccountScopes(r) == {route[r].account} \X {Anyone, route[r].profile}

Keys == ({"account"} \X Accounts) \cup ({"profile"} \X (Profiles \cup {Anyone}))

\* A reservation of the profile alone, or of the account alone.
BrokenKeysOf(r) == {<<"profile", route[r].profile>>}
\* _billing_dispatch_lease_keys
KeysOf(r) == {<<"account", route[r].account>>, <<"profile", route[r].profile>>}

\* How a run may end.  "clean": the same account and route, no limit, no
\* charge.  "limit": the included capacity is used up.  "paid": a charge is
\* certain or possible.  "unknown": anything that is not verified.
\* "unlaunched": no process was ever started.
Outcomes == {"clean", "limit", "paid", "unknown", "unlaunched"}

Undecided == "undecided"

\* The time at which nothing was blocked.
Clean == -1

Goto(r, place) == run' = [run EXCEPT ![r].at = place]

At(r, places) == run[r].at \in places

\* The controller leaves the run, and its knowledge of it is gone.
EndsRun(r) ==
  run' = [run EXCEPT ![r].at = "over", ![r].evidence = 0, ![r].outcome = Undecided,
                     ![r].todo = <<>>]

-----------------------------------------------------------------------------
\* Before the reservation.

\* inspect_billing_route finds the included route available, on evidence observed
\* now.  Any time may pass before the run makes use of it.
Assess(r) ==
  /\ At(r, {"new"})
  /\ run' = [run EXCEPT ![r].at = "assessed", ![r].evidence = now]
  /\ UNCHANGED <<now, tables, worker, pardons, exhausted>>

ActiveKeys(r) == {k \in KeysOf(r) : leases[k] # NoLease /\ leases[k].expires > now}
ExpiredKeys(r) == {k \in KeysOf(r) : leases[k] # NoLease /\ leases[k].expires <= now}

\* _latest_blocking_capacity_rows
BlockingScopes(r) == {x \in ScopesOf(r) : capacity[x] # Clean}

\* _capacity_is_reverified
Reverified(r) == \A x \in BlockingScopes(r) : run[r].evidence > capacity[x]

\* An open breaker, a live reservation, unproven capacity or a store that fails.
ReserveRefused(r) ==
  /\ At(r, {"assessed"})
  /\ EndsRun(r)
  /\ UNCHANGED <<now, tables, worker, pardons, exhausted>>

\* Recycles what a vanished run left behind.
BrokenExpiredScopes(r) == {}

\* What the run that finds an expired reservation opens.
ExpiredScopes(r) == ScopesOf(r)

\* A reservation that nobody completed is no proof of anything: whoever finds
\* it expired opens every breaker of its own scopes, and is refused.
ReserveFindsExpired(r) ==
  /\ At(r, {"assessed"})
  /\ ScopesOf(r) \cap open = {}
  /\ ActiveKeys(r) = {} /\ ExpiredKeys(r) # {}
  /\ open' = open \cup ExpiredScopes(r)
  /\ leases' = [k \in Keys |-> IF k \in ExpiredKeys(r) THEN NoLease ELSE leases[k]]
  /\ EndsRun(r)
  /\ UNCHANGED <<now, capacity, worker, pardons, exhausted>>

Reserve(r) ==
  /\ At(r, {"assessed"})
  /\ ScopesOf(r) \cap open = {}
  /\ \A k \in KeysOf(r) : leases[k] = NoLease
  /\ Reverified(r)
  /\ capacity' = [x \in Scopes |-> IF x \in ScopesOf(r) THEN Clean ELSE capacity[x]]
  /\ leases' = [k \in Keys |->
       IF k \in KeysOf(r) THEN [owner |-> r, expires |-> now + TTL] ELSE leases[k]]
  /\ run' = [run EXCEPT ![r].at = "reserved", ![r].expires = now + TTL]
  /\ exhausted' = [exhausted EXCEPT ![route[r].account] = Clean]
  /\ UNCHANGED <<now, open, worker, pardons>>

-----------------------------------------------------------------------------
\* The worker.

\* _assert_billing_reservation_covers_dispatch
Clear(r) ==
  /\ At(r, {"reserved"})
  /\ run[r].expires >= now + Cover
  /\ Goto(r, "cleared")
  /\ UNCHANGED <<now, tables, worker, pardons, exhausted>>

Launch(r) ==
  /\ At(r, {"cleared"})
  /\ Goto(r, "running")
  /\ worker' = worker \cup {r}
  /\ UNCHANGED <<now, tables, pardons, exhausted>>

WorkerExits(r) ==
  /\ r \in worker
  /\ worker' = worker \ {r}
  /\ UNCHANGED <<now, tables, run, pardons, exhausted>>

\* The run comes to its result, on evidence inspected anew unless there was no
\* process.  Only a run whose worker is verified gone has
\* an outcome other than unknown.
Finish(r, outcome) ==
  /\ \/ At(r, {"cleared"}) /\ outcome \in {"unlaunched", "unknown"}
     \/ At(r, {"running"}) /\ outcome \in {"clean", "limit", "paid"} /\ r \notin worker
     \/ At(r, {"running"}) /\ outcome = "unknown"
  /\ run' = [run EXCEPT ![r].at = "ended", ![r].outcome = outcome,
       ![r].evidence = IF outcome = "unlaunched" THEN @ ELSE now]
  /\ UNCHANGED <<now, tables, worker, pardons, exhausted>>

\* An exception or a cancellation leaves the reserved section without a result;
\* the worker may survive the cleanup.
Interrupt(r) ==
  /\ At(r, {"reserved", "cleared", "running", "ended"})
  /\ run' = [run EXCEPT ![r].at = "interrupted", ![r].outcome = "unknown"]
  /\ UNCHANGED <<now, tables, worker, pardons, exhausted>>

-----------------------------------------------------------------------------
\* Completing the reservation.

BrokenReservationLost(r) ==
  \E k \in KeysOf(r) : leases[k] = NoLease \/ leases[k].expires <= now + 1

\* The reservation expired, or somebody else disposed of it.
ReservationLost(r) ==
  \E k \in KeysOf(r) :
    leases[k] = NoLease \/ leases[k].owner # r \/ leases[k].expires <= now

\* The breakers an outcome opens.
OpenedBy(r, outcome) ==
  CASE outcome = "unknown" -> ScopesOf(r)
    [] outcome = "paid"    -> AccountScopes(r)
    [] OTHER               -> {}

\* A lost reservation makes any outcome unknown.
Settlement(outcome, lost) == IF lost THEN "unknown" ELSE outcome

\* complete_billing_dispatch: capacity rows, breakers and release in one
\* transaction.  It commits even where it then raises.
Settle(r, outcome) ==
  LET settled == Settlement(outcome, ReservationLost(r))
      covered == IF ReservationLost(r) THEN ScopesOf(r) ELSE AccountScopes(r)
  IN
  /\ capacity' = [x \in Scopes |->
       IF x \notin covered THEN capacity[x] ELSE IF settled = "clean" THEN Clean ELSE now]
  /\ open' = open \cup OpenedBy(r, settled)
  /\ leases' = [k \in Keys |->
       IF k \in KeysOf(r) /\ leases[k] # NoLease /\ leases[k].owner = r
         THEN NoLease ELSE leases[k]]
  /\ exhausted' = IF settled = "limit"
                    THEN [exhausted EXCEPT ![route[r].account] = now] ELSE exhausted

\* The call returns: the transaction committed and the reservation had held.
Complete(r) ==
  /\ At(r, {"ended"})
  /\ ~ReservationLost(r)
  /\ Settle(r, run[r].outcome)
  /\ run' = [run EXCEPT ![r].at = "recording", ![r].settled = run[r].outcome]
  /\ UNCHANGED <<now, worker, pardons>>

\* The call raises: nothing was committed, or all of it was.
CompleteRaises(r) ==
  /\ At(r, {"ended"})
  /\ \/ /\ UNCHANGED <<tables, exhausted>>
        /\ Goto(r, "retry")
     \/ /\ Settle(r, run[r].outcome)
        /\ run' = [run EXCEPT ![r].at = "retry",
             ![r].settled = Settlement(run[r].outcome, ReservationLost(r))]
  /\ UNCHANGED <<now, worker, pardons>>

\* The second try, or the only one after an interruption, asks for the broadest
\* breaker.  Its errors are swallowed: the lease then stays until it expires.
CompleteLast(r) ==
  /\ At(r, {"retry", "interrupted"})
  /\ \/ /\ Settle(r, "unknown")
        /\ run' = [run EXCEPT ![r].at = "recording", ![r].outcome = "unknown",
                              ![r].settled = "unknown"]
     \/ /\ UNCHANGED <<tables, exhausted>>
        /\ run' = [run EXCEPT ![r].at = "recording", ![r].outcome = "unknown"]
  /\ UNCHANGED <<now, worker, pardons>>

-----------------------------------------------------------------------------
\* The orchestrator, after the reservation is gone: a transaction per row.

\* An error of this system ended the run: the orchestrator writes no row of its
\* own, whatever the harness could record.
SkipRecording(r) ==
  /\ At(r, {"recording"})
  /\ run[r].outcome = "unknown"
  /\ EndsRun(r)
  /\ UNCHANGED <<now, tables, worker, pardons, exhausted>>

\* The run's own events cannot be persisted, or the result does not match the
\* assessment: whatever the harness found is no longer believed.
Distrust(r) ==
  /\ At(r, {"recording"})
  /\ run[r].outcome # "unknown"
  /\ run' = [run EXCEPT ![r].outcome = "unknown"]
  /\ UNCHANGED <<now, tables, worker, pardons, exhausted>>

\* Speaks for the account, not only for the account under this profile.
BrokenRecordedScopes(r) == AccountScopes(r)

RecordedScopes(r) == {<<route[r].account, route[r].profile>>}

\* The breakers _record_billing_outcome opens, in its order.
BreakersToRecord(r) ==
  LET a == route[r].account
      p == route[r].profile
  IN CASE run[r].outcome = "unknown" ->
            <<<<a, p>>, <<a, Anyone>>, <<Anyone, p>>, <<Anyone, Anyone>>>>
       [] run[r].outcome = "paid" -> <<<<a, p>>, <<a, Anyone>>>>
       [] OTHER -> <<>>

RecordCapacity(r) ==
  /\ At(r, {"recording"})
  /\ capacity' = [x \in Scopes |->
       IF x \notin RecordedScopes(r) THEN capacity[x]
       ELSE IF run[r].outcome \in {"clean", "unlaunched"} THEN Clean ELSE now]
  /\ IF BreakersToRecord(r) = <<>>
       THEN EndsRun(r) ELSE run' = [run EXCEPT ![r].at = "opening", ![r].todo = BreakersToRecord(r)]
  /\ UNCHANGED <<now, open, leases, worker, pardons, exhausted>>

RecordBreaker(r) ==
  /\ At(r, {"opening"})
  /\ open' = open \cup {Head(run[r].todo)}
  /\ IF Tail(run[r].todo) = <<>>
       THEN EndsRun(r) ELSE run' = [run EXCEPT ![r].todo = Tail(@)]
  /\ UNCHANGED <<now, capacity, leases, worker, pardons, exhausted>>

\* The controller dies anywhere; its worker may live on.
Crash(r) ==
  /\ ~At(r, {"new", "over"})
  /\ EndsRun(r)
  /\ UNCHANGED <<now, tables, worker, pardons, exhausted>>

-----------------------------------------------------------------------------
\* Reserved at some time, so that a worker may have been started.
Dispatched(r) == run[r].expires > 0

\* Outcomes after which nothing is left to find out.
Known == {"clean", "limit", "unlaunched"}

\* The operator closes a breaker, and with it answers for every dispatch so far
\* of which something is left to find out.
CloseBreaker(x) ==
  /\ x \in open \cap Closable
  /\ open' = open \ {x}
  /\ pardons' = pardons \cup ({r \in Runs : Dispatched(r) /\ run[r].settled \notin Known} \X {x})
  /\ UNCHANGED <<now, capacity, leases, run, worker, exhausted>>

AdvanceTime ==
  /\ now < MaxTime
  /\ now' = now + 1
  /\ UNCHANGED <<tables, run, worker, pardons, exhausted>>

Init ==
  /\ now = 0
  /\ route \in Routings
  /\ open = {}
  /\ capacity = [x \in Scopes |-> Clean]
  /\ leases = [k \in Keys |-> NoLease]
  /\ run = [r \in Runs |->
       [at |-> "new", evidence |-> 0, expires |-> 0, outcome |-> Undecided,
        settled |-> Undecided, todo |-> <<>>]]
  /\ worker = {}
  /\ pardons = {}
  /\ exhausted = [a \in Accounts |-> Clean]

RunStep(r) ==
  \/ Assess(r) \/ ReserveRefused(r) \/ ReserveFindsExpired(r) \/ Reserve(r)
  \/ Clear(r) \/ Launch(r) \/ WorkerExits(r)
  \/ \E outcome \in Outcomes : Finish(r, outcome)
  \/ Interrupt(r)
  \/ Complete(r) \/ CompleteRaises(r) \/ CompleteLast(r)
  \/ SkipRecording(r) \/ Distrust(r) \/ RecordCapacity(r) \/ RecordBreaker(r)
  \/ Crash(r)

Next ==
  /\ \/ \E r \in Runs : RunStep(r)
     \/ \E x \in Scopes : CloseBreaker(x)
     \/ AdvanceTime
  /\ UNCHANGED route

Spec == Init /\ [][Next]_vars

-----------------------------------------------------------------------------
Places ==
  {"new", "assessed", "reserved", "cleared", "running", "ended",
   "retry", "interrupted", "recording", "opening", "over"}

RunRows ==
  [at : Places, evidence : Nat, expires : Nat,
   outcome : Outcomes \cup {Undecided}, settled : Outcomes \cup {Undecided},
   todo : Seq(Scopes)]

\* Every variable holds rows of its table.
TypeOK ==
  /\ now \in Nat
  /\ route \in Routings
  /\ open \in SUBSET Scopes
  /\ capacity \in [Scopes -> Nat \cup {Clean}]
  /\ leases \in [Keys -> [owner : Runs, expires : Nat] \cup {NoLease}]
  /\ run \in [Runs -> RunRows]
  /\ worker \in SUBSET Runs
  /\ pardons \in SUBSET (Runs \X Scopes)
  /\ exhausted \in [Accounts -> Nat \cup {Clean}]

-----------------------------------------------------------------------------
Shares(r, s) == route[r].account = route[s].account \/ route[r].profile = route[s].profile

\* The operator, since r was dispatched, closed a breaker that s has to pass.
Pardoned(r, s) == \E x \in ScopesOf(s) : <<r, x>> \in pardons

\* Two workers of one account or one profile are never alive together, even if
\* a controller crashes, stalls past its reservation or cannot end its worker,
\* unless the operator overruled what stood between them.
OneWorkerPerScope ==
  \A r, s \in worker :
    r # s /\ Shares(r, s) => Pardoned(r, s) \/ Pardoned(s, r)

\* What a dispatch leaves open bars the next: no outcome at all bars its account
\* and its profile, a paid one its account, an unknown one every run.
Bars(r, s) ==
  /\ r # s /\ Dispatched(r)
  /\ \/ run[r].settled = Undecided /\ Shares(r, s)
     \/ run[r].settled = "paid" /\ route[r].account = route[s].account
     \/ run[r].settled = "unknown"

Reserves(r) == run[r].at = "assessed" /\ run'[r].at = "reserved"

\* No run is dispatched past one whose billing outcome is not known to be safe,
\* however that run ended and whichever of its calls failed, before the operator
\* closed a breaker for it.
NoDispatchPastUnknown ==
  [][\A s \in Runs : Reserves(s) => \A r \in Runs : Bars(r, s) => Pardoned(r, s)]_vars

\* Once the included capacity of an account was seen to be used up, only evidence
\* observed later unlocks it: neither what another process observed earlier nor
\* the orchestrator's row of an earlier run that arrives later, if that run had a
\* profile.
NoDispatchAfterLimit ==
  [][\A r \in Runs : Reserves(r) => run[r].evidence > exhausted[route[r].account]]_vars

Supersedes(r, x) == run'[r] # run[r] /\ capacity[x] # Clean /\ capacity'[x] = Clean

\* A capacity row that blocks an exhausted account gives way only to evidence
\* observed after the limit was.
BlockOutlivesOlderEvidence ==
  [][\A r \in Runs : \A x \in AccountScopes(r) :
       Supersedes(r, x) => run[r].evidence > exhausted[route[r].account]]_vars

\* Not completed by the time its reservation expired.
Overstayed(r) == Dispatched(r) /\ run[r].settled = Undecided /\ run[r].expires <= now

\* Why a breaker may open: an unsafe outcome, a completion that failed, or a
\* reservation that was outlived.
Cause(r) == run[r].outcome \in {"paid", "unknown"} \/ At(r, {"retry"}) \/ Overstayed(r)

\* A breaker opens for a cause: runs that end cleanly, in time and one after the
\* other never lock the operator out, whatever they share.
NoFalseAlarm ==
  [][\A x \in open' \ open :
       \E r \in Runs : Cause(r) /\ (x \in ScopesOf(r) \/ Overstayed(r))]_vars
=============================================================================
