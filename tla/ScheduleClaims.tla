--------------------------- MODULE ScheduleClaims ---------------------------
(***************************************************************************)
(* The run-once scheduler of src/ordomata/scheduler.py and the slot claims *)
(* and leases of state.py it writes.                                       *)
(*                                                                         *)
(* A pass reads its clock once, then looks at the store, then claims in a  *)
(* transaction of its own: by then its time may be long past, and other    *)
(* processes have committed.  The claim rows are never updated or deleted; *)
(* the leases are the only rows that change.                               *)
(***************************************************************************)
EXTENDS Integers, Sequences, FiniteSets

CONSTANTS
  Schedules,
  Procs,       \* processes; each also owns the leases it takes by itself
  Resources,   \* resource keys
  Needs,       \* schedule -> its resource_keys
  Anchor,      \* schedule -> anchor_at
  Interval,    \* schedule -> interval_seconds
  Grace,       \* schedule -> effective_misfire_grace_seconds
  Timeout,     \* schedule -> timeout_seconds
  TTL,         \* ttl_seconds of a lease taken by itself
  Lent,        \* bound: the resources whose lease a process takes by itself
  NoLease,
  MaxTime,     \* bound: the clock stops here
  MaxClaims    \* bound: claim rows

ASSUME ScheduleAssumption ==
  /\ Needs \in [Schedules -> SUBSET Resources]
  /\ Anchor \in [Schedules -> Nat]
  /\ Interval \in [Schedules -> Nat \ {0}]
  /\ Grace \in [Schedules -> Nat]
  /\ Timeout \in [Schedules -> Nat \ {0}]
  /\ TTL \in Nat \ {0} /\ Lent \subseteq Resources
  /\ MaxTime \in Nat /\ MaxClaims \in Nat

\* A lease belongs to a claim or to a process.
ClaimOwner(i) == <<"claim", i>>
ProcOwner(p) == <<"process", p>>

Owners == ({"claim"} \X (1 .. MaxClaims)) \cup ({"process"} \X Procs)
Leases == [owner : Owners, expires : Nat]

ASSUME NoLeaseAssumption == NoLease \notin Leases

VARIABLES
  now,
  claims,     \* schedule_claims, in the order of their commits
  leases,     \* key -> its lease row
  pass,       \* process -> the pass or the lease call it is in
  released    \* claims whose holder has called release

vars == <<now, claims, leases, pass, released>>

-----------------------------------------------------------------------------
Keys == ({"schedule"} \X Schedules) \cup ({"resource"} \X Resources)

KeysOf(s) == {<<"schedule", s>>} \cup ({"resource"} \X Needs[s])

LeasedTo(owner, expires) == [owner |-> owner, expires |-> expires]

\* Rounds up.
BrokenSlotAt(s, t) == (t - Anchor[s] + Interval[s] - 1) \div Interval[s]

\* The slot that contains the time, and when it started.
SlotAt(s, t) == (t - Anchor[s]) \div Interval[s]
ScheduledFor(s, slot) == Anchor[s] + slot * Interval[s]

Misfired(s, t) == t - ScheduledFor(s, SlotAt(s, t)) > Grace[s]

Claimed(s, slot) ==
  \E i \in DOMAIN claims : claims[i].schedule = s /\ claims[i].slot = slot

Answers == {"not_due", "misfired", "duplicate", "resource_busy", "claimed"}

Idle == [at |-> "idle"]

\* A pass in progress: what it does next, its schedule, its clock and its slot.
InPass(place, s, t) == [at |-> place, schedule |-> s, stamp |-> t, slot |-> SlotAt(s, t)]

\* A finished pass: its slot, its answer, and why the store refused it.
Answered(p, answer, why) ==
  pass' = [pass EXCEPT ![p] =
             [at |-> "answered", schedule |-> @.schedule, slot |-> @.slot,
              answer |-> answer, why |-> why]]

-----------------------------------------------------------------------------
\* claim_due, step by step.

NotDue(s, t) == t < Anchor[s]

\* The clock is read, once, and the slot computed from it.
BeginPass(p, s) ==
  /\ pass[p] = Idle
  /\ pass' = [pass EXCEPT ![p] =
       IF NotDue(s, now) THEN [at |-> "declined", answer |-> "not_due"]
       ELSE IF Misfired(s, now) THEN [at |-> "declined", answer |-> "misfired"]
       ELSE InPass("inspect", s, now)]
  /\ UNCHANGED <<now, claims, leases, released>>

\* get_schedule_claim, a read of its own.
Inspect(p) ==
  /\ pass[p].at = "inspect"
  /\ IF Claimed(pass[p].schedule, pass[p].slot)
     THEN Answered(p, "duplicate", "taken")
     ELSE pass' = [pass EXCEPT ![p].at = "claim"]
  /\ UNCHANGED <<now, claims, leases, released>>

\* Judges the leases by a clock that is read again.
BrokenBusy(s, t) == \E k \in KeysOf(s) : leases[k] # NoLease /\ leases[k].expires > now

\* A key of the schedule is leased beyond the time of the pass.
Busy(s, t) == \E k \in KeysOf(s) : leases[k] # NoLease /\ leases[k].expires > t

\* Trusts what the pass has inspected.
BrokenTaken(s, slot) == FALSE

\* The same slot, looked up inside the transaction.
Taken(s, slot) == Claimed(s, slot)

\* try_claim_schedule_slot: the claim row and all its leases, or nothing.
TryClaim(p) ==
  LET s == pass[p].schedule
      t == pass[p].stamp
      c == Len(claims) + 1
  IN /\ pass[p].at = "claim"
     /\ ~Taken(s, pass[p].slot) /\ ~Busy(s, t)
     /\ Len(claims) < MaxClaims
     /\ claims' = Append(claims, [schedule |-> s, slot |-> pass[p].slot,
                                  claimed |-> t, deadline |-> t + Timeout[s]])
     /\ leases' = [k \in Keys |->
          IF k \in KeysOf(s) THEN LeasedTo(ClaimOwner(c), t + Timeout[s]) ELSE leases[k]]
     /\ Answered(p, "claimed", "granted")
     /\ UNCHANGED <<now, released>>

\* The transaction finds the slot taken or a key leased, and says no more than no.
RefuseClaim(p) ==
  LET s == pass[p].schedule
      taken == Taken(s, pass[p].slot)
  IN /\ pass[p].at = "claim"
     /\ taken \/ Busy(s, pass[p].stamp)
     /\ pass' = [pass EXCEPT ![p] =
          [at |-> "explain", schedule |-> s, slot |-> @.slot,
           why |-> IF taken THEN "taken" ELSE "busy"]]
     /\ UNCHANGED <<now, claims, leases, released>>

\* The slot is looked up once more to tell the caller why.
Refusal(s, slot) == IF Claimed(s, slot) THEN "duplicate" ELSE "resource_busy"

Explain(p) ==
  /\ pass[p].at = "explain"
  /\ Answered(p, Refusal(pass[p].schedule, pass[p].slot), pass[p].why)
  /\ UNCHANGED <<now, claims, leases, released>>

\* The caller has its answer, or its process dies: nothing else is kept.
EndPass(p) ==
  /\ pass[p] # Idle
  /\ pass' = [pass EXCEPT ![p] = Idle]
  /\ UNCHANGED <<now, claims, leases, released>>

-----------------------------------------------------------------------------
\* Leases.

\* Frees whatever lease the keys have now.
BrokenFreed(owner, keys) == [k \in Keys |-> IF k \in keys THEN NoLease ELSE leases[k]]

\* release_leases: only the rows that still belong to the owner.
Freed(owner, keys) ==
  [k \in Keys |-> IF k \in keys /\ leases[k] # NoLease /\ leases[k].owner = owner
                  THEN NoLease ELSE leases[k]]

\* The holder of a claim lets go, in time or long after its deadline.
Release(i) ==
  /\ i \in DOMAIN claims
  /\ leases' = Freed(ClaimOwner(i), KeysOf(claims[i].schedule))
  /\ released' = released \cup {i}
  /\ UNCHANGED <<now, claims, pass>>

\* try_acquire_lease reads its clock first ...
BeginLease(p, k) ==
  /\ pass[p] = Idle
  /\ pass' = [pass EXCEPT ![p] = [at |-> "lease", key |-> k, stamp |-> now]]
  /\ UNCHANGED <<now, claims, leases, released>>

\* ... and takes a key that is free, lapsed or its own,
Leasable(p, k, t) ==
  leases[k] = NoLease \/ leases[k].expires <= t \/ leases[k].owner = ProcOwner(p)

TryAcquireLease(p) ==
  LET k == pass[p].key
      t == pass[p].stamp
  IN /\ pass[p].at = "lease"
     /\ leases' = IF Leasable(p, k, t)
                  THEN [leases EXCEPT ![k] = LeasedTo(ProcOwner(p), t + TTL)]
                  ELSE leases
     /\ pass' = [pass EXCEPT ![p] = Idle]
     /\ UNCHANGED <<now, claims, released>>

\* and lets go of it.
ReleaseLease(p, k) ==
  /\ leases' = Freed(ProcOwner(p), {k})
  /\ leases' # leases
  /\ UNCHANGED <<now, claims, pass, released>>

Tick ==
  /\ now < MaxTime
  /\ now' = now + 1
  /\ UNCHANGED <<claims, leases, pass, released>>

-----------------------------------------------------------------------------
Init ==
  /\ now = 0
  /\ claims = <<>>
  /\ leases = [k \in Keys |-> NoLease]
  /\ pass = [p \in Procs |-> Idle]
  /\ released = {}

Next ==
  \/ Tick
  \/ \E p \in Procs :
       \/ Inspect(p) \/ TryClaim(p) \/ RefuseClaim(p) \/ Explain(p) \/ EndPass(p)
       \/ TryAcquireLease(p)
       \/ \E s \in Schedules : BeginPass(p, s)
       \/ \E k \in {"resource"} \X Lent : BeginLease(p, k) \/ ReleaseLease(p, k)
  \/ \E i \in 1 .. MaxClaims : Release(i)

Spec == Init /\ [][Next]_vars

-----------------------------------------------------------------------------
Claims == [schedule : Schedules, slot : Nat, claimed : Nat, deadline : Nat]

Passes ==
  {Idle}
    \cup [at : {"declined"}, answer : {"not_due", "misfired"}]
    \cup [at : {"inspect", "claim"}, schedule : Schedules, stamp : Nat, slot : Nat]
    \cup [at : {"explain"}, schedule : Schedules, slot : Nat, why : {"taken", "busy"}]
    \cup [at : {"answered"}, schedule : Schedules, slot : Nat,
          answer : {"duplicate", "resource_busy", "claimed"},
          why : {"granted", "taken", "busy"}]
    \cup [at : {"lease"}, key : {"resource"} \X Resources, stamp : Nat]

\* The tables hold the rows of their schema; slots and times are never negative,
\* whatever the clock says when a pass begins before the anchor.
TypeOK ==
  /\ now \in Nat
  /\ claims \in Seq(Claims) /\ Len(claims) <= MaxClaims
  /\ leases \in [Keys -> Leases \cup {NoLease}]
  /\ pass \in [Procs -> Passes]
  /\ released \subseteq DOMAIN claims

\* A slot is claimed at most once, by anyone and forever, although two passes may
\* both have seen it free (inspect and claim_due, try_claim_schedule_slot).
OneClaimPerSlot ==
  \A i, j \in DOMAIN claims :
    i # j => <<claims[i].schedule, claims[i].slot>> # <<claims[j].schedule, claims[j].slot>>

\* Every claim is for the slot that contained the clock reading of its pass, and
\* was read within the grace: boundaries belong to the slot they start
\* (current_slot and the misfire rule).
ClaimsCurrentSlot ==
  \A i \in DOMAIN claims :
    LET c == claims[i]
        start == ScheduledFor(c.schedule, c.slot)
    IN /\ start <= c.claimed /\ c.claimed < start + Interval[c.schedule]
       /\ c.claimed - start <= Grace[c.schedule]

\* The claims a caller may still work under.
Live(i) == i \notin released /\ now < claims[i].deadline

\* Until its deadline or its release a claim owns every key it was granted, although
\* other transactions judge the leases by clocks that are past and late releases
\* of other holders commit at any time.
LiveClaimKeepsKeys ==
  \A i \in DOMAIN claims :
    Live(i) => \A k \in KeysOf(claims[i].schedule) :
                 leases[k] = LeasedTo(ClaimOwner(i), claims[i].deadline)

\* Two claims that may both be worked under share no resource and no schedule.
LiveClaimsAreDisjoint ==
  \A i, j \in DOMAIN claims :
    i # j /\ Live(i) /\ Live(j) => KeysOf(claims[i].schedule) \cap KeysOf(claims[j].schedule) = {}

\* A pass that was slow may claim a slot older than one already claimed, but only
\* when the holder of a newer one has let go: it never overlaps it.
OvertakenOnlyAfterRelease ==
  [][\A i \in DOMAIN claims :
       /\ Len(claims') > Len(claims)
       /\ claims'[Len(claims')].schedule = claims[i].schedule
       /\ claims'[Len(claims')].slot < claims[i].slot
       => \E j \in DOMAIN claims :
            /\ claims[j].schedule = claims[i].schedule
            /\ claims[j].slot >= claims[i].slot
            /\ j \in released]_vars
=============================================================================
