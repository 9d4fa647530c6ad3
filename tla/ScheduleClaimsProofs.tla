------------------------- MODULE ScheduleClaimsProofs -------------------------
(***************************************************************************)
(* What the scheduler's claims keep for every number of schedules,         *)
(* processes and resources, and for every anchor, interval and grace.      *)
(*                                                                         *)
(* A transaction judges the leases by the clock of its pass, which is past *)
(* (PassesAreOfThePast); a claim that may still be worked under expires    *)
(* after every such clock, so its rows are never taken for lapsed.         *)
(***************************************************************************)
EXTENDS ScheduleClaims, TLAPS

LEMMA Division ==
  ASSUME NEW a \in Nat, NEW b \in Nat \ {0}
  PROVE  a \div b \in Nat /\ (a \div b) * b <= a /\ a < (a \div b) * b + b
  BY SMT

\* A pass that may still claim read its clock before now, and its slot from it.
PassesAreOfThePast ==
  \A p \in Procs :
    /\ pass[p].at \in {"inspect", "claim", "lease"} => pass[p].stamp <= now
    /\ pass[p].at \in {"inspect", "claim"} =>
         LET s == pass[p].schedule
             t == pass[p].stamp
         IN  /\ ~NotDue(s, t) /\ ~Misfired(s, t)
             /\ pass[p].slot = SlotAt(s, t)

\* A claim dates from its pass.
ClaimsAreOfThePast ==
  \A i \in DOMAIN claims :
    /\ claims[i].claimed <= now
    /\ claims[i].deadline = claims[i].claimed + Timeout[claims[i].schedule]

ClaimInv ==
  /\ TypeOK /\ PassesAreOfThePast /\ ClaimsAreOfThePast
  /\ OneClaimPerSlot /\ ClaimsCurrentSlot /\ LiveClaimKeepsKeys

-----------------------------------------------------------------------------
\* The two ways a pass may be read.
LEMMA ClaimingPass ==
  ASSUME TypeOK, NEW p \in Procs, pass[p].at \in {"inspect", "claim"}
  PROVE  /\ pass[p] \in [at : {"inspect", "claim"}, schedule : Schedules, stamp : Nat, slot : Nat]
         /\ pass[p].schedule \in Schedules /\ pass[p].stamp \in Nat /\ pass[p].slot \in Nat
  <1>1. pass[p] \in Passes
    BY DEF TypeOK
  <1>2. pass[p] \in [at : {"inspect", "claim"}, schedule : Schedules, stamp : Nat, slot : Nat]
    BY <1>1 DEF Passes, Idle
  <1> QED
    BY <1>2

LEMMA LeasingPass ==
  ASSUME TypeOK, NEW p \in Procs, pass[p].at = "lease"
  PROVE  /\ pass[p].key \in {"resource"} \X Resources
         /\ pass[p].key \in Keys /\ pass[p].stamp \in Nat
  <1>1. pass[p] \in Passes
    BY DEF TypeOK
  <1> QED
    BY <1>1 DEF Passes, Idle, Keys

LEMMA ExplainingPass ==
  ASSUME TypeOK, NEW p \in Procs, pass[p].at = "explain"
  PROVE  pass[p].schedule \in Schedules /\ pass[p].slot \in Nat /\ pass[p].why \in {"taken", "busy"}
  <1>1. pass[p] \in Passes
    BY DEF TypeOK
  <1> QED
    BY <1>1 DEF Passes, Idle

LEMMA Slots ==
  ASSUME NEW s \in Schedules, NEW t \in Nat, ~NotDue(s, t)
  PROVE  /\ SlotAt(s, t) \in Nat
         /\ ScheduledFor(s, SlotAt(s, t)) <= t
         /\ t < ScheduledFor(s, SlotAt(s, t)) + Interval[s]
  <1>1. t - Anchor[s] \in Nat /\ Interval[s] \in Nat \ {0} /\ Anchor[s] \in Nat
    BY ScheduleAssumption DEF NotDue
  <1>2. SlotAt(s, t) \in Nat
    BY <1>1, Division DEF SlotAt
  <1>3. /\ SlotAt(s, t) * Interval[s] <= t - Anchor[s]
        /\ t - Anchor[s] < SlotAt(s, t) * Interval[s] + Interval[s]
    BY <1>1, Division DEF SlotAt
  <1>4. SlotAt(s, t) * Interval[s] \in Nat
    BY <1>1, <1>2
  <1> QED
    BY <1>1, <1>2, <1>3, <1>4 DEF ScheduledFor

LEMMA KeysOfASchedule ==
  ASSUME NEW s \in Schedules
  PROVE  KeysOf(s) \subseteq Keys
  BY ScheduleAssumption DEF KeysOf, Keys

-----------------------------------------------------------------------------
\* One claim more.
LEMMA AppendedClaim ==
  ASSUME NEW q \in Seq(Claims), NEW c \in Claims
  PROVE  /\ Append(q, c) \in Seq(Claims)
         /\ Len(Append(q, c)) = Len(q) + 1
         /\ DOMAIN Append(q, c) = DOMAIN q \cup {Len(q) + 1}
         /\ Len(q) + 1 \notin DOMAIN q
         /\ Append(q, c)[Len(q) + 1] = c
         /\ \A i \in DOMAIN q : Append(q, c)[i] = q[i]
  BY SMT

LEMMA ClaimFields ==
  ASSUME TypeOK, NEW i \in DOMAIN claims
  PROVE  /\ claims[i] \in Claims /\ claims[i].schedule \in Schedules /\ claims[i].slot \in Nat
         /\ claims[i].claimed \in Nat /\ claims[i].deadline \in Nat
         /\ i \in 1 .. MaxClaims /\ KeysOf(claims[i].schedule) \subseteq Keys
  <1>1. claims \in Seq(Claims) /\ Len(claims) \in Nat /\ Len(claims) <= MaxClaims
    BY DEF TypeOK
  <1>2. claims[i] \in Claims
    BY <1>1
  <1>3. i \in 1 .. MaxClaims
    BY <1>1, ScheduleAssumption
  <1> QED
    BY <1>2, <1>3, KeysOfASchedule DEF Claims

\* Steps of a pass that commit nothing.
LEMMA PassStep ==
  ASSUME ClaimInv, UNCHANGED <<now, claims, leases, released>>,
         TypeOK', PassesAreOfThePast'
  PROVE  ClaimInv'
  BY DEF ClaimInv, ClaimsAreOfThePast, OneClaimPerSlot, ClaimsCurrentSlot, LiveClaimKeepsKeys, Live

LEMMA InitClaims == Init => ClaimInv
  <1> SUFFICES ASSUME Init PROVE ClaimInv
    OBVIOUS
  <1>1. claims = <<>> /\ DOMAIN claims = {} /\ Len(claims) = 0
    BY DEF Init
  <1>2. TypeOK
    BY <1>1, ScheduleAssumption DEF Init, TypeOK, Passes
  <1>3. PassesAreOfThePast
    BY DEF Init, PassesAreOfThePast, Idle
  <1> QED
    BY <1>1, <1>2, <1>3 DEF ClaimInv, ClaimsAreOfThePast, OneClaimPerSlot, ClaimsCurrentSlot, LiveClaimKeepsKeys

LEMMA BeginPassKeeps ==
  ASSUME ClaimInv, NEW p \in Procs, NEW s \in Schedules, BeginPass(p, s)
  PROVE  ClaimInv'
  <1>1. TypeOK /\ PassesAreOfThePast /\ now \in Nat /\ pass \in [Procs -> Passes]
    BY DEF ClaimInv, TypeOK
  <1>2. UNCHANGED <<now, claims, leases, released>>
    BY DEF BeginPass
  <1>3. \/ pass' = [pass EXCEPT ![p] = [at |-> "declined", answer |-> "not_due"]]
        \/ pass' = [pass EXCEPT ![p] = [at |-> "declined", answer |-> "misfired"]]
        \/ ~NotDue(s, now) /\ ~Misfired(s, now) /\ pass' = [pass EXCEPT ![p] = InPass("inspect", s, now)]
    BY DEF BeginPass
  <1>4. ~NotDue(s, now) => InPass("inspect", s, now) \in Passes
    <2>1. ~NotDue(s, now) => SlotAt(s, now) \in Nat
      BY <1>1, Slots
    <2> QED
      BY <1>1, <2>1 DEF InPass, Passes
  <1>5. pass' \in [Procs -> Passes]
    <2>1. [at |-> "declined", answer |-> "not_due"] \in Passes /\ [at |-> "declined", answer |-> "misfired"] \in Passes
      BY DEF Passes
    <2> QED
      BY <1>1, <1>3, <1>4, <2>1
  <1>6. TypeOK'
    BY <1>1, <1>2, <1>5 DEF TypeOK
  <1>7. PassesAreOfThePast'
    <2> SUFFICES ASSUME NEW q \in Procs
                 PROVE  /\ pass'[q].at \in {"inspect", "claim", "lease"} => pass'[q].stamp <= now
                        /\ pass'[q].at \in {"inspect", "claim"} =>
                             LET z == pass'[q].schedule
                                 t == pass'[q].stamp
                             IN  /\ ~NotDue(z, t) /\ ~Misfired(z, t)
                                 /\ pass'[q].slot = SlotAt(z, t)
      BY <1>2 DEF PassesAreOfThePast, NotDue, Misfired, SlotAt, ScheduledFor
    <2>1. CASE q # p
      BY <1>1, <1>3, <2>1 DEF PassesAreOfThePast
    <2>2. CASE q = p
      BY <1>1, <1>3, <2>2 DEF InPass
    <2> QED
      BY <2>1, <2>2
  <1> QED
    BY <1>2, <1>6, <1>7, PassStep

\* A pass that only moves on, keeping its schedule, its clock and its slot, or
\* comes to an answer.
LEMMA PassMoves ==
  ASSUME ClaimInv, NEW p \in Procs, NEW r \in Passes,
         UNCHANGED <<now, claims, leases, released>>,
         pass' = [pass EXCEPT ![p] = r],
         \/ r.at \notin {"inspect", "claim", "lease"}
         \/ /\ pass[p].at \in {"inspect", "claim"} /\ r.at \in {"inspect", "claim"}
            /\ r.schedule = pass[p].schedule /\ r.stamp = pass[p].stamp /\ r.slot = pass[p].slot
         \/ r.at = "lease" /\ r.stamp = now
  PROVE  ClaimInv'
  <1>1. TypeOK /\ PassesAreOfThePast /\ now \in Nat /\ pass \in [Procs -> Passes]
    BY DEF ClaimInv, TypeOK
  <1>2. TypeOK'
    BY <1>1 DEF TypeOK
  <1>3. PassesAreOfThePast'
    <2> SUFFICES ASSUME NEW q \in Procs
                 PROVE  /\ pass'[q].at \in {"inspect", "claim", "lease"} => pass'[q].stamp <= now
                        /\ pass'[q].at \in {"inspect", "claim"} =>
                             LET z == pass'[q].schedule
                                 t == pass'[q].stamp
                             IN  /\ ~NotDue(z, t) /\ ~Misfired(z, t)
                                 /\ pass'[q].slot = SlotAt(z, t)
      BY DEF PassesAreOfThePast, NotDue, Misfired, SlotAt, ScheduledFor
    <2>1. CASE q # p
      BY <1>1, <2>1 DEF PassesAreOfThePast
    <2>2. CASE q = p
      BY <1>1, <2>2 DEF PassesAreOfThePast
    <2> QED
      BY <2>1, <2>2
  <1> QED
    BY <1>2, <1>3, PassStep

LEMMA InspectKeeps ==
  ASSUME ClaimInv, NEW p \in Procs, Inspect(p)
  PROVE  ClaimInv'
  <1>1. TypeOK /\ pass[p].at = "inspect"
    BY DEF ClaimInv, Inspect
  <1>2. /\ pass[p] \in [at : {"inspect", "claim"}, schedule : Schedules, stamp : Nat, slot : Nat]
        /\ pass[p].schedule \in Schedules /\ pass[p].slot \in Nat
    BY <1>1, ClaimingPass
  <1>3. CASE pass' = [pass EXCEPT ![p].at = "claim"]
    <2> DEFINE r == [pass[p] EXCEPT !.at = "claim"]
    <2>1. pass' = [pass EXCEPT ![p] = r]
      BY <1>1, <1>3 DEF TypeOK
    <2>2. r \in [at : {"inspect", "claim"}, schedule : Schedules, stamp : Nat, slot : Nat]
      BY <1>2
    <2>3. r.at = "claim" /\ r.schedule = pass[p].schedule /\ r.stamp = pass[p].stamp /\ r.slot = pass[p].slot
      BY <1>2
    <2>4. r \in Passes
      BY <2>2 DEF Passes
    <2> HIDE DEF r
    <2> QED
      BY <1>1, <2>1, <2>3, <2>4, PassMoves DEF Inspect
  <1>4. CASE Answered(p, "duplicate", "taken")
    <2> DEFINE r == [at |-> "answered", schedule |-> pass[p].schedule, slot |-> pass[p].slot,
                     answer |-> "duplicate", why |-> "taken"]
    <2>1. pass' = [pass EXCEPT ![p] = r]
      BY <1>1, <1>4 DEF TypeOK, Answered
    <2>2. r \in Passes /\ r.at = "answered"
      BY <1>2 DEF Passes
    <2> HIDE DEF r
    <2> QED
      BY <1>1, <2>1, <2>2, PassMoves DEF Inspect
  <1> QED
    BY <1>3, <1>4 DEF Inspect

LEMMA RefuseKeeps ==
  ASSUME ClaimInv, NEW p \in Procs, RefuseClaim(p)
  PROVE  ClaimInv'
  <1>1. TypeOK /\ pass[p].at = "claim"
    BY DEF ClaimInv, RefuseClaim
  <1>2. pass[p].schedule \in Schedules /\ pass[p].slot \in Nat
    BY <1>1, ClaimingPass
  <1> DEFINE r == [at |-> "explain", schedule |-> pass[p].schedule, slot |-> pass[p].slot,
                   why |-> IF Taken(pass[p].schedule, pass[p].slot) THEN "taken" ELSE "busy"]
  <1>3. pass' = [pass EXCEPT ![p] = r]
    BY <1>1 DEF TypeOK, RefuseClaim
  <1>4. r \in Passes /\ r.at = "explain"
    BY <1>2 DEF Passes
  <1> HIDE DEF r
  <1> QED
    BY <1>3, <1>4, PassMoves DEF RefuseClaim

LEMMA ExplainKeeps ==
  ASSUME ClaimInv, NEW p \in Procs, Explain(p)
  PROVE  ClaimInv'
  <1>1. TypeOK /\ pass[p].at = "explain"
    BY DEF ClaimInv, Explain
  <1>2. pass[p].schedule \in Schedules /\ pass[p].slot \in Nat /\ pass[p].why \in {"taken", "busy"}
    BY <1>1, ExplainingPass
  <1> DEFINE r == [at |-> "answered", schedule |-> pass[p].schedule, slot |-> pass[p].slot,
                   answer |-> Refusal(pass[p].schedule, pass[p].slot), why |-> pass[p].why]
  <1>3. pass' = [pass EXCEPT ![p] = r]
    BY <1>1 DEF TypeOK, Explain, Answered
  <1>4. r \in Passes /\ r.at = "answered"
    BY <1>2 DEF Passes, Refusal
  <1> HIDE DEF r
  <1> QED
    BY <1>3, <1>4, PassMoves DEF Explain

LEMMA EndPassKeeps ==
  ASSUME ClaimInv, NEW p \in Procs, EndPass(p)
  PROVE  ClaimInv'
  <1>1. Idle \in Passes /\ Idle.at = "idle"
    BY DEF Passes, Idle
  <1> QED
    BY <1>1, PassMoves DEF EndPass

LEMMA BeginLeaseKeeps ==
  ASSUME ClaimInv, NEW p \in Procs, NEW k \in {"resource"} \X Lent, BeginLease(p, k)
  PROVE  ClaimInv'
  <1> DEFINE r == [at |-> "lease", key |-> k, stamp |-> now]
  <1>1. now \in Nat /\ k \in {"resource"} \X Resources
    BY ScheduleAssumption DEF ClaimInv, TypeOK
  <1>2. r \in Passes /\ r.at = "lease" /\ r.stamp = now
    BY <1>1 DEF Passes
  <1>3. pass' = [pass EXCEPT ![p] = r]
    BY DEF BeginLease
  <1> HIDE DEF r
  <1> QED
    BY <1>2, <1>3, PassMoves DEF BeginLease

-----------------------------------------------------------------------------
\* Steps that change the tables.

LEMMA TickKeeps ==
  ASSUME ClaimInv, Tick
  PROVE  ClaimInv'
  <1>1. now \in Nat /\ now' = now + 1 /\ UNCHANGED <<claims, leases, pass, released>> /\ TypeOK
    BY DEF ClaimInv, TypeOK, Tick
  <1>2. TypeOK'
    BY <1>1 DEF TypeOK
  <1>3. PassesAreOfThePast'
    <2> SUFFICES ASSUME NEW p \in Procs
                 PROVE  /\ pass[p].at \in {"inspect", "claim", "lease"} => pass[p].stamp <= now'
                        /\ pass[p].at \in {"inspect", "claim"} =>
                             LET s == pass[p].schedule
                                 t == pass[p].stamp
                             IN  /\ ~NotDue(s, t) /\ ~Misfired(s, t)
                                 /\ pass[p].slot = SlotAt(s, t)
      BY <1>1 DEF PassesAreOfThePast, NotDue, Misfired, SlotAt, ScheduledFor
    <2>1. pass[p].at \in {"inspect", "claim", "lease"} => pass[p].stamp \in Nat
      BY <1>1, ClaimingPass, LeasingPass
    <2> QED
      BY <1>1, <2>1 DEF ClaimInv, PassesAreOfThePast
  <1>4. ClaimsAreOfThePast'
    BY <1>1, ClaimFields DEF ClaimInv, ClaimsAreOfThePast
  <1>5. LiveClaimKeepsKeys'
    <2> SUFFICES ASSUME NEW i \in DOMAIN claims, i \notin released, now' < claims[i].deadline,
                        NEW k \in KeysOf(claims[i].schedule)
                 PROVE  leases[k] = LeasedTo(ClaimOwner(i), claims[i].deadline)
      BY <1>1 DEF LiveClaimKeepsKeys, Live
    <2>1. now < claims[i].deadline
      BY <1>1, ClaimFields
    <2> QED
      BY <2>1 DEF ClaimInv, LiveClaimKeepsKeys, Live
  <1>6. OneClaimPerSlot' /\ ClaimsCurrentSlot'
    BY <1>1 DEF ClaimInv, OneClaimPerSlot, ClaimsCurrentSlot, ScheduledFor
  <1> QED
    BY <1>2, <1>3, <1>4, <1>5, <1>6 DEF ClaimInv

\* Steps that only change leases keep the rest, if they touch no live claim.
LEMMA LeaseStep ==
  ASSUME ClaimInv, UNCHANGED <<now, claims>>,
         released' \in SUBSET DOMAIN claims, released \subseteq released',
         leases' \in [Keys -> Leases \cup {NoLease}],
         pass' = pass \/ \E p \in Procs : pass' = [pass EXCEPT ![p] = Idle],
         \A i \in DOMAIN claims : i \notin released' /\ now < claims[i].deadline =>
           \A k \in KeysOf(claims[i].schedule) : leases'[k] = leases[k]
  PROVE  ClaimInv'
  <1>1. TypeOK /\ pass \in [Procs -> Passes] /\ Idle \in Passes
    BY DEF ClaimInv, TypeOK, Passes
  <1>2. pass' \in [Procs -> Passes]
    BY <1>1
  <1>3. TypeOK'
    BY <1>1, <1>2 DEF TypeOK
  <1>4. PassesAreOfThePast'
    <2>1. \A p \in Procs : pass'[p] = pass[p] \/ pass'[p].at = "idle"
      BY <1>1 DEF Idle
    <2> QED
      BY <2>1 DEF ClaimInv, PassesAreOfThePast, NotDue, Misfired, SlotAt, ScheduledFor
  <1>5. LiveClaimKeepsKeys'
    BY <1>1, ClaimFields DEF ClaimInv, LiveClaimKeepsKeys, Live
  <1>6. ClaimsAreOfThePast' /\ OneClaimPerSlot' /\ ClaimsCurrentSlot'
    BY DEF ClaimInv, ClaimsAreOfThePast, OneClaimPerSlot, ClaimsCurrentSlot, ScheduledFor
  <1> QED
    BY <1>3, <1>4, <1>5, <1>6 DEF ClaimInv

\* Letting go of an owner's keys leaves every other owner's alone.
LEMMA FreedLeases ==
  ASSUME TypeOK, NEW owner, NEW keys
  PROVE  /\ Freed(owner, keys) \in [Keys -> Leases \cup {NoLease}]
         /\ \A k \in Keys : leases[k] # NoLease /\ leases[k].owner # owner => Freed(owner, keys)[k] = leases[k]
  BY DEF TypeOK, Freed

LEMMA ReleaseKeeps ==
  ASSUME ClaimInv, NEW i \in 1 .. MaxClaims, Release(i)
  PROVE  ClaimInv'
  <1>1. TypeOK /\ i \in DOMAIN claims /\ released' = released \cup {i}
        /\ leases' = Freed(ClaimOwner(i), KeysOf(claims[i].schedule))
        /\ UNCHANGED <<now, claims, pass>>
    BY DEF ClaimInv, Release
  <1>2. released' \in SUBSET DOMAIN claims
    BY <1>1 DEF TypeOK
  <1>3. ASSUME NEW j \in DOMAIN claims, j \notin released', now < claims[j].deadline,
               NEW k \in KeysOf(claims[j].schedule)
        PROVE  leases'[k] = leases[k]
    <2>1. leases[k] = LeasedTo(ClaimOwner(j), claims[j].deadline) /\ k \in Keys /\ j # i
      BY <1>1, <1>3, ClaimFields DEF ClaimInv, LiveClaimKeepsKeys, Live
    <2>2. leases[k].owner # ClaimOwner(i)
      BY <2>1 DEF LeasedTo, ClaimOwner
    <2>3. leases[k] # NoLease
      BY <1>1, <2>1, ClaimFields, NoLeaseAssumption DEF Leases, Owners, LeasedTo, ClaimOwner
    <2> QED
      BY <1>1, <2>1, <2>2, <2>3, FreedLeases
  <1> QED
    BY <1>1, <1>2, <1>3, LeaseStep, FreedLeases

LEMMA ReleaseLeaseKeeps ==
  ASSUME ClaimInv, NEW p \in Procs, NEW key, ReleaseLease(p, key)
  PROVE  ClaimInv'
  <1>1. TypeOK /\ leases' = Freed(ProcOwner(p), {key}) /\ UNCHANGED <<now, claims, pass, released>>
    BY DEF ClaimInv, ReleaseLease
  <1>2. released' \in SUBSET DOMAIN claims
    BY <1>1 DEF TypeOK
  <1>3. ASSUME NEW j \in DOMAIN claims, j \notin released', now < claims[j].deadline,
               NEW k \in KeysOf(claims[j].schedule)
        PROVE  leases'[k] = leases[k]
    <2>1. leases[k] = LeasedTo(ClaimOwner(j), claims[j].deadline) /\ k \in Keys
      BY <1>1, <1>3, ClaimFields DEF ClaimInv, LiveClaimKeepsKeys, Live
    <2>2. leases[k].owner # ProcOwner(p)
      BY <2>1 DEF LeasedTo, ClaimOwner, ProcOwner
    <2>3. leases[k] # NoLease
      BY <1>1, <2>1, ClaimFields, NoLeaseAssumption DEF Leases, Owners, LeasedTo, ClaimOwner
    <2> QED
      BY <1>1, <2>1, <2>2, <2>3, FreedLeases
  <1> QED
    BY <1>1, <1>2, <1>3, LeaseStep, FreedLeases

\* A live claim's rows expire after the clock of every pass.
LEMMA LiveRowsAreNotLapsed ==
  ASSUME ClaimInv, NEW i \in DOMAIN claims, Live(i), NEW k \in KeysOf(claims[i].schedule),
         NEW t \in Nat, t <= now
  PROVE  /\ k \in Keys /\ leases[k] # NoLease /\ leases[k].expires > t
         /\ leases[k].owner = ClaimOwner(i)
  <1>1. leases[k] = LeasedTo(ClaimOwner(i), claims[i].deadline) /\ now < claims[i].deadline
    BY DEF ClaimInv, LiveClaimKeepsKeys, Live
  <1>2. leases[k] # NoLease /\ k \in Keys /\ claims[i].deadline \in Nat
    BY <1>1, ClaimFields, NoLeaseAssumption DEF ClaimInv, Leases, Owners, LeasedTo, ClaimOwner
  <1>3. claims[i].deadline > t
    BY <1>1, <1>2 DEF ClaimInv, TypeOK
  <1> QED
    BY <1>1, <1>2, <1>3 DEF LeasedTo

LEMMA TryAcquireKeeps ==
  ASSUME ClaimInv, NEW p \in Procs, TryAcquireLease(p)
  PROVE  ClaimInv'
  <1> DEFINE key == pass[p].key
             t == pass[p].stamp
  <1>1. TypeOK /\ pass[p].at = "lease" /\ pass' = [pass EXCEPT ![p] = Idle]
        /\ UNCHANGED <<now, claims, released>>
    BY DEF ClaimInv, TryAcquireLease
  <1>2. key \in Keys /\ t \in Nat /\ t <= now
    BY <1>1, LeasingPass DEF ClaimInv, PassesAreOfThePast
  <1>3. leases' = IF Leasable(p, key, t) THEN [leases EXCEPT ![key] = LeasedTo(ProcOwner(p), t + TTL)] ELSE leases
    BY DEF TryAcquireLease
  <1>4. LeasedTo(ProcOwner(p), t + TTL) \in Leases
    BY <1>2, ScheduleAssumption DEF LeasedTo, Leases, Owners, ProcOwner
  <1>5. leases' \in [Keys -> Leases \cup {NoLease}]
    BY <1>1, <1>3, <1>4 DEF TypeOK
  <1>6. released' \in SUBSET DOMAIN claims
    BY <1>1 DEF TypeOK
  <1>7. ASSUME NEW i \in DOMAIN claims, i \notin released', now < claims[i].deadline,
               NEW k \in KeysOf(claims[i].schedule)
        PROVE  leases'[k] = leases[k]
    <2>1. k \in Keys /\ leases[k] # NoLease /\ leases[k].expires > t /\ leases[k].owner = ClaimOwner(i)
      BY <1>1, <1>2, <1>7, LiveRowsAreNotLapsed DEF Live
    <2>2. leases[k] \in Leases
      BY <1>1, <2>1 DEF TypeOK
    <2>3. ~Leasable(p, k, t)
      <3>1. leases[k].owner # ProcOwner(p)
        BY <2>1 DEF ClaimOwner, ProcOwner
      <3>2. leases[k].expires \in Nat
        BY <2>2 DEF Leases
      <3> QED
        BY <1>2, <2>1, <3>1, <3>2 DEF Leasable
    <2> QED
      BY <1>1, <1>3, <2>1, <2>3 DEF TypeOK
  <1> HIDE DEF key, t
  <1> QED
    BY <1>1, <1>5, <1>6, <1>7, LeaseStep

\* The claim row and its leases: nothing that is live loses a key.
LEMMA TryClaimKeeps ==
  ASSUME ClaimInv, NEW p \in Procs, TryClaim(p)
  PROVE  ClaimInv'
  <1> DEFINE s == pass[p].schedule
             t == pass[p].stamp
             n == Len(claims) + 1
             c == [schedule |-> s, slot |-> pass[p].slot, claimed |-> t, deadline |-> t + Timeout[s]]
  <1>1. /\ TypeOK /\ pass[p].at = "claim" /\ UNCHANGED <<now, released>>
        /\ ~Taken(s, pass[p].slot) /\ ~Busy(s, t) /\ Len(claims) < MaxClaims
        /\ claims' = Append(claims, c)
        /\ leases' = [k \in Keys |-> IF k \in KeysOf(s) THEN LeasedTo(ClaimOwner(n), t + Timeout[s]) ELSE leases[k]]
        /\ Answered(p, "claimed", "granted")
    BY DEF ClaimInv, TryClaim
  <1>2. s \in Schedules /\ t \in Nat /\ pass[p].slot \in Nat /\ t <= now
    BY <1>1, ClaimingPass DEF ClaimInv, PassesAreOfThePast
  <1>3. t + Timeout[s] \in Nat /\ c \in Claims
    BY <1>2, ScheduleAssumption DEF Claims
  <1>4. ~NotDue(s, t) /\ ~Misfired(s, t) /\ pass[p].slot = SlotAt(s, t)
    BY <1>1 DEF ClaimInv, PassesAreOfThePast
  <1>5. /\ claims' \in Seq(Claims) /\ Len(claims') = n /\ DOMAIN claims' = DOMAIN claims \cup {n}
        /\ n \notin DOMAIN claims /\ claims'[n] = c
        /\ \A i \in DOMAIN claims : claims'[i] = claims[i]
    <2>1. claims \in Seq(Claims)
      BY <1>1 DEF TypeOK
    <2> HIDE DEF c
    <2> QED
      BY <1>1, <1>3, <2>1, AppendedClaim
  <1> DEFINE r == [at |-> "answered", schedule |-> s, slot |-> pass[p].slot,
                   answer |-> "claimed", why |-> "granted"]
  <1>6. pass' = [pass EXCEPT ![p] = r] /\ r \in Passes /\ r.at = "answered"
    BY <1>1, <1>2 DEF TypeOK, Answered, Passes
  <1>7. c.schedule = s /\ c.slot = pass[p].slot /\ c.claimed = t /\ c.deadline = t + Timeout[s]
    OBVIOUS
  <1> HIDE DEF r, c, n, s, t
  <1>8. TypeOK'
    <2>1. n \in 1 .. MaxClaims
      BY <1>1, ScheduleAssumption DEF TypeOK, n
    <2>2. LeasedTo(ClaimOwner(n), t + Timeout[s]) \in Leases
      BY <1>3, <2>1 DEF LeasedTo, Leases, Owners, ClaimOwner
    <2>3. leases' \in [Keys -> Leases \cup {NoLease}]
      BY <1>1, <2>2 DEF TypeOK
    <2>4. Len(claims') <= MaxClaims
      BY <1>5, <2>1
    <2>5. released' \subseteq DOMAIN claims'
      BY <1>1, <1>5 DEF TypeOK
    <2>6. pass' \in [Procs -> Passes]
      BY <1>1, <1>6 DEF TypeOK
    <2> QED
      BY <1>1, <1>5, <2>3, <2>4, <2>5, <2>6 DEF TypeOK
  <1>9. PassesAreOfThePast'
    <2>1. \A q \in Procs : pass'[q] = pass[q] \/ pass'[q].at = "answered"
      BY <1>1, <1>6 DEF TypeOK
    <2> QED
      BY <1>1, <2>1 DEF ClaimInv, PassesAreOfThePast, NotDue, Misfired, SlotAt, ScheduledFor
  <1>10. ClaimsAreOfThePast'
    BY <1>1, <1>2, <1>5, <1>7 DEF ClaimInv, ClaimsAreOfThePast
  <1>11. OneClaimPerSlot'
    <2>1. \A i \in DOMAIN claims : <<claims[i].schedule, claims[i].slot>> # <<c.schedule, c.slot>>
      BY <1>1, <1>7 DEF Taken, Claimed
    <2> QED
      BY <1>5, <2>1 DEF ClaimInv, OneClaimPerSlot
  <1>12. ClaimsCurrentSlot'
    <2>1. /\ ScheduledFor(s, c.slot) <= t /\ t < ScheduledFor(s, c.slot) + Interval[s]
      BY <1>2, <1>4, <1>7, Slots
    <2>2. t - ScheduledFor(s, c.slot) <= Grace[s]
      <3>1. ScheduledFor(s, c.slot) \in Int /\ Grace[s] \in Int
        <4>1. Anchor[s] \in Nat /\ Interval[s] \in Nat /\ Grace[s] \in Nat
          BY <1>2, ScheduleAssumption
        <4>2. c.slot \in Nat /\ c.slot * Interval[s] \in Nat
          BY <1>2, <1>7, <4>1
        <4> QED
          BY <4>1, <4>2 DEF ScheduledFor
      <3> QED
        BY <1>2, <1>4, <1>7, <3>1 DEF Misfired
    <2>3. ClaimsCurrentSlot
      BY DEF ClaimInv
    <2> QED
      BY <1>5, <1>7, <2>1, <2>2, <2>3 DEF ClaimsCurrentSlot, ScheduledFor
  <1>13. LiveClaimKeepsKeys'
    <2> SUFFICES ASSUME NEW i \in DOMAIN claims', Live(i)', NEW k \in KeysOf(claims'[i].schedule)
                 PROVE  leases'[k] = LeasedTo(ClaimOwner(i), claims'[i].deadline)
      BY DEF LiveClaimKeepsKeys, KeysOf
    <2>1. CASE i = n
      <3>1. k \in KeysOf(s) /\ k \in Keys
        BY <1>2, <1>5, <1>7, <2>1, KeysOfASchedule
      <3> QED
        BY <1>1, <1>5, <1>7, <2>1, <3>1
    <2>2. CASE i \in DOMAIN claims
      <3>1. claims'[i] = claims[i] /\ Live(i) /\ k \in KeysOf(claims[i].schedule)
        BY <1>1, <1>5, <2>2 DEF Live
      <3>2. k \in Keys /\ leases[k] # NoLease /\ leases[k].expires > t
        BY <1>2, <2>2, <3>1, LiveRowsAreNotLapsed
      <3>3. k \notin KeysOf(s)
        BY <1>1, <3>2 DEF Busy
      <3>4. leases[k] = LeasedTo(ClaimOwner(i), claims[i].deadline)
        BY <2>2, <3>1 DEF ClaimInv, LiveClaimKeepsKeys
      <3> QED
        BY <1>1, <3>1, <3>2, <3>3, <3>4
    <2> QED
      BY <1>5, <2>1, <2>2
  <1> QED
    BY <1>8, <1>9, <1>10, <1>11, <1>12, <1>13 DEF ClaimInv

LEMMA StepKeepsClaims == ClaimInv /\ [Next]_vars => ClaimInv'
  <1> SUFFICES ASSUME ClaimInv, [Next]_vars PROVE ClaimInv'
    OBVIOUS
  <1>1. CASE UNCHANGED vars
    <2>1. TypeOK' /\ PassesAreOfThePast'
      BY <1>1 DEF vars, ClaimInv, TypeOK, PassesAreOfThePast, NotDue, Misfired, SlotAt, ScheduledFor
    <2> QED
      BY <1>1, <2>1, PassStep DEF vars
  <1>2. ASSUME NEW p \in Procs,
               \/ Inspect(p) \/ TryClaim(p) \/ RefuseClaim(p) \/ Explain(p) \/ EndPass(p)
               \/ TryAcquireLease(p)
               \/ \E s \in Schedules : BeginPass(p, s)
               \/ \E k \in {"resource"} \X Lent : BeginLease(p, k) \/ ReleaseLease(p, k)
        PROVE  ClaimInv'
    BY <1>2, InspectKeeps, TryClaimKeeps, RefuseKeeps, ExplainKeeps, EndPassKeeps, TryAcquireKeeps,
       BeginPassKeeps, BeginLeaseKeeps, ReleaseLeaseKeeps
  <1> QED
    BY <1>1, <1>2, TickKeeps, ReleaseKeeps DEF Next

LEMMA ClaimsInvariant == Spec => []ClaimInv
  BY InitClaims, StepKeepsClaims, PTL DEF Spec

-----------------------------------------------------------------------------
\* The tables hold the rows of their schema (schedule_claims, leases).
THEOREM TypeCorrect == Spec => []TypeOK
  BY ClaimsInvariant, PTL DEF ClaimInv

\* A slot is claimed at most once (try_claim_schedule_slot).
THEOREM SlotClaimedOnce == Spec => []OneClaimPerSlot
  BY ClaimsInvariant, PTL DEF ClaimInv

\* A claim is for the slot that contained its pass's clock, within the grace
\* (current_slot, claim_due).
THEOREM SlotIsCurrent == Spec => []ClaimsCurrentSlot
  BY ClaimsInvariant, PTL DEF ClaimInv

\* A live claim owns all its keys (try_claim_schedule_slot, try_acquire_lease,
\* release_leases).
THEOREM LiveClaimHolds == Spec => []LiveClaimKeepsKeys
  BY ClaimsInvariant, PTL DEF ClaimInv

\* Two live claims never share a resource or a schedule.
THEOREM LiveClaimsDisjoint == Spec => []LiveClaimsAreDisjoint
  <1>1. ClaimInv => LiveClaimsAreDisjoint
    <2> SUFFICES ASSUME ClaimInv, NEW i \in DOMAIN claims, NEW j \in DOMAIN claims, i # j, Live(i), Live(j),
                        NEW k \in KeysOf(claims[i].schedule), k \in KeysOf(claims[j].schedule)
                 PROVE  FALSE
      BY DEF LiveClaimsAreDisjoint
    <2>1. LeasedTo(ClaimOwner(i), claims[i].deadline) = LeasedTo(ClaimOwner(j), claims[j].deadline)
      BY DEF ClaimInv, LiveClaimKeepsKeys
    <2>2. ClaimOwner(i) = ClaimOwner(j)
      BY <2>1 DEF LeasedTo
    <2> QED
      BY <2>2 DEF ClaimOwner
  <1> QED
    BY <1>1, ClaimsInvariant, PTL

-----------------------------------------------------------------------------
\* A slow pass never overlaps what overtook it: the row of the schedule itself
\* remembers the latest deadline, until a holder at least as new lets go.

LetGo(i) ==
  \E j \in released : claims[j].schedule = claims[i].schedule /\ claims[j].slot >= claims[i].slot

ScheduleRow(i) == leases[<<"schedule", claims[i].schedule>>]

RowRemembers ==
  \A i \in DOMAIN claims : LetGo(i) \/ (ScheduleRow(i) # NoLease /\ ScheduleRow(i).expires >= claims[i].deadline)

\* Only claims of the schedule own its row, with their own deadline.
RowIsAClaim ==
  \A s \in Schedules :
    LET row == leases[<<"schedule", s>>]
    IN  row # NoLease =>
          \E j \in DOMAIN claims : claims[j].schedule = s /\ row = LeasedTo(ClaimOwner(j), claims[j].deadline)

RowInv == ClaimInv /\ RowRemembers /\ RowIsAClaim

LEMMA SlotOrder ==
  ASSUME NEW a \in Nat, NEW b \in Nat, NEW n \in Nat \ {0}, a * n < b * n + n
  PROVE  a <= b
  <1>1. a \in Int /\ b + 1 \in Int
    OBVIOUS
  <1>2. SUFFICES ASSUME a >= b + 1 PROVE FALSE
    BY <1>1
  <1>3. a * n >= (b + 1) * n
    BY <1>2, SMT
  <1>4. (b + 1) * n = b * n + n
    BY SMT
  <1> QED
    BY <1>3, <1>4, SMT

\* A claim that was read earlier is for no later a slot.
LEMMA EarlierSlot ==
  ASSUME ClaimInv, NEW i \in DOMAIN claims, NEW j \in DOMAIN claims,
         claims[i].schedule = claims[j].schedule, claims[i].deadline <= claims[j].deadline
  PROVE  claims[i].slot <= claims[j].slot
  <1> DEFINE s == claims[i].schedule
  <1>1. /\ s \in Schedules /\ claims[i].slot \in Nat /\ claims[j].slot \in Nat
        /\ claims[i].claimed \in Nat /\ claims[j].claimed \in Nat
        /\ Interval[s] \in Nat \ {0} /\ Anchor[s] \in Nat /\ Timeout[s] \in Nat
    BY ClaimFields, ScheduleAssumption DEF ClaimInv
  <1>2. claims[i].claimed <= claims[j].claimed
    BY <1>1 DEF ClaimInv, ClaimsAreOfThePast
  <1>3. /\ Anchor[s] + claims[i].slot * Interval[s] <= claims[i].claimed
        /\ claims[j].claimed < Anchor[s] + claims[j].slot * Interval[s] + Interval[s]
    BY DEF ClaimInv, ClaimsCurrentSlot, ScheduledFor
  <1>4. claims[i].slot * Interval[s] \in Nat /\ claims[j].slot * Interval[s] \in Nat
    BY <1>1
  <1>5. claims[i].slot * Interval[s] < claims[j].slot * Interval[s] + Interval[s]
    BY <1>1, <1>2, <1>3, <1>4
  <1> QED
    BY <1>1, <1>5, SlotOrder

LEMMA ScheduleRowType ==
  ASSUME TypeOK, NEW s \in Schedules
  PROVE  /\ <<"schedule", s>> \in Keys /\ leases[<<"schedule", s>>] \in Leases \cup {NoLease}
         /\ <<"schedule", s>> \in KeysOf(s)
         /\ \A z \in Schedules : <<"schedule", s>> \in KeysOf(z) => z = s
  BY DEF TypeOK, Keys, KeysOf

LEMMA TryClaimRow ==
  ASSUME RowInv, NEW p \in Procs, TryClaim(p)
  PROVE  RowRemembers' /\ RowIsAClaim'
  <1> DEFINE s == pass[p].schedule
             t == pass[p].stamp
             n == Len(claims) + 1
             c == [schedule |-> s, slot |-> pass[p].slot, claimed |-> t, deadline |-> t + Timeout[s]]
  <1>1. /\ TypeOK /\ pass[p].at = "claim" /\ UNCHANGED released /\ ~Busy(s, t)
        /\ claims' = Append(claims, c)
        /\ leases' = [k \in Keys |-> IF k \in KeysOf(s) THEN LeasedTo(ClaimOwner(n), t + Timeout[s]) ELSE leases[k]]
    BY DEF RowInv, ClaimInv, TryClaim
  <1>2. s \in Schedules /\ t \in Nat /\ pass[p].slot \in Nat
    BY <1>1, ClaimingPass
  <1>3. t + Timeout[s] \in Nat /\ t + Timeout[s] >= t /\ c \in Claims
    BY <1>2, ScheduleAssumption DEF Claims
  <1>4. /\ DOMAIN claims' = DOMAIN claims \cup {n} /\ n \notin DOMAIN claims /\ claims'[n] = c
        /\ \A i \in DOMAIN claims : claims'[i] = claims[i]
    <2>1. claims \in Seq(Claims)
      BY <1>1 DEF TypeOK
    <2> HIDE DEF c
    <2> QED
      BY <1>1, <1>3, <2>1, AppendedClaim
  <1>5. c.schedule = s /\ c.deadline = t + Timeout[s]
    OBVIOUS
  <1> HIDE DEF s, t, n, c
  <1>6. LeasedTo(ClaimOwner(n), t + Timeout[s]).expires = t + Timeout[s]
    BY DEF LeasedTo
  <1>7. LeasedTo(ClaimOwner(n), t + Timeout[s]) # NoLease
    <2>1. n \in 1 .. MaxClaims
      BY <1>1, ScheduleAssumption DEF TryClaim, TypeOK, n
    <2> QED
      BY <1>3, <2>1, NoLeaseAssumption DEF LeasedTo, Leases, Owners, ClaimOwner
  <1>8. leases'[<<"schedule", s>>] = LeasedTo(ClaimOwner(n), t + Timeout[s])
    BY <1>1, <1>2, ScheduleRowType
  <1>9. \A z \in Schedules : z # s => leases'[<<"schedule", z>>] = leases[<<"schedule", z>>]
    BY <1>1, <1>2, ScheduleRowType
  <1>10. RowRemembers'
    <2> SUFFICES ASSUME NEW i \in DOMAIN claims', ~LetGo(i)'
                 PROVE  ScheduleRow(i)' # NoLease /\ ScheduleRow(i)'.expires >= claims'[i].deadline
      BY DEF RowRemembers
    <2>1. CASE i = n
      BY <1>3, <1>4, <1>5, <1>6, <1>7, <1>8, <2>1 DEF ScheduleRow
    <2>2. CASE i \in DOMAIN claims
      <3>1. claims'[i] = claims[i] /\ ScheduleRow(i) # NoLease /\ ScheduleRow(i).expires >= claims[i].deadline
        <4>1. released \subseteq DOMAIN claims
          BY <1>1 DEF TypeOK
        <4>2. ~LetGo(i)
          BY <1>1, <1>4, <2>2, <4>1 DEF LetGo
        <4> QED
          BY <1>4, <2>2, <4>2 DEF RowInv, RowRemembers
      <3>2. claims[i].deadline \in Nat /\ claims[i].schedule \in Schedules
        BY <1>1, <2>2, ClaimFields
      <3>3. CASE claims[i].schedule = s
        <4>1. ScheduleRow(i).expires \in Nat
          BY <1>1, <3>1, <3>2, ScheduleRowType DEF ScheduleRow, Leases
        <4>2. ~(ScheduleRow(i).expires > t)
          BY <1>1, <1>2, <3>1, <3>3, ScheduleRowType DEF ScheduleRow, Busy
        <4>3. claims[i].deadline <= t + Timeout[s]
          BY <1>2, <1>3, <3>1, <3>2, <4>1, <4>2
        <4> QED
          BY <1>3, <1>6, <1>7, <1>8, <3>1, <3>2, <3>3, <4>3 DEF ScheduleRow
      <3>4. CASE claims[i].schedule # s
        BY <1>9, <3>1, <3>2, <3>4 DEF ScheduleRow
      <3> QED
        BY <3>3, <3>4
    <2> QED
      BY <1>4, <2>1, <2>2
  <1>11. RowIsAClaim'
    <2> SUFFICES ASSUME NEW z \in Schedules, leases'[<<"schedule", z>>] # NoLease
                 PROVE  \E j \in DOMAIN claims' : /\ claims'[j].schedule = z
                          /\ leases'[<<"schedule", z>>] = LeasedTo(ClaimOwner(j), claims'[j].deadline)
      BY DEF RowIsAClaim, LeasedTo, ClaimOwner
    <2>1. CASE z = s
      BY <1>4, <1>5, <1>8, <2>1
    <2>2. CASE z # s
      BY <1>4, <1>9, <2>2 DEF RowInv, RowIsAClaim
    <2> QED
      BY <2>1, <2>2
  <1> QED
    BY <1>10, <1>11

LEMMA ReleaseRow ==
  ASSUME RowInv, NEW r \in 1 .. MaxClaims, Release(r)
  PROVE  RowRemembers' /\ RowIsAClaim'
  <1>1. /\ TypeOK /\ r \in DOMAIN claims /\ released' = released \cup {r} /\ UNCHANGED claims
        /\ leases' = Freed(ClaimOwner(r), KeysOf(claims[r].schedule))
    BY DEF RowInv, ClaimInv, Release
  <1>2. \A s \in Schedules : leases'[<<"schedule", s>>] \in {NoLease, leases[<<"schedule", s>>]}
    BY <1>1, ScheduleRowType DEF Freed
  <1>3. RowIsAClaim'
    BY <1>1, <1>2 DEF RowInv, RowIsAClaim, LeasedTo, ClaimOwner
  <1>4. RowRemembers'
    <2> SUFFICES ASSUME NEW i \in DOMAIN claims, ~LetGo(i)'
                 PROVE  ScheduleRow(i)' # NoLease /\ ScheduleRow(i)'.expires >= claims[i].deadline
      BY <1>1 DEF RowRemembers
    <2>1. claims[i].schedule \in Schedules /\ claims[i].deadline \in Nat /\ claims[r].deadline \in Nat
          /\ claims[i].slot \in Nat /\ claims[r].slot \in Nat
      BY <1>1, ClaimFields
    <2>2. ScheduleRow(i) # NoLease /\ ScheduleRow(i).expires >= claims[i].deadline
      BY <1>1 DEF RowInv, RowRemembers, LetGo
    <2>3. PICK j \in DOMAIN claims : /\ claims[j].schedule = claims[i].schedule
                                     /\ ScheduleRow(i) = LeasedTo(ClaimOwner(j), claims[j].deadline)
      BY <2>1, <2>2 DEF RowInv, RowIsAClaim, ScheduleRow
    <2>4. j # r
      <3> SUFFICES ASSUME j = r PROVE FALSE
        OBVIOUS
      <3>1. claims[i].deadline <= claims[r].deadline /\ claims[i].schedule = claims[r].schedule
        BY <2>1, <2>2, <2>3 DEF LeasedTo
      <3>2. claims[i].slot <= claims[r].slot
        BY <1>1, <3>1, EarlierSlot DEF RowInv
      <3> QED
        BY <1>1, <2>1, <3>1, <3>2 DEF LetGo
    <2>5. leases'[<<"schedule", claims[i].schedule>>] = leases[<<"schedule", claims[i].schedule>>]
      BY <1>1, <2>1, <2>3, <2>4, ScheduleRowType DEF Freed, ScheduleRow, LeasedTo, ClaimOwner
    <2> QED
      BY <1>1, <2>2, <2>5 DEF ScheduleRow
  <1> QED
    BY <1>3, <1>4

\* Steps that leave the claims, and the rows of the schedules, as they are.
LEMMA RowsUntouched ==
  ASSUME RowInv, UNCHANGED <<claims, released>>,
         \A s \in Schedules : leases'[<<"schedule", s>>] = leases[<<"schedule", s>>]
  PROVE  RowRemembers' /\ RowIsAClaim'
  <1>1. \A i \in DOMAIN claims : claims[i].schedule \in Schedules
    BY ClaimFields DEF RowInv, ClaimInv
  <1> QED
    BY <1>1 DEF RowInv, RowRemembers, RowIsAClaim, LetGo, ScheduleRow, LeasedTo, ClaimOwner

LEMMA StepKeepsRows == RowInv /\ [Next]_vars => RowInv'
  <1> SUFFICES ASSUME RowInv, [Next]_vars PROVE RowInv'
    OBVIOUS
  <1>1. ClaimInv'
    BY StepKeepsClaims DEF RowInv
  <1>2. TypeOK
    BY DEF RowInv, ClaimInv
  <1>3. CASE UNCHANGED <<claims, leases, released>>
    BY <1>1, <1>3, RowsUntouched DEF RowInv
  <1>4. ASSUME NEW p \in Procs, TryClaim(p) PROVE RowInv'
    BY <1>1, <1>4, TryClaimRow DEF RowInv
  <1>5. ASSUME NEW i \in 1 .. MaxClaims, Release(i) PROVE RowInv'
    BY <1>1, <1>5, ReleaseRow DEF RowInv
  <1>6. ASSUME NEW p \in Procs, TryAcquireLease(p) PROVE RowInv'
    <2>1. \A s \in Schedules : leases'[<<"schedule", s>>] = leases[<<"schedule", s>>]
      <3>1. pass[p].key \in {"resource"} \X Resources
        BY <1>2, <1>6, LeasingPass DEF TryAcquireLease
      <3>2. \A s \in Schedules : pass[p].key # <<"schedule", s>>
        BY <3>1
      <3>3. leases' = leases \/ \E r : leases' = [leases EXCEPT ![pass[p].key] = r]
        BY <1>6 DEF TryAcquireLease
      <3> QED
        BY <1>2, <3>2, <3>3, ScheduleRowType DEF TypeOK
    <2> QED
      BY <1>1, <1>6, <2>1, RowsUntouched DEF RowInv, TryAcquireLease
  <1>7. ASSUME NEW p \in Procs, NEW k \in {"resource"} \X Lent, ReleaseLease(p, k) PROVE RowInv'
    <2>1. \A s \in Schedules : leases'[<<"schedule", s>>] = leases[<<"schedule", s>>]
      <3>1. \A s \in Schedules : <<"schedule", s>> \notin {k}
        OBVIOUS
      <3> QED
        BY <1>2, <1>7, <3>1, ScheduleRowType DEF ReleaseLease, Freed
    <2> QED
      BY <1>1, <1>7, <2>1, RowsUntouched DEF RowInv, ReleaseLease
  <1>8. ASSUME NEW p \in Procs, NEW s \in Schedules, BeginPass(p, s) PROVE RowInv'
    BY <1>3, <1>8 DEF BeginPass
  <1>9. ASSUME NEW p \in Procs, NEW k \in {"resource"} \X Lent, BeginLease(p, k) PROVE RowInv'
    BY <1>3, <1>9 DEF BeginLease
  <1>10. ASSUME NEW p \in Procs, Inspect(p) \/ RefuseClaim(p) \/ Explain(p) \/ EndPass(p) PROVE RowInv'
    BY <1>3, <1>10 DEF Inspect, RefuseClaim, Explain, EndPass
  <1>11. CASE Tick \/ UNCHANGED vars
    BY <1>3, <1>11 DEF Tick, vars
  <1> QED
    BY <1>4, <1>5, <1>6, <1>7, <1>8, <1>9, <1>10, <1>11 DEF Next

LEMMA RowsInvariant == Spec => []RowInv
  <1>1. Init => RowInv
    <2> SUFFICES ASSUME Init PROVE RowInv
      OBVIOUS
    <2>1. claims = <<>> /\ DOMAIN claims = {}
      BY DEF Init
    <2>2. \A s \in Schedules : leases[<<"schedule", s>>] = NoLease
      BY DEF Init, Keys
    <2> QED
      BY <2>1, <2>2, InitClaims DEF RowInv, RowRemembers, RowIsAClaim
  <1> QED
    BY <1>1, StepKeepsRows, PTL DEF Spec

\* A pass that was slow claims an older slot than one already claimed only when
\* the holder of that one, or of a newer one, has let go (claim_due,
\* try_claim_schedule_slot).
THEOREM OvertakingWaits == Spec => OvertakenOnlyAfterRelease
  <1> DEFINE Overtakes(i) ==
        /\ Len(claims') > Len(claims)
        /\ claims'[Len(claims')].schedule = claims[i].schedule
        /\ claims'[Len(claims')].slot < claims[i].slot
  <1>1. ASSUME RowInv, NEW p \in Procs, TryClaim(p), NEW i \in DOMAIN claims, Overtakes(i)
        PROVE  LetGo(i)
    <2> DEFINE s == pass[p].schedule
               t == pass[p].stamp
               c == [schedule |-> s, slot |-> pass[p].slot, claimed |-> t, deadline |-> t + Timeout[s]]
    <2>1. TypeOK /\ ~Busy(s, t) /\ pass[p].at = "claim" /\ claims' = Append(claims, c)
      BY <1>1 DEF RowInv, ClaimInv, TryClaim
    <2>2. s \in Schedules /\ t \in Nat /\ pass[p].slot \in Nat
      BY <2>1, ClaimingPass
    <2>3. claims'[Len(claims')] = c
      <3>1. t + Timeout[s] \in Nat
        BY <2>2, ScheduleAssumption
      <3>2. claims \in Seq(Claims) /\ c \in Claims
        BY <2>1, <2>2, <3>1 DEF TypeOK, Claims
      <3> HIDE DEF c
      <3> QED
        BY <2>1, <3>2, AppendedClaim
    <2>4. claims[i].schedule = s /\ pass[p].slot < claims[i].slot
      BY <1>1, <2>3
    <2>5. /\ pass[p].slot = SlotAt(s, t) /\ ~NotDue(s, t)
      BY <1>1, <2>1 DEF RowInv, ClaimInv, PassesAreOfThePast
    <2>6. t < claims[i].deadline
      <3>1. /\ claims[i].slot \in Nat /\ claims[i].claimed \in Nat
            /\ Interval[s] \in Nat \ {0} /\ Anchor[s] \in Nat /\ Timeout[s] \in Nat
            /\ claims[i].deadline = claims[i].claimed + Timeout[s]
        BY <1>1, <2>1, <2>2, <2>4, ClaimFields, ScheduleAssumption DEF RowInv, ClaimInv, ClaimsAreOfThePast
      <3>2. t < Anchor[s] + pass[p].slot * Interval[s] + Interval[s]
        BY <2>2, <2>5, Slots DEF ScheduledFor
      <3>3. Anchor[s] + claims[i].slot * Interval[s] <= claims[i].claimed
        BY <1>1, <2>4 DEF RowInv, ClaimInv, ClaimsCurrentSlot, ScheduledFor
      <3>4. pass[p].slot * Interval[s] \in Nat /\ claims[i].slot * Interval[s] \in Nat
        BY <2>2, <3>1
      <3>5. claims[i].slot * Interval[s] >= (pass[p].slot + 1) * Interval[s]
        BY <2>2, <2>4, <3>1, SMT
      <3>6. (pass[p].slot + 1) * Interval[s] = pass[p].slot * Interval[s] + Interval[s]
        BY <2>2, <3>1, SMT
      <3> QED
        BY <2>2, <3>1, <3>2, <3>3, <3>4, <3>5, <3>6
    <2>7. SUFFICES ASSUME ScheduleRow(i) # NoLease, ScheduleRow(i).expires >= claims[i].deadline
                   PROVE  FALSE
      BY <1>1 DEF RowInv, RowRemembers
    <2>8. ScheduleRow(i).expires \in Nat /\ claims[i].deadline \in Nat
      BY <1>1, <2>1, <2>2, <2>4, <2>7, ScheduleRowType, ClaimFields DEF ScheduleRow, Leases
    <2>9. ScheduleRow(i).expires > t
      BY <2>2, <2>6, <2>7, <2>8
    <2> QED
      BY <2>1, <2>2, <2>4, <2>7, <2>9, ScheduleRowType DEF Busy, ScheduleRow
  <1>2. ASSUME RowInv, [Next]_vars, NEW i \in DOMAIN claims, Overtakes(i) PROVE LetGo(i)
    <2>1. claims' # claims
      BY <1>2 DEF RowInv, ClaimInv, TypeOK
    <2>2. \E p \in Procs : TryClaim(p)
      BY <1>2, <2>1 DEF Next, vars, Tick, Inspect, RefuseClaim, Explain, EndPass, TryAcquireLease,
         BeginPass, BeginLease, ReleaseLease, Release
    <2> QED
      BY <1>1, <1>2, <2>2
  <1>3. RowInv /\ [Next]_vars =>
          [\A i \in DOMAIN claims :
             /\ Len(claims') > Len(claims)
             /\ claims'[Len(claims')].schedule = claims[i].schedule
             /\ claims'[Len(claims')].slot < claims[i].slot
             => \E j \in DOMAIN claims :
                  /\ claims[j].schedule = claims[i].schedule
                  /\ claims[j].slot >= claims[i].slot
                  /\ j \in released]_vars
    <2> SUFFICES ASSUME RowInv, [Next]_vars, NEW i \in DOMAIN claims, Overtakes(i)
                 PROVE  \E j \in DOMAIN claims : /\ claims[j].schedule = claims[i].schedule
                                      /\ claims[j].slot >= claims[i].slot /\ j \in released
      OBVIOUS
    <2>1. LetGo(i)
      BY <1>2
    <2>2. released \subseteq DOMAIN claims
      BY DEF RowInv, ClaimInv, TypeOK
    <2> QED
      BY <2>1, <2>2 DEF LetGo
  <1> QED
    BY <1>3, RowsInvariant, PTL DEF Spec, OvertakenOnlyAfterRelease

=============================================================================
