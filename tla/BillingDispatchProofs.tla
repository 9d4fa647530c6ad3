----------------------- MODULE BillingDispatchProofs -----------------------
(***************************************************************************)
(* The billing guard keeps live runs apart, for any number of runs,        *)
(* accounts and profiles, however its controllers stall, fail or die.      *)
(*                                                                         *)
(* The argument follows the reservation.  A dispatch that has no outcome   *)
(* still holds the two leases of its reservation, or they had expired and  *)
(* whoever found one opened a breaker that every run has to pass; one that *)
(* has an unsafe outcome left a breaker in the same transaction.  Breakers *)
(* are closed by the operator only, who thereby answers for every dispatch *)
(* whose outcome is not known to be safe.                                  *)
(***************************************************************************)
EXTENDS BillingDispatch, TLAPS

Everywhere == <<Anyone, Anyone>>

\* The breaker stands, or the operator closed it and answered for the run.
Stands(r, x) == x \in open \/ <<r, x>> \in pardons

Reserved == {"reserved", "cleared", "running", "ended", "interrupted"}

\* Where a run stands tells what is known of it.
PlaceOf(r) ==
  /\ At(r, {"new", "assessed"}) => run[r].settled = Undecided
  /\ At(r, {"new", "assessed", "reserved", "cleared"}) => r \notin worker
  /\ At(r, Reserved) => Dispatched(r) /\ run[r].settled = Undecided
  /\ At(r, {"ended"}) => run[r].outcome # Undecided /\ (r \in worker => run[r].outcome = "unknown")
  /\ At(r, {"interrupted"}) => run[r].outcome = "unknown"
  /\ At(r, {"opening"}) =>
       run[r].outcome \in {"paid", "unknown"} /\ run[r].todo # <<>> /\ run[r].todo \in Seq(ScopesOf(r))
  /\ r \in worker => Dispatched(r) /\ run[r].settled \in {Undecided, "unknown"}

PlaceInv == \A r \in Runs : PlaceOf(r)

Holds(r, k) == leases[k] # NoLease /\ leases[k].owner = r

\* A lease belongs to a run that reserved it and has no outcome.
Leased(r, k) ==
  Holds(r, k) =>
    /\ k \in KeysOf(r) /\ Dispatched(r)
    /\ run[r].settled = Undecided /\ run[r].expires = leases[k].expires

\* A reservation ends with the outcome of its run; if it goes before, it had
\* expired, and whoever found it opened the breaker of all runs.
Awaited(r, k) ==
  k \in KeysOf(r) /\ Dispatched(r) /\ run[r].settled = Undecided =>
    Holds(r, k) \/ (Stands(r, Everywhere) /\ run[r].expires <= now)

ReservationInv == \A r \in Runs, k \in Keys : Leased(r, k) /\ Awaited(r, k)

\* An outcome that is not known to be safe has left its breaker.
SettledInv ==
  \A r \in Runs : Dispatched(r) =>
    /\ run[r].settled = "unknown" => Stands(r, Everywhere)
    /\ run[r].settled = "paid" => Stands(r, <<route[r].account, Anyone>>)

\* May have a worker, or get one.
Active(r) == r \in worker \/ At(r, {"reserved", "cleared"})

ActiveInv ==
  \A r, s \in Runs : Active(r) /\ Active(s) /\ r # s /\ Shares(r, s) => Pardoned(r, s) \/ Pardoned(s, r)

\* Every run is dispatched under an execution profile.
Named == \A routing \in Routings, r \in Runs : routing[r].profile # Anyone

\* A limit blocks its account until a reservation proves otherwise, and nobody
\* holds one before.
LimitInv ==
  \A a \in Accounts : exhausted[a] # Clean =>
    /\ exhausted[a] <= now
    /\ leases[<<"account", a>>] = NoLease
    /\ capacity[<<a, Anyone>>] # Clean /\ capacity[<<a, Anyone>>] >= exhausted[a]

DispatchInv == TypeOK /\ PlaceInv /\ ReservationInv /\ SettledInv /\ ActiveInv

-----------------------------------------------------------------------------
(* Scopes, keys and rows.                                                  *)

LEMMA RouteTypes ==
  ASSUME TypeOK, NEW r \in Runs
  PROVE  /\ route[r].account \in Accounts /\ route[r].profile \in Profiles \cup {Anyone}
         /\ ScopesOf(r) \subseteq Scopes /\ AccountScopes(r) \subseteq ScopesOf(r)
         /\ RecordedScopes(r) \subseteq ScopesOf(r)
         /\ KeysOf(r) \subseteq Keys
         /\ Everywhere \in ScopesOf(r) /\ <<route[r].account, Anyone>> \in AccountScopes(r)
<1>1. route[r] \in [account : Accounts, profile : Profiles \cup {Anyone}]
  BY BillingAssumption DEF TypeOK
<1>2. QED
  BY <1>1 DEF ScopesOf, AccountScopes, RecordedScopes, KeysOf, Scopes, Keys, Everywhere

LEMMA RowTypes ==
  ASSUME TypeOK, NEW r \in Runs
  PROVE  /\ run \in [Runs -> RunRows] /\ run[r] \in RunRows
         /\ run[r].at \in Places /\ run[r].evidence \in Nat /\ run[r].expires \in Nat
         /\ run[r].outcome \in Outcomes \cup {Undecided} /\ run[r].settled \in Outcomes \cup {Undecided}
         /\ run[r].todo \in Seq(Scopes)
BY DEF TypeOK, RunRows

LEMMA SettlementType ==
  ASSUME NEW outcome \in Outcomes, NEW lost \in BOOLEAN
  PROVE  Settlement(outcome, lost) \in Outcomes
BY DEF Settlement, Outcomes

\* The names a row may hold.
LEMMA Names ==
  /\ "assessed" \in Places /\ "reserved" \in Places /\ "cleared" \in Places /\ "running" \in Places
  /\ "ended" \in Places /\ "retry" \in Places /\ "interrupted" \in Places
  /\ "recording" \in Places /\ "opening" \in Places /\ "over" \in Places
  /\ "unknown" \in Outcomes /\ Undecided \notin Outcomes
  /\ <<>> \in Seq(Scopes)
BY DEF Places, Outcomes, Undecided

-----------------------------------------------------------------------------
(* Type correctness.                                                       *)

LEMMA TypeInit == Init => TypeOK
<1> SUFFICES ASSUME Init PROVE TypeOK
  OBVIOUS
<1>1. run \in [Runs -> RunRows]
  BY DEF Init, RunRows, Places, Undecided
<1>2. QED
  BY <1>1 DEF Init, TypeOK, Clean

LEMMA EndsRunType ==
  ASSUME run \in [Runs -> RunRows], NEW r \in Runs, EndsRun(r)
  PROVE  run' \in [Runs -> RunRows]
<1> DEFINE nothing == <<>>
<1>1. "over" \in Places /\ nothing \in Seq(Scopes)
  BY Names
<1> DEFINE row == [run[r] EXCEPT !.at = "over", !.evidence = 0, !.outcome = Undecided, !.todo = nothing]
<1>2. run' = [run EXCEPT ![r] = row]
  BY DEF EndsRun
<1> HIDE DEF nothing
<1>3. row \in RunRows
  BY <1>1 DEF RunRows
<1> HIDE DEF row
<1>4. QED BY <1>2, <1>3

LEMMA FinishType ==
  ASSUME run \in [Runs -> RunRows], now \in Nat,
         NEW r \in Runs, NEW outcome \in Outcomes, Finish(r, outcome)
  PROVE  run' \in [Runs -> RunRows]
<1> DEFINE seen == IF outcome = "unlaunched" THEN run[r].evidence ELSE now
<1>1. "ended" \in Places
  BY Names
<1>2. seen \in Nat
  BY DEF RunRows
<1> DEFINE row == [run[r] EXCEPT !.at = "ended", !.outcome = outcome, !.evidence = seen]
<1>3. run' = [run EXCEPT ![r] = row]
  BY DEF Finish
<1> HIDE DEF seen
<1>4. row \in RunRows
  BY <1>1, <1>2 DEF RunRows
<1> HIDE DEF row
<1>5. QED BY <1>3, <1>4

LEMMA SettleType ==
  ASSUME TypeOK, NEW r \in Runs, NEW outcome \in Outcomes, Settle(r, outcome)
  PROVE  /\ open' \in SUBSET Scopes
         /\ capacity' \in [Scopes -> Nat \cup {Clean}]
         /\ leases' \in [Keys -> [owner : Runs, expires : Nat] \cup {NoLease}]
         /\ exhausted' \in [Accounts -> Nat \cup {Clean}]
<1>1. /\ now \in Nat /\ open \in SUBSET Scopes
      /\ capacity \in [Scopes -> Nat \cup {Clean}]
      /\ leases \in [Keys -> [owner : Runs, expires : Nat] \cup {NoLease}]
      /\ exhausted \in [Accounts -> Nat \cup {Clean}]
  BY DEF TypeOK
<1>2. \A o : OpenedBy(r, o) \subseteq Scopes
  BY RouteTypes DEF OpenedBy
<1>3. open' \in SUBSET Scopes
  BY <1>1, <1>2 DEF Settle
<1>4. capacity' \in [Scopes -> Nat \cup {Clean}]
  BY <1>1 DEF Settle
<1>5. leases' \in [Keys -> [owner : Runs, expires : Nat] \cup {NoLease}]
  BY <1>1 DEF Settle
<1>6. exhausted' \in [Accounts -> Nat \cup {Clean}]
  BY <1>1, RouteTypes DEF Settle
<1>7. QED BY <1>3, <1>4, <1>5, <1>6

LEMMA TypeStep == TypeOK /\ PlaceInv /\ [Next]_vars => TypeOK'
<1> SUFFICES ASSUME TypeOK, PlaceInv, [Next]_vars PROVE TypeOK'
  OBVIOUS
<1>1. /\ now \in Nat /\ route \in Routings /\ open \in SUBSET Scopes
      /\ capacity \in [Scopes -> Nat \cup {Clean}]
      /\ leases \in [Keys -> [owner : Runs, expires : Nat] \cup {NoLease}]
      /\ run \in [Runs -> RunRows] /\ worker \in SUBSET Runs
      /\ pardons \in SUBSET (Runs \X Scopes)
      /\ exhausted \in [Accounts -> Nat \cup {Clean}]
  BY DEF TypeOK
<1>0. run \in [Runs -> RunRows] /\ now \in Nat
  BY <1>1
<1>2. route' = route
  BY DEF Next, vars
<1>3. CASE UNCHANGED vars
  BY <1>1, <1>3 DEF vars, tables, TypeOK
<1>4. CASE AdvanceTime
  BY <1>1, <1>2, <1>4 DEF AdvanceTime, tables, TypeOK
<1>5. ASSUME NEW x \in Scopes, CloseBreaker(x) PROVE TypeOK'
  <2>1. pardons' \in SUBSET (Runs \X Scopes)
    BY <1>1, <1>5 DEF CloseBreaker
  <2>2. QED BY <1>1, <1>2, <1>5, <2>1 DEF CloseBreaker, TypeOK
<1>6. ASSUME NEW r \in Runs, RunStep(r) PROVE TypeOK'
  <2>0. Undecided \in Outcomes \cup {Undecided} /\ "unknown" \in Outcomes /\ <<>> \in Seq(Scopes)
    BY Names
  <2>1. ASSUME EndsRun(r) PROVE run' \in [Runs -> RunRows]
    BY <1>0, <2>1, EndsRunType
  <2>2. ASSUME NEW place \in Places, Goto(r, place) PROVE run' \in [Runs -> RunRows]
    BY <1>0, <2>2, Names DEF Goto, RunRows
  <2>3. ASSUME UNCHANGED <<now, tables, pardons, exhausted>>, run' \in [Runs -> RunRows], worker' \in SUBSET Runs
        PROVE  TypeOK'
    BY <1>1, <1>2, <2>3 DEF tables, TypeOK
  <2>4. CASE Assess(r)
    <3> DEFINE row == [run[r] EXCEPT !.at = "assessed", !.evidence = now]
    <3>1. row \in RunRows
      BY <1>0, Names DEF RunRows
    <3>2. run' = [run EXCEPT ![r] = row]
      BY <2>4 DEF Assess
    <3> HIDE DEF row
    <3>3. run' \in [Runs -> RunRows]
      BY <1>0, <3>1, <3>2
    <3>4. QED BY <1>1, <2>3, <2>4, <3>3 DEF Assess
  <2>5. CASE ReserveRefused(r) \/ SkipRecording(r) \/ Crash(r)
    BY <1>1, <2>1, <2>3, <2>5 DEF ReserveRefused, SkipRecording, Crash
  <2>6. CASE ReserveFindsExpired(r)
    <3>1. open' \in SUBSET Scopes
      BY <1>1, <2>6, RouteTypes DEF ReserveFindsExpired, ExpiredScopes
    <3>2. leases' \in [Keys -> [owner : Runs, expires : Nat] \cup {NoLease}]
      BY <1>1, <2>6 DEF ReserveFindsExpired
    <3>3. QED BY <1>1, <1>2, <2>1, <2>6, <3>1, <3>2 DEF ReserveFindsExpired, TypeOK
  <2>7. CASE Reserve(r)
    <3>1. now + TTL \in Nat
      BY <1>1, BillingAssumption
    <3>2. leases' \in [Keys -> [owner : Runs, expires : Nat] \cup {NoLease}]
      BY <1>1, <2>7, <3>1 DEF Reserve
    <3>3. run' \in [Runs -> RunRows]
      <4> DEFINE row == [run[r] EXCEPT !.at = "reserved", !.expires = now + TTL]
      <4>1. row \in RunRows
        BY <1>0, <3>1, Names DEF RunRows
      <4>2. run' = [run EXCEPT ![r] = row]
        BY <2>7 DEF Reserve
      <4> HIDE DEF row
      <4>3. QED BY <1>0, <4>1, <4>2
    <3>4. capacity' \in [Scopes -> Nat \cup {Clean}] /\ exhausted' \in [Accounts -> Nat \cup {Clean}]
      BY <1>1, <2>7 DEF Reserve
    <3>5. QED BY <1>1, <1>2, <2>7, <3>2, <3>3, <3>4 DEF Reserve, TypeOK
  <2>8. CASE Clear(r)
    BY <1>1, <2>2, <2>3, <2>8, Names DEF Clear
  <2>9. CASE Launch(r)
    BY <1>1, <2>2, <2>3, <2>9, Names DEF Launch
  <2>10. CASE WorkerExits(r)
    BY <1>1, <2>3, <2>10 DEF WorkerExits
  <2>11. ASSUME NEW outcome \in Outcomes, Finish(r, outcome) PROVE TypeOK'
    <3>1. run' \in [Runs -> RunRows]
      BY <1>0, <2>11, FinishType
    <3>2. QED BY <1>1, <2>3, <2>11, <3>1 DEF Finish
  <2>12. CASE Interrupt(r)
    <3>1. run' \in [Runs -> RunRows]
      BY <1>0, <2>0, <2>12, Names DEF Interrupt, RunRows
    <3>2. QED BY <1>1, <2>3, <2>12, <3>1 DEF Interrupt
  <2>13. ASSUME NEW outcome \in Outcomes, Settle(r, outcome), run' \in [Runs -> RunRows],
                UNCHANGED <<now, worker, pardons>>
         PROVE  TypeOK'
    BY <1>1, <1>2, <2>13, SettleType DEF TypeOK
  <2>14. At(r, {"ended"}) => run[r].outcome \in Outcomes
    BY RowTypes DEF PlaceInv, PlaceOf
  <2>15. CASE Complete(r)
    <3>1. run' \in [Runs -> RunRows]
      <4> DEFINE row == [run[r] EXCEPT !.at = "recording", !.settled = run[r].outcome]
      <4>1. row \in RunRows
        BY <1>0, <2>14, <2>15, Names DEF Complete, RunRows
      <4>2. run' = [run EXCEPT ![r] = row]
        BY <2>15 DEF Complete
      <4> HIDE DEF row
      <4>3. QED BY <1>0, <4>1, <4>2
    <3>2. QED BY <2>13, <2>14, <2>15, <3>1 DEF Complete
  <2>16. CASE CompleteRaises(r)
    <3>1. CASE Goto(r, "retry") /\ UNCHANGED <<tables, exhausted>>
      BY <1>1, <2>2, <2>3, <2>16, <3>1, Names DEF CompleteRaises
    <3>2. CASE /\ Settle(r, run[r].outcome)
               /\ run' = [run EXCEPT ![r].at = "retry",
                            ![r].settled = Settlement(run[r].outcome, ReservationLost(r))]
      <4>1. Settlement(run[r].outcome, ReservationLost(r)) \in Outcomes
        BY <2>14, <2>16, SettlementType DEF CompleteRaises, ReservationLost
      <4>2. run' \in [Runs -> RunRows]
        BY <1>0, <3>2, <4>1, Names DEF RunRows
      <4>3. QED BY <2>13, <2>14, <2>16, <3>2, <4>2 DEF CompleteRaises
    <3>3. QED BY <2>16, <3>1, <3>2 DEF CompleteRaises
  <2>17. CASE CompleteLast(r)
    <3>0. "recording" \in Places /\ "unknown" \in Outcomes
      BY Names
    <3>1. run' \in [Runs -> RunRows]
      <4>1. CASE run' = [run EXCEPT ![r].at = "recording", ![r].outcome = "unknown", ![r].settled = "unknown"]
        <5> DEFINE row == [run[r] EXCEPT !.at = "recording", !.outcome = "unknown", !.settled = "unknown"]
        <5>1. row \in RunRows
          BY <1>0, <3>0 DEF RunRows
        <5>2. run' = [run EXCEPT ![r] = row]
          BY <4>1
        <5> HIDE DEF row
        <5>3. QED BY <1>0, <5>1, <5>2
      <4>2. CASE run' = [run EXCEPT ![r].at = "recording", ![r].outcome = "unknown"]
        BY <1>0, <3>0, <4>2 DEF RunRows
      <4>3. QED BY <2>17, <4>1, <4>2 DEF CompleteLast
    <3>2. QED BY <1>1, <2>0, <2>3, <2>13, <2>17, <3>1 DEF CompleteLast
  <2>18. CASE Distrust(r)
    <3>1. run' \in [Runs -> RunRows]
      BY <1>0, <2>0, <2>18, Names DEF Distrust, RunRows
    <3>2. QED BY <1>1, <2>3, <2>18, <3>1 DEF Distrust
  <2>19. CASE RecordCapacity(r)
    <3>1. capacity' \in [Scopes -> Nat \cup {Clean}]
      BY <1>1, <2>19 DEF RecordCapacity
    <3>2. BreakersToRecord(r) \in Seq(Scopes)
      <4>1. /\ <<route[r].account, route[r].profile>> \in Scopes /\ <<route[r].account, Anyone>> \in Scopes
            /\ <<Anyone, route[r].profile>> \in Scopes /\ <<Anyone, Anyone>> \in Scopes
        BY RouteTypes DEF Scopes
      <4>2. QED BY <4>1 DEF BreakersToRecord
    <3>3. run' \in [Runs -> RunRows]
      <4>1. CASE EndsRun(r)
        BY <2>1, <4>1
      <4>2. CASE run' = [run EXCEPT ![r].at = "opening", ![r].todo = BreakersToRecord(r)]
        BY <1>0, <3>2, <4>2, Names DEF RunRows
      <4>3. QED BY <2>19, <4>1, <4>2 DEF RecordCapacity
    <3>4. QED BY <1>1, <1>2, <2>19, <3>1, <3>3 DEF RecordCapacity, TypeOK
  <2>20. CASE RecordBreaker(r)
    <3>1. run[r].todo \in Seq(Scopes) /\ run[r].todo # <<>>
      BY <2>20, RowTypes DEF RecordBreaker, PlaceInv, PlaceOf
    <3>2. Head(run[r].todo) \in Scopes /\ Tail(run[r].todo) \in Seq(Scopes)
      BY <3>1
    <3>3. run' \in [Runs -> RunRows]
      <4>1. CASE EndsRun(r)
        BY <2>1, <4>1
      <4>2. CASE run' = [run EXCEPT ![r].todo = Tail(@)]
        BY <1>0, <3>2, <4>2, Names DEF RunRows
      <4>3. QED BY <2>20, <4>1, <4>2 DEF RecordBreaker
    <3>4. QED BY <1>1, <1>2, <2>20, <3>2, <3>3 DEF RecordBreaker, TypeOK
  <2>21. QED
    BY <1>6, <2>4, <2>5, <2>6, <2>7, <2>8, <2>9, <2>10, <2>11, <2>12, <2>15, <2>16, <2>17, <2>18, <2>19, <2>20
       DEF RunStep
<1>7. QED BY <1>3, <1>4, <1>5, <1>6 DEF Next

-----------------------------------------------------------------------------
(* What a step does.                                                       *)

\* A step of one run changes no other.
LEMMA RunElsewhere ==
  ASSUME TypeOK, NEW r \in Runs, RunStep(r), NEW s \in Runs, s # r
  PROVE  run'[s] = run[s] /\ (s \in worker' <=> s \in worker)
<1> USE RowTypes DEF EndsRun, Goto
<1>1. CASE Assess(r) \/ ReserveRefused(r) \/ ReserveFindsExpired(r) \/ Reserve(r) \/ Clear(r)
  BY <1>1 DEF Assess, ReserveRefused, ReserveFindsExpired, Reserve, Clear
<1>2. CASE Launch(r) \/ WorkerExits(r) \/ Interrupt(r) \/ \E outcome \in Outcomes : Finish(r, outcome)
  BY <1>2 DEF Launch, WorkerExits, Interrupt, Finish
<1>3. CASE Complete(r) \/ CompleteRaises(r) \/ CompleteLast(r)
  BY <1>3 DEF Complete, CompleteRaises, CompleteLast
<1>4. CASE SkipRecording(r) \/ Distrust(r) \/ RecordCapacity(r) \/ RecordBreaker(r) \/ Crash(r)
  BY <1>4 DEF SkipRecording, Distrust, RecordCapacity, RecordBreaker, Crash
<1>5. QED BY <1>1, <1>2, <1>3, <1>4 DEF RunStep

\* A step that neither reserves nor completes keeps the run's reservation and its
\* outcome, and makes nobody active.
Keeps(r) ==
  /\ run'[r].expires = run[r].expires /\ run'[r].settled = run[r].settled
  /\ Active(r)' => Active(r)
  /\ ~Reserves(r)

LEMMA KeepsBeforeWorker ==
  ASSUME TypeOK, PlaceInv, route' = route, NEW r \in Runs,
         \/ Assess(r) \/ ReserveRefused(r) \/ Clear(r) \/ Launch(r) \/ WorkerExits(r)
         \/ \E outcome \in Outcomes : Finish(r, outcome)
         \/ Interrupt(r)
  PROVE  Keeps(r) /\ PlaceOf(r)'
<1> USE RowTypes DEF RunRows, PlaceInv, PlaceOf, Keeps, Active, Reserves, Dispatched, At, Reserved
<1>1. CASE Assess(r)
  BY <1>1 DEF Assess, tables
<1>2. CASE ReserveRefused(r)
  BY <1>2 DEF ReserveRefused, EndsRun, tables
<1>3. CASE Clear(r)
  BY <1>3 DEF Clear, Goto, tables
<1>4. CASE Launch(r)
  BY <1>4 DEF Launch, Goto, tables
<1>5. CASE WorkerExits(r)
  BY <1>5 DEF WorkerExits, tables, ScopesOf
<1>6. ASSUME NEW outcome \in Outcomes, Finish(r, outcome) PROVE Keeps(r) /\ PlaceOf(r)'
  <2>1. /\ run'[r].at = "ended" /\ run'[r].outcome = outcome
        /\ run'[r].expires = run[r].expires /\ run'[r].settled = run[r].settled
    BY <1>6 DEF Finish
  <2>2. /\ run[r].at \in {"cleared", "running"} /\ outcome # Undecided /\ worker' = worker
        /\ r \in worker => outcome = "unknown"
    BY <1>6, Names DEF Finish
  <2>3. QED BY <2>1, <2>2
<1>7. CASE Interrupt(r)
  BY <1>7 DEF Interrupt, tables
<1>8. QED BY <1>1, <1>2, <1>3, <1>4, <1>5, <1>6, <1>7

LEMMA BreakersAreTheRuns ==
  ASSUME NEW r \in Runs, BreakersToRecord(r) # <<>>
  PROVE  run[r].outcome \in {"paid", "unknown"} /\ BreakersToRecord(r) \in Seq(ScopesOf(r))
<1>1. /\ <<route[r].account, route[r].profile>> \in ScopesOf(r) /\ <<route[r].account, Anyone>> \in ScopesOf(r)
      /\ <<Anyone, route[r].profile>> \in ScopesOf(r) /\ <<Anyone, Anyone>> \in ScopesOf(r)
  BY DEF ScopesOf
<1>2. QED BY <1>1 DEF BreakersToRecord

LEMMA KeepsAfterWorker ==
  ASSUME TypeOK, PlaceInv, route' = route, NEW r \in Runs,
         \/ SkipRecording(r) \/ Distrust(r) \/ RecordCapacity(r) \/ RecordBreaker(r) \/ Crash(r)
  PROVE  Keeps(r) /\ PlaceOf(r)'
<1> USE RowTypes DEF RunRows, PlaceInv, PlaceOf, Keeps, Active, Reserves, Dispatched, At, Reserved
<1>1. ASSUME EndsRun(r), worker' = worker, ~At(r, {"new", "assessed"}) PROVE Keeps(r) /\ PlaceOf(r)'
  BY <1>1 DEF EndsRun
<1>2. CASE SkipRecording(r)
  BY <1>1, <1>2 DEF SkipRecording
<1>3. CASE Distrust(r)
  BY <1>3 DEF Distrust
<1>4. CASE RecordCapacity(r)
  <2>1. CASE BreakersToRecord(r) = <<>>
    BY <1>1, <1>4, <2>1 DEF RecordCapacity
  <2>2. CASE BreakersToRecord(r) # <<>>
    <3>1. run[r].outcome \in {"paid", "unknown"} /\ BreakersToRecord(r) \in Seq(ScopesOf(r))
      BY <2>2, BreakersAreTheRuns
    <3>2. /\ run' = [run EXCEPT ![r].at = "opening", ![r].todo = BreakersToRecord(r)]
          /\ worker' = worker /\ At(r, {"recording"}) /\ ScopesOf(r)' = ScopesOf(r)
      BY <1>4, <2>2 DEF RecordCapacity, ScopesOf
    <3>3. QED BY <2>2, <3>1, <3>2
  <2>3. QED BY <2>1, <2>2
<1>5. CASE RecordBreaker(r)
  <2>1. CASE Tail(run[r].todo) = <<>>
    BY <1>1, <1>5, <2>1 DEF RecordBreaker
  <2>2. CASE Tail(run[r].todo) # <<>>
    <3>1. Tail(run[r].todo) \in Seq(ScopesOf(r))
      BY <1>5 DEF RecordBreaker
    <3>2. /\ run' = [run EXCEPT ![r].todo = Tail(@)]
          /\ worker' = worker /\ At(r, {"opening"}) /\ ScopesOf(r)' = ScopesOf(r)
      BY <1>5, <2>2 DEF RecordBreaker, ScopesOf
    <3>3. QED BY <2>2, <3>1, <3>2
  <2>3. QED BY <2>1, <2>2
<1>6. CASE Crash(r)
  BY <1>6 DEF Crash, EndsRun
<1>7. QED BY <1>2, <1>3, <1>4, <1>5, <1>6

\* A completion that commits.
Settles(r, outcome) ==
  /\ Settle(r, outcome)
  /\ run'[r].settled = Settlement(outcome, ReservationLost(r)) /\ run'[r].expires = run[r].expires
  /\ (At(r, {"ended", "interrupted"}) /\ run[r].outcome = outcome) \/ At(r, {"retry"})
  /\ UNCHANGED <<now, worker, pardons>>
  /\ Active(r)' => Active(r)
  /\ ~Reserves(r)

\* One that does not.
SettlesNothing(r) == Keeps(r) /\ UNCHANGED <<now, tables, worker, pardons, exhausted>>

LEMMA CompletionSettles ==
  ASSUME TypeOK, PlaceInv, route' = route, NEW r \in Runs,
         Complete(r) \/ CompleteRaises(r) \/ CompleteLast(r)
  PROVE  /\ PlaceOf(r)'
         /\ SettlesNothing(r) \/ \E outcome \in Outcomes : Settles(r, outcome)
<1> USE RowTypes DEF RunRows, PlaceInv, PlaceOf, Dispatched, At, Reserved
<1>1. At(r, {"ended"}) => run[r].outcome \in Outcomes
  OBVIOUS
<1>2. ASSUME run' = [run EXCEPT ![r].at = "retry"] \/ run' = [run EXCEPT ![r].at = "recording", ![r].outcome = "unknown"],
             At(r, {"ended", "retry", "interrupted"}), UNCHANGED <<now, tables, worker, pardons, exhausted>>
      PROVE  PlaceOf(r)' /\ SettlesNothing(r)
  <2>1. /\ run'[r].at = "retry" \/ (run'[r].at = "recording" /\ run'[r].outcome = "unknown")
        /\ run'[r].expires = run[r].expires /\ run'[r].settled = run[r].settled
    <3>1. CASE run' = [run EXCEPT ![r].at = "retry"]
      BY <3>1
    <3>2. CASE run' = [run EXCEPT ![r].at = "recording", ![r].outcome = "unknown"]
      BY <3>2
    <3>3. QED BY <1>2, <3>1, <3>2
  <2>2. PlaceOf(r)'
    BY <1>2, <2>1
  <2>3. SettlesNothing(r)
    BY <1>2, <2>1 DEF SettlesNothing, Keeps, Active, Reserves
  <2>4. QED BY <2>2, <2>3
<1>3. ASSUME NEW outcome \in Outcomes, Settle(r, outcome), now' = now, worker' = worker, pardons' = pardons,
             run'[r].at \in {"recording", "retry"}, run'[r].settled = Settlement(outcome, ReservationLost(r)),
             run'[r].expires = run[r].expires,
             \/ At(r, {"ended", "interrupted"}) /\ run[r].outcome = outcome
             \/ At(r, {"retry"}) /\ outcome = "unknown"
      PROVE  PlaceOf(r)' /\ \E o \in Outcomes : Settles(r, o)
  <2>1. Settles(r, outcome)
    BY <1>3 DEF Settles, Active, Reserves
  <2>2. r \in worker => outcome = "unknown"
    BY <1>3
  <2>3. outcome = "unknown" => run'[r].settled = "unknown"
    BY <1>3 DEF Settlement
  <2>4. PlaceOf(r)'
    BY <1>3, <2>2, <2>3
  <2>5. QED BY <2>1, <2>4
<1> HIDE RowTypes DEF PlaceOf, PlaceInv, At, Reserved, RunRows, Dispatched
<1>4. CASE Complete(r)
  <2>1. Settlement(run[r].outcome, ReservationLost(r)) = run[r].outcome
    BY <1>4 DEF Complete, Settlement
  <2>2. /\ run'[r].at = "recording" /\ run'[r].expires = run[r].expires
        /\ run'[r].settled = Settlement(run[r].outcome, ReservationLost(r))
    BY <1>4, <2>1, RowTypes DEF Complete
  <2>3. /\ At(r, {"ended"}) /\ Settle(r, run[r].outcome)
        /\ now' = now /\ worker' = worker /\ pardons' = pardons
    BY <1>4 DEF Complete
  <2>4. At(r, {"ended", "interrupted"}) /\ run[r].outcome \in Outcomes
    BY <1>1, <2>3 DEF At
  <2>5. QED BY <1>3, <2>2, <2>3, <2>4
<1>5. CASE CompleteRaises(r)
  <2>1. CASE Goto(r, "retry") /\ UNCHANGED <<tables, exhausted>>
    BY <1>2, <1>5, <2>1 DEF CompleteRaises, Goto, At
  <2>2. CASE /\ Settle(r, run[r].outcome)
             /\ run' = [run EXCEPT ![r].at = "retry",
                          ![r].settled = Settlement(run[r].outcome, ReservationLost(r))]
    <3>1. /\ run'[r].at = "retry" /\ run'[r].expires = run[r].expires
          /\ run'[r].settled = Settlement(run[r].outcome, ReservationLost(r))
      BY <2>2, RowTypes
    <3>2. At(r, {"ended"}) /\ now' = now /\ worker' = worker /\ pardons' = pardons
      BY <1>5 DEF CompleteRaises
    <3>3. At(r, {"ended", "interrupted"}) /\ run[r].outcome \in Outcomes
      BY <1>1, <3>2 DEF At
    <3>4. QED BY <1>3, <2>2, <3>1, <3>2, <3>3
  <2>3. QED BY <1>5, <2>1, <2>2 DEF CompleteRaises
<1>6. CASE CompleteLast(r)
  <2>1. CASE /\ Settle(r, "unknown")
             /\ run' = [run EXCEPT ![r].at = "recording", ![r].outcome = "unknown", ![r].settled = "unknown"]
    <3>1. /\ run'[r].at = "recording" /\ run'[r].expires = run[r].expires
          /\ run'[r].settled = Settlement("unknown", ReservationLost(r))
      BY <2>1, RowTypes DEF Settlement
    <3>2. /\ At(r, {"retry", "interrupted"})
          /\ now' = now /\ worker' = worker /\ pardons' = pardons
      BY <1>6 DEF CompleteLast
    <3>3. (At(r, {"ended", "interrupted"}) /\ run[r].outcome = "unknown") \/ At(r, {"retry"})
      BY <3>2 DEF At, PlaceInv, PlaceOf
    <3>4. QED BY <1>3, <2>1, <3>1, <3>2, <3>3, Names
  <2>2. CASE /\ UNCHANGED <<tables, exhausted>>
             /\ run' = [run EXCEPT ![r].at = "recording", ![r].outcome = "unknown"]
    BY <1>2, <1>6, <2>2 DEF CompleteLast, At
  <2>3. QED BY <1>6, <2>1, <2>2 DEF CompleteLast
<1>7. QED BY <1>4, <1>5, <1>6

LEMMA ReservationPlaces ==
  ASSUME TypeOK, PlaceInv, route' = route, NEW r \in Runs, Reserve(r) \/ ReserveFindsExpired(r)
  PROVE  PlaceOf(r)'
<1> USE RowTypes DEF RunRows, PlaceInv, PlaceOf, Dispatched, At, Reserved
<1>1. CASE Reserve(r)
  <2>1. now + TTL > 0
    BY BillingAssumption DEF TypeOK
  <2>2. /\ run'[r].at = "reserved" /\ run'[r].expires = now + TTL /\ run'[r].settled = run[r].settled
        /\ worker' = worker /\ run[r].at = "assessed"
    BY <1>1 DEF Reserve
  <2>3. QED BY <2>1, <2>2
<1>2. CASE ReserveFindsExpired(r)
  BY <1>2 DEF ReserveFindsExpired, EndsRun
<1>3. QED BY <1>1, <1>2

LEMMA PlaceStep == TypeOK /\ PlaceInv /\ [Next]_vars => PlaceInv'
<1> SUFFICES ASSUME TypeOK, PlaceInv, [Next]_vars, NEW s \in Runs PROVE PlaceOf(s)'
  BY DEF PlaceInv
<1>1. route' = route /\ PlaceOf(s)
  BY DEF Next, vars, PlaceInv
<1>2. ASSUME run'[s] = run[s], s \in worker' <=> s \in worker PROVE PlaceOf(s)'
  BY <1>1, <1>2 DEF PlaceOf, At, Dispatched, ScopesOf
<1>3. ASSUME NEW r \in Runs, RunStep(r) PROVE PlaceOf(s)'
  <2>1. CASE s # r
    BY <1>2, <1>3, <2>1, RunElsewhere
  <2>2. CASE s = r
    BY <1>1, <1>3, <2>2, KeepsBeforeWorker, KeepsAfterWorker, CompletionSettles, ReservationPlaces DEF RunStep
  <2>3. QED BY <2>1, <2>2
<1>4. CASE UNCHANGED vars
  BY <1>2, <1>4 DEF vars
<1>5. ASSUME NEW x \in Scopes, CloseBreaker(x) PROVE PlaceOf(s)'
  BY <1>2, <1>5 DEF CloseBreaker
<1>6. CASE AdvanceTime
  BY <1>2, <1>6 DEF AdvanceTime
<1>7. QED BY <1>3, <1>4, <1>5, <1>6 DEF Next

\* A step that leaves the leases alone: it opens breakers only for an outcome it
\* knows to be unsafe, and writes capacity only for the scope it recorded.
Quiet ==
  /\ leases' = leases /\ pardons' = pardons /\ exhausted' = exhausted
  /\ now' \in Nat /\ now =< now'
  /\ open \subseteq open'
  /\ \A x \in open' \ open : \E r \in Runs : run[r].outcome \in {"paid", "unknown"} /\ x \in ScopesOf(r)
  /\ \A x \in Scopes : capacity'[x] # capacity[x] => \E r \in Runs : x \in RecordedScopes(r)
  /\ \A r \in Runs : Keeps(r)

LEMMA KeepsElsewhere ==
  ASSUME TypeOK, NEW r \in Runs, RunStep(r), NEW s \in Runs, s # r
  PROVE  Keeps(s)
BY RunElsewhere DEF Keeps, Active, Reserves, At

\* The five kinds of steps.
LEMMA StepKinds ==
  ASSUME TypeOK, PlaceInv, [Next]_vars
  PROVE  \/ Quiet
         \/ \E r \in Runs : Reserve(r) \/ ReserveFindsExpired(r)
         \/ \E r \in Runs, outcome \in Outcomes : Settles(r, outcome) /\ \A s \in Runs \ {r} : run'[s] = run[s]
         \/ \E x \in Scopes : CloseBreaker(x)
<1>1. route' = route /\ now \in Nat
  BY DEF Next, vars, TypeOK
<1>2. ASSUME UNCHANGED <<leases, open, capacity, pardons, exhausted>>, now' = now, \A r \in Runs : Keeps(r) PROVE Quiet
  BY <1>1, <1>2 DEF Quiet
<1>3. CASE UNCHANGED vars
  <2>1. \A r \in Runs : Keeps(r)
    BY <1>3 DEF Keeps, vars, Active, At, Reserves
  <2>2. QED BY <1>2, <1>3, <2>1 DEF vars, tables
<1>4. CASE AdvanceTime
  <2>1. \A r \in Runs : Keeps(r)
    BY <1>4 DEF Keeps, AdvanceTime, Active, At, Reserves
  <2>2. QED BY <1>1, <1>4, <2>1 DEF AdvanceTime, tables, Quiet
<1>5. ASSUME NEW r \in Runs, RunStep(r)
      PROVE  \/ Quiet
             \/ Reserve(r) \/ ReserveFindsExpired(r)
             \/ \E outcome \in Outcomes : Settles(r, outcome) /\ \A s \in Runs \ {r} : run'[s] = run[s]
  <2>1. Keeps(r) => \A s \in Runs : Keeps(s)
    BY <1>5, KeepsElsewhere
  <2>2. CASE \/ Assess(r) \/ ReserveRefused(r) \/ Clear(r) \/ Launch(r) \/ WorkerExits(r)
             \/ \E outcome \in Outcomes : Finish(r, outcome)
             \/ Interrupt(r)
    <3>1. UNCHANGED <<leases, open, capacity, pardons, exhausted>> /\ now' = now
      BY <2>2 DEF Assess, ReserveRefused, Clear, Launch, WorkerExits, Finish, Interrupt, tables
    <3>2. QED BY <1>1, <1>2, <2>1, <2>2, <3>1, KeepsBeforeWorker
  <2>3. CASE SkipRecording(r) \/ Distrust(r) \/ Crash(r)
    <3>1. UNCHANGED <<leases, open, capacity, pardons, exhausted>> /\ now' = now
      BY <2>3 DEF SkipRecording, Distrust, Crash, tables
    <3>2. QED BY <1>1, <1>2, <2>1, <2>3, <3>1, KeepsAfterWorker
  <2>4. CASE RecordCapacity(r)
    <3>1. \A x \in Scopes : capacity'[x] # capacity[x] => x \in RecordedScopes(r)
      BY <2>4 DEF RecordCapacity
    <3>2. QED BY <1>1, <2>1, <2>4, <3>1, KeepsAfterWorker DEF RecordCapacity, Quiet
  <2>5. CASE RecordBreaker(r)
    <3>1. run[r].outcome \in {"paid", "unknown"} /\ Head(run[r].todo) \in ScopesOf(r)
      BY <2>5 DEF RecordBreaker, PlaceInv, PlaceOf
    <3>2. QED BY <1>1, <2>1, <2>5, <3>1, KeepsAfterWorker DEF RecordBreaker, Quiet
  <2>6. CASE Complete(r) \/ CompleteRaises(r) \/ CompleteLast(r)
    <3>1. \A s \in Runs \ {r} : run'[s] = run[s]
      BY <1>5, RunElsewhere
    <3>2. CASE SettlesNothing(r)
      BY <1>2, <2>1, <3>2 DEF SettlesNothing, tables
    <3>3. QED BY <1>1, <2>6, <3>1, <3>2, CompletionSettles
  <2>7. QED BY <1>5, <2>2, <2>3, <2>4, <2>5, <2>6 DEF RunStep
<1>6. QED BY <1>3, <1>4, <1>5 DEF Next

-----------------------------------------------------------------------------
(* Reservations and what becomes of them.                                  *)

\* A breaker stays until the operator answers for the run.
LEMMA StandsStays ==
  ASSUME TypeOK, PlaceInv, [Next]_vars, NEW r \in Runs, NEW x \in Scopes,
         Stands(r, x), Dispatched(r), run[r].settled \notin Known
  PROVE  Stands(r, x)'
<1>1. CASE Quiet
  BY <1>1 DEF Quiet, Stands
<1>2. ASSUME NEW s \in Runs, Reserve(s) \/ ReserveFindsExpired(s) PROVE Stands(r, x)'
  BY <1>2 DEF Reserve, ReserveFindsExpired, Stands
<1>3. ASSUME NEW s \in Runs, NEW outcome \in Outcomes, Settles(s, outcome) PROVE Stands(r, x)'
  BY <1>3 DEF Settles, Settle, Stands
<1>4. ASSUME NEW y \in Scopes, CloseBreaker(y) PROVE Stands(r, x)'
  BY <1>4 DEF CloseBreaker, Stands
<1>5. QED BY <1>1, <1>2, <1>3, <1>4, StepKinds

LEMMA ReservationStep == DispatchInv /\ [Next]_vars => ReservationInv'
<1> SUFFICES ASSUME DispatchInv, [Next]_vars, NEW s \in Runs, NEW k \in Keys
             PROVE  Leased(s, k)' /\ Awaited(s, k)'
  BY DEF ReservationInv, Keys
<1>1. TypeOK /\ PlaceInv /\ Leased(s, k) /\ Awaited(s, k)
  BY DEF DispatchInv, ReservationInv
<1>2. /\ KeysOf(s)' = KeysOf(s) /\ now \in Nat /\ now' \in Nat /\ Everywhere \in Scopes
      /\ run[s] \in RunRows /\ run[s].expires \in Nat /\ Undecided \notin Known
      /\ leases \in [Keys -> [owner : Runs, expires : Nat] \cup {NoLease}]
  <2>1. TypeOK' /\ KeysOf(s)' = KeysOf(s)
    BY <1>1, TypeStep DEF Next, vars, KeysOf
  <2>2. now \in Nat /\ now' \in Nat /\ leases \in [Keys -> [owner : Runs, expires : Nat] \cup {NoLease}]
    BY <1>1, <2>1 DEF TypeOK
  <2>3. Undecided \notin Known
    BY DEF Undecided, Known
  <2>4. QED BY <1>1, <2>1, <2>2, <2>3, RowTypes DEF Scopes, Everywhere
<1>3. Dispatched(s) /\ run[s].settled = Undecided /\ Stands(s, Everywhere) => Stands(s, Everywhere)'
  BY <1>1, <1>2, StandsStays
<1>4. ASSUME leases'[k] = leases[k] \/ ~Holds(s, k)', now =< now',
             run'[s].expires = run[s].expires, run'[s].settled = run[s].settled,
             Dispatched(s) /\ run[s].settled = Undecided /\ Holds(s, k) =>
               Holds(s, k)' \/ (Stands(s, Everywhere)' /\ run[s].expires <= now)
      PROVE  Leased(s, k)' /\ Awaited(s, k)'
  <2>1. Leased(s, k)'
    BY <1>1, <1>2, <1>4 DEF Leased, Holds, Dispatched
  <2>2. Awaited(s, k)'
    BY <1>1, <1>2, <1>3, <1>4 DEF Awaited, Dispatched
  <2>3. QED BY <2>1, <2>2
<1>5. CASE Quiet
  BY <1>4, <1>5 DEF Quiet, Keeps, Holds
<1>6. ASSUME NEW r \in Runs, Reserve(r) PROVE Leased(s, k)' /\ Awaited(s, k)'
  <2>1. /\ leases' = [j \in Keys |->
               IF j \in KeysOf(r) THEN [owner |-> r, expires |-> now + TTL] ELSE leases[j]]
        /\ run' = [run EXCEPT ![r].at = "reserved", ![r].expires = now + TTL]
        /\ now' = now /\ run[r].at = "assessed" /\ \A j \in KeysOf(r) : leases[j] = NoLease
    BY <1>6 DEF Reserve, At
  <2>2. CASE s # r
    <3>1. run'[s] = run[s]
      BY <1>1, <2>1, <2>2, RowTypes
    <3>2. k \in KeysOf(r) => ~Holds(s, k) /\ ~Holds(s, k)'
      BY <2>1, <2>2 DEF Holds
    <3>3. k \notin KeysOf(r) => leases'[k] = leases[k]
      BY <2>1
    <3>4. k \notin KeysOf(r) => (Holds(s, k)' <=> Holds(s, k))
      BY <3>3 DEF Holds
    <3>5. now =< now'
      BY <1>2, <1>6 DEF Reserve
    <3>6. QED BY <1>4, <3>1, <3>2, <3>3, <3>4, <3>5
  <2>3. CASE s = r
    <3>1. run'[r].expires = now + TTL /\ now + TTL > 0 /\ run'[r].settled = Undecided
      BY <1>1, <1>2, <2>1, <2>3, RowTypes, BillingAssumption DEF PlaceInv, PlaceOf, RunRows, At
    <3>2. CASE k \in KeysOf(r)
      <4>1. leases'[k] = [owner |-> r, expires |-> now + TTL] /\ now + TTL \in Nat
        BY <1>2, <2>1, <3>2, BillingAssumption
      <4>2. leases'[k] # NoLease
        BY <4>1, BillingAssumption
      <4>3. QED BY <1>2, <2>3, <3>1, <3>2, <4>1, <4>2 DEF Leased, Awaited, Holds, Dispatched
    <3>3. CASE k \notin KeysOf(r)
      <4>1. leases'[k] = leases[k] /\ ~Holds(s, k)
        BY <1>1, <2>1, <2>3, <3>3 DEF Leased
      <4>2. QED BY <1>2, <2>3, <3>3, <4>1 DEF Leased, Awaited, Holds
    <3>4. QED BY <3>2, <3>3
  <2>4. QED BY <2>2, <2>3
<1>7. ASSUME NEW r \in Runs, ReserveFindsExpired(r) PROVE Leased(s, k)' /\ Awaited(s, k)'
  <2>1. /\ leases' = [j \in Keys |-> IF j \in ExpiredKeys(r) THEN NoLease ELSE leases[j]]
        /\ open' = open \cup ScopesOf(r) /\ now' = now /\ EndsRun(r)
    BY <1>7 DEF ReserveFindsExpired, ExpiredScopes
  <2>2. run'[s].expires = run[s].expires /\ run'[s].settled = run[s].settled
    BY <1>1, <1>2, <2>1, RowTypes DEF EndsRun, RunRows
  <2>3. Stands(s, Everywhere)'
    BY <1>1, <2>1, RouteTypes DEF Stands
  <2>4. CASE k \in ExpiredKeys(r)
    <3>1. leases'[k] = NoLease /\ leases[k].expires <= now
      BY <2>1, <2>4 DEF ExpiredKeys
    <3>2. Holds(s, k) => run[s].expires <= now
      BY <1>1, <3>1 DEF Leased
    <3>3. QED BY <1>2, <1>4, <2>1, <2>2, <2>3, <3>1, <3>2 DEF Holds
  <2>5. CASE k \notin ExpiredKeys(r)
    BY <1>2, <1>4, <2>1, <2>2, <2>5 DEF Holds
  <2>6. QED BY <2>4, <2>5
<1>8. ASSUME NEW r \in Runs, NEW outcome \in Outcomes, Settles(r, outcome), \A q \in Runs \ {r} : run'[q] = run[q]
      PROVE  Leased(s, k)' /\ Awaited(s, k)'
  <2>1. /\ leases' = [j \in Keys |->
               IF j \in KeysOf(r) /\ leases[j] # NoLease /\ leases[j].owner = r THEN NoLease ELSE leases[j]]
        /\ now' = now
    BY <1>8 DEF Settles, Settle
  <2>2. CASE s # r
    BY <1>2, <1>4, <1>8, <2>1, <2>2 DEF Holds
  <2>3. CASE s = r
    <3>1. run'[r].settled # Undecided
      BY <1>8, SettlementType, Names DEF Settles, ReservationLost
    <3>2. ~Holds(s, k)'
      BY <1>1, <2>1, <2>3 DEF Holds, Leased
    <3>3. QED BY <2>3, <3>1, <3>2 DEF Leased, Awaited
  <2>4. QED BY <2>2, <2>3
<1>9. ASSUME NEW x \in Scopes, CloseBreaker(x) PROVE Leased(s, k)' /\ Awaited(s, k)'
  BY <1>2, <1>4, <1>9 DEF CloseBreaker, Holds
<1>10. QED BY <1>1, <1>5, <1>6, <1>7, <1>8, <1>9, StepKinds

LEMMA SettledStep == DispatchInv /\ [Next]_vars => SettledInv'
<1> DEFINE Account(r) == <<route[r].account, Anyone>>
           SettledOf(r) == Dispatched(r) =>
             /\ run[r].settled = "unknown" => Stands(r, Everywhere)
             /\ run[r].settled = "paid" => Stands(r, Account(r))
<1> SUFFICES ASSUME DispatchInv, [Next]_vars, NEW s \in Runs PROVE SettledOf(s)'
  BY DEF SettledInv
<1>1. TypeOK /\ PlaceInv /\ SettledOf(s) /\ route' = route
  BY DEF DispatchInv, SettledInv, Next, vars
<1>2. /\ Everywhere \in ScopesOf(s) /\ Everywhere \in Scopes
      /\ Account(s) \in AccountScopes(s) /\ Account(s) \in Scopes /\ Account(s)' = Account(s)
  BY <1>1, RouteTypes
<1>3. "unknown" \notin Known /\ "paid" \notin Known /\ Undecided \notin {"unknown", "paid"}
  BY DEF Known, Undecided
<1> HIDE DEF Account
<1>4. ASSUME run'[s].expires = run[s].expires, run'[s].settled = run[s].settled PROVE SettledOf(s)'
  BY <1>1, <1>2, <1>3, <1>4, StandsStays DEF Dispatched
<1>5. CASE Quiet
  BY <1>4, <1>5 DEF Quiet, Keeps
<1>6. ASSUME NEW r \in Runs, Reserve(r) \/ ReserveFindsExpired(r) PROVE SettledOf(s)'
  <2>1. CASE s = r /\ Reserve(r)
    <3>1. run'[s].settled = Undecided
      BY <1>1, <2>1, RowTypes DEF Reserve, PlaceInv, PlaceOf, RunRows, At
    <3>2. QED BY <1>3, <3>1
  <2>2. CASE s # r \/ ReserveFindsExpired(r)
    <3>1. run'[s].expires = run[s].expires /\ run'[s].settled = run[s].settled
      BY <1>1, <1>6, <2>2, RowTypes DEF Reserve, ReserveFindsExpired, EndsRun, RunRows
    <3>2. QED BY <1>4, <3>1
  <2>3. QED BY <1>6, <2>1, <2>2
<1>7. ASSUME NEW r \in Runs, NEW outcome \in Outcomes, Settles(r, outcome), \A q \in Runs \ {r} : run'[q] = run[q]
      PROVE  SettledOf(s)'
  <2>1. CASE s # r
    BY <1>4, <1>7, <2>1
  <2>2. CASE s = r
    <3>1. open' = open \cup OpenedBy(r, run'[s].settled)
      BY <1>7, <2>2 DEF Settles, Settle
    <3>2. run'[s].settled = "unknown" => Everywhere \in open'
      BY <1>2, <2>2, <3>1 DEF OpenedBy
    <3>3. run'[s].settled = "paid" => Account(s) \in open'
      BY <1>2, <2>2, <3>1 DEF OpenedBy
    <3>4. QED BY <1>2, <3>2, <3>3 DEF Stands
  <2>3. QED BY <2>1, <2>2
<1>8. ASSUME NEW x \in Scopes, CloseBreaker(x) PROVE SettledOf(s)'
  BY <1>4, <1>8 DEF CloseBreaker
<1>9. QED BY <1>1, <1>5, <1>6, <1>7, <1>8, StepKinds

-----------------------------------------------------------------------------
(* Who may pass whom.                                                      *)

\* A reservation that succeeds meets no run it is barred by.
LEMMA ReservePassesPardoned ==
  ASSUME DispatchInv, NEW r \in Runs, NEW s \in Runs, Reserve(s), Bars(r, s)
  PROVE  Pardoned(r, s)
<1>1. TypeOK /\ ReservationInv /\ SettledInv /\ Dispatched(r)
  BY DEF DispatchInv, Bars
<1>2. ASSUME NEW x \in ScopesOf(s), Stands(r, x) PROVE Pardoned(r, s)
  BY <1>2 DEF Reserve, Stands, Pardoned
<1>3. Everywhere \in ScopesOf(s)
  BY <1>1, RouteTypes
<1>4. CASE run[r].settled = Undecided /\ Shares(r, s)
  <2>1. PICK k \in Keys : k \in KeysOf(r) /\ k \in KeysOf(s)
    BY <1>1, <1>4, RouteTypes DEF Shares, KeysOf
  <2>2. ~Holds(r, k)
    BY <2>1 DEF Reserve, Holds
  <2>3. Stands(r, Everywhere)
    BY <1>1, <1>4, <2>1, <2>2 DEF ReservationInv, Awaited
  <2>4. QED BY <1>2, <1>3, <2>3
<1>5. CASE run[r].settled = "paid" /\ route[r].account = route[s].account
  <2>1. <<route[r].account, Anyone>> \in ScopesOf(s)
    BY <1>5 DEF ScopesOf
  <2>2. QED BY <1>1, <1>2, <1>5, <2>1 DEF SettledInv
<1>6. CASE run[r].settled = "unknown"
  BY <1>1, <1>2, <1>3, <1>6 DEF SettledInv
<1>7. QED BY <1>4, <1>5, <1>6 DEF Bars

LEMMA ActiveStep == DispatchInv /\ [Next]_vars => ActiveInv'
<1> DEFINE Parted(r, s) == Pardoned(r, s) \/ Pardoned(s, r)
<1> SUFFICES ASSUME DispatchInv, [Next]_vars, NEW r \in Runs, NEW s \in Runs,
                    Active(r)', Active(s)', r # s, Shares(r, s)'
             PROVE  Parted(r, s)'
  BY DEF ActiveInv
<1>1. TypeOK /\ PlaceInv /\ ActiveInv /\ Shares(r, s) /\ route' = route
  BY DEF DispatchInv, Next, vars, Shares
<1>2. pardons \subseteq pardons'
  BY <1>1, StepKinds DEF Quiet, Reserve, ReserveFindsExpired, Settles, CloseBreaker
<1>3. Parted(r, s) => Parted(r, s)'
  BY <1>1, <1>2 DEF Pardoned, ScopesOf
<1>4. Active(r) /\ Active(s) => Parted(r, s)
  BY <1>1 DEF ActiveInv
<1>5. ASSUME NEW p \in Runs, NEW q \in Runs, Reserve(q), Active(p), Shares(p, q), p # q PROVE Pardoned(p, q)
  <2>1. Dispatched(p) /\ run[p].settled \in {Undecided, "unknown"}
    BY <1>1, <1>5 DEF PlaceInv, PlaceOf, Active, At, Reserved
  <2>2. QED BY <1>5, <2>1, ReservePassesPardoned DEF Bars
<1>6. ASSUME NEW q \in Runs, Reserve(q) PROVE Parted(r, s)'
  <2>1. \A p \in Runs : p # q => (Active(p)' <=> Active(p))
    BY <1>1, <1>6, RowTypes DEF Reserve, Active, At
  <2>2. Shares(s, r)
    BY <1>1 DEF Shares
  <2>3. CASE r # q /\ s # q
    BY <1>3, <1>4, <2>1, <2>3
  <2>4. CASE s = q
    BY <1>1, <1>3, <1>5, <1>6, <2>1, <2>4
  <2>5. CASE r = q
    BY <1>3, <1>5, <1>6, <2>1, <2>2, <2>5
  <2>6. QED BY <2>3, <2>4, <2>5
<1>7. ASSUME \A p \in Runs : Active(p)' => Active(p) PROVE Parted(r, s)'
  BY <1>3, <1>4, <1>7
<1>8. CASE Quiet
  BY <1>7, <1>8 DEF Quiet, Keeps
<1>9. ASSUME NEW q \in Runs, ReserveFindsExpired(q) PROVE Parted(r, s)'
  <2>1. \A p \in Runs : Active(p)' => Active(p)
    BY <1>1, <1>9, RowTypes DEF ReserveFindsExpired, EndsRun, Active, At, RunRows
  <2>2. QED BY <1>7, <2>1
<1>10. ASSUME NEW q \in Runs, NEW outcome \in Outcomes, Settles(q, outcome), \A p \in Runs \ {q} : run'[p] = run[p]
       PROVE  Parted(r, s)'
  <2>1. \A p \in Runs : Active(p)' => Active(p)
    BY <1>10 DEF Settles, Active, At
  <2>2. QED BY <1>7, <2>1
<1>11. ASSUME NEW x \in Scopes, CloseBreaker(x) PROVE Parted(r, s)'
  <2>1. \A p \in Runs : Active(p)' => Active(p)
    BY <1>11 DEF CloseBreaker, Active, At
  <2>2. QED BY <1>7, <2>1
<1>12. QED BY <1>1, <1>6, <1>8, <1>9, <1>10, <1>11, StepKinds

-----------------------------------------------------------------------------
(* The invariants hold.                                                    *)

LEMMA DispatchInit == Init => DispatchInv
<1> SUFFICES ASSUME Init PROVE DispatchInv
  OBVIOUS
<1>1. TypeOK
  BY TypeInit
<1>2. \A r \in Runs : run[r].at = "new" /\ run[r].expires = 0 /\ run[r].settled = Undecided /\ r \notin worker
  BY DEF Init
<1>3. \A r \in Runs : ~Dispatched(r) /\ ~Active(r) /\ PlaceOf(r)
  BY <1>2 DEF Dispatched, Active, PlaceOf, At, Reserved
<1>4. \A r \in Runs, k \in Keys : ~Holds(r, k)
  BY DEF Init, Holds
<1>5. QED
  BY <1>1, <1>3, <1>4 DEF DispatchInv, PlaceInv, ReservationInv, Leased, Awaited, SettledInv, ActiveInv

LEMMA DispatchHolds == Spec => []DispatchInv
<1>1. DispatchInv /\ [Next]_vars => DispatchInv'
  BY TypeStep, PlaceStep, ReservationStep, SettledStep, ActiveStep DEF DispatchInv
<1>2. QED BY <1>1, DispatchInit, PTL DEF Spec

LEMMA LimitInit == Init => LimitInv
BY DEF Init, LimitInv

LEMMA LimitStep ==
  ASSUME Named
  PROVE  TypeOK /\ PlaceInv /\ LimitInv /\ [Next]_vars => LimitInv'
<1> DEFINE account(a) == <<"account", a>>
           scope(a) == <<a, Anyone>>
           Blocked(a) == exhausted[a] # Clean =>
             /\ exhausted[a] <= now
             /\ leases[account(a)] = NoLease
             /\ capacity[scope(a)] # Clean /\ capacity[scope(a)] >= exhausted[a]
<1> SUFFICES ASSUME TypeOK, PlaceInv, LimitInv, [Next]_vars, NEW a \in Accounts PROVE Blocked(a)'
  BY DEF LimitInv
<1>1. Blocked(a)
  BY DEF LimitInv
<1>2. /\ account(a) \in Keys /\ scope(a) \in Scopes
      /\ now \in Nat /\ exhausted[a] \in Nat \cup {Clean} /\ capacity[scope(a)] \in Nat \cup {Clean} /\ Clean \notin Nat
      /\ exhausted \in [Accounts -> Nat \cup {Clean}]
  BY DEF Keys, Scopes, TypeOK, Clean
<1>3. \A r \in Runs :
        /\ account(a) \in KeysOf(r) <=> a = route[r].account
        /\ scope(a) \in ScopesOf(r) <=> a = route[r].account
        /\ scope(a) \in AccountScopes(r) <=> a = route[r].account
        /\ scope(a) \notin RecordedScopes(r)
  <2>1. TAKE r \in Runs
  <2>2. route[r].profile # Anyone /\ a # Anyone
    BY BillingAssumption DEF Named, TypeOK
  <2>3. account(a) \in KeysOf(r) <=> a = route[r].account
    BY DEF KeysOf
  <2>4. scope(a) \in ScopesOf(r) <=> a = route[r].account
    BY <2>2 DEF ScopesOf
  <2>5. scope(a) \in AccountScopes(r) <=> a = route[r].account
    BY DEF AccountScopes
  <2>6. scope(a) \notin RecordedScopes(r)
    BY <2>2 DEF RecordedScopes
  <2>7. QED BY <2>3, <2>4, <2>5, <2>6
<1> HIDE DEF account, scope
<1>4. CASE Quiet
  <2>1. capacity'[scope(a)] = capacity[scope(a)]
    BY <1>2, <1>3, <1>4 DEF Quiet
  <2>2. exhausted' = exhausted /\ leases' = leases /\ now =< now' /\ now' \in Nat
    BY <1>4 DEF Quiet
  <2>3. QED BY <1>1, <1>2, <2>1, <2>2
<1>5. ASSUME NEW r \in Runs, Reserve(r) PROVE Blocked(a)'
  <2>1. CASE a = route[r].account
    BY <1>2, <1>5, <2>1 DEF Reserve
  <2>2. CASE a # route[r].account
    <3>1. exhausted'[a] = exhausted[a] /\ leases'[account(a)] = leases[account(a)] /\ now' = now
      BY <1>2, <1>3, <1>5, <2>2 DEF Reserve
    <3>2. capacity'[scope(a)] = capacity[scope(a)]
      BY <1>2, <1>3, <1>5, <2>2 DEF Reserve
    <3>3. QED BY <1>1, <3>1, <3>2
  <2>3. QED BY <2>1, <2>2
<1>6. ASSUME NEW r \in Runs, ReserveFindsExpired(r) PROVE Blocked(a)'
  <2>1. leases[account(a)] = NoLease => leases'[account(a)] = NoLease
    BY <1>2, <1>6 DEF ReserveFindsExpired
  <2>2. UNCHANGED <<now, capacity, exhausted>>
    BY <1>6 DEF ReserveFindsExpired
  <2>3. QED BY <1>1, <2>1, <2>2
<1>7. ASSUME NEW r \in Runs, NEW outcome \in Outcomes, Settles(r, outcome) PROVE Blocked(a)'
  <2> DEFINE lost == ReservationLost(r)
             settled == Settlement(outcome, lost)
             covered == IF lost THEN ScopesOf(r) ELSE AccountScopes(r)
  <2>1. /\ now' = now
        /\ capacity'[scope(a)] = IF scope(a) \notin covered THEN capacity[scope(a)]
                                 ELSE IF settled = "clean" THEN Clean ELSE now
        /\ exhausted' = IF settled = "limit" THEN [exhausted EXCEPT ![route[r].account] = now] ELSE exhausted
    BY <1>2, <1>7 DEF Settles, Settle
  <2>2. leases'[account(a)] = IF account(a) \in KeysOf(r) /\ leases[account(a)] # NoLease /\ leases[account(a)].owner = r
                                THEN NoLease ELSE leases[account(a)]
    BY <1>2, <1>7 DEF Settles, Settle
  <2>3. CASE a # route[r].account
    <3>1. scope(a) \notin covered /\ exhausted'[a] = exhausted[a]
      BY <1>2, <1>3, <2>1, <2>3
    <3>2. QED BY <1>1, <2>1, <2>2, <3>1
  <2>4. CASE a = route[r].account
    <3>1. scope(a) \in covered /\ account(a) \in KeysOf(r)
      BY <1>3, <2>4
    <3>2. CASE settled = "limit"
      <4>1. ~lost
        BY <3>2 DEF Settlement
      <4>2. leases'[account(a)] = NoLease
        BY <2>2, <3>1, <4>1 DEF ReservationLost
      <4>3. exhausted'[a] = now /\ capacity'[scope(a)] = now
        BY <1>2, <2>1, <2>4, <3>1, <3>2
      <4>4. QED BY <1>2, <2>1, <4>2, <4>3
    <3>3. CASE settled # "limit"
      <4>1. exhausted'[a] = exhausted[a]
        BY <2>1, <3>3
      <4>2. CASE exhausted[a] # Clean
        <5>1. lost
          BY <1>1, <3>1, <4>2 DEF ReservationLost
        <5>2. capacity'[scope(a)] = now
          BY <2>1, <3>1, <5>1 DEF Settlement
        <5>3. QED BY <1>1, <1>2, <2>1, <2>2, <4>1, <4>2, <5>2
      <4>3. QED BY <4>1, <4>2
    <3>4. QED BY <3>2, <3>3
  <2>5. QED BY <2>3, <2>4
<1>8. ASSUME NEW x \in Scopes, CloseBreaker(x) PROVE Blocked(a)'
  BY <1>1, <1>8 DEF CloseBreaker
<1>9. QED BY <1>4, <1>5, <1>6, <1>7, <1>8, StepKinds

LEMMA LimitHolds ==
  ASSUME Named
  PROVE  Spec => []LimitInv
<1>1. DispatchInv => TypeOK /\ PlaceInv
  BY DEF DispatchInv
<1>2. DispatchInv /\ LimitInv /\ [Next]_vars => LimitInv'
  BY <1>1, LimitStep
<1>3. QED BY <1>2, DispatchHolds, LimitInit, PTL DEF Spec

-----------------------------------------------------------------------------
(* What follows.                                                           *)

\* Only Reserve leads a run from its assessment to a reservation.
LEMMA ReservesByReserve ==
  ASSUME TypeOK, PlaceInv, [Next]_vars, NEW s \in Runs, Reserves(s)
  PROVE  Reserve(s)
<1>1. CASE Quiet
  BY <1>1 DEF Quiet, Keeps
<1>2. ASSUME NEW r \in Runs, Reserve(r) PROVE Reserve(s)
  BY <1>2, RowTypes DEF Reserve, Reserves
<1>3. ASSUME NEW r \in Runs, ReserveFindsExpired(r) PROVE FALSE
  BY <1>3, RowTypes DEF ReserveFindsExpired, EndsRun, Reserves, RunRows
<1>4. ASSUME NEW r \in Runs, NEW outcome \in Outcomes, Settles(r, outcome), \A q \in Runs \ {r} : run'[q] = run[q]
      PROVE  FALSE
  BY <1>4 DEF Settles, Reserves
<1>5. ASSUME NEW x \in Scopes, CloseBreaker(x) PROVE FALSE
  BY <1>5 DEF CloseBreaker, Reserves
<1>6. QED BY <1>1, <1>2, <1>3, <1>4, <1>5, StepKinds

\* The tables of the state store and the rows of the runs never hold anything
\* their schemas and the protocol do not name, whatever is interleaved.
THEOREM DispatchTypeCorrect == Spec => []TypeOK
<1>1. DispatchInv => TypeOK
  BY DEF DispatchInv
<1>2. QED BY <1>1, DispatchHolds, PTL

\* Two live workers of one account or one profile exist only where the operator
\* closed a breaker for one of them: neither a crash, nor a reservation that runs
\* out under its worker, nor a completion that fails lets a second one in.
THEOREM WorkersAreKeptApart == Spec => []OneWorkerPerScope
<1>1. DispatchInv => OneWorkerPerScope
  BY DEF DispatchInv, TypeOK, ActiveInv, Active, OneWorkerPerScope
<1>2. QED BY <1>1, DispatchHolds, PTL

\* reserve_billing_dispatch lets no run pass one whose outcome is missing, paid or
\* unknown where that outcome concerns it, unless the operator answered for it.
THEOREM UnknownsBarTheNext == Spec => NoDispatchPastUnknown
<1>1. DispatchInv /\ [Next]_vars =>
        [\A s \in Runs : Reserves(s) => \A r \in Runs : Bars(r, s) => Pardoned(r, s)]_vars
  BY ReservesByReserve, ReservePassesPardoned DEF DispatchInv
<1>2. QED BY <1>1, DispatchHolds, PTL DEF Spec, NoDispatchPastUnknown

\* The breakers that reserve, complete and record open have a cause among the
\* runs: an unsafe outcome, a completion that failed, a reservation outlived.
THEOREM BreakersHaveACause == Spec => NoFalseAlarm
<1> DEFINE Justified(x) == \E r \in Runs : Cause(r) /\ (x \in ScopesOf(r) \/ Overstayed(r))
<1>1. ASSUME DispatchInv, [Next]_vars, NEW x \in open' \ open PROVE Justified(x)
  <2>1. TypeOK /\ PlaceInv /\ ReservationInv
    BY <1>1 DEF DispatchInv
  <2>2. CASE Quiet
    <3>1. PICK r \in Runs : run[r].outcome \in {"paid", "unknown"} /\ x \in ScopesOf(r)
      BY <1>1, <2>2 DEF Quiet
    <3>2. QED BY <3>1 DEF Cause
  <2>3. ASSUME NEW r \in Runs, ReserveFindsExpired(r) PROVE Justified(x)
    <3>1. PICK k \in Keys : leases[k] # NoLease /\ leases[k].expires <= now
      BY <2>1, <2>3, RouteTypes DEF ReserveFindsExpired, ExpiredKeys
    <3>2. leases[k].owner \in Runs
      BY <2>1, <3>1 DEF TypeOK
    <3>3. Overstayed(leases[k].owner)
      BY <2>1, <3>1, <3>2 DEF ReservationInv, Leased, Holds, Overstayed
    <3>4. QED BY <3>2, <3>3 DEF Cause
  <2>4. ASSUME NEW r \in Runs, NEW outcome \in Outcomes, Settles(r, outcome) PROVE Justified(x)
    <3>1. x \in OpenedBy(r, Settlement(outcome, ReservationLost(r)))
      BY <1>1, <2>4 DEF Settles, Settle
    <3>2. x \in ScopesOf(r)
      BY <2>1, <3>1, RouteTypes DEF OpenedBy
    <3>3. CASE At(r, {"retry"})
      BY <3>2, <3>3 DEF Cause
    <3>4. CASE At(r, {"ended", "interrupted"}) /\ run[r].outcome = outcome
      <4>1. CASE ReservationLost(r)
        <5>1. Dispatched(r) /\ run[r].settled = Undecided
          BY <2>1, <3>4 DEF PlaceInv, PlaceOf, At, Reserved
        <5>2. PICK k \in KeysOf(r) : ~Holds(r, k) \/ leases[k].expires <= now
          BY <4>1 DEF ReservationLost, Holds
        <5>3. k \in Keys /\ run[r].expires <= now
          BY <2>1, <5>1, <5>2, RouteTypes DEF ReservationInv, Leased, Awaited
        <5>4. QED BY <3>2, <5>1, <5>3 DEF Cause, Overstayed
      <4>2. CASE ~ReservationLost(r)
        <5>1. outcome \in {"paid", "unknown"}
          BY <3>1, <4>2 DEF Settlement, OpenedBy
        <5>2. QED BY <3>2, <3>4, <5>1 DEF Cause
      <4>3. QED BY <4>1, <4>2
    <3>5. QED BY <2>4, <3>3, <3>4 DEF Settles
  <2>5. ASSUME NEW r \in Runs, Reserve(r) PROVE FALSE
    BY <1>1, <2>5 DEF Reserve
  <2>6. ASSUME NEW y \in Scopes, CloseBreaker(y) PROVE FALSE
    BY <1>1, <2>6 DEF CloseBreaker
  <2>7. QED BY <1>1, <2>1, <2>2, <2>3, <2>4, <2>5, <2>6, StepKinds
<1>2. DispatchInv /\ [Next]_vars =>
        [\A x \in open' \ open : \E r \in Runs : Cause(r) /\ (x \in ScopesOf(r) \/ Overstayed(r))]_vars
  BY <1>1
<1>3. QED BY <1>2, DispatchHolds, PTL DEF Spec, NoFalseAlarm

\* Where every run has a profile, an exhausted account is dispatched again only on
\* evidence newer than its limit.  Without a profile it is not: the row that the
\* orchestrator records late then covers the account itself.
THEOREM LimitsOutliveOlderEvidence ==
  ASSUME Named
  PROVE  Spec => NoDispatchAfterLimit
<1>1. ASSUME DispatchInv, LimitInv, [Next]_vars, NEW r \in Runs, Reserves(r)
      PROVE  run[r].evidence > exhausted[route[r].account]
  <2> DEFINE a == route[r].account
             x == <<a, Anyone>>
  <2>1. TypeOK /\ Reserve(r)
    BY <1>1, ReservesByReserve DEF DispatchInv
  <2>2. /\ a \in Accounts /\ x \in ScopesOf(r) /\ x \in Scopes /\ run[r].evidence \in Nat
        /\ exhausted[a] \in Nat \cup {Clean} /\ capacity[x] \in Nat \cup {Clean}
    BY <2>1, RouteTypes, RowTypes DEF TypeOK
  <2>3. CASE exhausted[a] = Clean
    BY <2>2, <2>3 DEF Clean
  <2>4. CASE exhausted[a] # Clean
    <3>1. capacity[x] # Clean /\ capacity[x] >= exhausted[a]
      BY <1>1, <2>2, <2>4 DEF LimitInv
    <3>2. run[r].evidence > capacity[x]
      BY <2>1, <2>2, <3>1 DEF Reserve, Reverified, BlockingScopes
    <3>3. QED BY <2>2, <2>4, <3>1, <3>2 DEF Clean
  <2>5. QED BY <2>3, <2>4
<1>2. DispatchInv /\ LimitInv /\ [Next]_vars =>
        [\A r \in Runs : Reserves(r) => run[r].evidence > exhausted[route[r].account]]_vars
  BY <1>1
<1>3. QED BY <1>2, DispatchHolds, LimitHolds, PTL DEF Spec, NoDispatchAfterLimit
=============================================================================
