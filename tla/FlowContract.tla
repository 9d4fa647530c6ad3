---------------------------- MODULE FlowContract ----------------------------
(***************************************************************************)
(* What the supervisor promises about one admitted piece of work, without  *)
(* clocks, leases, attempts or operators: it is run at most once, a        *)
(* cancellation that comes before its end decides the end, and every       *)
(* outcome is published in the same instant it is reached, to be           *)
(* delivered later, and never taken back.                                  *)
(***************************************************************************)
VARIABLES
  phase,      \* "absent", "queued", "running" or the outcome reached
  cancelled,  \* the work was cancelled before it ended
  published,  \* the outcomes handed to the outbox
  delivered   \* the outcomes a consumer has acknowledged

contractVars == <<phase, cancelled, published, delivered>>

\* Outcomes that end the work, and those that only end its one run.
Endings == {"succeeded", "failed", "timed_out", "cancelled"}
Parkings == {"waiting", "blocked", "lost"}

ContractInit ==
  /\ phase = "absent" /\ cancelled = FALSE
  /\ published = {} /\ delivered = {}

Admit ==
  /\ phase = "absent"
  /\ phase' = "queued"
  /\ UNCHANGED <<cancelled, published, delivered>>

Start ==
  /\ phase = "queued"
  /\ phase' = "running"
  /\ UNCHANGED <<cancelled, published, delivered>>

Reach(outcome) ==
  /\ phase' = outcome
  /\ published' = published \cup {outcome}
  /\ UNCHANGED delivered

\* The run ends; once cancelled it can only end as cancelled.
Finish ==
  /\ phase = "running"
  /\ \E outcome \in Endings \cup Parkings :
       /\ cancelled => outcome = "cancelled"
       /\ Reach(outcome)
  /\ UNCHANGED cancelled

\* The work was not started in time.
Expire ==
  /\ phase = "queued"
  /\ Reach("timed_out")
  /\ UNCHANGED cancelled

CancelRun ==
  /\ phase = "running" /\ ~cancelled
  /\ cancelled' = TRUE
  /\ UNCHANGED <<phase, published, delivered>>

CancelIdleWork ==
  /\ phase \in {"queued"} \cup Parkings
  /\ cancelled' = TRUE
  /\ Reach("cancelled")

Deliver ==
  /\ \E outcome \in published \ delivered : delivered' = delivered \cup {outcome}
  /\ UNCHANGED <<phase, cancelled, published>>

ContractNext ==
  \/ Admit \/ Start \/ Finish \/ Expire \/ CancelRun \/ CancelIdleWork \/ Deliver

ContractSpec == ContractInit /\ [][ContractNext]_contractVars
=============================================================================
