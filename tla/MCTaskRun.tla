------------------------------- MODULE MCTaskRun -------------------------------
(***************************************************************************)
(* TLC instance of TaskRun and ComparisonRun: one run of each of the four  *)
(* ways to ask for one, or a comparison of two trials.                     *)
(***************************************************************************)
EXTENDS ComparisonRun

CONSTANTS a1, a2

Assessment(route, capacity, account, expires) ==
  [route |-> route, sure |-> TRUE, capacity |-> capacity, observed |-> 0, expires |-> expires, account |-> account,
   protected |-> TRUE,
   attestation |-> [attested |-> TRUE, agrees |-> TRUE, account |-> account, observed |-> 0, expires |-> expires]]

MCAccounts == {a1, a2}

\* The evidence from before the run is current at the first of these times, ends
\* at the second and is over at the third.
MCInstants == {1, 2, 3}

MCPreflights == {Assessment("included", "available", a1, 2), Assessment("mock", "not_applicable", Nobody, 2)}

MCPostflights ==
  {Missing} \cup {Assessment(route, capacity, account, 4) :
                    route \in {"included", "paid", "api"}, capacity \in {"available", "limit_reached"}, account \in MCAccounts}

MCSignalled == {{}, {"paid_consumed"}, {"paid_available"}, {"account_changed"}, {"included_limit_reached"}}

\* Well-formed claims with at most one reason, and two that are not well formed.
MCClaimed ==
  [formed : {TRUE}, moded : {TRUE}, idle : BOOLEAN, paid : {"yes", "no", "unknown", "not_applicable"},
   charge : {"none", "possible", "confirmed", "unknown"}, quarantine : BOOLEAN, breaker : BOOLEAN,
   reasons : {{}} \cup {{r} : r \in {"outcome_unknown", "paid_consumed", "paid_possible", "exhausted", "unlisted"}}]
  \cup [formed : BOOLEAN, moded : {FALSE}, idle : {FALSE}, paid : {"no"}, charge : {"none"}, quarantine : {FALSE},
        breaker : {FALSE}, reasons : {{}}]

===============================================================================
