---------------------------- MODULE BillingPolicy ----------------------------
(***************************************************************************)
(* What a run is allowed to cost and what it is said to have cost: the     *)
(* allowlist of billing.py (BillingPolicy), and the way orchestrator.py    *)
(* (_resolve_billing_disposition) reconciles the evidence gathered after a *)
(* live run with what the adapter claims.  Pure operators.                 *)
(*                                                                         *)
(* Purchased credit and overage are the route "paid"; API, cloud and       *)
(* unknown billing the route "api"; no billing at all the route "mock".    *)
(***************************************************************************)
EXTENDS Integers

CONSTANTS
  Accounts,     \* verified account fingerprints
  Nobody,       \* an account that could not be verified
  MaxLifetime,  \* MAX_BILLING_ATTESTATION_LIFETIME_SECONDS
  Preflights,   \* bound: the assessments before a run,
  Postflights,  \* after it,
  Instants,     \* the times at which they are judged,
  Signalled,    \* what the events of a run say
  Claimed       \* and what its adapter claims

Unattested == [attested |-> FALSE]

\* A statement of the operator that there is capacity and no paid continuation:
\* authorized and in agreement with the assessment, or not.
Attestations ==
  [attested : {TRUE}, agrees : BOOLEAN, account : Accounts \cup {Nobody}, observed : Nat, expires : Nat]

Capacities == {"available", "limit_reached", "blocked_until_reset", "cooldown", "unknown", "not_applicable"}

Assessments ==
  [route : {"included", "paid", "api", "mock"}, sure : BOOLEAN, capacity : Capacities, observed : Nat,
   expires : Nat, account : Accounts \cup {Nobody}, protected : BOOLEAN,
   attestation : Attestations \cup {Unattested}]

\* No assessment could be made after the run.
Missing == [route |-> "missing"]

-----------------------------------------------------------------------------
\* The allowlist.

\* (defect) Evidence may end at the very time until which it is needed.
BrokenCurrent(w, now, until) == w.observed <= now /\ now < w.expires /\ until <= w.expires

\* _current_window
Current(w, now, until) == w.observed <= now /\ now < w.expires /\ until < w.expires

\* subscription_blockers.  Without an attestation nothing after it is looked at.
Blockers(a, now, until) ==
  {b \in {"invalid_required_valid_until", "route", "confidence", "capacity", "capacity_evidence", "account",
          "attestation_missing", "attestation_mismatch", "attestation_not_current", "attestation_lifetime",
          "attested_account", "paid_continuation"} :
     IF until < now THEN b = "invalid_required_valid_until"
     ELSE CASE b = "invalid_required_valid_until" -> FALSE
            [] b = "route" -> a.route # "included"
            [] b = "confidence" -> ~a.sure
            [] b = "capacity" -> a.capacity # "available"
            [] b = "capacity_evidence" -> ~Current(a, now, until)
            [] b = "account" -> a.account = Nobody
            [] b = "attestation_missing" -> ~a.attestation.attested
            [] OTHER ->
                 /\ a.attestation.attested
                 /\ CASE b = "attestation_mismatch" -> ~a.attestation.agrees
                      [] b = "attestation_not_current" -> ~Current(a.attestation, now, until)
                      [] b = "attestation_lifetime" ->
                           /\ Current(a.attestation, now, until)
                           /\ a.attestation.expires - a.attestation.observed > MaxLifetime
                      [] b = "attested_account" -> a.attestation.account \notin {a.account} \ {Nobody}
                      [] b = "paid_continuation" -> ~a.protected}

\* route_is_allowed
RouteAllowed(a, now, until) ==
  a.sure /\ (a.route = "mock" \/ (a.route = "included" /\ Blockers(a, now, until) = {}))

-----------------------------------------------------------------------------
\* After the run.

Signals == {"paid_consumed", "paid_available", "account_changed", "included_limit_reached"}

Disposition(capacity, paid, charge, quarantine, breaker, reasons) ==
  [capacity |-> capacity, paid |-> paid, charge |-> charge, quarantine |-> quarantine, breaker |-> breaker,
   reasons |-> reasons]

\* _unknown_post_run and _unknown_billing_disposition
Unknown(reason, breaker) == Disposition("unknown", "unknown", "unknown", TRUE, breaker, {reason})

Inconsistent(breaker) == Unknown("inconsistent", breaker)

\* _same_billing_identity
SameIdentity(pre, post) ==
  post.route = pre.route /\ post.protected = pre.protected /\ post.account = pre.account /\ pre.account # Nobody

\* The included capacity ran out, and nothing else happened.
LimitVerified(pre, post, now) ==
  /\ RouteAllowed(pre, now, now) /\ RouteAllowed([post EXCEPT !.capacity = "available"], now, now)
  /\ SameIdentity(pre, post)

\* assess_post_run
Computed(pre, post, signals, now) ==
  LET present == post # Missing
      limit == "included_limit_reached" \in signals
               \/ (present /\ post.capacity \in {"limit_reached", "blocked_until_reset"})
  IN  IF "paid_consumed" \in signals
      THEN Disposition("unknown", "yes", "confirmed", TRUE, TRUE, {"paid_consumed"})
      ELSE IF (present /\ post.route = "paid") \/ "paid_available" \in signals
      THEN Disposition(IF present THEN post.capacity ELSE "unknown", "unknown", "possible", TRUE, TRUE,
                       {"paid_possible"})
      ELSE IF "account_changed" \in signals THEN Unknown("account_changed", TRUE)
      ELSE IF limit /\ present /\ LimitVerified(pre, post, now)
      THEN Disposition("blocked_until_reset", "no", "none", TRUE, FALSE, {"exhausted"})
      ELSE IF ~present \/ ~RouteAllowed(post, now, now) THEN Unknown("evidence_unknown", TRUE)
      ELSE IF ~SameIdentity(pre, post) THEN Unknown("identity_changed", TRUE)
      ELSE Disposition(post.capacity, "no", "none", FALSE, FALSE, {})

UnknownReasons ==
  {"outcome_unknown", "account_changed", "inconsistent", "evidence_unknown", "identity_changed"}

Reasons == UnknownReasons \cup {"paid_consumed", "paid_possible", "exhausted"}

\* What an adapter claims with its result.  One that is not well formed, or whose
\* execution mode makes no sense, claims nothing; "unlisted" is any other code.
Claims ==
  [formed : BOOLEAN, moded : BOOLEAN, idle : BOOLEAN, paid : {"yes", "no", "unknown", "not_applicable"},
   charge : {"none", "possible", "confirmed", "unknown"}, quarantine : BOOLEAN, breaker : BOOLEAN,
   reasons : SUBSET (Reasons \cup {"unlisted"})]

ASSUME BillingPolicyAssumption ==
  /\ Nobody \notin Accounts /\ Instants \subseteq Nat /\ MaxLifetime \in Nat
  /\ Preflights \subseteq Assessments /\ Postflights \subseteq Assessments \cup {Missing}
  /\ Signalled \subseteq SUBSET Signals /\ Claimed \subseteq Claims

\* _non_ai_result_is_consistent
NonAIConsistent(claim, post) ==
  /\ claim.moded /\ claim.idle /\ claim.paid = "not_applicable" /\ claim.charge = "none"
  /\ ~claim.quarantine /\ ~claim.breaker /\ claim.reasons = {} /\ post = Missing

\* _more_conservative_paid_capacity and _more_conservative_ai_charge
WorsePaid(x, y) ==
  CASE "yes" \in {x, y} -> "yes"
    [] "yes" \notin {x, y} /\ {x, y} \cap {"unknown", "not_applicable"} # {} -> "unknown"
    [] OTHER -> "no"

WorseCharge(x, y) ==
  CASE "confirmed" \in {x, y} -> "confirmed"
    [] "confirmed" \notin {x, y} /\ "possible" \in {x, y} -> "possible"
    [] {"confirmed", "possible"} \cap {x, y} = {} /\ "unknown" \in {x, y} -> "unknown"
    [] OTHER -> "none"

\* A result that says that no process and no model ever ran.
NothingRan(claim) ==
  /\ claim.idle /\ ~claim.quarantine /\ ~claim.breaker /\ claim.reasons = {}
  /\ claim.paid = "no" /\ claim.charge = "none"

\* (defect) The adapter's own accounting is left out of the total.
BrokenCombined(computed, claim) == computed

\* The more conservative of the two, item by item.
Combined(computed, claim) ==
  LET paid == WorsePaid(computed.paid, claim.paid)
      charge == WorseCharge(computed.charge, claim.charge)
      unsafe == charge # "none" \/ paid # "no"
      quarantine == computed.quarantine \/ claim.quarantine \/ unsafe
      reasons == computed.reasons \cup claim.reasons
      unexplained == (claim.quarantine /\ ~computed.quarantine /\ claim.reasons = {}) \/ (quarantine /\ reasons = {})
  IN  IF unexplained THEN Inconsistent(TRUE)
      ELSE Disposition(computed.capacity, paid, charge, quarantine, computed.breaker \/ claim.breaker \/ unsafe,
                       reasons)

\* _resolve_billing_disposition.  "matches": the result is this run's own and
\* repeats the assessment that the run started from.  Of several claimed reasons
\* an unknown outcome keeps the first, which is any of them here.
Resolve(pre, post, signals, claim, matches, now) ==
  IF ~claim.formed THEN Inconsistent(pre.route = "included")
  ELSE IF ~matches THEN Unknown("identity_changed", pre.route = "included")
  ELSE IF pre.route = "mock"
  THEN IF NonAIConsistent(claim, post)
       THEN Disposition("not_applicable", "not_applicable", "none", FALSE, FALSE, {}) ELSE Inconsistent(TRUE)
  ELSE IF (pre.route = "included" /\ ~claim.moded) \/ "unlisted" \in claim.reasons
          \/ (claim.breaker /\ ~claim.quarantine)
  THEN Inconsistent(TRUE)
  ELSE IF claim.reasons \cap UnknownReasons # {}
  THEN Unknown(CHOOSE r \in claim.reasons : TRUE, TRUE)
  ELSE IF "paid_consumed" \in claim.reasons
  THEN Disposition("unknown", "yes", "confirmed", TRUE, TRUE, {"paid_consumed"})
  ELSE IF "paid_possible" \in claim.reasons
  THEN Disposition("unknown", "unknown", "possible", TRUE, TRUE, {"paid_possible"})
  ELSE IF NothingRan(claim) THEN Disposition(pre.capacity, "no", "none", FALSE, FALSE, {})
  ELSE IF "exhausted" \in claim.reasons /\ "exhausted" \notin Computed(pre, post, signals, now).reasons
  THEN Inconsistent(TRUE)
  ELSE Combined(Computed(pre, post, signals, now), claim)

\* The states of a capacity row that keep the account from being used again.
Blocking == {"limit_reached", "blocked_until_reset", "cooldown", "unknown"}

-----------------------------------------------------------------------------
\* The outcome of a run whose result is its own, and of one whose result is not.
Outcome(pre, post, signals, claim, now) == Resolve(pre, post, signals, claim, TRUE, now)

Mistaken(pre, post, signals, claim, now) == Resolve(pre, post, signals, claim, FALSE, now)

\* No evidence and no claim that something was or may be paid, that the account
\* is another, or that its capacity is used up; or nothing ever ran.
Harmless(post, signals, claim) ==
  \/ NothingRan(claim)
  \/ /\ signals = {} /\ post # Missing /\ post.route = "included" /\ post.capacity = "available"
     /\ ~claim.quarantine /\ ~claim.breaker /\ claim.reasons = {} /\ claim.paid = "no" /\ claim.charge = "none"

\* A limit that an event reports is forgotten when the evidence from before the
\* run has expired since, and the evidence after it says that there is capacity.
Forgotten(pre, post, signals, claim, now) ==
  /\ signals = {"included_limit_reached"} /\ ~RouteAllowed(pre, now, now)
  /\ Harmless(post, {}, claim)

\* A route that is allowed now until some later time is allowed at every time in
\* between (required_valid_until): evidence cannot run out under the run.
EvidenceLasts ==
  \A a \in Preflights : \A now \in Instants, until \in Instants, moment \in Instants :
    RouteAllowed(a, now, until) /\ now <= moment /\ moment <= until => RouteAllowed(a, moment, moment)

\* A live outcome that withholds nothing was earned: no event, no assessment and
\* no claim of the adapter says otherwise, or nothing ran.
TrustIsEarned ==
  \A pre \in Preflights, post \in Postflights, signals \in Signalled, claim \in Claimed, now \in Instants :
    LET d == Outcome(pre, post, signals, claim, now)
    IN  pre.route = "included" /\ ~d.quarantine =>
          /\ ~d.breaker /\ d.charge = "none" /\ d.paid = "no"
          /\ Harmless(post, signals, claim) \/ Forgotten(pre, post, signals, claim, now)

\* One that does withhold something leaves rows that stop the next dispatch: a
\* breaker, unless no more than the included capacity, verified, has run out.
DistrustStops ==
  \A pre \in Preflights, post \in Postflights, signals \in Signalled, claim \in Claimed, now \in Instants :
    LET d == Outcome(pre, post, signals, claim, now)
    IN  pre.route = "included" =>
          /\ Mistaken(pre, post, signals, claim, now).breaker
          /\ d.quarantine /\ ~d.breaker =>
               /\ d.capacity \in Blocking /\ d.charge = "none"
               /\ post.route = "included" /\ post.account = pre.account /\ RouteAllowed(pre, now, now)

\* A claimed or signalled payment is never talked away, by either side.
PaymentIsKept ==
  \A pre \in Preflights, post \in Postflights, signals \in Signalled, claim \in Claimed, now \in Instants :
    LET d == Outcome(pre, post, signals, claim, now)
    IN  /\ pre.route = "included"
        /\ \/ claim.paid \in {"yes", "unknown"} \/ claim.charge # "none"
           \/ "paid_consumed" \in signals /\ ~NothingRan(claim)
        => d.quarantine /\ d.breaker

\* Evidence outlasts what it permits, and of two accounts of what a run cost the
\* worse is kept and stops what would come after (_resolve_billing_disposition).
BillingErrsSafely == EvidenceLasts /\ TrustIsEarned /\ DistrustStops /\ PaymentIsKept

=============================================================================
