------------------------------- MODULE RunProofs -------------------------------
(***************************************************************************)
(* Proofs about task runs and comparisons.                                 *)
(*                                                                         *)
(* First, of BillingPolicy: the billing decisions are conservative for all *)
(* accounts, assessments, signals, claims and times.                       *)
(*                                                                         *)
(* Then, of TaskRun and ComparisonRun: no runner is invoked without its    *)
(* evidence, and whatever fails, the ledger, the books, the artifacts and  *)
(* the reports agree or visibly do not, for any number of faults,          *)
(* observations and trials.  The argument goes from place to place of the  *)
(* controller; what a row proves once, it proves for good, since rows are  *)
(* only added.                                                             *)
(***************************************************************************)
EXTENDS ComparisonRun, FiniteSetTheorems, TLAPS

-----------------------------------------------------------------------------
(* The billing decisions. *)

\* What an included route that is allowed has been shown to have.
LEMMA AllowedHas ==
  ASSUME NEW a, NEW now \in Nat, NEW until \in Nat, a.route = "included", RouteAllowed(a, now, until)
  PROVE  /\ a.sure /\ a.capacity = "available" /\ ~(until < now)
         /\ Current(a, now, until) /\ Current(a.attestation, now, until)
  <1>1. a.sure /\ Blockers(a, now, until) = {}
    BY DEF RouteAllowed
  <1>2. ~(until < now)
    BY <1>1 DEF Blockers
  <1>3. a.capacity = "available" /\ Current(a, now, until)
    BY <1>1, <1>2 DEF Blockers
  <1>4. Current(a.attestation, now, until)
    BY <1>1, <1>2 DEF Blockers
  <1>. QED
    BY <1>1, <1>2, <1>3, <1>4

\* A route that is allowed until some time is allowed on its own then.
LEMMA AllowedLasts ==
  ASSUME NEW a \in Assessments, NEW now \in Nat, NEW until \in Nat, NEW moment \in Nat,
         now <= moment, moment <= until, RouteAllowed(a, now, until)
  PROVE  RouteAllowed(a, moment, moment)
  <1>1. CASE a.route = "mock"
    BY <1>1 DEF RouteAllowed
  <1>2. CASE a.route # "mock"
    <2>1. a.route = "included" /\ a.sure /\ Blockers(a, now, until) = {}
      BY <1>2 DEF RouteAllowed
    <2>2. ~(until < now) /\ Current(a, now, until)
      BY <2>1, AllowedHas
    <2>3. ~(moment < moment) /\ Current(a, moment, moment)
      BY <2>2 DEF Current, Assessments
    <2>4. a.attestation.attested
      BY <2>1, <2>2 DEF Blockers
    <2>5. a.attestation \in Attestations
      BY <2>4 DEF Assessments, Unattested
    <2>6. Current(a.attestation, now, until)
      BY <2>1, AllowedHas
    <2>7. Current(a.attestation, moment, moment)
      <3>1. a.attestation.observed \in Nat /\ a.attestation.expires \in Nat
        BY <2>5 DEF Attestations
      <3>. QED
        BY <2>6, <3>1 DEF Current
    <2>8. Blockers(a, moment, moment) = {}
      BY <2>1, <2>2, <2>3, <2>6, <2>7 DEF Blockers
    <2>. QED
      BY <2>1, <2>8 DEF RouteAllowed
  <1>. QED
    BY <1>1, <1>2

-----------------------------------------------------------------------------
\* Outcomes: a breaker is required; no more than the included capacity has run
\* out; nothing is withheld.
Barred(d) == d.quarantine /\ d.breaker

Limited(d) ==
  d.quarantine /\ ~d.breaker /\ d.paid = "no" /\ d.charge = "none" /\ d.capacity = "blocked_until_reset"

Free(d) == ~d.quarantine /\ ~d.breaker /\ d.paid = "no" /\ d.charge = "none" /\ d.reasons = {}

\* Claims: one that is not judged by itself; one that claims no payment; one that
\* asks for nothing.
Modest(claim) ==
  /\ ~NothingRan(claim) /\ claim.reasons \subseteq {"exhausted"} /\ (claim.breaker => claim.quarantine)

Unpaid(claim) == claim.paid = "no" /\ claim.charge = "none"

Quiet(claim) == ~claim.quarantine /\ ~claim.breaker /\ claim.reasons = {}

\* After the run there is a verified limit, or evidence of nothing.
Verified(pre, post, signals, now) ==
  "paid_consumed" \notin signals /\ post # Missing /\ LimitVerified(pre, post, now)

Uneventful(pre, post, signals, now) ==
  /\ signals \subseteq {"included_limit_reached"}
  /\ post # Missing /\ RouteAllowed(post, now, now) /\ SameIdentity(pre, post)
  /\ "included_limit_reached" \in signals => ~LimitVerified(pre, post, now)

LEMMA UnknownBars == \A reason : Barred(Unknown(reason, TRUE)) /\ Unknown(reason, TRUE).reasons # {}
  BY DEF Barred, Unknown, Disposition

\* assess_post_run on an included route has three ends.
LEMMA ComputedEnds ==
  ASSUME NEW pre, NEW post, NEW signals \in SUBSET Signals, NEW now, pre.route = "included",
         NEW c, c = Computed(pre, post, signals, now)
  PROVE  \/ Barred(c) /\ c.reasons # {}
         \/ Limited(c) /\ Verified(pre, post, signals, now)
         \/ Free(c) /\ Uneventful(pre, post, signals, now)
  <1>. DEFINE present == post # Missing
              limit == "included_limit_reached" \in signals
                       \/ (present /\ post.capacity \in {"limit_reached", "blocked_until_reset"})
              paid == (present /\ post.route = "paid") \/ "paid_available" \in signals
  <1>1. CASE "paid_consumed" \in signals
    <2>1. c = Disposition("unknown", "yes", "confirmed", TRUE, TRUE, {"paid_consumed"})
      BY <1>1 DEF Computed
    <2>. QED
      BY <2>1 DEF Disposition, Barred
  <1>2. CASE "paid_consumed" \notin signals /\ paid
    <2>1. c = Disposition(IF present THEN post.capacity ELSE "unknown", "unknown", "possible", TRUE, TRUE,
                          {"paid_possible"})
      BY <1>2 DEF Computed
    <2>. QED
      BY <2>1 DEF Disposition, Barred
  <1>3. CASE "paid_consumed" \notin signals /\ ~paid /\ "account_changed" \in signals
    <2>1. c = Unknown("account_changed", TRUE)
      BY <1>3 DEF Computed
    <2>. QED
      BY <2>1, UnknownBars
  <1>4. CASE /\ "paid_consumed" \notin signals /\ ~paid /\ "account_changed" \notin signals
             /\ limit /\ present /\ LimitVerified(pre, post, now)
    <2>1. c = Disposition("blocked_until_reset", "no", "none", TRUE, FALSE, {"exhausted"})
      BY <1>4 DEF Computed
    <2>. QED
      BY <2>1, <1>4 DEF Disposition, Limited, Verified
  <1>5. CASE /\ "paid_consumed" \notin signals /\ ~paid /\ "account_changed" \notin signals
             /\ ~(limit /\ present /\ LimitVerified(pre, post, now))
    <2>1. CASE ~present \/ ~RouteAllowed(post, now, now)
      <3>1. c = Unknown("evidence_unknown", TRUE)
        BY <1>5, <2>1 DEF Computed
      <3>. QED
        BY <3>1, UnknownBars
    <2>2. CASE present /\ RouteAllowed(post, now, now) /\ ~SameIdentity(pre, post)
      <3>1. c = Unknown("identity_changed", TRUE)
        BY <1>5, <2>2 DEF Computed
      <3>. QED
        BY <3>1, UnknownBars
    <2>3. CASE present /\ RouteAllowed(post, now, now) /\ SameIdentity(pre, post)
      <3>1. c = Disposition(post.capacity, "no", "none", FALSE, FALSE, {})
        BY <1>5, <2>3 DEF Computed
      <3>2. signals \subseteq {"included_limit_reached"}
        BY <1>5 DEF Signals
      <3>3. Uneventful(pre, post, signals, now)
        BY <1>5, <2>3, <3>2 DEF Uneventful
      <3>. QED
        BY <3>1, <3>3 DEF Disposition, Free
    <2>. QED
      BY <2>1, <2>2, <2>3
  <1>. QED
    BY <1>1, <1>2, <1>3, <1>4, <1>5

\* A breaker that the evidence requires is kept.
LEMMA BreakerStays ==
  ASSUME NEW c, Barred(c), c.reasons # {}, NEW claim
  PROVE  Barred(Combined(c, claim))
  <1>1. Combined(c, claim).quarantine
    BY DEF Combined, Disposition, Inconsistent, Unknown, Barred
  <1>2. Combined(c, claim).breaker
    BY DEF Combined, Disposition, Inconsistent, Unknown, Barred
  <1>. QED
    BY <1>1, <1>2 DEF Barred

\* The more conservative of two accounts: both must deny a payment.
LEMMA WorseThanNone ==
  ASSUME NEW claim \in Claims
  PROVE  /\ WorsePaid("no", claim.paid) = "no" => claim.paid = "no"
         /\ WorseCharge("none", claim.charge) = "none" => claim.charge = "none"
  <1>1. /\ claim.paid \in {"yes", "no", "unknown", "not_applicable"}
        /\ claim.charge \in {"none", "possible", "confirmed", "unknown"}
    BY DEF Claims
  <1>2. WorsePaid("no", claim.paid) = "no" => claim.paid = "no"
    BY <1>1 DEF WorsePaid
  <1>3. WorseCharge("none", claim.charge) = "none" => claim.charge = "none"
    BY <1>1 DEF WorseCharge
  <1>. QED
    BY <1>2, <1>3

\* A verified limit stays one, or a breaker joins it.
LEMMA LimitStays ==
  ASSUME NEW c, Limited(c), NEW claim \in Claims, NEW d, d = Combined(c, claim)
  PROVE  Barred(d) \/ (Limited(d) /\ Unpaid(claim))
  <1>. DEFINE paid == WorsePaid(c.paid, claim.paid)
              charge == WorseCharge(c.charge, claim.charge)
              unsafe == charge # "none" \/ paid # "no"
              full == Disposition(c.capacity, paid, charge, c.quarantine \/ claim.quarantine \/ unsafe,
                                  c.breaker \/ claim.breaker \/ unsafe, c.reasons \cup claim.reasons)
  <1>1. d = Inconsistent(TRUE) \/ d = full
    BY DEF Combined
  <1>2. CASE d = Inconsistent(TRUE)
    BY <1>2, UnknownBars DEF Inconsistent
  <1>3. CASE d = full
    <2>1. d.paid = paid /\ d.charge = charge /\ d.capacity = c.capacity
      BY <1>3 DEF Disposition
    <2>2. c.quarantine /\ ~c.breaker /\ c.capacity = "blocked_until_reset" /\ c.paid = "no" /\ c.charge = "none"
      BY DEF Limited
    <2>3. CASE claim.breaker \/ unsafe
      <3>1. d = Disposition(c.capacity, paid, charge, TRUE, TRUE, c.reasons \cup claim.reasons)
        <4>1. (c.quarantine \/ claim.quarantine \/ unsafe) = TRUE /\ (c.breaker \/ claim.breaker \/ unsafe) = TRUE
          BY <2>2, <2>3, Zenon
        <4>. QED
          BY <1>3, <4>1, Zenon
      <3>. QED
        BY <3>1 DEF Barred, Disposition
    <2>4. CASE ~claim.breaker /\ ~unsafe
      <3>1. paid = "no" /\ charge = "none"
        BY <2>4
      <3>2. Unpaid(claim)
        BY <3>1, <2>2, WorseThanNone DEF Unpaid
      <3>3. d.quarantine /\ ~d.breaker
        <4>1. (c.quarantine \/ claim.quarantine \/ unsafe) = TRUE /\ (c.breaker \/ claim.breaker \/ unsafe) = FALSE
          BY <2>2, <2>4, Zenon
        <4>2. d = Disposition(c.capacity, paid, charge, TRUE, FALSE, c.reasons \cup claim.reasons)
          BY <1>3, <4>1, Zenon
        <4>. QED
          BY <4>2 DEF Disposition
      <3>. QED
        BY <2>1, <2>2, <3>1, <3>2, <3>3 DEF Limited
    <2>. QED
      BY <2>3, <2>4
  <1>. QED
    BY <1>1, <1>2, <1>3

\* Where the evidence withholds nothing, only a claim that asks for nothing leaves
\* it at that.
LEMMA FreedomStays ==
  ASSUME NEW c, Free(c), NEW claim \in Claims, Modest(claim), claim.reasons \subseteq c.reasons,
         NEW d, d = Combined(c, claim)
  PROVE  Barred(d) \/ (Free(d) /\ Unpaid(claim) /\ Quiet(claim))
  <1>. DEFINE paid == WorsePaid(c.paid, claim.paid)
              charge == WorseCharge(c.charge, claim.charge)
              unsafe == charge # "none" \/ paid # "no"
              full == Disposition(c.capacity, paid, charge, c.quarantine \/ claim.quarantine \/ unsafe,
                                  c.breaker \/ claim.breaker \/ unsafe, c.reasons \cup claim.reasons)
  <1>1. ~c.quarantine /\ ~c.breaker /\ c.paid = "no" /\ c.charge = "none" /\ c.reasons = {}
    BY DEF Free
  <1>2. claim.reasons = {} /\ (claim.breaker => claim.quarantine)
    BY <1>1 DEF Modest
  <1>3. CASE claim.quarantine \/ unsafe
    <2>1. d = Inconsistent(TRUE)
      BY <1>1, <1>2, <1>3 DEF Combined
    <2>. QED
      BY <2>1, UnknownBars DEF Inconsistent
  <1>4. CASE ~claim.quarantine /\ ~unsafe
    <2>1. d = full
      BY <1>1, <1>2, <1>4 DEF Combined
    <2>2. d.paid = paid /\ d.charge = charge /\ d.reasons = c.reasons \cup claim.reasons
      BY <2>1 DEF Disposition
    <2>7. ~d.quarantine /\ ~d.breaker
      <3>1. (c.quarantine \/ claim.quarantine \/ unsafe) = FALSE /\ (c.breaker \/ claim.breaker \/ unsafe) = FALSE
        BY <1>1, <1>2, <1>4, Zenon
      <3>2. d = Disposition(c.capacity, paid, charge, FALSE, FALSE, c.reasons \cup claim.reasons)
        BY <2>1, <3>1, Zenon
      <3>. QED
        BY <3>2 DEF Disposition
    <2>3. paid = "no" /\ charge = "none"
      BY <1>4
    <2>4. Unpaid(claim)
      BY <2>3, <1>1, WorseThanNone DEF Unpaid
    <2>5. Quiet(claim)
      BY <1>2, <1>4 DEF Quiet
    <2>6. Free(d)
      BY <1>1, <1>2, <2>2, <2>3, <2>7 DEF Free
    <2>. QED
      BY <2>4, <2>5, <2>6
  <1>. QED
    BY <1>3, <1>4

\* A result that is not this run's own is a breaker.
LEMMA MismatchBars ==
  ASSUME NEW pre, pre.route = "included", NEW post, NEW signals, NEW claim, NEW now,
         NEW d, d = Mistaken(pre, post, signals, claim, now)
  PROVE  Barred(d)
  <1>1. d = Unknown("inconsistent", TRUE) \/ d = Unknown("identity_changed", TRUE)
    BY DEF Mistaken, Resolve, Inconsistent
  <1>. QED
    BY <1>1, UnknownBars

\* What is decided before the evidence is looked at, and what is left to it.
LEMMA ResolveEnds ==
  ASSUME NEW pre, pre.route = "included", NEW post, NEW signals, NEW claim \in Claims, NEW now,
         NEW c, c = Computed(pre, post, signals, now),
         NEW d, d = Outcome(pre, post, signals, claim, now)
  PROVE  \/ Barred(d)
         \/ Free(d) /\ NothingRan(claim)
         \/ /\ Modest(claim) /\ d = Combined(c, claim)
            /\ "exhausted" \in claim.reasons => "exhausted" \in c.reasons
  <1>. DEFINE senseless == ~claim.moded \/ "unlisted" \in claim.reasons \/ (claim.breaker /\ ~claim.quarantine)
  <1>1. CASE ~claim.formed
    <2>1. d = Unknown("inconsistent", TRUE)
      BY <1>1 DEF Outcome, Resolve, Inconsistent
    <2>. QED
      BY <2>1, UnknownBars
  <1>2. CASE claim.formed /\ senseless
    <2>1. d = Unknown("inconsistent", TRUE)
      BY <1>2 DEF Outcome, Resolve, Inconsistent
    <2>. QED
      BY <2>1, UnknownBars
  <1>3. CASE claim.formed /\ ~senseless /\ claim.reasons \cap UnknownReasons # {}
    <2>1. \E reason : d = Unknown(reason, TRUE)
      BY <1>3 DEF Outcome, Resolve
    <2>. QED
      BY <2>1, UnknownBars
  <1>4. CASE /\ claim.formed /\ ~senseless /\ claim.reasons \cap UnknownReasons = {}
             /\ claim.reasons \cap {"paid_consumed", "paid_possible"} # {}
    <2>1. \/ d = Disposition("unknown", "yes", "confirmed", TRUE, TRUE, {"paid_consumed"})
          \/ d = Disposition("unknown", "unknown", "possible", TRUE, TRUE, {"paid_possible"})
      BY <1>4 DEF Outcome, Resolve
    <2>2. Barred(d)
      BY <2>1 DEF Disposition, Barred
    <2>. QED
      BY <2>2
  <1>5. CASE /\ claim.formed /\ ~senseless /\ claim.reasons \cap UnknownReasons = {}
             /\ claim.reasons \cap {"paid_consumed", "paid_possible"} = {}
    <2>1. claim.reasons \subseteq {"exhausted"} /\ (claim.breaker => claim.quarantine)
      BY <1>5 DEF Claims, Reasons
    <2>2. CASE NothingRan(claim)
      <3>1. d = Disposition(pre.capacity, "no", "none", FALSE, FALSE, {})
        BY <1>5, <2>2 DEF Outcome, Resolve
      <3>2. Free(d)
        BY <3>1 DEF Disposition, Free
      <3>. QED
        BY <2>2, <3>2
    <2>3. CASE ~NothingRan(claim) /\ "exhausted" \in claim.reasons /\ "exhausted" \notin c.reasons
      <3>1. d = Unknown("inconsistent", TRUE)
        BY <1>5, <2>3 DEF Outcome, Resolve, Inconsistent
      <3>. QED
        BY <3>1, UnknownBars
    <2>4. CASE ~NothingRan(claim) /\ ("exhausted" \in claim.reasons => "exhausted" \in c.reasons)
      <3>1. d = Combined(c, claim)
        BY <1>5, <2>4 DEF Outcome, Resolve
      <3>. QED
        BY <2>1, <2>4, <3>1 DEF Modest
    <2>. QED
      BY <2>2, <2>3, <2>4
  <1>. QED
    BY <1>1, <1>2, <1>3, <1>4, <1>5

\* The ends of a live run whose result is its own.
LEMMA OutcomeEnds ==
  ASSUME NEW pre, pre.route = "included", NEW post, NEW signals \in SUBSET Signals, NEW claim \in Claims,
         NEW now, NEW d, d = Outcome(pre, post, signals, claim, now)
  PROVE  \/ Barred(d)
         \/ Free(d) /\ NothingRan(claim)
         \/ Limited(d) /\ Unpaid(claim) /\ Verified(pre, post, signals, now)
         \/ Free(d) /\ Unpaid(claim) /\ Quiet(claim) /\ Uneventful(pre, post, signals, now)
  <1>1. PICK c : c = Computed(pre, post, signals, now)
    OBVIOUS
  <1>2. SUFFICES ASSUME Modest(claim), d = Combined(c, claim),
                        "exhausted" \in claim.reasons => "exhausted" \in c.reasons
                 PROVE  \/ Barred(d)
                        \/ Limited(d) /\ Unpaid(claim) /\ Verified(pre, post, signals, now)
                        \/ Free(d) /\ Unpaid(claim) /\ Quiet(claim) /\ Uneventful(pre, post, signals, now)
    BY <1>1, ResolveEnds
  <1>3. claim.reasons \subseteq c.reasons
    BY <1>2 DEF Modest
  <1>4. CASE Barred(c) /\ c.reasons # {}
    BY <1>2, <1>4, BreakerStays
  <1>5. CASE Limited(c) /\ Verified(pre, post, signals, now)
    BY <1>2, <1>5, LimitStays
  <1>6. CASE Free(c) /\ Uneventful(pre, post, signals, now)
    BY <1>2, <1>3, <1>6, FreedomStays
  <1>. QED
    BY <1>1, <1>4, <1>5, <1>6, ComputedEnds

-----------------------------------------------------------------------------
\* The inputs that a run enumerates are of their kinds.
LEMMA InputKinds ==
  /\ \A a \in Preflights : a \in Assessments
  /\ \A post \in Postflights : post # Missing => post \in Assessments
  /\ \A signals \in Signalled : signals \in SUBSET Signals
  /\ \A claim \in Claimed : claim \in Claims
  /\ \A now \in Instants : now \in Nat
  BY BillingPolicyAssumption

\* Evidence that is good until required_valid_until is good at every time until
\* then (subscription_blockers).
THEOREM EvidenceOutlasts == EvidenceLasts
  <1>1. ASSUME NEW a \in Preflights, NEW now \in Instants, NEW until \in Instants, NEW moment \in Instants,
               RouteAllowed(a, now, until), now <= moment, moment <= until
        PROVE  RouteAllowed(a, moment, moment)
    <2>1. a \in Assessments /\ now \in Nat /\ until \in Nat /\ moment \in Nat
      BY InputKinds
    <2>. QED
      BY <1>1, <2>1, AllowedLasts
  <1>. QED
    BY <1>1 DEF EvidenceLasts

\* After an uneventful run nothing is known against the account, or the limit that
\* an event reports can no longer be verified.
LEMMA UneventfulIsHarmless ==
  ASSUME NEW pre, pre.route = "included", NEW post, post # Missing => post \in Assessments,
         NEW signals \in SUBSET Signals, NEW claim \in Claims, NEW now \in Nat,
         Unpaid(claim), Quiet(claim), Uneventful(pre, post, signals, now)
  PROVE  Harmless(post, signals, claim) \/ Forgotten(pre, post, signals, claim, now)
  <1>1. post \in Assessments /\ RouteAllowed(post, now, now) /\ SameIdentity(pre, post)
    BY DEF Uneventful
  <1>2. post.route = "included"
    BY <1>1 DEF SameIdentity
  <1>3. post.capacity = "available"
    BY <1>1, <1>2, AllowedHas
  <1>4. Harmless(post, {}, claim)
    BY <1>2, <1>3 DEF Harmless, Unpaid, Quiet, Uneventful
  <1>5. CASE signals = {}
    BY <1>4, <1>5
  <1>6. CASE signals # {}
    <2>1. signals = {"included_limit_reached"} /\ ~LimitVerified(pre, post, now)
      BY <1>6 DEF Uneventful
    <2>2. [post EXCEPT !.capacity = "available"] = post
      BY <1>1, <1>3 DEF Assessments
    <2>3. ~RouteAllowed(pre, now, now)
      BY <1>1, <2>1, <2>2 DEF LimitVerified
    <2>. QED
      BY <1>4, <2>1, <2>3 DEF Forgotten
  <1>. QED
    BY <1>5, <1>6

\* An outcome that withholds nothing was earned (_resolve_billing_disposition).
THEOREM TrustEarned == TrustIsEarned
  <1>1. ASSUME NEW pre \in Preflights, NEW post \in Postflights, NEW signals \in Signalled,
               NEW claim \in Claimed, NEW now \in Instants,
               NEW d, d = Outcome(pre, post, signals, claim, now), pre.route = "included", ~d.quarantine
        PROVE  /\ ~d.breaker /\ d.charge = "none" /\ d.paid = "no"
               /\ Harmless(post, signals, claim) \/ Forgotten(pre, post, signals, claim, now)
    <2>1. /\ post # Missing => post \in Assessments
          /\ signals \in SUBSET Signals /\ claim \in Claims /\ now \in Nat
      BY InputKinds
    <2>2. ~Barred(d) /\ ~Limited(d)
      BY <1>1 DEF Barred, Limited
    <2>3. Free(d) /\ (NothingRan(claim) \/ (Unpaid(claim) /\ Quiet(claim) /\ Uneventful(pre, post, signals, now)))
      BY <1>1, <2>1, <2>2, OutcomeEnds
    <2>4. Harmless(post, signals, claim) \/ Forgotten(pre, post, signals, claim, now)
      <3>1. CASE NothingRan(claim)
        BY <3>1 DEF Harmless
      <3>2. CASE Unpaid(claim) /\ Quiet(claim) /\ Uneventful(pre, post, signals, now)
        BY <1>1, <2>1, <3>2, UneventfulIsHarmless
      <3>. QED
        BY <2>3, <3>1, <3>2
    <2>. QED
      BY <2>3, <2>4 DEF Free
  <1>. QED
    BY <1>1 DEF TrustIsEarned

\* One that withholds something without a breaker is a verified limit of the
\* account that the run started from.
THEOREM DistrustHolds == DistrustStops
  <1>1. ASSUME NEW pre \in Preflights, NEW post \in Postflights, NEW signals \in Signalled,
               NEW claim \in Claimed, NEW now \in Instants,
               NEW d, d = Outcome(pre, post, signals, claim, now),
               pre.route = "included", d.quarantine, ~d.breaker
        PROVE  /\ d.capacity \in Blocking /\ d.charge = "none"
               /\ post.route = "included" /\ post.account = pre.account /\ RouteAllowed(pre, now, now)
    <2>1. signals \in SUBSET Signals /\ claim \in Claims
      BY InputKinds
    <2>2. ~Barred(d) /\ ~Free(d)
      BY <1>1 DEF Barred, Free
    <2>3. Limited(d) /\ Verified(pre, post, signals, now)
      BY <1>1, <2>1, <2>2, OutcomeEnds
    <2>4. d.capacity \in Blocking /\ d.charge = "none"
      BY <2>3 DEF Limited, Blocking
    <2>5. RouteAllowed(pre, now, now) /\ SameIdentity(pre, post)
      BY <2>3 DEF Verified, LimitVerified
    <2>. QED
      BY <1>1, <2>4, <2>5 DEF SameIdentity
  <1>2. ASSUME NEW pre \in Preflights, NEW post \in Postflights, NEW signals \in Signalled,
               NEW claim \in Claimed, NEW now \in Instants,
               NEW d, d = Mistaken(pre, post, signals, claim, now), pre.route = "included"
        PROVE  d.breaker
    <2>1. Barred(d)
      BY <1>2, MismatchBars
    <2>. QED
      BY <2>1 DEF Barred
  <1>. QED
    BY <1>1, <1>2 DEF DistrustStops

\* A payment that the claim or an event speaks of ends in a breaker.
THEOREM PaymentKept == PaymentIsKept
  <1>1. ASSUME NEW pre \in Preflights, NEW post \in Postflights, NEW signals \in Signalled,
               NEW claim \in Claimed, NEW now \in Instants,
               NEW d, d = Outcome(pre, post, signals, claim, now), pre.route = "included",
               \/ claim.paid \in {"yes", "unknown"} \/ claim.charge # "none"
               \/ "paid_consumed" \in signals /\ ~NothingRan(claim)
        PROVE  d.quarantine /\ d.breaker
    <2>1. signals \in SUBSET Signals /\ claim \in Claims
      BY InputKinds
    <2>2. ~NothingRan(claim)
      BY <1>1 DEF NothingRan
    <2>3. Unpaid(claim) => "paid_consumed" \in signals
      BY <1>1 DEF Unpaid
    <2>4. ~Verified(pre, post, signals, now) \/ ~Unpaid(claim)
      BY <2>3 DEF Verified
    <2>5. ~Uneventful(pre, post, signals, now) \/ ~Unpaid(claim)
      BY <2>3 DEF Uneventful
    <2>6. Barred(d)
      BY <1>1, <2>1, <2>2, <2>4, <2>5, OutcomeEnds
    <2>. QED
      BY <2>6 DEF Barred
  <1>. QED
    BY <1>1 DEF PaymentIsKept

\* Together: what a live run is allowed and said to have cost errs on the side of
\* stopping, for every account, assessment, signal, claim and time.
THEOREM BillingConservative == BillingErrsSafely
  BY EvidenceOutlasts, TrustEarned, DistrustHolds, PaymentKept DEF BillingErrsSafely

-----------------------------------------------------------------------------
(* Histories. *)

\* A sequence of rows, of which one carries the newest status.
History(h) ==
  /\ h \in Seq({h[i] : i \in DOMAIN h})
  /\ \A i \in DOMAIN h : h[i].status \in Statuses \cup {NoStatus}
  /\ \E m \in Bearing(h) : \A i \in Bearing(h) : i <= m

\* g is h and one row more.
Gained(h, g, row) ==
  /\ History(g)
  /\ CurrentStatus(g) = IF row.status = NoStatus THEN CurrentStatus(h) ELSE row.status
  /\ \A t : Has(g, t) <=> Has(h, t) \/ row.type = t
  /\ \A t, v : Says(g, t, v) <=> Says(h, t, v) \/ (row.type = t /\ row.value = v)

-----------------------------------------------------------------------------
(* The invariant of a task run. *)

\* Places before RUNNING is on record, before the runner is invoked, and after.
Preparing ==
  {"select", "bind", "admit", "admitted", "admission_receipt", "admission_shadow", "preflight", "billing", "dispatch",
   "fresh", "running"}

Starting == {"dispatch_shadow", "fresh_at_start", "invoke"}

Publishing == {"prepare", "publication_shadow", "publish_decision", "intent", "publish"}

Finalizing == {"accounting", "finish"} \cup Publishing

Invoked ==
  {"inside", "persist", "persist_again", "receipt", "failure_receipt", "raised", "check"} \cup Finalizing

RunPlaces == Preparing \cup Starting \cup Invoked \cup {"stop", "over"}

RunControllers(end) ==
  [at : RunPlaces, end : {end}, err : Kinds \cup {"none", "refused"}, invoked : 0..1, emitted : Nat, seen : Nat,
   result : Results \cup {"none"}, broken : BOOLEAN, returned : Ends \cup {"none"}]

RunTypeInv ==
  /\ mode \in Modes /\ artifact \in BOOLEAN /\ faults \in 0..MaxFaults
  /\ History(ledger)
  /\ ctl \in RunControllers(ctl.end)
  /\ ctl.seen <= ctl.emitted

\* The controller is past these places, or was when it invoked the runner.
Past(places) == ctl.invoked = 1 \/ ctl.at \notin places \cup {"stop", "over"}

EvidenceInv ==
  /\ Selected /\ Past({"select"}) => Has(ledger, "selection")
  /\ Past({"select", "bind"}) => Has(ledger, "binding")
  /\ mode = "enforcing" /\ Past({"select", "bind", "admit"}) => Says(ledger, "admission_decision", "permit")
  /\ mode = "enforcing" /\ Past({"select", "bind", "admit", "admitted", "admission_receipt"}) =>
       Has(ledger, "admission_receipt")
  /\ Past(Preparing \ {"dispatch", "fresh", "running"}) => Has(ledger, "billing")
  /\ mode = "enforcing" /\ Past(Preparing \ {"fresh", "running"}) => Says(ledger, "dispatch_decision", "permit")
  /\ Past(Preparing) => Has(ledger, "running")

\* Where the controller is tells the status on record and whether the runner was
\* invoked.
PlaceInv ==
  /\ ctl.at \in Preparing => CurrentStatus(ledger) = "created"
  /\ ctl.at \in Starting \cup Invoked => CurrentStatus(ledger) = "running"
  /\ ctl.at \in Preparing \cup Starting => ctl.invoked = 0
  /\ ctl.at \in Invoked => ctl.invoked = 1
  /\ ctl.at \in Preparing \cup Starting \cup {"inside"} => ctl.seen = 0

\* Without a receipt of the effect the run ends in quarantine, or not at all.
ReceiptInv ==
  mode = "enforcing" /\ ctl.invoked = 1 /\ ~Has(ledger, "dispatch_receipt") =>
    /\ ctl.at \in {"inside", "persist", "persist_again", "receipt", "failure_receipt", "stop", "over"}
    /\ CurrentStatus(ledger) \in {"running", "quarantined"}
    /\ ctl.at = "stop" /\ CurrentStatus(ledger) = "running" => ctl.end.status = "quarantined"

\* A success has its artifact and its receipt before it is put on record.
SuccessInv ==
  /\ ctl.at \in {"persist", "receipt", "check"} => ctl.result # "none"
  /\ ctl.at \in Publishing => ctl.result = "succeeded"
  /\ ctl.at \in Finalizing => ctl.result \in Results \ {"misidentified", "untyped"}
  /\ ctl.at = "finish" /\ ctl.result = "succeeded" => artifact /\ Says(ledger, "receipt", "succeeded")
  /\ ctl.returned # "none" =>
       /\ ctl.at = "over" /\ CurrentStatus(ledger) = ctl.returned
       /\ ctl.returned = "succeeded" => artifact /\ Says(ledger, "receipt", "succeeded")

RunInv == RunTypeInv /\ EvidenceInv /\ PlaceInv /\ ReceiptInv /\ SuccessInv

-----------------------------------------------------------------------------
(* The invariant of a comparison. *)

TrialPreparing == {"bind", "admission_shadow", "billing", "running"}

TrialStarting == {"dispatch_shadow", "invoke"}

\* What follows the runner up to the publication, the publication, and the end.
Judging == {"inside", "persist", "price", "account", "publication_shadow", "intent", "publish"}

Receiving == {"receipt", "failure_receipt"}

Ending == {"evaluate", "finish"}

Failing == {"failed", "failed_account", "failed_price", "fail"}

Interrupting ==
  {"interrupted", "interrupted_account", "interrupted_price", "interrupted_price_again", "interrupted_end"}

Handling == Failing \cup Interrupting

TrialPlaces ==
  TrialPreparing \cup TrialStarting \cup Judging \cup Receiving \cup Ending \cup Handling
  \cup {"setup_failed", "next", "over"}

TrialControllers(cost) ==
  [at : TrialPlaces, live : BOOLEAN, exc : Kinds \cup {"none", "refused"}, doubt : BOOLEAN, shown : BOOLEAN,
   invoked : 0..1, emitted : Nat, seen : Nat, result : {"none", "succeeded", "failed", "tainted"}, judged : BOOLEAN,
   cost : {cost}, matches : BOOLEAN, accounted : BOOLEAN, priced : BOOLEAN, broken : BOOLEAN, shadowed : BOOLEAN,
   listed : BOOLEAN, unknown : BOOLEAN, stop : BOOLEAN, outcome : Ends \cup {"none"}, returned : BOOLEAN]

TrialTypeInv ==
  /\ mode = "comparison" /\ artifact \in BOOLEAN /\ faults \in 0..MaxFaults
  /\ History(ledger)
  /\ ctl \in TrialControllers(ctl.cost)
  /\ ctl.seen <= ctl.emitted
  /\ book \in {"none", "part", "clean", "blocked"}
  /\ trials \in Seq({trials[i] : i \in DOMAIN trials})

TrialPast(places) == ctl.invoked = 1 \/ ctl.at \notin places \cup {"setup_failed", "over"}

TrialEvidenceInv ==
  /\ TrialPast({"bind"}) => Has(ledger, "binding")
  /\ TrialPast({"bind", "admission_shadow", "billing"}) => Has(ledger, "billing")
  /\ TrialPast(TrialPreparing) => Has(ledger, "running")

TrialPlaceInv ==
  /\ ctl.at \in TrialPreparing => CurrentStatus(ledger) = "created"
  /\ ctl.at = "setup_failed" => CurrentStatus(ledger) \in {"created", "running"}
  /\ ctl.at \in TrialStarting \cup Judging \cup Receiving \cup Ending => CurrentStatus(ledger) = "running"
  /\ ctl.at \in TrialPreparing \cup TrialStarting \cup {"setup_failed"} => ctl.invoked = 0
  /\ ctl.at \in TrialPlaces \ (TrialPreparing \cup TrialStarting \cup {"setup_failed", "over"}) => ctl.invoked = 1
  /\ ctl.at \in {"persist", "price", "account", "publication_shadow", "intent", "publish"} \cup Receiving \cup Ending =>
       ctl.result # "none"

\* Every observation is on record before the trial is judged.
SeenInv ==
  /\ ctl.at \in TrialPreparing \cup TrialStarting \cup {"setup_failed", "inside"} => ctl.seen = 0
  /\ ctl.doubt => ctl.at \in Handling \cup {"next", "over"} /\ ctl.seen = ctl.emitted
  /\ ctl.at \in {"price", "account", "publication_shadow", "intent", "publish"} \cup Receiving \cup Ending =>
       ctl.seen = ctl.emitted

\* The books say what the trial cost, or that nobody knows.
Priced == book = "blocked" \/ (book = "clean" /\ ctl.cost.harmless)

Accounted == {"account", "publication_shadow", "intent", "publish"} \cup Receiving \cup Ending

BookInv ==
  /\ ctl.live /\ ctl.at \in {"persist", "price"} \cup Accounted =>
       ctl.cost.breaker \/ ctl.cost.blocked \/ ctl.cost.harmless
  /\ ctl.at \in TrialPreparing \cup TrialStarting \cup {"setup_failed", "inside", "persist", "price"} => ~ctl.priced
  /\ ctl.live /\ ctl.at \in Accounted => ctl.priced /\ book = AllRows
  /\ ctl.live /\ ctl.priced => Priced
  /\ ctl.live /\ ctl.at = "fail" /\ ~ctl.broken => Priced
  /\ ctl.live /\ ctl.at = "next" => Priced
  /\ ctl.returned => ctl.at = "over" /\ (ctl.live => Priced)
  /\ ctl.live /\ ctl.invoked = 1 /\ ~Priced => CurrentStatus(ledger) \in {"running", "quarantined"}

\* What may go on after a trial.
GoOnInv ==
  /\ ctl.at \in Accounted \ {"account"} => (ctl.stop <=> Untrusted)
  /\ ctl.at = "next" /\ ~ctl.stop /\ ctl.live => book = "clean" /\ ctl.cost.harmless
  /\ \A i \in DOMAIN trials : trials[i].live => trials[i].harmless /\ trials[i].book = "clean"

Receipted == Says(ledger, "receipt", "succeeded")

\* An artifact without its receipt, or a receipt without its artifact, is in
\* doubt until the run is quarantined.
OrphanInv ==
  /\ ctl.at \in TrialPreparing \cup TrialStarting \cup Judging \cup {"setup_failed"} => ~artifact
  /\ ctl.at \in TrialPreparing \cup TrialStarting \cup Judging \cup Receiving \cup {"setup_failed"} =>
       ~Receipted /\ ~ctl.listed
  /\ ctl.at = "failure_receipt" /\ artifact => ctl.unknown
  /\ ctl.at \in Ending => artifact /\ Receipted
  /\ ctl.at \in Handling /\ artifact # Receipted => ctl.doubt
  /\ ctl.at # "receipt" /\ artifact # Receipted => CurrentStatus(ledger) \in {"running", "quarantined"}

ReportInv ==
  /\ ctl.listed => artifact /\ Receipted
  /\ ctl.at = "next" => ctl.outcome # "none"
  /\ ctl.outcome # "none" => ctl.at \in {"next", "over"} /\ CurrentStatus(ledger) = ctl.outcome
  /\ \A i \in DOMAIN trials :
       trials[i].status = trials[i].outcome /\ (trials[i].listed => trials[i].receipted /\ trials[i].present)

TrialInv ==
  /\ TrialTypeInv /\ TrialEvidenceInv /\ TrialPlaceInv /\ SeenInv
  /\ BookInv /\ GoOnInv /\ OrphanInv /\ ReportInv

SystemInv == (mode \in Modes /\ RunInv) \/ TrialInv

-----------------------------------------------------------------------------
(* Lemmas about histories. *)

LEMMA NewestStatus ==
  ASSUME NEW h, History(h), NEW m \in Bearing(h), \A i \in Bearing(h) : i <= m
  PROVE  CurrentStatus(h) = h[m].status
<1>1. Bearing(h) \subseteq Int
  BY DEF History, Bearing
<1>2. Max(Bearing(h)) = m
  BY <1>1 DEF Max
<1> QED
  BY <1>2 DEF CurrentStatus

LEMMA StatusIsKnown ==
  ASSUME NEW h, History(h)
  PROVE  CurrentStatus(h) \in Statuses
<1>1. PICK m \in Bearing(h) : \A i \in Bearing(h) : i <= m
  BY DEF History
<1>2. CurrentStatus(h) = h[m].status
  BY <1>1, NewestStatus
<1> QED
  BY <1>2 DEF History, Bearing

LEMMA AppendGains ==
  ASSUME NEW h, History(h), NEW row, row.status \in Statuses \cup {NoStatus}
  PROVE  Gained(h, Append(h, row), row)
<1> DEFINE g == Append(h, row)
           n == Len(h) + 1
<1>1. /\ g \in Seq({h[i] : i \in DOMAIN h} \cup {row}) /\ DOMAIN h = 1 .. Len(h) /\ Len(h) \in Nat
      /\ DOMAIN g = DOMAIN h \cup {n} /\ Len(g) = n
      /\ \A i \in DOMAIN h : g[i] = h[i]
      /\ g[n] = row /\ n \in Nat /\ n \notin DOMAIN h
  <2>1. h \in Seq({h[i] : i \in DOMAIN h} \cup {row})
    BY DEF History
  <2> HIDE DEF g
  <2>2. g = Append(h, row)
    BY DEF g
  <2> QED
    BY <2>1, <2>2
<1> HIDE DEF g
<1>2. g \in Seq({g[i] : i \in DOMAIN g})
  BY <1>1
<1>3. \A i \in DOMAIN g : g[i].status \in Statuses \cup {NoStatus}
  BY <1>1 DEF History
<1>4. PICK m \in Bearing(h) : \A i \in Bearing(h) : i <= m
  BY DEF History
<1>5. CASE row.status = NoStatus
  <2>1. Bearing(g) = Bearing(h)
    BY <1>1, <1>5 DEF Bearing
  <2>2. History(g)
    BY <1>2, <1>3, <1>4, <2>1 DEF History
  <2>3. CurrentStatus(g) = g[m].status /\ CurrentStatus(h) = h[m].status
    BY <1>4, <2>1, <2>2, NewestStatus
  <2> QED
    BY <1>1, <1>5, <2>2, <2>3 DEF Gained, Has, Says, Rows, Bearing, g
<1>6. CASE row.status # NoStatus
  <2>1. Bearing(g) = Bearing(h) \cup {n} /\ n \in Bearing(g)
    BY <1>1, <1>6 DEF Bearing
  <2>2. \A i \in Bearing(g) : i <= n
    BY <1>1 DEF Bearing
  <2>3. History(g)
    BY <1>2, <1>3, <2>1, <2>2 DEF History
  <2>4. CurrentStatus(g) = row.status
    BY <1>1, <2>1, <2>2, <2>3, NewestStatus
  <2> QED
    BY <1>1, <1>6, <2>3, <2>4 DEF Gained, Has, Says, Rows, g
<1> QED
  BY <1>5, <1>6

LEMMA RowFields ==
  ASSUME NEW t, NEW v
  PROVE  /\ Row(t, v).type = t /\ Row(t, v).value = v /\ Row(t, v).status = NoStatus
         /\ \A s : /\ StatusRow(t, s, v).type = t /\ StatusRow(t, s, v).value = v /\ StatusRow(t, s, v).status = s
                   /\ \A o : LET r == [StatusRow(t, s, v) EXCEPT !.observed = o]
                             IN  r.type = t /\ r.value = v /\ r.status = s
         /\ \A k : LET r == [Row(t, v) EXCEPT !.n = k] IN r.type = t /\ r.value = v /\ r.status = NoStatus
  BY DEF Row, StatusRow

\* A history that begins.
LEMMA CreatedMeans ==
  /\ History(Created) /\ CurrentStatus(Created) = "created"
  /\ \A t : Has(Created, t) <=> t = "created"
  /\ \A t, v : Says(Created, t, v) => t = "created"
<1> DEFINE row == StatusRow("created", "created", "none")
<1>1. Created = <<row>> /\ DOMAIN Created = {1} /\ Created[1] = row
  BY DEF Created
<1>2. row.type = "created" /\ row.status = "created"
  BY DEF StatusRow, Row
<1> HIDE DEF row
<1>3. Bearing(Created) = {1}
  BY <1>1, <1>2 DEF Bearing, NoStatus
<1>4. Created \in Seq({Created[i] : i \in DOMAIN Created})
  BY <1>1
<1>5. History(Created)
  BY <1>1, <1>2, <1>3, <1>4 DEF History, Statuses
<1>6. CurrentStatus(Created) = "created"
  BY <1>1, <1>2, <1>3, <1>5, NewestStatus
<1> QED
  BY <1>1, <1>2, <1>5, <1>6 DEF Has, Says, Rows

\* A write leaves the history or adds the row; it adds the row where it is kept,
\* may follow, and carries no status or one that may follow.
LEMMA WritingMeans ==
  ASSUME History(ledger), NEW row, NEW w, Writing(row, w)
  PROVE  /\ ledger' = ledger \/ Gained(ledger, ledger', row)
         /\ w.kept /\ (row.status = NoStatus \/ row.status \in Transitions[CurrentStatus(ledger)]) =>
              Gained(ledger, ledger', row)
<1>1. ledger # <<>>
  BY DEF History, Bearing
<1>2. CurrentStatus(ledger) \in Statuses
  BY StatusIsKnown
<1>3. ASSUME row.status = NoStatus \/ row.status \in Transitions[CurrentStatus(ledger)]
      PROVE  Gained(ledger, Append(ledger, row), row)
  <2>1. row.status \in Statuses \cup {NoStatus}
    BY <1>2, <1>3 DEF Transitions, Statuses
  <2> QED
    BY <2>1, AppendGains
<1>4. CASE w.kept /\ Appends(ledger, row)
  BY <1>3, <1>4 DEF Writing, Appends, Follows
<1>5. CASE ~ (w.kept /\ Appends(ledger, row))
  BY <1>1, <1>5 DEF Writing, Appends, Follows
<1> QED
  BY <1>4, <1>5

\* What may follow.
LEMMA Follow ==
  /\ {"running", "failed", "blocked", "quarantined", "cancelled"} \subseteq Transitions["created"]
  /\ {"succeeded", "failed", "blocked", "quarantined", "cancelled"} \subseteq Transitions["running"]
  BY DEF Transitions, Statuses

-----------------------------------------------------------------------------
(* A task run: what its steps do. *)

\* The ledger is as it was, or has one row more.
Wrote(row) == ledger' = ledger \/ Gained(ledger, ledger', row)

Moved(next) == ctl' = [ctl EXCEPT !.at = next]

Halted(end) == ctl' = [ctl EXCEPT !.at = "stop", !.end = end]

LEMMA MovedMeans ==
  ASSUME RunTypeInv, NEW next \in RunPlaces, Moved(next)
  PROVE  /\ ctl' \in RunControllers(ctl'.end)
         /\ ctl'.seen <= ctl'.emitted
         /\ ctl'.at = next /\ ctl'.end = ctl.end /\ ctl'.invoked = ctl.invoked /\ ctl'.result = ctl.result
         /\ ctl'.returned = ctl.returned /\ ctl'.seen = ctl.seen
  BY DEF RunTypeInv, RunControllers, Moved

LEMMA HaltedMeans ==
  ASSUME RunTypeInv, NEW end, Halted(end)
  PROVE  /\ ctl' \in RunControllers(ctl'.end)
         /\ ctl'.seen <= ctl'.emitted
         /\ ctl'.at = "stop" /\ ctl'.end = end /\ ctl'.invoked = ctl.invoked /\ ctl'.result = ctl.result
         /\ ctl'.returned = ctl.returned /\ ctl'.seen = ctl.seen
  BY DEF RunTypeInv, RunControllers, Halted, RunPlaces

\* What is on record stays.
LEMMA WroteKeeps ==
  ASSUME History(ledger), NEW row, Wrote(row)
  PROVE  /\ History(ledger')
         /\ row.status = NoStatus => CurrentStatus(ledger') = CurrentStatus(ledger)
         /\ \A t : Has(ledger, t) => Has(ledger', t)
         /\ \A t, v : Says(ledger, t, v) => Says(ledger', t, v)
  BY DEF Wrote, Gained

LEMMA Bounded ==
  ASSUME RunTypeInv \/ TrialTypeInv, NEW w, Pays(w)
  PROVE  faults' \in 0..MaxFaults
  BY TaskRunAssumption DEF RunTypeInv, TrialTypeInv, Pays

LEMMA RequiresMeans ==
  ASSUME RunTypeInv, NEW at, NEW row, NEW next, NEW phase, Requires(at, row, next, phase),
         row.status = NoStatus \/ row.status \in Transitions[CurrentStatus(ledger)]
  PROVE  /\ ctl.at = at /\ mode' = mode /\ artifact' = artifact /\ faults' \in 0..MaxFaults
         /\ Wrote(row)
         /\ \/ Moved(next) /\ Gained(ledger, ledger', row)
            \/ \E end : Halted(end)
<1>1. PICK w \in Writes : /\ Pays(w) /\ Writing(row, w)
                          /\ IF w.raised = "none" THEN Goes(next) ELSE Stops(End(Stopped(w.raised), phase))
  BY DEF Requires
<1>2. /\ ledger' = ledger \/ Gained(ledger, ledger', row)
      /\ w.kept => Gained(ledger, ledger', row)
  BY <1>1, WritingMeans DEF RunTypeInv
<1>3. faults' \in 0..MaxFaults
  BY <1>1, Bounded
<1>4. w.raised = "none" => w.kept
  BY DEF Writes
<1> QED
  BY <1>1, <1>2, <1>3, <1>4 DEF Requires, Alone, Wrote, Moved, Halted, Goes, Stops

LEMMA ObservesMeans ==
  ASSUME RunTypeInv, NEW at, NEW t, NEW v, NEW next, Observes(at, Row(t, v), next)
  PROVE  /\ ctl.at = at /\ mode' = mode /\ artifact' = artifact /\ faults' \in 0..MaxFaults
         /\ Wrote(Row(t, v))
         /\ Moved(next) \/ Moved("over")
<1>1. PICK w \in Writes : /\ Pays(w) /\ Writing(Row(t, v), w)
                          /\ Goes(IF w.raised = "interrupt" THEN "over" ELSE next)
  BY DEF Observes
<1>2. Wrote(Row(t, v))
  BY <1>1, WritingMeans DEF RunTypeInv, Wrote
<1>3. faults' \in 0..MaxFaults
  BY <1>1, Bounded
<1> QED
  BY <1>1, <1>2, <1>3 DEF Observes, Alone, Moved, Goes

LEMMA DecidesMeans ==
  ASSUME RunTypeInv, NEW at, NEW type, NEW next, NEW phase, Decides(at, type, next, phase)
  PROVE  /\ ctl.at = at /\ mode' = mode /\ artifact' = artifact /\ faults' \in 0..MaxFaults
         /\ \/ Moved(next) /\ Gained(ledger, ledger', Row(type, "permit"))
            \/ \E value, end : Wrote(Row(type, value)) /\ Halted(end)
<1>1. PICK d \in {"permit", "deny", "failed", "interrupted"}, w \in Writes :
        /\ Pays(w)
        /\ Writing(Row(type, IF d = "interrupted" THEN "failed" ELSE d), w)
        /\ CASE w.raised # "none" ->
                  Stops(End(IF d = "interrupted" THEN "cancelled" ELSE Stopped(w.raised), phase \o "_persistence"))
             [] w.raised = "none" /\ d = "interrupted" -> Stops(End("cancelled", phase \o "_evaluation"))
             [] w.raised = "none" /\ d \in {"deny", "failed"} -> Stops(End("blocked", phase))
             [] w.raised = "none" /\ d = "permit" -> Goes(next)
  BY DEF Decides
<1> DEFINE value == IF d = "interrupted" THEN "failed" ELSE d
<1>2. /\ Wrote(Row(type, value))
      /\ w.kept => Gained(ledger, ledger', Row(type, value))
  BY <1>1, WritingMeans, RowFields DEF RunTypeInv, Wrote
<1>3. faults' \in 0..MaxFaults
  BY <1>1, Bounded
<1>4. ctl.at = at /\ mode' = mode /\ artifact' = artifact
  BY DEF Decides, Alone
<1>5. CASE w.raised = "none" /\ d = "permit"
  BY <1>1, <1>2, <1>3, <1>4, <1>5 DEF Writes, Moved, Goes
<1>6. CASE ~ (w.raised = "none" /\ d = "permit")
  <2>1. \E end : Halted(end)
    BY <1>1, <1>6 DEF Halted, Stops
  <2> QED
    BY <1>2, <1>3, <1>4, <2>1
<1> QED
  BY <1>5, <1>6

-----------------------------------------------------------------------------
(* A task run: the invariant. *)

\* The run is over but for its terminal event, or is given up.
LEMMA HaltKeeps ==
  ASSUME RunInv, mode' = mode, artifact' \in BOOLEAN, faults' \in 0..MaxFaults, NEW row, row.status = NoStatus,
         Wrote(row), ctl.at # "over", NEW end, Halted(end) \/ Moved("over"),
         mode = "enforcing" /\ ctl.invoked = 1 /\ Halted(end) => Has(ledger', "dispatch_receipt") \/ end.status = "quarantined"
  PROVE  RunInv'
<1>1. /\ History(ledger') /\ CurrentStatus(ledger') = CurrentStatus(ledger)
      /\ \A t : Has(ledger, t) => Has(ledger', t)
      /\ \A t, v : Says(ledger, t, v) => Says(ledger', t, v)
  BY WroteKeeps DEF RunInv, RunTypeInv
<1>2. RunTypeInv
  BY DEF RunInv
<1>3. /\ RunTypeInv' /\ ctl'.invoked = ctl.invoked /\ ctl'.returned = ctl.returned
      /\ \/ Halted(end) /\ ctl'.at = "stop" /\ ctl'.end = end
         \/ ctl'.at = "over"
  <2>1. CASE Halted(end)
    BY <1>1, <1>2, <2>1, HaltedMeans DEF RunTypeInv
  <2>2. CASE Moved("over")
    <3>1. "over" \in RunPlaces
      BY DEF RunPlaces
    <3> QED
      BY <1>1, <1>2, <2>2, <3>1, MovedMeans DEF RunTypeInv
  <2> QED
    BY <2>1, <2>2
<1>4. EvidenceInv'
  <2>1. \A places : Past(places)' => Past(places)
    BY <1>3 DEF Past
  <2> QED
    BY <1>1, <2>1 DEF RunInv, EvidenceInv, Selected
<1>5. PlaceInv' /\ SuccessInv'
  BY <1>3 DEF RunInv, PlaceInv, SuccessInv, Preparing, Starting, Invoked, Publishing, Finalizing
<1>6. ReceiptInv'
  <2>1. SUFFICES ASSUME mode = "enforcing", ctl.invoked = 1, ~ Has(ledger', "dispatch_receipt")
                 PROVE  /\ ctl'.at \in {"stop", "over"} /\ CurrentStatus(ledger') \in {"running", "quarantined"}
                        /\ ctl'.at = "stop" /\ CurrentStatus(ledger') = "running" => ctl'.end.status = "quarantined"
    BY <1>3 DEF ReceiptInv
  <2> QED
    BY <1>1, <1>3, <2>1 DEF RunInv, ReceiptInv
<1> QED
  BY <1>3, <1>4, <1>5, <1>6 DEF RunInv

\* After the invocation the controller goes on.
LEMMA GoOnKeeps ==
  ASSUME RunInv, mode' = mode, artifact' \in BOOLEAN, faults' \in 0..MaxFaults, NEW row, row.status = NoStatus,
         Wrote(row), ctl.at \in Invoked, NEW next \in Invoked \ {"inside"}, Moved(next),
         mode = "enforcing" =>
           Has(ledger', "dispatch_receipt") \/ next \in {"persist", "persist_again", "receipt", "failure_receipt"},
         next \in {"persist", "receipt", "check"} => ctl.result # "none",
         next \in Publishing => ctl.result = "succeeded",
         next \in Finalizing => ctl.result \in Results \ {"misidentified", "untyped"},
         next = "finish" /\ ctl.result = "succeeded" => artifact' /\ Says(ledger', "receipt", "succeeded")
  PROVE  RunInv'
<1>1. /\ History(ledger') /\ CurrentStatus(ledger') = CurrentStatus(ledger)
      /\ \A t : Has(ledger, t) => Has(ledger', t)
      /\ \A t, v : Says(ledger, t, v) => Says(ledger', t, v)
  BY WroteKeeps DEF RunInv, RunTypeInv
<1>2. RunTypeInv /\ next \in RunPlaces
  BY DEF RunInv, RunPlaces
<1>3. /\ RunTypeInv' /\ ctl'.invoked = ctl.invoked /\ ctl'.returned = ctl.returned
      /\ ctl'.at = next /\ ctl'.result = ctl.result
  BY <1>1, <1>2, MovedMeans DEF RunTypeInv
<1>4. ctl.invoked = 1 /\ CurrentStatus(ledger) = "running" /\ ctl.at \notin {"stop", "over"}
  BY DEF RunInv, PlaceInv, Invoked, Finalizing, Publishing
<1>5. EvidenceInv'
  BY <1>1, <1>3, <1>4 DEF RunInv, EvidenceInv, Selected, Past
<1>6. PlaceInv'
  BY <1>1, <1>3, <1>4 DEF PlaceInv, Preparing, Starting, Invoked, Finalizing, Publishing
<1>7. ReceiptInv'
  BY <1>1, <1>3, <1>4 DEF ReceiptInv, Invoked, Finalizing, Publishing
<1>8. SuccessInv'
  BY <1>3, <1>4 DEF RunInv, SuccessInv
<1> QED
  BY <1>3, <1>5, <1>6, <1>7, <1>8 DEF RunInv

\* Before the invocation the controller goes on.
LEMMA PrepareKeeps ==
  ASSUME RunInv, mode' = mode, artifact' = artifact, faults' \in 0..MaxFaults, NEW row, Wrote(row),
         ctl.at \in Preparing \cup Starting, NEW next \in Preparing \cup Starting, Moved(next),
         CurrentStatus(ledger') = IF next \in Preparing THEN "created" ELSE "running", EvidenceInv'
  PROVE  RunInv'
<1>1. History(ledger')
  BY WroteKeeps DEF RunInv, RunTypeInv
<1>2. RunTypeInv /\ next \in RunPlaces
  BY DEF RunInv, RunPlaces
<1>3. /\ RunTypeInv' /\ ctl'.invoked = ctl.invoked /\ ctl'.returned = ctl.returned
      /\ ctl'.at = next /\ ctl'.result = ctl.result /\ ctl'.seen = ctl.seen
  BY <1>1, <1>2, MovedMeans DEF RunTypeInv
<1>4. ctl.invoked = 0 /\ ctl.at # "over"
  BY DEF RunInv, PlaceInv, Preparing, Starting
<1>5. PlaceInv' /\ ReceiptInv' /\ SuccessInv'
  BY <1>3, <1>4 DEF RunInv, PlaceInv, ReceiptInv, SuccessInv, Preparing, Starting, Invoked, Finalizing, Publishing
<1> QED
  BY <1>3, <1>5 DEF RunInv

\* A required row, before the invocation.
LEMMA RequiresKeeps ==
  ASSUME RunInv, NEW at \in Preparing, NEW row, NEW next \in Preparing \cup Starting, NEW phase,
         Requires(at, row, next, phase),
         row.status = IF next \in Preparing THEN NoStatus ELSE "running",
         Moved(next) /\ Gained(ledger, ledger', row) /\ mode' = mode => EvidenceInv'
  PROVE  RunInv'
<1>1. CurrentStatus(ledger) = "created" /\ ctl.at = at /\ ctl.invoked = 0
  BY DEF Requires, RunInv, PlaceInv
<1>2. row.status = NoStatus \/ row.status \in Transitions[CurrentStatus(ledger)]
  BY <1>1, Follow
<1>3. /\ ctl.at = at /\ mode' = mode /\ artifact' = artifact /\ faults' \in 0..MaxFaults
      /\ Wrote(row)
      /\ \/ Moved(next) /\ Gained(ledger, ledger', row)
         \/ \E end : Halted(end)
  BY <1>2, RequiresMeans DEF RunInv
<1>4. CASE Moved(next) /\ Gained(ledger, ledger', row)
  <2>1. CurrentStatus(ledger') = IF next \in Preparing THEN "created" ELSE "running"
    BY <1>1, <1>4 DEF Gained, NoStatus
  <2> QED
    BY <1>1, <1>3, <1>4, <2>1, PrepareKeeps
<1>5. CASE \E end : Halted(end)
  <2>1. PICK end : Halted(end)
    BY <1>5
  <2>2. CASE row.status = NoStatus
    BY <1>1, <1>3, <2>1, <2>2, HaltKeeps DEF RunInv, RunTypeInv, Preparing
  <2>3. CASE row.status # NoStatus
    <3>1. RunTypeInv' /\ ctl'.at = "stop" /\ ctl'.invoked = 0 /\ ctl'.returned = ctl.returned
      BY <1>1, <1>3, <2>1, WroteKeeps, HaltedMeans DEF RunInv, RunTypeInv
    <3>2. ctl.returned = "none"
      BY <1>1 DEF RunInv, SuccessInv, Preparing
    <3> QED
      BY <3>1, <3>2 DEF RunInv, EvidenceInv, Past, PlaceInv, ReceiptInv, SuccessInv, Preparing, Starting, Invoked,
           Finalizing, Publishing
  <2> QED
    BY <2>2, <2>3
<1> QED
  BY <1>3, <1>4, <1>5

LEMMA EvidenceGrows ==
  ASSUME RunInv, mode' = mode, NEW row, Gained(ledger, ledger', row), NEW next \in Preparing \cup Starting, Moved(next),
         ctl.invoked = 0
  PROVE  /\ ctl'.at = next /\ ctl'.invoked = 0
         /\ \A t : Has(ledger, t) => Has(ledger', t)
         /\ \A t, v : Says(ledger, t, v) => Says(ledger', t, v)
         /\ Has(ledger', row.type) /\ Says(ledger', row.type, row.value)
<1>1. next \in RunPlaces
  BY DEF RunPlaces
<1> QED
  BY <1>1, MovedMeans DEF Gained, RunInv

LEMMA RecordSelectionKeeps ==
  ASSUME RunInv, RecordSelection
  PROVE  RunInv'
<1> DEFINE row == Row("selection", "recorded")
<1>1. Requires("select", row, "bind", "execution_selection") /\ row.type = "selection" /\ row.status = NoStatus
  BY RowFields DEF RecordSelection
<1>2. "select" \in Preparing /\ "bind" \in Preparing /\ ctl.at = "select" /\ ctl.invoked = 0
  BY <1>1 DEF Requires, RunInv, PlaceInv, Preparing
<1> HIDE DEF row
<1>3. ASSUME Moved("bind"), Gained(ledger, ledger', row), mode' = mode PROVE EvidenceInv'
  BY <1>1, <1>2, <1>3, EvidenceGrows DEF EvidenceInv, RunInv, Past, Preparing
<1> QED
  BY <1>1, <1>2, <1>3, RequiresKeeps

LEMMA RecordBindingKeeps ==
  ASSUME RunInv, RecordBinding
  PROVE  RunInv'
<1> DEFINE row == Row("binding", BindingValue)
           next == IF mode = "enforcing" THEN "admit" ELSE "admission_shadow"
<1>1. Requires("bind", row, next, "task_attempt_binding") /\ row.type = "binding" /\ row.status = NoStatus
  BY RowFields DEF RecordBinding
<1>2. "bind" \in Preparing /\ next \in Preparing /\ ctl.at = "bind" /\ ctl.invoked = 0
  BY <1>1 DEF Requires, RunInv, PlaceInv, Preparing
<1>3. next \in {"admit", "admission_shadow"} /\ (mode = "enforcing" => next = "admit")
  OBVIOUS
<1> HIDE DEF row, next
<1>4. ASSUME Moved(next), Gained(ledger, ledger', row), mode' = mode PROVE EvidenceInv'
  BY <1>1, <1>2, <1>3, <1>4, EvidenceGrows DEF EvidenceInv, RunInv, Past, Preparing, Selected
<1> QED
  BY <1>1, <1>2, <1>4, RequiresKeeps

LEMMA RecordAdmissionKeeps ==
  ASSUME RunInv, RecordAdmission
  PROVE  RunInv'
<1> DEFINE row == Row("admission_receipt", "succeeded")
<1>1. /\ Requires("admission_receipt", row, "admission_shadow", "task_admission_action_receipt_persistence")
      /\ row.type = "admission_receipt" /\ row.status = NoStatus
  BY RowFields DEF RecordAdmission
<1>2. /\ "admission_receipt" \in Preparing /\ "admission_shadow" \in Preparing
      /\ ctl.at = "admission_receipt" /\ ctl.invoked = 0
  BY <1>1 DEF Requires, RunInv, PlaceInv, Preparing
<1> HIDE DEF row
<1>3. ASSUME Moved("admission_shadow"), Gained(ledger, ledger', row), mode' = mode PROVE EvidenceInv'
  BY <1>1, <1>2, <1>3, EvidenceGrows DEF EvidenceInv, RunInv, Past, Preparing, Selected
<1> QED
  BY <1>1, <1>2, <1>3, RequiresKeeps

LEMMA RecordBillingKeeps ==
  ASSUME RunInv, RecordBilling
  PROVE  RunInv'
<1> DEFINE row == Row("billing", "recorded")
           next == IF mode = "enforcing" THEN "dispatch" ELSE "running"
<1>1. Requires("billing", row, next, "billing_assessment_persistence") /\ row.type = "billing" /\ row.status = NoStatus
  BY RowFields DEF RecordBilling
<1>2. "billing" \in Preparing /\ next \in Preparing /\ ctl.at = "billing" /\ ctl.invoked = 0
  BY <1>1 DEF Requires, RunInv, PlaceInv, Preparing
<1>3. next \in {"dispatch", "running"} /\ (mode = "enforcing" => next = "dispatch")
  OBVIOUS
<1> HIDE DEF row, next
<1>4. ASSUME Moved(next), Gained(ledger, ledger', row), mode' = mode PROVE EvidenceInv'
  BY <1>1, <1>2, <1>3, <1>4, EvidenceGrows DEF EvidenceInv, RunInv, Past, Preparing, Selected
<1> QED
  BY <1>1, <1>2, <1>4, RequiresKeeps

LEMMA RecordRunningKeeps ==
  ASSUME RunInv, RecordRunning
  PROVE  RunInv'
<1> DEFINE row == StatusRow("running", "running", "runner_execution")
<1>1. /\ Requires("running", row, "dispatch_shadow", "runner_execution_transition")
      /\ row.type = "running" /\ row.status = "running"
  BY DEF RecordRunning, StatusRow, Row
<1>2. /\ "running" \in Preparing /\ "dispatch_shadow" \in Starting /\ "dispatch_shadow" \notin Preparing
      /\ ctl.at = "running" /\ ctl.invoked = 0
  BY <1>1 DEF Requires, RunInv, PlaceInv, Preparing, Starting
<1> HIDE DEF row
<1>3. ASSUME Moved("dispatch_shadow"), Gained(ledger, ledger', row), mode' = mode PROVE EvidenceInv'
  BY <1>1, <1>2, <1>3, EvidenceGrows DEF EvidenceInv, RunInv, Past, Preparing, Selected
<1> QED
  BY <1>1, <1>2, <1>3, RequiresKeeps

\* A step that observes, decides or looks before the invocation, and goes on.
LEMMA LookKeeps ==
  ASSUME RunInv, mode' = mode, artifact' = artifact, faults' \in 0..MaxFaults, NEW row, row.status = NoStatus,
         Wrote(row), ctl.at \in Preparing \cup Starting, NEW next \in Preparing \cup Starting, Moved(next),
         ctl.at \in Preparing <=> next \in Preparing, EvidenceInv'
  PROVE  RunInv'
<1>1. CurrentStatus(ledger') = CurrentStatus(ledger)
  BY WroteKeeps DEF RunInv, RunTypeInv
<1>2. CurrentStatus(ledger) = IF next \in Preparing THEN "created" ELSE "running"
  BY DEF RunInv, PlaceInv
<1> QED
  BY <1>1, <1>2, PrepareKeeps

LEMMA ObserveKeeps ==
  ASSUME RunInv, NEW at \in Preparing \cup Starting, NEW t, NEW v, NEW next \in Preparing \cup Starting,
         Observes(at, Row(t, v), next), at \in Preparing <=> next \in Preparing,
         at \in {"admission_shadow", "dispatch_shadow"},
         next \in {"preflight", "fresh_at_start", "invoke"}
  PROVE  RunInv'
<1> DEFINE row == Row(t, v)
<1>1. /\ ctl.at = at /\ mode' = mode /\ artifact' = artifact /\ faults' \in 0..MaxFaults
      /\ Wrote(row)
      /\ Moved(next) \/ Moved("over")
  BY ObservesMeans DEF RunInv
<1>2. row.status = NoStatus
  BY RowFields
<1> HIDE DEF row
<1>3. ctl.at # "over" /\ artifact \in BOOLEAN /\ ctl.invoked = 0
  BY <1>1 DEF Preparing, Starting, RunInv, RunTypeInv, PlaceInv
<1>4. CASE Moved(next)
  <2>1. next \in RunPlaces
    BY DEF RunPlaces
  <2>2. ctl'.at = next /\ ctl'.invoked = 0
    BY <1>3, <1>4, <2>1, MovedMeans DEF RunInv
  <2>3. /\ \A u : Has(ledger, u) => Has(ledger', u)
        /\ \A u, x : Says(ledger, u, x) => Says(ledger', u, x)
    BY <1>1, WroteKeeps DEF RunInv, RunTypeInv
  <2>4. EvidenceInv'
    BY <1>1, <1>3, <2>2, <2>3 DEF RunInv, EvidenceInv, Past, Preparing, Starting, Selected
  <2> QED
    BY <1>1, <1>2, <1>4, <2>4, LookKeeps
<1>5. CASE Moved("over")
  <2>1. \A end : ~ Halted(end)
    BY <1>5 DEF Halted, Moved, RunInv, RunTypeInv, RunControllers
  <2> QED
    BY <1>1, <1>2, <1>3, <1>5, HaltKeeps
<1> QED
  BY <1>1, <1>4, <1>5

LEMMA ObserveAdmissionKeeps ==
  ASSUME RunInv, ObserveAdmission
  PROVE  RunInv'
  BY ObserveKeeps DEF ObserveAdmission, Preparing, Starting

LEMMA ObserveDispatchKeeps ==
  ASSUME RunInv, ObserveDispatch
  PROVE  RunInv'
<1> DEFINE next == IF mode = "enforcing" THEN "fresh_at_start" ELSE "invoke"
<1>1. Observes("dispatch_shadow", Row("dispatch_shadow", "observed"), next)
  BY DEF ObserveDispatch
<1>2. /\ next \in {"fresh_at_start", "invoke"} /\ next \in Preparing \cup Starting /\ next \notin Preparing
      /\ "dispatch_shadow" \in Starting /\ "dispatch_shadow" \notin Preparing
  BY DEF Preparing, Starting
<1> HIDE DEF next
<1> QED
  BY <1>1, <1>2, ObserveKeeps

LEMMA DecideKeeps ==
  ASSUME RunInv, NEW at \in Preparing, NEW type, NEW next \in Preparing, NEW phase, Decides(at, type, next, phase),
         Moved(next) /\ Gained(ledger, ledger', Row(type, "permit")) /\ mode' = mode => EvidenceInv'
  PROVE  RunInv'
<1>1. /\ ctl.at = at /\ mode' = mode /\ artifact' = artifact /\ faults' \in 0..MaxFaults
      /\ \/ Moved(next) /\ Gained(ledger, ledger', Row(type, "permit"))
         \/ \E value, end : Wrote(Row(type, value)) /\ Halted(end)
  BY DecidesMeans DEF RunInv
<1>2. ctl.at # "over" /\ artifact \in BOOLEAN /\ ctl.invoked = 0
  BY <1>1 DEF Preparing, RunInv, RunTypeInv, PlaceInv
<1>3. CASE Moved(next) /\ Gained(ledger, ledger', Row(type, "permit"))
  <2> DEFINE row == Row(type, "permit")
  <2>1. row.status = NoStatus /\ Wrote(row)
    BY <1>3, RowFields DEF Wrote
  <2> HIDE DEF row
  <2> QED
    BY <1>1, <1>3, <2>1, LookKeeps
<1>4. CASE \E value, end : Wrote(Row(type, value)) /\ Halted(end)
  <2>1. PICK value, end : Wrote(Row(type, value)) /\ Halted(end)
    BY <1>4
  <2> DEFINE row == Row(type, value)
  <2>2. row.status = NoStatus /\ Wrote(row)
    BY <2>1, RowFields
  <2> HIDE DEF row
  <2> QED
    BY <1>1, <1>2, <2>1, <2>2, HaltKeeps
<1> QED
  BY <1>1, <1>3, <1>4

LEMMA DecideAdmissionKeeps ==
  ASSUME RunInv, DecideAdmission
  PROVE  RunInv'
<1> DEFINE row == Row("admission_decision", "permit")
<1>1. Decides("admit", "admission_decision", "admitted", "task_admission_authorization")
  BY DEF DecideAdmission
<1>2. "admit" \in Preparing /\ "admitted" \in Preparing /\ ctl.at = "admit" /\ ctl.invoked = 0
  BY <1>1 DEF Decides, RunInv, PlaceInv, Preparing
<1>3. row.type = "admission_decision" /\ row.value = "permit"
  BY RowFields
<1> HIDE DEF row
<1>4. ASSUME Moved("admitted"), Gained(ledger, ledger', row), mode' = mode PROVE EvidenceInv'
  BY <1>2, <1>3, <1>4, EvidenceGrows DEF EvidenceInv, RunInv, Past, Preparing, Selected
<1> QED
  BY <1>1, <1>2, <1>4, DecideKeeps DEF row

LEMMA DecideDispatchKeeps ==
  ASSUME RunInv, DecideDispatch
  PROVE  RunInv'
<1> DEFINE row == Row("dispatch_decision", "permit")
<1>1. Decides("dispatch", "dispatch_decision", "fresh", "mock_dispatch_authorization")
  BY DEF DecideDispatch
<1>2. "dispatch" \in Preparing /\ "fresh" \in Preparing /\ ctl.at = "dispatch" /\ ctl.invoked = 0
  BY <1>1 DEF Decides, RunInv, PlaceInv, Preparing
<1>3. row.type = "dispatch_decision" /\ row.value = "permit"
  BY RowFields
<1> HIDE DEF row
<1>4. ASSUME Moved("fresh"), Gained(ledger, ledger', row), mode' = mode PROVE EvidenceInv'
  BY <1>2, <1>3, <1>4, EvidenceGrows DEF EvidenceInv, RunInv, Past, Preparing, Selected
<1> QED
  BY <1>1, <1>2, <1>4, DecideKeeps DEF row

\* A step before the invocation that writes nothing.
LEMMA CheckKeeps ==
  ASSUME RunInv, UNCHANGED <<mode, ledger, artifact>>, faults' \in 0..MaxFaults, ctl.at \in Preparing \cup Starting,
         \/ \E end : Halted(end)
         \/ \E next \in Preparing \cup Starting : /\ Moved(next) /\ EvidenceInv'
                                                  /\ ctl.at \in Preparing <=> next \in Preparing
  PROVE  RunInv'
<1> DEFINE row == Row("none", "none")
<1>1. row.status = NoStatus /\ Wrote(row)
  BY RowFields DEF Wrote
<1> HIDE DEF row
<1>2. ctl.at # "over" /\ artifact \in BOOLEAN /\ ctl.invoked = 0
  BY DEF Preparing, Starting, RunInv, RunTypeInv, PlaceInv
<1>3. CASE \E end : Halted(end)
  BY <1>1, <1>2, <1>3, HaltKeeps
<1>4. CASE \E next \in Preparing \cup Starting : /\ Moved(next) /\ EvidenceInv'
                                                 /\ ctl.at \in Preparing <=> next \in Preparing
  BY <1>1, <1>4, LookKeeps
<1> QED
  BY <1>3, <1>4

LEMMA LessThanBound ==
  ASSUME RunTypeInv \/ TrialTypeInv, faults' = faults \/ (faults < MaxFaults /\ faults' = faults + 1)
  PROVE  faults' \in 0..MaxFaults
  BY TaskRunAssumption DEF RunTypeInv, TrialTypeInv

LEMMA ConfirmAdmissionKeeps ==
  ASSUME RunInv, ConfirmAdmission
  PROVE  RunInv'
<1>1. /\ ctl.at = "admitted" /\ UNCHANGED <<mode, ledger, artifact, faults>>
      /\ Moved("admission_receipt") \/ \E end : Halted(end)
  BY DEF ConfirmAdmission, Alone, Goes, Moved, Stops, Halted
<1>2. "admitted" \in Preparing /\ "admission_receipt" \in Preparing /\ "admission_receipt" \in RunPlaces
  BY DEF Preparing, RunPlaces
<1>3. Moved("admission_receipt") => EvidenceInv'
  BY <1>1, <1>2, MovedMeans DEF RunInv, EvidenceInv, Past, Preparing, Selected, PlaceInv
<1>4. faults' \in 0..MaxFaults
  BY <1>1 DEF RunInv, RunTypeInv
<1> QED
  BY <1>1, <1>2, <1>3, <1>4, CheckKeeps

LEMMA InspectBillingKeeps ==
  ASSUME RunInv, InspectBilling
  PROVE  RunInv'
<1>1. /\ ctl.at = "preflight" /\ UNCHANGED <<mode, ledger, artifact, faults>>
      /\ Moved("billing") \/ \E end : Halted(end)
  BY DEF InspectBilling, Alone, Goes, Moved, Stops, Halted
<1>2. "preflight" \in Preparing /\ "billing" \in Preparing /\ "billing" \in RunPlaces
  BY DEF Preparing, RunPlaces
<1>3. Moved("billing") => EvidenceInv'
  BY <1>1, <1>2, MovedMeans DEF RunInv, EvidenceInv, Past, Preparing, Selected, PlaceInv
<1>4. faults' \in 0..MaxFaults
  BY <1>1 DEF RunInv, RunTypeInv
<1> QED
  BY <1>1, <1>2, <1>3, <1>4, CheckKeeps

LEMMA AssertCurrentKeeps ==
  ASSUME RunInv, AssertCurrent
  PROVE  RunInv'
<1>1. /\ ctl.at \in {"fresh", "fresh_at_start"} /\ UNCHANGED <<mode, ledger, artifact>>
      /\ \/ ctl.at = "fresh" /\ Moved("running")
         \/ ctl.at = "fresh_at_start" /\ Moved("invoke")
         \/ \E end : Halted(end)
  BY DEF AssertCurrent, Alone, Goes, Moved, Stops, Halted
<1>2. /\ {"fresh", "running"} \subseteq Preparing /\ {"fresh_at_start", "invoke"} \subseteq Starting \ Preparing
      /\ {"running", "invoke"} \subseteq RunPlaces
  BY DEF Preparing, Starting, RunPlaces
<1>3. faults' \in 0..MaxFaults
  BY LessThanBound DEF AssertCurrent, RunInv
<1>4. CASE ctl.at = "fresh" /\ Moved("running")
  <2>1. EvidenceInv'
    BY <1>1, <1>2, <1>4, MovedMeans DEF RunInv, EvidenceInv, Past, Preparing, Selected, PlaceInv
  <2> QED
    BY <1>1, <1>2, <1>3, <1>4, <2>1, CheckKeeps
<1>5. CASE ctl.at = "fresh_at_start" /\ Moved("invoke")
  <2>1. EvidenceInv'
    BY <1>1, <1>2, <1>5, MovedMeans DEF RunInv, EvidenceInv, Past, Preparing, Selected, PlaceInv
  <2> QED
    BY <1>1, <1>2, <1>3, <1>5, <2>1, CheckKeeps
<1>6. CASE \E end : Halted(end)
  BY <1>1, <1>2, <1>3, <1>6, CheckKeeps
<1> QED
  BY <1>1, <1>4, <1>5, <1>6

-----------------------------------------------------------------------------
(* A task run: from the invocation on. *)

\* Fields of the controller other than its place change.
LEMMA InsideKeeps ==
  ASSUME RunInv, UNCHANGED <<mode, artifact>>, faults' \in 0..MaxFaults, NEW row, row.status = NoStatus, Wrote(row),
         ctl.at \in {"invoke", "inside", "persist", "persist_again"}, RunTypeInv', ctl'.invoked = 1,
         ctl'.at \in {"inside", "persist", "persist_again", "receipt", "failure_receipt"}
                     \cup IF mode = "enforcing" THEN {} ELSE {"check", "raised"},
         ctl'.returned = ctl.returned, ctl'.at = "inside" => ctl'.seen = 0,
         ctl'.at \in {"persist", "receipt", "check"} => ctl'.result # "none"
  PROVE  RunInv'
<1>1. /\ CurrentStatus(ledger') = CurrentStatus(ledger)
      /\ \A t : Has(ledger, t) => Has(ledger', t)
      /\ \A t, v : Says(ledger, t, v) => Says(ledger', t, v)
  BY WroteKeeps DEF RunInv, RunTypeInv
<1>2. CurrentStatus(ledger) = "running" /\ ctl.returned = "none"
  BY DEF RunInv, PlaceInv, SuccessInv, Starting, Invoked
<1>3. \A places \in SUBSET Preparing : Past(places)
  BY DEF Past, Preparing, RunInv, PlaceInv, Starting, Invoked
<1>4. EvidenceInv'
  <2>1. /\ {"select"} \in SUBSET Preparing /\ {"select", "bind"} \in SUBSET Preparing
        /\ {"select", "bind", "admit"} \in SUBSET Preparing
        /\ {"select", "bind", "admit", "admitted", "admission_receipt"} \in SUBSET Preparing
    BY DEF Preparing
  <2> QED
    BY <1>1, <1>3, <2>1 DEF RunInv, EvidenceInv, Selected
<1>5. PlaceInv' /\ ReceiptInv' /\ SuccessInv'
  BY <1>1, <1>2 DEF PlaceInv, ReceiptInv, SuccessInv, Preparing, Starting, Invoked, Publishing, Finalizing
<1> QED
  BY <1>4, <1>5 DEF RunInv

LEMMA NothingWritten ==
  ASSUME ledger' = ledger
  PROVE  Row("none", "none").status = NoStatus /\ Wrote(Row("none", "none"))
  BY RowFields DEF Wrote

LEMMA InvokeKeeps ==
  ASSUME RunInv, Invoke
  PROVE  RunInv'
<1>1. /\ ctl.at = "invoke" /\ UNCHANGED <<mode, ledger, artifact, faults>>
      /\ ctl' = [ctl EXCEPT !.at = "inside", !.invoked = @ + 1]
  BY DEF Invoke, Alone
<1>2. ctl.invoked = 0 /\ ctl.seen = 0 /\ RunTypeInv
  BY <1>1 DEF RunInv, PlaceInv, Starting
<1>3. ctl' = [ctl EXCEPT !.at = "inside", !.invoked = 1]
  BY <1>1, <1>2 DEF RunTypeInv
<1>4. "inside" \in RunPlaces /\ 1 \in 0..1
  BY DEF RunPlaces, Invoked
<1>5. /\ ctl' \in RunControllers(ctl.end) /\ ctl'.end = ctl.end
      /\ ctl'.invoked = 1 /\ ctl'.at = "inside" /\ ctl'.returned = ctl.returned /\ ctl'.seen = 0
  <2>1. ctl \in RunControllers(ctl.end) /\ ctl.seen = 0
    BY <1>2 DEF RunTypeInv
  <2> QED
    BY <1>3, <1>4, <2>1 DEF RunControllers
<1>6. RunTypeInv'
  <2>1. ctl'.seen <= ctl'.emitted
    BY <1>5 DEF RunControllers
  <2> QED
    BY <1>1, <1>2, <1>5, <2>1 DEF RunTypeInv
<1> QED
  BY <1>1, <1>2, <1>5, <1>6, NothingWritten, InsideKeeps DEF RunTypeInv

LEMMA RunnerReturnsKeeps ==
  ASSUME RunInv, RunnerReturns
  PROVE  RunInv'
<1>1. PICK emitted \in 0..MaxObservations, result \in Results :
        ctl' = [ctl EXCEPT !.at = "persist", !.emitted = emitted, !.result = result]
  BY DEF RunnerReturns
<1>2. ctl.at = "inside" /\ UNCHANGED <<mode, ledger, artifact, faults>>
  BY DEF RunnerReturns, Alone
<1>3. ctl.invoked = 1 /\ ctl.seen = 0 /\ RunTypeInv
  BY <1>2 DEF RunInv, PlaceInv, Invoked
<1>4. "persist" \in RunPlaces /\ emitted \in Nat /\ result # "none"
  BY TaskRunAssumption DEF RunPlaces, Invoked, Results
<1>5. /\ ctl' \in RunControllers(ctl.end) /\ ctl'.end = ctl.end /\ ctl'.seen = 0 /\ ctl'.emitted \in Nat
      /\ ctl'.invoked = 1 /\ ctl'.at = "persist" /\ ctl'.returned = ctl.returned /\ ctl'.result # "none"
  BY <1>1, <1>3, <1>4 DEF RunTypeInv, RunControllers
<1>6. RunTypeInv'
  BY <1>2, <1>3, <1>5 DEF RunTypeInv
<1> QED
  BY <1>2, <1>3, <1>5, <1>6, NothingWritten, InsideKeeps DEF RunTypeInv

LEMMA RunnerRaisesKeeps ==
  ASSUME RunInv, RunnerRaises
  PROVE  RunInv'
<1>1. PICK emitted \in 0..MaxObservations, kind \in Kinds \cup {"refused"} :
        ctl' = [ctl EXCEPT !.at = "persist_again", !.emitted = emitted, !.err = kind]
  BY DEF RunnerRaises
<1>2. ctl.at = "inside" /\ UNCHANGED <<mode, ledger, artifact, faults>>
  BY DEF RunnerRaises, Alone
<1>3. ctl.invoked = 1 /\ ctl.seen = 0 /\ RunTypeInv
  BY <1>2 DEF RunInv, PlaceInv, Invoked
<1>4. "persist_again" \in RunPlaces /\ emitted \in Nat
  BY TaskRunAssumption DEF RunPlaces, Invoked
<1>5. /\ ctl' \in RunControllers(ctl.end) /\ ctl'.end = ctl.end /\ ctl'.seen = 0 /\ ctl'.emitted \in Nat
      /\ ctl'.invoked = 1 /\ ctl'.at = "persist_again" /\ ctl'.returned = ctl.returned
  BY <1>1, <1>3, <1>4 DEF RunTypeInv, RunControllers
<1>6. RunTypeInv'
  BY <1>2, <1>3, <1>5 DEF RunTypeInv
<1> QED
  BY <1>2, <1>3, <1>5, <1>6, NothingWritten, InsideKeeps DEF RunTypeInv

LEMMA PersistObservationKeeps ==
  ASSUME RunInv, PersistObservation
  PROVE  RunInv'
<1>1. ctl.at \in {"persist", "persist_again"} /\ UNCHANGED <<mode, artifact>>
  BY DEF PersistObservation, Alone
<1>2. ctl.invoked = 1 /\ RunTypeInv
  BY <1>1 DEF RunInv, PlaceInv, Invoked
<1>3. /\ {"receipt", "check", "failure_receipt", "raised", "persist_again"} \subseteq RunPlaces
      /\ Persisted \in {"receipt", "failure_receipt"} \cup IF mode = "enforcing" THEN {} ELSE {"check", "raised"}
      /\ Persisted \in {"receipt", "check"} <=> ctl.at = "persist"
      /\ ctl.at = "persist" => ctl.result # "none"
  BY <1>1 DEF RunPlaces, Invoked, Persisted, RunInv, SuccessInv
<1>4. CASE ctl.seen = ctl.emitted
  <2>1. Moved(Persisted) /\ UNCHANGED <<ledger, faults>>
    BY <1>4 DEF PersistObservation, Goes, Moved
  <2>2. /\ ctl' \in RunControllers(ctl'.end) /\ ctl'.seen <= ctl'.emitted /\ ctl'.at = Persisted
        /\ ctl'.invoked = 1 /\ ctl'.returned = ctl.returned /\ ctl'.result = ctl.result
    BY <1>2, <1>3, <2>1, MovedMeans
  <2>3. RunTypeInv'
    BY <1>1, <1>2, <2>1, <2>2 DEF RunTypeInv
  <2> QED
    BY <1>1, <1>2, <1>3, <2>1, <2>2, <2>3, NothingWritten, InsideKeeps DEF RunTypeInv
<1>5. CASE ctl.seen # ctl.emitted
  <2> DEFINE row == Observation(ctl.seen + 1)
  <2>1. PICK w \in Writes :
          /\ Pays(w)
          /\ ledger' = IF w.kept /\ \A i \in Rows(ledger, "observed") : ledger[i].n # ctl.seen + 1
                       THEN Append(ledger, row) ELSE ledger
          /\ ctl' = CASE w.raised = "none" -> [ctl EXCEPT !.seen = @ + 1]
                      [] w.raised # "none" /\ ctl.at = "persist" ->
                           [ctl EXCEPT !.at = "persist_again", !.err = w.raised, !.broken = TRUE]
                      [] w.raised # "none" /\ ctl.at = "persist_again" ->
                           [ctl EXCEPT !.at = Persisted, !.err = w.raised, !.broken = TRUE]
    BY <1>5 DEF PersistObservation
  <2>2. row.status = NoStatus
    BY RowFields DEF Observation
  <2> HIDE DEF row
  <2>3. Wrote(row)
    BY <1>2, <2>1, <2>2, AppendGains DEF Wrote, RunTypeInv
  <2>4. faults' \in 0..MaxFaults
    BY <1>2, <2>1, Bounded
  <2>5. ctl.seen + 1 \in Nat /\ ctl.seen + 1 <= ctl.emitted /\ ctl \in RunControllers(ctl.end) /\ ctl.emitted \in Nat
    BY <1>2, <1>5 DEF RunTypeInv, RunControllers
  <2>6. w.raised \in Kinds \cup {"none"}
    BY DEF Writes
  <2>7. /\ ctl' \in RunControllers(ctl.end) /\ ctl'.end = ctl.end /\ ctl'.seen <= ctl'.emitted
        /\ ctl'.invoked = 1 /\ ctl'.returned = ctl.returned
        /\ ctl'.result = ctl.result
        /\ ctl'.at \in {"persist_again", Persisted} \/ ctl'.at = ctl.at
        /\ ctl'.at = Persisted => ctl.at = "persist_again"
    <3>1. CASE w.raised = "none"
      <4>1. ctl' = [ctl EXCEPT !.seen = ctl.seen + 1]
        BY <2>1, <2>5, <3>1 DEF RunControllers
      <4> QED
        BY <1>1, <1>2, <1>3, <2>5, <4>1 DEF RunControllers
    <3>2. CASE w.raised # "none" /\ ctl.at = "persist"
      BY <1>2, <1>3, <2>1, <2>5, <2>6, <3>2 DEF RunControllers, RunTypeInv
    <3>3. CASE w.raised # "none" /\ ctl.at = "persist_again"
      <4>1. Persisted \in RunPlaces
        BY <1>3
      <4> QED
        BY <1>2, <2>1, <2>5, <2>6, <3>3, <4>1 DEF RunControllers, RunTypeInv
    <3> QED
      BY <1>1, <1>3, <3>1, <3>2, <3>3
  <2>8. RunTypeInv'
    BY <1>1, <1>2, <2>2, <2>3, <2>4, <2>7, WroteKeeps DEF RunTypeInv
  <2> QED
    BY <1>1, <1>3, <2>2, <2>3, <2>4, <2>7, <2>8, InsideKeeps
<1> QED
  BY <1>4, <1>5

LEMMA Receipted1 ==
  ASSUME RunInv, ctl.at \in {"check", "raised"} \cup Finalizing
  PROVE  /\ mode = "enforcing" => Has(ledger, "dispatch_receipt")
         /\ ctl.at \in Invoked /\ ctl.at # "over" /\ ctl.invoked = 1 /\ RunTypeInv /\ History(ledger)
         /\ artifact \in BOOLEAN /\ faults \in 0..MaxFaults
         /\ CurrentStatus(ledger) = "running" /\ ctl.returned = "none"
  BY DEF RunInv, RunTypeInv, ReceiptInv, PlaceInv, SuccessInv, Invoked, Finalizing, Publishing

LEMMA LaterHalts ==
  ASSUME RunInv, ctl.at \in {"check", "raised"} \cup Finalizing, mode' = mode, artifact' \in BOOLEAN,
         faults' \in 0..MaxFaults, NEW row, row.status = NoStatus, Wrote(row),
         Moved("over") \/ \E end : Halted(end)
  PROVE  RunInv'
<1>1. PICK end : Halted(end) \/ Moved("over")
  OBVIOUS
<1>2. mode = "enforcing" => Has(ledger', "dispatch_receipt")
  BY Receipted1, WroteKeeps
<1> QED
  BY <1>1, <1>2, Receipted1, HaltKeeps

LEMMA HandleRaisedKeeps ==
  ASSUME RunInv, HandleRaised
  PROVE  RunInv'
<1>1. ctl.at = "raised" /\ UNCHANGED <<mode, ledger, artifact>> /\ (Moved("over") \/ \E end : Halted(end))
  BY DEF HandleRaised, Alone, Goes, Moved, Stops, Halted
<1>2. faults' \in 0..MaxFaults
  BY LessThanBound DEF HandleRaised, RunInv
<1> QED
  BY <1>1, <1>2, NothingWritten, Receipted1, LaterHalts

LEMMA RecordDispatchKeeps ==
  ASSUME RunInv, RecordDispatch
  PROVE  RunInv'
<1> DEFINE row == Row("dispatch_receipt", IF ctl.at = "receipt" THEN ReceiptOutcome
                                          ELSE IF ctl.err = "interrupt" THEN "cancelled" ELSE "failed")
<1>1. PICK w \in Writes :
        /\ Pays(w) /\ Writing(row, w)
        /\ IF w.raised # "none" THEN Stops(ReceiptEnd(w.raised))
           ELSE Goes(IF ctl.at = "receipt" THEN "check" ELSE "raised")
  BY DEF RecordDispatch
<1>2. ctl.at \in {"receipt", "failure_receipt"} /\ mode' = mode /\ artifact' = artifact
  BY DEF RecordDispatch, Alone
<1>3. row.status = NoStatus /\ row.type = "dispatch_receipt"
  BY RowFields
<1> HIDE DEF row
<1>4. RunTypeInv /\ History(ledger) /\ artifact \in BOOLEAN /\ ctl.at # "over" /\ ctl.at \in Invoked
  BY <1>2 DEF RunInv, RunTypeInv, Invoked
<1>5. Wrote(row) /\ (w.kept => Gained(ledger, ledger', row)) /\ faults' \in 0..MaxFaults
  BY <1>1, <1>3, <1>4, WritingMeans, Bounded DEF Wrote
<1>6. CASE w.raised # "none"
  <2>1. Halted(ReceiptEnd(w.raised)) /\ ReceiptEnd(w.raised).status = "quarantined"
    BY <1>1, <1>6 DEF Stops, Halted, ReceiptEnd, End
  <2> QED
    BY <1>2, <1>3, <1>4, <1>5, <2>1, HaltKeeps
<1>7. CASE w.raised = "none"
  <2> DEFINE next == IF ctl.at = "receipt" THEN "check" ELSE "raised"
  <2>1. Moved(next) /\ Gained(ledger, ledger', row)
    BY <1>1, <1>5, <1>7 DEF Goes, Moved, Writes
  <2>2. Has(ledger', "dispatch_receipt")
    BY <1>3, <2>1 DEF Gained
  <2>3. /\ next \in Invoked \ {"inside"} /\ next \notin Publishing \cup Finalizing
        /\ next \in {"persist", "receipt", "check"} => ctl.result # "none"
    BY DEF Invoked, Publishing, Finalizing, RunInv, SuccessInv
  <2> HIDE DEF next
  <2> QED
    BY <1>2, <1>3, <1>4, <1>5, <2>1, <2>2, <2>3, GoOnKeeps DEF Finalizing
<1> QED
  BY <1>6, <1>7

LEMMA CheckResultKeeps ==
  ASSUME RunInv, CheckResult
  PROVE  RunInv'
<1>1. /\ ctl.at = "check" /\ UNCHANGED <<mode, ledger, artifact>>
      /\ \/ Moved("over") \/ \E end : Halted(end)
         \/ Moved("accounting") /\ ctl.result \notin {"misidentified", "untyped"}
  BY DEF CheckResult, Alone, Goes, Moved, Stops, Halted
<1>2. faults' \in 0..MaxFaults
  BY LessThanBound DEF CheckResult, RunInv
<1>3. CASE Moved("over") \/ \E end : Halted(end)
  BY <1>1, <1>2, <1>3, NothingWritten, Receipted1, LaterHalts
<1>4. CASE Moved("accounting") /\ ctl.result \notin {"misidentified", "untyped"}
  <2>1. "accounting" \in Invoked \ {"inside"} /\ "accounting" \in Finalizing /\ "accounting" \notin Publishing
    BY DEF Invoked, Finalizing, Publishing
  <2>2. ctl.result \in Results \ {"misidentified", "untyped"}
    BY <1>1, <1>4 DEF RunInv, SuccessInv, RunTypeInv, RunControllers
  <2> QED
    BY <1>1, <1>2, <1>4, <2>1, <2>2, NothingWritten, Receipted1, GoOnKeeps
<1> QED
  BY <1>1, <1>3, <1>4

LEMMA RecordAccountingKeeps ==
  ASSUME RunInv, RecordAccounting
  PROVE  RunInv'
<1> DEFINE row == [Row("accounting", StatusIn(ctl.result)) EXCEPT !.n = ctl.emitted]
           next == IF ctl.result = "succeeded" THEN "prepare" ELSE "finish"
<1>1. PICK w \in Writes :
        /\ Pays(w) /\ Writing(row, w)
        /\ IF w.raised # "none" THEN Stops(FinalFailure(w.raised)) ELSE Goes(next)
  BY DEF RecordAccounting
<1>2. ctl.at = "accounting" /\ ctl.at \in Finalizing /\ mode' = mode /\ artifact' = artifact
  BY DEF RecordAccounting, Alone, Finalizing
<1>3. row.status = NoStatus
  BY DEF Row
<1>4. next \in {"prepare", "finish"} /\ (next = "prepare" <=> ctl.result = "succeeded")
  OBVIOUS
<1> HIDE DEF row, next
<1>5. Wrote(row) /\ faults' \in 0..MaxFaults
  BY <1>1, <1>2, Receipted1, WritingMeans, Bounded DEF Wrote
<1>6. Moved(next) \/ \E end : Halted(end)
  BY <1>1 DEF Goes, Moved, Stops, Halted
<1>7. CASE \E end : Halted(end)
  BY <1>2, <1>3, <1>5, <1>7, Receipted1, LaterHalts
<1>8. CASE Moved(next)
  <2>1. /\ next \in Invoked \ {"inside"} /\ next \in Finalizing /\ (next \in Publishing => next = "prepare")
        /\ next \notin {"persist", "receipt", "check"}
    BY <1>4 DEF Invoked, Finalizing, Publishing
  <2>2. ctl.result \in Results \ {"misidentified", "untyped"}
    BY <1>2 DEF RunInv, SuccessInv
  <2>3. mode = "enforcing" => Has(ledger', "dispatch_receipt")
    BY <1>2, <1>5, Receipted1, WroteKeeps
  <2> QED
    BY <1>2, <1>3, <1>4, <1>5, <1>8, <2>1, <2>2, <2>3, Receipted1, GoOnKeeps
<1> QED
  BY <1>6, <1>7, <1>8

\* From the preparation to the effect the publication goes on, or is given up.
LEMMA PublishingGoesOn ==
  ASSUME RunInv, ctl.at \in Publishing, mode' = mode, artifact' = artifact, faults' \in 0..MaxFaults,
         NEW row, row.status = NoStatus, Wrote(row),
         \/ \E end : Halted(end)
         \/ \E next \in Publishing : Moved(next)
  PROVE  RunInv'
<1>1. ctl.at \in Finalizing /\ Publishing \subseteq Finalizing /\ Finalizing \subseteq Invoked \ {"inside"}
  BY DEF Publishing, Finalizing, Invoked
<1>2. CASE \E end : Halted(end)
  BY <1>1, <1>2, Receipted1, LaterHalts
<1>3. CASE \E next \in Publishing : Moved(next)
  <2>1. PICK next \in Publishing : Moved(next)
    BY <1>3
  <2>2. next \in Invoked \ {"inside"} /\ next \in Finalizing /\ next # "finish" /\ next \notin {"persist", "receipt", "check"}
    BY DEF Publishing, Finalizing, Invoked
  <2>3. ctl.result = "succeeded" /\ ctl.result \in Results \ {"misidentified", "untyped"}
    BY <1>1 DEF RunInv, SuccessInv
  <2>4. mode = "enforcing" => Has(ledger', "dispatch_receipt")
    BY <1>1, Receipted1, WroteKeeps
  <2> QED
    BY <1>1, <2>1, <2>2, <2>3, <2>4, Receipted1, GoOnKeeps
<1> QED
  BY <1>2, <1>3

LEMMA PublishingTyped ==
  ASSUME RunInv, ctl.at \in Publishing
  PROVE  History(ledger) /\ RunTypeInv
  BY DEF RunInv, RunTypeInv

LEMMA PreparePublicationKeeps ==
  ASSUME RunInv, PreparePublication
  PROVE  RunInv'
<1>1. /\ ctl.at = "prepare" /\ UNCHANGED <<mode, ledger, artifact, faults>>
      /\ Moved("publication_shadow") \/ \E end : Halted(end)
  BY DEF PreparePublication, Alone, Goes, Moved, Stops, Halted
<1>2. ctl.at \in Publishing /\ "publication_shadow" \in Publishing /\ faults' \in 0..MaxFaults
  BY <1>1 DEF Publishing, RunInv, RunTypeInv
<1> QED
  BY <1>1, <1>2, NothingWritten, PublishingGoesOn

LEMMA ObservePublicationKeeps ==
  ASSUME RunInv, ObservePublication
  PROVE  RunInv'
<1> DEFINE row == Row("publication_shadow", "observed")
           next == IF mode = "enforcing" THEN "publish_decision" ELSE "intent"
<1>1. PICK w \in Writes : /\ Pays(w) /\ Writing(row, w)
                          /\ IF w.raised = "interrupt" THEN Stops(FinalFailure("interrupt")) ELSE Goes(next)
  BY DEF ObservePublication
<1>2. row.status = NoStatus /\ next \in Publishing
  BY RowFields DEF Publishing
<1>3. ctl.at \in Publishing /\ mode' = mode /\ artifact' = artifact
  BY DEF ObservePublication, Alone, Publishing
<1> HIDE DEF row, next
<1>4. Wrote(row) /\ faults' \in 0..MaxFaults
  BY <1>1, <1>3, PublishingTyped, WritingMeans, Bounded DEF Wrote
<1>5. Moved(next) \/ \E end : Halted(end)
  BY <1>1 DEF Goes, Moved, Stops, Halted
<1> QED
  BY <1>2, <1>3, <1>4, <1>5, PublishingGoesOn

LEMMA DecidePublicationKeeps ==
  ASSUME RunInv, DecidePublication
  PROVE  RunInv'
<1>1. PICK d \in {"permit", "deny", "failed", "interrupted"}, w \in Writes :
        /\ Pays(w)
        /\ Writing(Row("publication_decision", IF d = "interrupted" THEN "failed" ELSE d), w)
        /\ CASE d = "interrupted" -> Stops(FinalFailure("interrupt"))
             [] d # "interrupted" /\ w.raised # "none" -> Stops(FinalFailure(w.raised))
             [] w.raised = "none" /\ d \in {"deny", "failed"} ->
                  Stops(End("blocked", "local_candidate_publication_authorization"))
             [] w.raised = "none" /\ d = "permit" -> Goes("intent")
  BY DEF DecidePublication
<1> DEFINE row == Row("publication_decision", IF d = "interrupted" THEN "failed" ELSE d)
<1>2. row.status = NoStatus /\ "intent" \in Publishing
  BY RowFields DEF Publishing
<1>3. ctl.at \in Publishing /\ mode' = mode /\ artifact' = artifact
  BY DEF DecidePublication, Alone, Publishing
<1>4. Writing(row, w)
  BY <1>1
<1> HIDE DEF row
<1>5. Wrote(row) /\ faults' \in 0..MaxFaults
  BY <1>1, <1>3, <1>4, PublishingTyped, WritingMeans, Bounded DEF Wrote
<1>6. Moved("intent") \/ \E end : Halted(end)
  <2>1. CASE d = "interrupted" \/ w.raised # "none" \/ d \in {"deny", "failed"}
    BY <1>1, <2>1 DEF Stops, Halted
  <2>2. CASE w.raised = "none" /\ d = "permit"
    BY <1>1, <2>2 DEF Goes, Moved
  <2> QED
    BY <2>1, <2>2
<1> QED
  BY <1>2, <1>3, <1>5, <1>6, PublishingGoesOn

LEMMA RecordIntentKeeps ==
  ASSUME RunInv, RecordIntent
  PROVE  RunInv'
<1> DEFINE row == Row("intent", IF Has(ledger, "publication_shadow") THEN "shadowed" ELSE "unshadowed")
<1>1. PICK w \in Writes : /\ Pays(w) /\ Writing(row, w)
                          /\ IF w.raised # "none" THEN Stops(FinalFailure(w.raised)) ELSE Goes("publish")
  BY DEF RecordIntent
<1>2. row.status = NoStatus /\ "publish" \in Publishing
  BY RowFields DEF Publishing
<1>3. ctl.at \in Publishing /\ mode' = mode /\ artifact' = artifact
  BY DEF RecordIntent, Alone, Publishing
<1> HIDE DEF row
<1>4. Wrote(row) /\ faults' \in 0..MaxFaults
  BY <1>1, <1>3, PublishingTyped, WritingMeans, Bounded DEF Wrote
<1>5. Moved("publish") \/ \E end : Halted(end)
  BY <1>1 DEF Goes, Moved, Stops, Halted
<1> QED
  BY <1>2, <1>3, <1>4, <1>5, PublishingGoesOn

LEMMA PublishKeeps ==
  ASSUME RunInv, Publish
  PROVE  RunInv'
<1>1. ctl.at = "publish" /\ ctl.at \in Publishing /\ ctl.at \in Finalizing /\ mode' = mode
  BY DEF Publish, Publishing, Finalizing
<1>2. RunTypeInv /\ History(ledger)
  BY <1>1, PublishingTyped
<1>3. faults' \in 0..MaxFaults
  BY <1>2, LessThanBound DEF Publish
<1>4. artifact' \in BOOLEAN
  BY <1>2 DEF Publish, RunTypeInv
<1>5. CASE ledger' = Append(ledger, Row("receipt", "succeeded")) /\ artifact' = TRUE /\ Goes("finish")
  <2> DEFINE row == Row("receipt", "succeeded")
  <2>1. row.type = "receipt" /\ row.value = "succeeded" /\ row.status = NoStatus
    BY RowFields
  <2>2. ledger' = Append(ledger, row)
    BY <1>5
  <2> HIDE DEF row
  <2>3. Gained(ledger, ledger', row)
    BY <1>2, <2>1, <2>2, AppendGains
  <2>4. Says(ledger', "receipt", "succeeded") /\ Wrote(row)
    BY <2>1, <2>3 DEF Gained, Wrote
  <2>5. mode = "enforcing" => Has(ledger', "dispatch_receipt")
    BY <1>1, <2>1, <2>4, Receipted1, WroteKeeps
  <2>6. /\ "finish" \in Invoked \ {"inside"} /\ "finish" \in Finalizing /\ "finish" \notin Publishing
        /\ "finish" \notin {"persist", "receipt", "check"}
    BY DEF Invoked, Finalizing, Publishing
  <2>7. ctl.result \in Results \ {"misidentified", "untyped"} /\ Moved("finish")
    BY <1>1, <1>5 DEF RunInv, SuccessInv, Goes, Moved
  <2> QED
    BY <1>1, <1>3, <1>4, <1>5, <2>1, <2>4, <2>5, <2>6, <2>7, Receipted1, GoOnKeeps
<1>6. CASE /\ \E end : Halted(end)
           /\ ledger' = ledger \/ \E value : ledger' = Append(ledger, Row("receipt", value))
  <2>1. \E value : Wrote(Row("receipt", value))
    <3>1. CASE ledger' = ledger
      BY <3>1 DEF Wrote
    <3>2. CASE \E value : ledger' = Append(ledger, Row("receipt", value))
      <4>1. PICK value : ledger' = Append(ledger, Row("receipt", value))
        BY <3>2
      <4> DEFINE row == Row("receipt", value)
      <4>2. row.status = NoStatus /\ ledger' = Append(ledger, row)
        BY <4>1 DEF Row
      <4> HIDE DEF row
      <4>3. Wrote(row)
        BY <1>2, <4>2, AppendGains DEF Wrote
      <4> QED
        BY <4>3 DEF row
    <3> QED
      BY <1>6, <3>1, <3>2
  <2>2. PICK value : Wrote(Row("receipt", value))
    BY <2>1
  <2>3. Row("receipt", value).status = NoStatus
    BY RowFields
  <2> QED
    BY <1>1, <1>3, <1>4, <1>6, <2>2, <2>3, LaterHalts
<1> QED
  <2>1. \/ ledger' = Append(ledger, Row("receipt", "succeeded")) /\ artifact' = TRUE /\ Goes("finish")
        \/ /\ \E end : Halted(end)
           /\ ledger' = ledger \/ \E value : ledger' = Append(ledger, Row("receipt", value))
    BY DEF Publish, Stops, Halted
  <2> QED
    BY <2>1, <1>5, <1>6

-----------------------------------------------------------------------------
(* A task run: its end. *)

\* A row of any status, and the run is over or comes to its terminal event.
LEMMA EndKeeps ==
  ASSUME RunInv, ctl.at # "over", mode' = mode, NEW row, Wrote(row), RunTypeInv', ctl'.at \in {"stop", "over"},
         ctl'.invoked = ctl.invoked, ReceiptInv', SuccessInv'
  PROVE  RunInv'
<1>1. /\ \A t : Has(ledger, t) => Has(ledger', t)
      /\ \A t, v : Says(ledger, t, v) => Says(ledger', t, v)
  BY WroteKeeps DEF RunInv, RunTypeInv
<1>2. EvidenceInv'
  <2>1. \A places : Past(places)' => Past(places)
    BY DEF Past
  <2> QED
    BY <1>1, <2>1 DEF RunInv, EvidenceInv, Selected
<1>3. PlaceInv'
  BY DEF PlaceInv, Preparing, Starting, Invoked, Publishing, Finalizing
<1> QED
  BY <1>2, <1>3 DEF RunInv

LEMMA FinishKeeps ==
  ASSUME RunInv, Finish
  PROVE  RunInv'
<1> DEFINE row == [StatusRow("terminal", FinalStatus, "result") EXCEPT
                     !.observed = IF FinalStatus = "succeeded" THEN "true" ELSE "false"]
<1>1. PICK w \in Writes :
        /\ Pays(w) /\ Writing(row, w)
        /\ IF w.raised = "none" THEN ctl' = [ctl EXCEPT !.at = "over", !.returned = FinalStatus]
           ELSE Stops(IF FinalStatus = "succeeded" THEN Uncertain("true") ELSE FinalFailure(w.raised))
  BY DEF Finish
<1>2. /\ ctl.at = "finish" /\ ctl.at \in Finalizing /\ mode' = mode /\ artifact' = artifact
      /\ ctl.result \in Results \ {"misidentified", "untyped"}
      /\ ctl.result = "succeeded" => artifact /\ Says(ledger, "receipt", "succeeded")
  BY DEF Finish, Alone, Finalizing, RunInv, SuccessInv
<1>3. FinalStatus \in Ends /\ (FinalStatus = "succeeded" => ctl.result = "succeeded")
  BY <1>2 DEF FinalStatus, Results, Ends
<1>4. row.status = FinalStatus
  BY DEF StatusRow, Row
<1>5. /\ mode = "enforcing" => Has(ledger, "dispatch_receipt")
      /\ ctl.at # "over" /\ ctl.invoked = 1 /\ RunTypeInv /\ History(ledger)
      /\ artifact \in BOOLEAN /\ CurrentStatus(ledger) = "running" /\ ctl.returned = "none"
  BY <1>2, Receipted1
<1>6. Writing(row, w)
  BY <1>1
<1> HIDE DEF row
<1>7. FinalStatus \in Transitions[CurrentStatus(ledger)] /\ FinalStatus # NoStatus
  BY <1>3, <1>5, Follow DEF Ends, NoStatus
<1>8. Wrote(row) /\ (w.kept => Gained(ledger, ledger', row)) /\ faults' \in 0..MaxFaults
  BY <1>1, <1>4, <1>5, <1>6, <1>7, WritingMeans, Bounded DEF Wrote
<1>9. /\ History(ledger')
      /\ \A t : Has(ledger, t) => Has(ledger', t)
      /\ \A t, v : Says(ledger, t, v) => Says(ledger', t, v)
  BY <1>5, <1>8, WroteKeeps
<1>10. CASE w.raised = "none"
  <2>1. CurrentStatus(ledger') = FinalStatus
    BY <1>4, <1>7, <1>8, <1>10 DEF Writes, Gained
  <2>2. /\ ctl' \in RunControllers(ctl'.end) /\ ctl'.seen <= ctl'.emitted
        /\ ctl'.at = "over" /\ ctl'.returned = FinalStatus /\ ctl'.invoked = ctl.invoked
    BY <1>1, <1>3, <1>5, <1>10 DEF RunTypeInv, RunControllers, RunPlaces
  <2>3. RunTypeInv'
    BY <1>2, <1>5, <1>8, <1>9, <2>2 DEF RunTypeInv
  <2>4. ReceiptInv'
    BY <1>2, <1>5, <1>9 DEF ReceiptInv
  <2>5. SuccessInv'
    BY <1>2, <1>3, <1>9, <2>1, <2>2 DEF SuccessInv, Publishing, Finalizing
  <2> QED
    BY <1>2, <1>5, <1>8, <2>2, <2>3, <2>4, <2>5, EndKeeps
<1>11. CASE w.raised # "none"
  <2>1. PICK end : Halted(end)
    BY <1>1, <1>11 DEF Stops, Halted
  <2>2. /\ ctl' \in RunControllers(ctl'.end) /\ ctl'.seen <= ctl'.emitted
        /\ ctl'.at = "stop" /\ ctl'.returned = "none" /\ ctl'.invoked = ctl.invoked
    BY <1>5, <2>1, HaltedMeans
  <2>3. RunTypeInv'
    BY <1>2, <1>5, <1>8, <1>9, <2>2 DEF RunTypeInv
  <2>4. ReceiptInv'
    BY <1>2, <1>5, <1>9 DEF ReceiptInv
  <2>5. SuccessInv'
    BY <2>2 DEF SuccessInv, Publishing, Finalizing
  <2> QED
    BY <1>2, <1>5, <1>8, <2>2, <2>3, <2>4, <2>5, EndKeeps
<1> QED
  BY <1>10, <1>11

LEMMA StopKeeps ==
  ASSUME RunInv, Stop
  PROVE  RunInv'
<1> DEFINE row == [StatusRow("terminal", ctl.end.status, ctl.end.phase) EXCEPT !.observed = ctl.end.observed]
<1>1. PICK w \in Writes :
        /\ Pays(w)
        /\ IF CurrentStatus(ledger) \in {"created", "running"} THEN Writing(row, w) ELSE UNCHANGED ledger
  BY DEF Stop
<1>2. /\ ctl.at = "stop" /\ mode' = mode /\ artifact' = artifact
      /\ Halted(End("quarantined", "result_finalization")) \/ Moved("over")
  BY DEF Stop, Alone, Stops, Halted, Goes, Moved
<1>3. row.status = ctl.end.status
  BY DEF StatusRow, Row
<1>4. RunTypeInv /\ History(ledger) /\ ctl.returned = "none"
  BY <1>2 DEF RunInv, RunTypeInv, SuccessInv
<1>5. IF CurrentStatus(ledger) \in {"created", "running"} THEN Writing(row, w) ELSE UNCHANGED ledger
  BY <1>1
<1> HIDE DEF row
<1>6. /\ Wrote(row) /\ faults' \in 0..MaxFaults
      /\ CurrentStatus(ledger) \notin {"created", "running"} => ledger' = ledger
  BY <1>1, <1>4, <1>5, WritingMeans, Bounded DEF Wrote
<1>7. /\ ctl' \in RunControllers(ctl'.end) /\ ctl'.seen <= ctl'.emitted
      /\ ctl'.returned = ctl.returned /\ ctl'.invoked = ctl.invoked
      /\ \/ ctl'.at = "stop" /\ ctl'.end.status = "quarantined"
         \/ ctl'.at = "over"
  <2>1. End("quarantined", "result_finalization").status = "quarantined" /\ "over" \in RunPlaces
    BY DEF End, RunPlaces
  <2>2. CASE Moved("over")
    BY <1>4, <2>1, <2>2, MovedMeans
  <2>3. CASE Halted(End("quarantined", "result_finalization"))
    BY <1>4, <2>1, <2>3, HaltedMeans
  <2> QED
    BY <1>2, <2>2, <2>3
<1>8. RunTypeInv'
  BY <1>2, <1>4, <1>6, <1>7, WroteKeeps DEF RunTypeInv
<1>9. ReceiptInv'
  <2>1. SUFFICES ASSUME mode = "enforcing", ctl.invoked = 1, ~ Has(ledger', "dispatch_receipt")
                 PROVE  CurrentStatus(ledger') \in {"running", "quarantined"}
    BY <1>2, <1>7 DEF ReceiptInv
  <2>2. ~ Has(ledger, "dispatch_receipt")
    BY <1>4, <1>6, <2>1, WroteKeeps
  <2>3. /\ CurrentStatus(ledger) \in {"running", "quarantined"}
        /\ CurrentStatus(ledger) = "running" => ctl.end.status = "quarantined"
    BY <1>2, <2>1, <2>2 DEF RunInv, ReceiptInv
  <2> QED
    BY <1>3, <1>6, <2>3 DEF Wrote, Gained
<1>10. SuccessInv'
  BY <1>4, <1>7 DEF SuccessInv, Publishing, Finalizing
<1> QED
  BY <1>2, <1>6, <1>7, <1>8, <1>9, <1>10, EndKeeps

LEMMA CrashKeeps ==
  ASSUME RunInv, Crash
  PROVE  RunInv'
<1>1. /\ ctl.at # "over" /\ UNCHANGED <<mode, ledger, artifact>> /\ Moved("over")
  BY DEF Crash, Alone, Goes, Moved
<1>2. RunTypeInv /\ artifact' \in BOOLEAN
  BY <1>1 DEF RunInv, RunTypeInv
<1>3. faults' \in 0..MaxFaults
  BY <1>2, LessThanBound DEF Crash
<1>4. ~ Halted(NoEnd)
  <2>1. "over" \in RunPlaces
    BY DEF RunPlaces
  <2>2. ctl'.at = "over"
    BY <1>1, <1>2, <2>1, MovedMeans
  <2> QED
    BY <1>2, <2>2, HaltedMeans
<1> QED
  BY <1>1, <1>2, <1>3, <1>4, NothingWritten, HaltKeeps

LEMMA RunInvInitial ==
  ASSUME Init
  PROVE  mode \in Modes /\ RunInv
<1>1. ledger = Created
  BY DEF Init, Created
<1>2. /\ mode \in Modes /\ artifact = FALSE /\ faults = 0
      /\ ctl = [at |-> IF Selected THEN "select" ELSE "bind", end |-> NoEnd, err |-> "none", invoked |-> 0,
                emitted |-> 0, seen |-> 0, result |-> "none", broken |-> FALSE, returned |-> "none"]
  BY DEF Init
<1>3. RunTypeInv
  <2>1. (IF Selected THEN "select" ELSE "bind") \in RunPlaces
    BY DEF RunPlaces, Preparing
  <2>2. ctl \in RunControllers(ctl.end) /\ ctl.seen <= ctl.emitted
    BY <1>2, <2>1 DEF RunControllers
  <2>3. History(ledger)
    BY <1>1, CreatedMeans
  <2>4. mode \in Modes /\ artifact \in BOOLEAN /\ faults \in 0..MaxFaults
    <3>1. faults = 0 /\ MaxFaults \in Nat /\ artifact = FALSE /\ mode \in Modes
      BY <1>2, TaskRunAssumption
    <3>2. faults \in 0..MaxFaults
      BY <3>1
    <3>3. artifact \in BOOLEAN
      BY <3>1, Zenon
    <3> QED
      BY <3>1, <3>2, <3>3
  <2> QED
    BY <2>2, <2>3, <2>4 DEF RunTypeInv
<1>4. ctl.at \in {"select", "bind"} /\ ctl.invoked = 0 /\ (Selected => ctl.at = "select")
  BY <1>2
<1>5. EvidenceInv
  BY <1>4 DEF EvidenceInv, Past, Preparing, Selected
<1>6. PlaceInv /\ ReceiptInv /\ SuccessInv
  BY <1>1, <1>2, <1>4, CreatedMeans DEF PlaceInv, ReceiptInv, SuccessInv, Preparing, Starting, Invoked, Publishing,
     Finalizing
<1> QED
  BY <1>2, <1>3, <1>5, <1>6 DEF RunInv

LEMMA RunInvKept ==
  ASSUME RunInv, Next
  PROVE  RunInv' /\ mode' = mode
<1>1. mode' = mode
  BY DEF Next, RecordSelection, RecordBinding, DecideAdmission, ConfirmAdmission, RecordAdmission, ObserveAdmission,
     InspectBilling, RecordBilling, DecideDispatch, AssertCurrent, RecordRunning, ObserveDispatch, Invoke,
     RunnerReturns, RunnerRaises, PersistObservation, HandleRaised, RecordDispatch, CheckResult, RecordAccounting,
     PreparePublication, ObservePublication, DecidePublication, RecordIntent, Publish, Finish, Stop, Crash,
     Requires, Observes, Decides, Alone
<1>2. RunInv'
  BY RecordSelectionKeeps, RecordBindingKeeps, DecideAdmissionKeeps, ConfirmAdmissionKeeps, RecordAdmissionKeeps,
     ObserveAdmissionKeeps, InspectBillingKeeps, RecordBillingKeeps, DecideDispatchKeeps, AssertCurrentKeeps,
     RecordRunningKeeps, ObserveDispatchKeeps, InvokeKeeps, RunnerReturnsKeeps, RunnerRaisesKeeps,
     PersistObservationKeeps, HandleRaisedKeeps, RecordDispatchKeeps, CheckResultKeeps, RecordAccountingKeeps,
     PreparePublicationKeeps, ObservePublicationKeeps, DecidePublicationKeeps, RecordIntentKeeps, PublishKeeps,
     FinishKeeps, StopKeeps, CrashKeeps DEF Next
<1> QED
  BY <1>1, <1>2

\* What the invariant says of a run.
LEMMA RunInvMeans ==
  ASSUME mode \in Modes, RunInv
  PROVE  RunnerHasItsEvidence /\ OutcomeIsOnRecord
<1>1. RunnerHasItsEvidence
  <2>1. SUFFICES ASSUME ctl.invoked = 1
                 PROVE  /\ \A t \in {"binding", "billing", "running"} \cup (IF Selected THEN {"selection"} ELSE {}) :
                             Has(ledger, t)
                        /\ mode = "enforcing" =>
                             /\ Says(ledger, "admission_decision", "permit") /\ Has(ledger, "admission_receipt")
                             /\ Says(ledger, "dispatch_decision", "permit")
    BY DEF RunnerHasItsEvidence
  <2>2. \A places : Past(places)
    BY <2>1 DEF Past
  <2> QED
    BY <2>2 DEF RunInv, EvidenceInv
<1>2. TypeOK
  <2>1. ledger # <<>> /\ \A i \in DOMAIN ledger : ledger[i].status \in Statuses \cup {NoStatus}
    BY DEF RunInv, RunTypeInv, History, Bearing
  <2> QED
    BY <2>1 DEF TypeOK, RunInv, RunTypeInv, RunControllers
<1>3. ReportsWhatIsRecorded /\ UnreceiptedIsQuarantined
  BY DEF RunInv, ReceiptInv, SuccessInv, ReportsWhatIsRecorded, UnreceiptedIsQuarantined
<1>4. AbandonedIsReported
  <2>1. SUFFICES ASSUME ctl.invoked = 1, ~ Has(ledger, "terminal")
                 PROVE  "incomplete" \in Issues(ledger, artifact)
    BY DEF AbandonedIsReported
  <2>2. Bound(ledger) /\ Has(ledger, "billing")
    BY <1>1, <2>1 DEF RunnerHasItsEvidence, Bound
  <2>3. Incomplete(ledger)
    BY <2>1, <2>2 DEF Incomplete
  <2> QED
    BY <2>3 DEF Issues
<1> QED
  BY <1>2, <1>3, <1>4, <1>1 DEF OutcomeIsOnRecord

-----------------------------------------------------------------------------
(* A comparison: what its steps do. *)

\* All but the place of the controller is as it was.
Stays ==
  /\ ctl'.live = ctl.live /\ ctl'.exc = ctl.exc /\ ctl'.doubt = ctl.doubt /\ ctl'.shown = ctl.shown
  /\ ctl'.invoked = ctl.invoked /\ ctl'.emitted = ctl.emitted /\ ctl'.seen = ctl.seen /\ ctl'.result = ctl.result
  /\ ctl'.judged = ctl.judged /\ ctl'.cost = ctl.cost /\ ctl'.matches = ctl.matches
  /\ ctl'.accounted = ctl.accounted /\ ctl'.priced = ctl.priced /\ ctl'.broken = ctl.broken
  /\ ctl'.shadowed = ctl.shadowed /\ ctl'.listed = ctl.listed /\ ctl'.unknown = ctl.unknown /\ ctl'.stop = ctl.stop
  /\ ctl'.outcome = ctl.outcome /\ ctl'.returned = ctl.returned

\* The controller is still one.
Controls == ctl' \in TrialControllers(ctl'.cost) /\ ctl'.seen <= ctl'.emitted

LEMMA AtMeans ==
  ASSUME TrialTypeInv, NEW next \in TrialPlaces, ctl' = At(next)
  PROVE  Controls /\ ctl'.at = next /\ Stays
<1>1. ctl \in TrialControllers(ctl.cost) /\ ctl.seen <= ctl.emitted /\ ctl' = [ctl EXCEPT !.at = next]
  BY DEF TrialTypeInv, At
<1>2. /\ ctl' \in TrialControllers(ctl.cost) /\ ctl'.seen <= ctl'.emitted /\ ctl'.cost = ctl.cost
      /\ ctl'.at = next
  BY <1>1 DEF TrialControllers
<1>3. Stays
  BY <1>1 DEF Stays, TrialControllers
<1> QED
  BY <1>2, <1>3 DEF Controls

\* An error reaches the handlers; who raises it may say more.
LEMMA RaiseMeans ==
  ASSUME TrialTypeInv, NEW kind \in Kinds \cup {"none", "refused"}, NEW doubt \in BOOLEAN, NEW shown \in BOOLEAN,
         NEW broken \in BOOLEAN, NEW emitted \in Nat, ctl.seen <= emitted,
         ctl' = [Raise(kind) EXCEPT !.doubt = doubt, !.shown = shown, !.broken = broken, !.emitted = emitted]
  PROVE  /\ Controls /\ ctl'.at \in {"failed", "interrupted"}
         /\ ctl'.doubt = doubt /\ ctl'.live = ctl.live /\ ctl'.invoked = ctl.invoked /\ ctl'.emitted = emitted
         /\ ctl'.seen = ctl.seen /\ ctl'.cost = ctl.cost /\ ctl'.priced = ctl.priced /\ ctl'.listed = ctl.listed
         /\ ctl'.outcome = ctl.outcome /\ ctl'.returned = ctl.returned
<1> DEFINE at == IF kind = "interrupt" THEN "interrupted" ELSE "failed"
<1>1. /\ ctl \in TrialControllers(ctl.cost)
      /\ ctl' = [ctl EXCEPT !.exc = kind, !.at = at, !.doubt = doubt, !.shown = shown, !.broken = broken,
                            !.emitted = emitted]
  BY DEF TrialTypeInv, Raise, TrialControllers
<1>2. at \in TrialPlaces /\ at \in {"failed", "interrupted"}
  BY DEF TrialPlaces, Handling, Failing, Interrupting
<1> HIDE DEF at
<1>3. ctl' \in TrialControllers(ctl.cost)
  <2> DEFINE c == [ctl EXCEPT !.exc = kind, !.at = at, !.doubt = doubt]
  <2>1. c \in TrialControllers(ctl.cost)
    BY <1>1, <1>2 DEF TrialControllers
  <2>2. ctl' = [c EXCEPT !.shown = shown, !.broken = broken, !.emitted = emitted]
    BY <1>1 DEF TrialControllers
  <2> HIDE DEF c
  <2> QED
    BY <2>1, <2>2 DEF TrialControllers
<1>4. /\ ctl'.cost = ctl.cost /\ ctl'.at = at
      /\ ctl'.doubt = doubt /\ ctl'.live = ctl.live /\ ctl'.invoked = ctl.invoked /\ ctl'.emitted = emitted
      /\ ctl'.seen = ctl.seen /\ ctl'.priced = ctl.priced /\ ctl'.listed = ctl.listed
      /\ ctl'.outcome = ctl.outcome /\ ctl'.returned = ctl.returned
  BY <1>1 DEF TrialControllers
<1> QED
  BY <1>2, <1>3, <1>4 DEF Controls

LEMMA TrialTyped ==
  ASSUME TrialInv
  PROVE  /\ TrialTypeInv /\ ctl \in TrialControllers(ctl.cost) /\ ctl.seen <= ctl.emitted /\ History(ledger)
         /\ artifact \in BOOLEAN /\ mode = "comparison"
         /\ ctl.seen \in Nat /\ ctl.emitted \in Nat /\ ctl.invoked \in 0..1 /\ ctl.at \in TrialPlaces
         /\ ctl.exc \in Kinds \cup {"none", "refused"} /\ ctl.doubt \in BOOLEAN /\ ctl.shown \in BOOLEAN
         /\ ctl.broken \in BOOLEAN /\ ctl.unknown \in BOOLEAN /\ ctl.live \in BOOLEAN /\ ctl.priced \in BOOLEAN
  BY DEF TrialInv, TrialTypeInv, TrialControllers

LEMMA TypeIsKept ==
  ASSUME TrialTypeInv, mode' = mode, artifact' \in BOOLEAN, faults' \in 0..MaxFaults, History(ledger'), Controls,
         book' \in {"none", "part", "clean", "blocked"}, trials' = trials
  PROVE  TrialTypeInv'
<1>1. trials' \in Seq({trials'[i] : i \in DOMAIN trials'})
  BY DEF TrialTypeInv
<1> QED
  BY <1>1 DEF TrialTypeInv, Controls

\* What attempts do.
LEMMA AttemptsMeans ==
  ASSUME TrialInv, NEW at, NEW writes, NEW row, NEW raised, NEW w \in writes, Pays(w), Writing(row, w)
  PROVE  /\ Wrote(row) /\ faults' \in 0..MaxFaults /\ History(ledger')
         /\ w.kept /\ (row.status = NoStatus \/ row.status \in Transitions[CurrentStatus(ledger)]) =>
              Gained(ledger, ledger', row)
<1>1. History(ledger) /\ TrialTypeInv
  BY TrialTyped
<1>2. Wrote(row) /\ faults' \in 0..MaxFaults
  BY <1>1, WritingMeans, Bounded DEF Wrote
<1> QED
  BY <1>1, <1>2, WritingMeans, WroteKeeps

\* What a ledger with one row more, or none, still says.
LEMMA WroteSays ==
  ASSUME History(ledger), NEW row, Wrote(row)
  PROVE  /\ row.status = NoStatus => CurrentStatus(ledger') = CurrentStatus(ledger)
         /\ CurrentStatus(ledger') \in {CurrentStatus(ledger), row.status}
         /\ row.type # "receipt" => (Receipted' <=> Receipted)
         /\ Receipted => Receipted'
         /\ \A t : Has(ledger, t) => Has(ledger', t)
  BY DEF Wrote, Gained, Receipted

-----------------------------------------------------------------------------
(* A comparison: the invariant, before the runner. *)

LEMMA SetupKeeps ==
  ASSUME TrialInv, Untouched, faults' \in 0..MaxFaults, NEW row, Wrote(row), row.type # "receipt",
         ctl.at \in TrialPreparing \cup TrialStarting \cup {"setup_failed"},
         NEW next \in TrialPreparing \cup TrialStarting \cup {"setup_failed", "over"}, ctl' = At(next),
         TrialEvidenceInv',
         next \in TrialPreparing => CurrentStatus(ledger') = "created",
         next = "setup_failed" => CurrentStatus(ledger') \in {"created", "running"},
         next \in TrialStarting => CurrentStatus(ledger') = "running"
  PROVE  TrialInv'
<1>1. TrialTypeInv /\ next \in TrialPlaces /\ History(ledger) /\ artifact \in BOOLEAN /\ History(ledger')
  BY TrialTyped, WroteKeeps DEF TrialPlaces
<1>2. Controls /\ ctl'.at = next /\ Stays
  BY <1>1, AtMeans
<1>3. /\ UNCHANGED <<mode, artifact, trials, book>>
      /\ ctl.invoked = 0 /\ ctl.seen = 0 /\ ~ ctl.priced /\ ~ ctl.listed /\ ~ artifact /\ ~ Receipted
      /\ ctl.outcome = "none" /\ ~ ctl.returned
  <2>1. UNCHANGED <<mode, artifact, trials, book>>
    BY DEF Untouched
  <2>5. ctl.invoked = 0
    BY DEF TrialInv, TrialPlaceInv
  <2>6. ctl.seen = 0
    BY DEF TrialInv, SeenInv
  <2>2. ~ ctl.priced /\ ~ ctl.returned
    BY DEF TrialInv, BookInv, TrialPreparing, TrialStarting
  <2>3. ~ ctl.listed /\ ~ artifact /\ ~ Receipted
    BY DEF TrialInv, OrphanInv, TrialPreparing, TrialStarting
  <2>4. ctl.outcome = "none"
    BY DEF TrialInv, ReportInv, TrialPreparing, TrialStarting
  <2> QED
    BY <2>1, <2>2, <2>3, <2>4, <2>5, <2>6
<1>4. ~ Receipted' /\ ~ artifact' /\ artifact' = Receipted'
  <2>1. ~ Receipted' /\ ~ artifact' /\ artifact' \in BOOLEAN /\ Receipted' \in BOOLEAN
    BY <1>1, <1>3, WroteSays DEF Receipted, Says
  <2> QED
    BY <2>1
<1>5. TrialTypeInv'
  BY <1>1, <1>2, <1>3, TypeIsKept DEF TrialInv, TrialTypeInv
<1>6. TrialPlaceInv' /\ SeenInv'
  BY <1>2, <1>3 DEF TrialInv, TrialPlaceInv, SeenInv, TrialPreparing, TrialStarting, Judging, Receiving, Ending, Stays,
     TrialPlaces, Handling, Failing, Interrupting
<1>7. BookInv'
  BY <1>2, <1>3 DEF BookInv, TrialPreparing, TrialStarting, Accounted, Receiving, Ending, Stays
<1>8. GoOnInv'
  BY <1>2, <1>3 DEF TrialInv, GoOnInv, Accounted, TrialPreparing, TrialStarting, Receiving, Ending
<1>9. OrphanInv'
  BY <1>2, <1>3, <1>4 DEF TrialInv, OrphanInv, TrialPreparing, TrialStarting, Judging, Receiving, Ending, Handling, Failing,
     Interrupting, Stays
<1>10. ReportInv'
  BY <1>2, <1>3, <1>4 DEF TrialInv, ReportInv, TrialPreparing, TrialStarting, Stays
<1> QED
  BY <1>5, <1>6, <1>7, <1>8, <1>9, <1>10 DEF TrialInv

LEMMA BindTrialKeeps ==
  ASSUME TrialInv, BindTrial
  PROVE  TrialInv'
<1> DEFINE row == Row("binding", "trial")
<1>1. PICK w \in RequiredWrites :
        Pays(w) /\ Writing(row, w) /\ ctl' = At(IF w.raised = "none" THEN "admission_shadow" ELSE "setup_failed")
  BY DEF BindTrial, Needs, Attempts
<1>2. ctl.at = "bind" /\ Untouched /\ row.type = "binding" /\ row.status = NoStatus
  BY RowFields DEF BindTrial, Needs, Attempts
<1> HIDE DEF row
<1>3. /\ Wrote(row) /\ faults' \in 0..MaxFaults /\ (w.raised = "none" => Gained(ledger, ledger', row))
      /\ CurrentStatus(ledger') = "created"
  BY <1>1, <1>2, AttemptsMeans, WroteSays, TrialTyped DEF RequiredWrites, TrialInv, TrialPlaceInv, TrialPreparing
<1> DEFINE next == IF w.raised = "none" THEN "admission_shadow" ELSE "setup_failed"
<1>4. next \in TrialPlaces /\ next \in TrialPreparing \cup {"setup_failed"} /\ ctl.at \in TrialPreparing /\ ctl.invoked = 0
  BY <1>2 DEF TrialPlaces, TrialPreparing, TrialInv, TrialPlaceInv
<1>5. ctl'.at = next /\ ctl'.invoked = 0
  BY <1>1, <1>4, AtMeans, TrialTyped DEF Stays
<1>6. TrialEvidenceInv'
  BY <1>2, <1>3, <1>5 DEF TrialEvidenceInv, TrialPast, TrialPreparing, Gained
<1> QED
  BY <1>1, <1>2, <1>3, <1>4, <1>6, SetupKeeps DEF TrialPreparing, TrialStarting

LEMMA ObserveTrialAdmissionKeeps ==
  ASSUME TrialInv, ObserveTrialAdmission
  PROVE  TrialInv'
<1> DEFINE row == Row("admission_shadow", "observed")
<1>1. PICK w \in Writes :
        Pays(w) /\ Writing(row, w) /\ ctl' = At(IF w.raised = "interrupt" THEN "setup_failed" ELSE "billing")
  BY DEF ObserveTrialAdmission, BestEffort, Attempts
<1>2. ctl.at = "admission_shadow" /\ Untouched /\ row.type = "admission_shadow" /\ row.status = NoStatus
  BY RowFields DEF ObserveTrialAdmission, BestEffort, Attempts
<1> HIDE DEF row
<1>3. Wrote(row) /\ faults' \in 0..MaxFaults /\ CurrentStatus(ledger') = "created"
  BY <1>1, <1>2, AttemptsMeans, WroteSays, TrialTyped DEF TrialInv, TrialPlaceInv, TrialPreparing
<1> DEFINE next == IF w.raised = "interrupt" THEN "setup_failed" ELSE "billing"
<1>4. next \in TrialPlaces /\ next \in TrialPreparing \cup {"setup_failed"} /\ ctl.at \in TrialPreparing /\ ctl.invoked = 0
  BY <1>2 DEF TrialPlaces, TrialPreparing, TrialInv, TrialPlaceInv
<1>5. ctl'.at = next /\ ctl'.invoked = 0
  BY <1>1, <1>4, AtMeans, TrialTyped DEF Stays
<1>6. TrialEvidenceInv'
  BY <1>2, <1>3, <1>5, WroteSays, TrialTyped DEF TrialInv, TrialEvidenceInv, TrialPast, TrialPreparing
<1> QED
  BY <1>1, <1>2, <1>3, <1>4, <1>6, SetupKeeps DEF TrialPreparing, TrialStarting

LEMMA RecordTrialBillingKeeps ==
  ASSUME TrialInv, RecordTrialBilling
  PROVE  TrialInv'
<1> DEFINE row == Row("billing", "recorded")
<1>1. PICK w \in RequiredWrites :
        Pays(w) /\ Writing(row, w) /\ ctl' = At(IF w.raised = "none" THEN "running" ELSE "setup_failed")
  BY DEF RecordTrialBilling, Needs, Attempts
<1>2. ctl.at = "billing" /\ Untouched /\ row.type = "billing" /\ row.status = NoStatus
  BY RowFields DEF RecordTrialBilling, Needs, Attempts
<1> HIDE DEF row
<1>3. /\ Wrote(row) /\ faults' \in 0..MaxFaults /\ (w.raised = "none" => Gained(ledger, ledger', row))
      /\ CurrentStatus(ledger') = "created"
  BY <1>1, <1>2, AttemptsMeans, WroteSays, TrialTyped DEF RequiredWrites, TrialInv, TrialPlaceInv, TrialPreparing
<1> DEFINE next == IF w.raised = "none" THEN "running" ELSE "setup_failed"
<1>4. next \in TrialPlaces /\ next \in TrialPreparing \cup {"setup_failed"} /\ ctl.at \in TrialPreparing /\ ctl.invoked = 0
  BY <1>2 DEF TrialPlaces, TrialPreparing, TrialInv, TrialPlaceInv
<1>5. ctl'.at = next /\ ctl'.invoked = 0
  BY <1>1, <1>4, AtMeans, TrialTyped DEF Stays
<1>6. TrialEvidenceInv'
  BY <1>2, <1>3, <1>5 DEF TrialInv, TrialEvidenceInv, TrialPast, TrialPreparing, Gained
<1> QED
  BY <1>1, <1>2, <1>3, <1>4, <1>6, SetupKeeps DEF TrialPreparing, TrialStarting

LEMMA RecordTrialRunningKeeps ==
  ASSUME TrialInv, RecordTrialRunning
  PROVE  TrialInv'
<1> DEFINE row == StatusRow("running", "running", "comparison_trial_execution")
<1>1. PICK w \in RequiredWrites :
        Pays(w) /\ Writing(row, w) /\ ctl' = At(IF w.raised = "none" THEN "dispatch_shadow" ELSE "setup_failed")
  BY DEF RecordTrialRunning, Needs, Attempts
<1>2. ctl.at = "running" /\ Untouched /\ row.type = "running" /\ row.status = "running"
  BY DEF RecordTrialRunning, Needs, Attempts, StatusRow, Row
<1> HIDE DEF row
<1>3. CurrentStatus(ledger) = "created" /\ "running" # NoStatus
  BY <1>2 DEF TrialInv, TrialPlaceInv, TrialPreparing, NoStatus
<1>4. /\ Wrote(row) /\ faults' \in 0..MaxFaults /\ (w.raised = "none" => Gained(ledger, ledger', row))
      /\ CurrentStatus(ledger') \in {"created", "running"}
  BY <1>1, <1>2, <1>3, AttemptsMeans, WroteSays, TrialTyped, Follow DEF RequiredWrites
<1> DEFINE next == IF w.raised = "none" THEN "dispatch_shadow" ELSE "setup_failed"
<1>5. next \in TrialPlaces /\ next \in {"dispatch_shadow", "setup_failed"} /\ ctl.at \in TrialPreparing /\ ctl.invoked = 0
  BY <1>2 DEF TrialPlaces, TrialPreparing, TrialStarting, TrialInv, TrialPlaceInv
<1>6. ctl'.at = next /\ ctl'.invoked = 0
  BY <1>1, <1>5, AtMeans, TrialTyped DEF Stays
<1>7. TrialEvidenceInv'
  BY <1>2, <1>4, <1>6 DEF TrialInv, TrialEvidenceInv, TrialPast, TrialPreparing, Gained
<1>8. next \in TrialStarting => CurrentStatus(ledger') = "running"
  BY <1>2, <1>3, <1>4 DEF Gained, TrialStarting
<1> QED
  BY <1>1, <1>2, <1>4, <1>5, <1>7, <1>8, SetupKeeps DEF TrialPreparing, TrialStarting

LEMMA BlockTrialKeeps ==
  ASSUME TrialInv, BlockTrial
  PROVE  TrialInv'
<1> DEFINE row == StatusRow("terminal", "blocked", "comparison_audit_setup_failure")
<1>1. PICK w \in RequiredWrites :
        Pays(w) /\ Writing(row, w) /\ ctl' = At("over")
  BY DEF BlockTrial, Needs, Attempts
<1>2. ctl.at = "setup_failed" /\ Untouched /\ row.type = "terminal"
  BY DEF BlockTrial, Needs, Attempts, StatusRow, Row
<1> HIDE DEF row
<1>3. Wrote(row) /\ faults' \in 0..MaxFaults
  BY <1>1, AttemptsMeans
<1>4. ctl.invoked = 0 /\ "over" \in TrialPlaces
  BY <1>2 DEF TrialPlaces, TrialInv, TrialPlaceInv
<1>5. ctl'.at = "over" /\ ctl'.invoked = 0
  BY <1>1, <1>4, AtMeans, TrialTyped DEF Stays
<1>6. TrialEvidenceInv'
  BY <1>5 DEF TrialEvidenceInv, TrialPast
<1> QED
  BY <1>1, <1>2, <1>3, <1>6, SetupKeeps DEF TrialPreparing, TrialStarting

LEMMA ObserveTrialDispatchKeeps ==
  ASSUME TrialInv, ObserveTrialDispatch
  PROVE  TrialInv'
<1> DEFINE row == Row("dispatch_shadow", "observed")
<1>1. PICK w \in Writes :
        Pays(w) /\ Writing(row, w) /\ ctl' = At(IF w.raised = "interrupt" THEN "over" ELSE "invoke")
  BY DEF ObserveTrialDispatch, BestEffort, Attempts
<1>2. ctl.at = "dispatch_shadow" /\ Untouched /\ row.type = "dispatch_shadow" /\ row.status = NoStatus
  BY RowFields DEF ObserveTrialDispatch, BestEffort, Attempts
<1> HIDE DEF row
<1>3. Wrote(row) /\ faults' \in 0..MaxFaults /\ CurrentStatus(ledger') = "running"
  BY <1>1, <1>2, AttemptsMeans, WroteSays, TrialTyped DEF TrialInv, TrialPlaceInv, TrialStarting
<1> DEFINE next == IF w.raised = "interrupt" THEN "over" ELSE "invoke"
<1>4. next \in TrialPlaces /\ next \in {"over", "invoke"} /\ ctl.at \in TrialStarting /\ ctl.invoked = 0
  BY <1>2 DEF TrialPlaces, TrialStarting, TrialInv, TrialPlaceInv
<1>5. ctl'.at = next /\ ctl'.invoked = 0
  BY <1>1, <1>4, AtMeans, TrialTyped DEF Stays
<1>6. TrialEvidenceInv'
  BY <1>2, <1>3, <1>5, WroteSays, TrialTyped DEF TrialInv, TrialEvidenceInv, TrialPast, TrialPreparing
<1> QED
  BY <1>1, <1>2, <1>3, <1>4, <1>6, SetupKeeps DEF TrialPreparing, TrialStarting

LEMMA InvokeTrialKeeps ==
  ASSUME TrialInv, InvokeTrial
  PROVE  TrialInv'
<1>1. /\ ctl.at = "invoke" /\ UNCHANGED <<mode, ledger, artifact, faults, trials, book>>
      /\ ctl' = [ctl EXCEPT !.at = "inside", !.invoked = @ + 1]
  BY DEF InvokeTrial, Untouched
<1>2. ctl.invoked = 0 /\ CurrentStatus(ledger) = "running"
  BY <1>1 DEF TrialInv, TrialPlaceInv, TrialStarting
<1>3. ctl' = [ctl EXCEPT !.at = "inside", !.invoked = 1]
  BY <1>1, <1>2, TrialTyped DEF TrialControllers
<1>4. "inside" \in TrialPlaces
  BY DEF TrialPlaces, Judging
<1>5. /\ Controls /\ ctl'.at = "inside" /\ ctl'.invoked = 1
      /\ ctl'.live = ctl.live /\ ctl'.doubt = ctl.doubt /\ ctl'.emitted = ctl.emitted /\ ctl'.seen = ctl.seen
      /\ ctl'.cost = ctl.cost /\ ctl'.priced = ctl.priced /\ ctl'.listed = ctl.listed /\ ctl'.stop = ctl.stop
      /\ ctl'.outcome = ctl.outcome /\ ctl'.returned = ctl.returned
  <2>1. ctl \in TrialControllers(ctl.cost) /\ ctl.seen <= ctl.emitted
    BY TrialTyped
  <2>2. ctl \in TrialControllers(ctl.cost) /\ 1 \in 0..1
    BY <2>1
  <2>3. ctl' \in TrialControllers(ctl.cost)
    BY <1>3, <1>4, <2>2 DEF TrialControllers
  <2>4. /\ ctl'.at = "inside" /\ ctl'.invoked = 1
        /\ ctl'.live = ctl.live /\ ctl'.doubt = ctl.doubt /\ ctl'.emitted = ctl.emitted /\ ctl'.seen = ctl.seen
        /\ ctl'.cost = ctl.cost /\ ctl'.priced = ctl.priced /\ ctl'.listed = ctl.listed /\ ctl'.stop = ctl.stop
        /\ ctl'.outcome = ctl.outcome /\ ctl'.returned = ctl.returned
    BY <1>3, <2>1 DEF TrialControllers
  <2> QED
    BY <2>1, <2>3, <2>4 DEF Controls
<1>6. TrialTypeInv'
  BY <1>1, <1>5, TypeIsKept, TrialTyped DEF TrialTypeInv
<1>7. TrialEvidenceInv'
  BY <1>1, <1>2 DEF TrialInv, TrialEvidenceInv, TrialPast, TrialPreparing
<1>8. TrialPlaceInv' /\ SeenInv'
  BY <1>1, <1>2, <1>5 DEF TrialInv, TrialPlaceInv, SeenInv, TrialPreparing, TrialStarting, Judging, Receiving, Ending,
     Handling, Failing, Interrupting
<1>9. BookInv'
  BY <1>1, <1>2, <1>5 DEF TrialInv, BookInv, Priced, TrialPreparing, TrialStarting, Accounted, Receiving, Ending
<1>10. GoOnInv' /\ OrphanInv' /\ ReportInv'
  BY <1>1, <1>2, <1>5 DEF TrialInv, GoOnInv, OrphanInv, Receipted, ReportInv, Accounted, TrialPreparing, TrialStarting, Judging,
     Receiving, Ending, Handling, Failing, Interrupting
<1> QED
  BY <1>6, <1>7, <1>8, <1>9, <1>10 DEF TrialInv

-----------------------------------------------------------------------------
(* A comparison: the runner and its errors. *)

\* Of a live trial the controller knows that it was harmless, or stops.
LEMMA CostsAreTold ==
  ASSUME NEW matches \in BOOLEAN, NEW cost \in Costs[TRUE][matches]
  PROVE  cost.breaker \/ cost.blocked \/ cost.harmless
<1>1. cost \in CostOf(TRUE, matches)
  BY DEF Costs
<1>2. PICK x \in Inputs(TRUE) :
        cost = Cost(Resolve(x[1], x[2], x[3], x[4], matches, x[5]),
                    matches /\ (~ TRUE \/ Harmless(x[2], x[3], x[4]) \/ Forgotten(x[1], x[2], x[3], x[4], x[5])))
  BY <1>1 DEF CostOf
<1>3. /\ x[1] \in Preflights /\ x[1].route = "included" /\ x[2] \in Postflights /\ x[3] \in Signalled
      /\ x[4] \in Claimed /\ x[5] \in Instants
  BY DEF Inputs, PreflightsOf
<1> DEFINE d == Resolve(x[1], x[2], x[3], x[4], matches, x[5])
           known == Harmless(x[2], x[3], x[4]) \/ Forgotten(x[1], x[2], x[3], x[4], x[5])
<1>4. /\ cost.breaker = d.breaker /\ cost.blocked = (d.capacity \in Blocking)
      /\ cost.harmless = (matches /\ (~ TRUE \/ known))
  BY <1>2 DEF Cost
<1>5. CASE matches = FALSE
  <2>1. d = Mistaken(x[1], x[2], x[3], x[4], x[5])
    BY <1>5 DEF Mistaken
  <2>2. Mistaken(x[1], x[2], x[3], x[4], x[5]).breaker
    BY <1>3, DistrustHolds DEF DistrustStops
  <2> QED
    BY <1>4, <2>1, <2>2
<1>6. CASE matches = TRUE
  <2>1. d = Outcome(x[1], x[2], x[3], x[4], x[5])
    BY <1>6 DEF Outcome
  <2>2. ~ d.quarantine => known
    BY <1>3, <2>1, TrustEarned DEF TrustIsEarned
  <2>3. d.quarantine /\ ~ d.breaker => d.capacity \in Blocking
    BY <1>3, <2>1, DistrustHolds DEF DistrustStops
  <2> HIDE DEF d, known
  <2> QED
    BY <1>4, <1>6, <2>2, <2>3
<1> QED
  BY <1>5, <1>6

\* What an error leaves behind.
LEMMA RaiseKeeps ==
  ASSUME TrialInv, mode' = mode, trials' = trials, artifact' \in BOOLEAN, faults' \in 0..MaxFaults,
         book' \in {"none", "part", "clean", "blocked"}, NEW row, Wrote(row),
         ctl.at \in Judging \cup Receiving \cup Ending,
         Controls, ctl'.at \in {"failed", "interrupted"}, ctl'.invoked = 1, ctl'.returned = ctl.returned,
         ctl'.outcome = ctl.outcome,
         ctl'.live /\ ctl'.priced => Priced',
         ctl'.doubt => ctl'.seen = ctl'.emitted,
         artifact' # Receipted' => ctl'.doubt,
         ctl'.listed => artifact' /\ Receipted',
         row.status = NoStatus \/ ((ctl'.live => Priced') /\ artifact' = Receipted')
  PROVE  TrialInv'
<1>1. /\ History(ledger) /\ History(ledger') /\ TrialTypeInv
      /\ ctl.invoked = 1 /\ (row.status = NoStatus => CurrentStatus(ledger') = "running")
      /\ \A t : Has(ledger, t) => Has(ledger', t)
  <2>1. ctl.at \notin TrialPreparing \cup TrialStarting \cup {"setup_failed", "over"} /\ CurrentStatus(ledger) = "running"
    BY DEF TrialInv, TrialPlaceInv, TrialPreparing, TrialStarting, Judging, Receiving, Ending
  <2>2. ctl.invoked = 1
    BY <2>1, TrialTyped DEF TrialInv, TrialPlaceInv
  <2> QED
    BY <2>1, <2>2, WroteKeeps, WroteSays, TrialTyped
<1>2. ~ ctl'.returned /\ ctl'.outcome = "none"
  BY DEF TrialInv, BookInv, ReportInv, Judging, Receiving, Ending
<1>3. TrialTypeInv'
  BY <1>1, TypeIsKept
<1>4. TrialEvidenceInv'
  BY <1>1 DEF TrialInv, TrialEvidenceInv, TrialPast
<1>5. TrialPlaceInv' /\ SeenInv'
  BY <1>1 DEF TrialPlaceInv, SeenInv, TrialPreparing, TrialStarting, Judging, Receiving, Ending, Handling, Failing,
     Interrupting
<1>6. BookInv'
  BY <1>1, <1>2 DEF BookInv, TrialPreparing, TrialStarting, Accounted, Receiving, Ending
<1>7. GoOnInv'
  BY DEF TrialInv, GoOnInv, Accounted, Receiving, Ending
<1>8. OrphanInv'
  BY <1>1 DEF OrphanInv, TrialPreparing, TrialStarting, Judging, Receiving, Ending, Handling
<1>9. ReportInv'
  BY <1>2 DEF TrialInv, ReportInv
<1> QED
  BY <1>3, <1>4, <1>5, <1>6, <1>7, <1>8, <1>9 DEF TrialInv

\* Before its publication a trial has neither an artifact nor a receipt.
LEMMA NothingPublished ==
  ASSUME TrialInv, ctl.at \in Judging
  PROVE  /\ ~ artifact /\ ~ Receipted /\ artifact = Receipted /\ ~ ctl.listed /\ ctl.invoked = 1
         /\ CurrentStatus(ledger) = "running" /\ ctl.outcome = "none" /\ ~ ctl.returned
<1>1. ~ artifact /\ ~ Receipted /\ ~ ctl.listed
  BY DEF TrialInv, OrphanInv
<1>2. artifact \in BOOLEAN /\ Receipted \in BOOLEAN
  BY TrialTyped DEF Receipted, Says
<1>3. ctl.at \in TrialPlaces \ (TrialPreparing \cup TrialStarting \cup {"setup_failed", "over"})
  BY DEF TrialPlaces, TrialPreparing, TrialStarting, Judging
<1>4. ctl.invoked = 1 /\ CurrentStatus(ledger) = "running"
  BY <1>3 DEF TrialInv, TrialPlaceInv
<1>5. ctl.outcome = "none" /\ ~ ctl.returned
  BY DEF TrialInv, BookInv, ReportInv, Judging
<1> QED
  BY <1>1, <1>2, <1>4, <1>5

LEMMA TrialRaisesKeeps ==
  ASSUME TrialInv, TrialRaises
  PROVE  TrialInv'
<1>1. PICK emitted \in 0..MaxObservations, kind \in Kinds \cup {"refused"} :
        ctl' = [Raise(kind) EXCEPT !.emitted = emitted]
  BY DEF TrialRaises
<1>2. ctl.at = "inside" /\ UNCHANGED <<mode, ledger, artifact, faults, trials, book>> /\ ctl.at \in Judging
  BY DEF TrialRaises, Untouched, Judging
<1>3. ctl.seen = 0 /\ emitted \in Nat /\ ctl.seen <= emitted /\ ~ ctl.priced /\ ~ ctl.doubt
  <2>1. ctl.seen = 0 /\ ~ ctl.doubt
    BY <1>2 DEF TrialInv, SeenInv, Handling, Failing, Interrupting
  <2>2. ~ ctl.priced
    BY <1>2 DEF TrialInv, BookInv
  <2> QED
    BY <2>1, <2>2, TaskRunAssumption
<1>4. ctl' = [Raise(kind) EXCEPT !.doubt = ctl.doubt, !.shown = ctl.shown, !.broken = ctl.broken, !.emitted = emitted]
  BY <1>1, TrialTyped DEF Raise, TrialControllers
<1>5. /\ Controls /\ ctl'.at \in {"failed", "interrupted"} /\ ctl'.invoked = 1 /\ ctl'.returned = ctl.returned
      /\ ctl'.outcome = ctl.outcome /\ ~ ctl'.priced /\ ~ ctl'.doubt /\ ~ ctl'.listed
  BY <1>2, <1>3, <1>4, RaiseMeans, TrialTyped, NothingPublished
<1>6. artifact' = Receipted' /\ artifact' \in BOOLEAN /\ Row("none", "none").status = NoStatus /\ Wrote(Row("none", "none"))
  BY <1>2, NothingPublished, NothingWritten, TrialTyped DEF Receipted
<1> QED
  BY <1>2, <1>5, <1>6, RaiseKeeps, TrialTyped DEF TrialTypeInv

LEMMA TrialReturnsKeeps ==
  ASSUME TrialInv, TrialReturns
  PROVE  TrialInv'
<1>1. PICK emitted \in 0..MaxObservations, matches \in BOOLEAN, result \in {"succeeded", "failed", "tainted"} :
        \E cost \in Costs[ctl.live][matches] :
          ctl' = [ctl EXCEPT !.at = "persist", !.emitted = emitted, !.result = result, !.matches = matches, !.cost = cost]
  BY DEF TrialReturns
<1>2. PICK cost \in Costs[ctl.live][matches] :
        ctl' = [ctl EXCEPT !.at = "persist", !.emitted = emitted, !.result = result, !.matches = matches, !.cost = cost]
  BY <1>1
<1>3. /\ ctl.at = "inside" /\ UNCHANGED <<mode, ledger, artifact, faults, trials, book>> /\ ctl.at \in Judging
      /\ "persist" \in TrialPlaces /\ emitted \in Nat
  BY TaskRunAssumption DEF TrialReturns, Untouched, Judging, TrialPlaces
<1>4. ctl \in TrialControllers(ctl.cost)
  BY TrialTyped
<1>5. ctl' \in TrialControllers(cost)
  <2> DEFINE c == [ctl EXCEPT !.at = "persist", !.emitted = emitted, !.cost = cost]
  <2>1. c \in TrialControllers(cost)
    BY <1>3, <1>4 DEF TrialControllers
  <2>2. ctl' = [c EXCEPT !.result = result, !.matches = matches]
    BY <1>2, <1>4 DEF TrialControllers
  <2> HIDE DEF c
  <2> QED
    BY <2>1, <2>2 DEF TrialControllers
<1>6. /\ ctl'.at = "persist" /\ ctl'.emitted = emitted /\ ctl'.result = result /\ ctl'.cost = cost
      /\ ctl'.live = ctl.live /\ ctl'.doubt = ctl.doubt /\ ctl'.invoked = ctl.invoked /\ ctl'.seen = ctl.seen
      /\ ctl'.priced = ctl.priced /\ ctl'.listed = ctl.listed /\ ctl'.outcome = ctl.outcome
      /\ ctl'.returned = ctl.returned
  BY <1>2, <1>4 DEF TrialControllers
<1>7. ctl.seen = 0 /\ ~ ctl.doubt /\ ~ ctl.priced
  BY <1>3 DEF TrialInv, SeenInv, BookInv, Handling, Failing, Interrupting
<1>8. Controls
  BY <1>3, <1>5, <1>6, <1>7 DEF Controls
<1>9. TrialTypeInv'
  BY <1>3, <1>8, TypeIsKept, TrialTyped DEF TrialTypeInv
<1>10. TrialEvidenceInv' /\ TrialPlaceInv' /\ SeenInv'
  BY <1>3, <1>6, <1>7, NothingPublished DEF TrialInv, TrialEvidenceInv, TrialPast, TrialPlaceInv, SeenInv, TrialPreparing,
     TrialStarting, Receiving, Ending
<1>11. ctl.live => cost.breaker \/ cost.blocked \/ cost.harmless
  BY CostsAreTold, TrialTyped
<1>12. BookInv'
  BY <1>3, <1>6, <1>7, <1>11, NothingPublished DEF BookInv, TrialPreparing, TrialStarting, Accounted, Receiving, Ending
<1>13. GoOnInv' /\ OrphanInv' /\ ReportInv'
  BY <1>3, <1>6, NothingPublished DEF TrialInv, GoOnInv, OrphanInv, ReportInv, Receipted, Accounted, Receiving, Ending,
     Handling, Failing, Interrupting
<1> QED
  BY <1>9, <1>10, <1>12, <1>13 DEF TrialInv

\* A trial that goes on to be judged and published.
LEMMA JudgingKeeps ==
  ASSUME TrialInv, mode' = mode, trials' = trials, artifact' = artifact, faults' \in 0..MaxFaults,
         book' \in {"none", "part", "clean", "blocked"}, NEW row, row.status = NoStatus, row.type # "receipt", Wrote(row),
         ctl.at \in Judging, Controls, ctl'.at \in Judging \ {"inside"}, ctl'.invoked = ctl.invoked,
         ctl'.listed = ctl.listed, ctl'.outcome = ctl.outcome, ctl'.returned = ctl.returned, ctl'.doubt = ctl.doubt,
         ctl'.result # "none", ctl'.at = "persist" \/ ctl'.seen = ctl'.emitted,
         ctl'.live => ctl'.cost.breaker \/ ctl'.cost.blocked \/ ctl'.cost.harmless,
         ctl'.at \in {"persist", "price"} => ~ ctl'.priced,
         ctl'.live /\ ctl'.at \in Accounted => ctl'.priced /\ book' = AllRows',
         ctl'.at \in {"publication_shadow", "intent", "publish"} => (ctl'.stop <=> Untrusted')
  PROVE  TrialInv'
<1>1. /\ ~ artifact /\ ~ Receipted /\ artifact = Receipted /\ ~ ctl.listed /\ ctl.invoked = 1
      /\ CurrentStatus(ledger) = "running" /\ ctl.outcome = "none" /\ ~ ctl.returned
  BY NothingPublished
<1>2. /\ History(ledger') /\ CurrentStatus(ledger') = "running" /\ ~ Receipted' /\ artifact' = Receipted'
      /\ \A t : Has(ledger, t) => Has(ledger', t)
  <2>1. (Receipted' <=> Receipted) /\ artifact \in BOOLEAN /\ Receipted' \in BOOLEAN
    BY WroteSays, TrialTyped DEF Receipted, Says
  <2> QED
    BY <1>1, <2>1, WroteKeeps, WroteSays, TrialTyped
<1>3. ~ ctl.doubt
  BY DEF TrialInv, SeenInv, Judging, Handling, Failing, Interrupting
<1>4. TrialTypeInv'
  BY <1>2, TypeIsKept, TrialTyped
<1>5. TrialEvidenceInv'
  BY <1>1, <1>2 DEF TrialInv, TrialEvidenceInv, TrialPast
<1>6. TrialPlaceInv' /\ SeenInv'
  BY <1>1, <1>2, <1>3 DEF TrialPlaceInv, SeenInv, TrialPreparing, TrialStarting, Judging, Receiving, Ending
<1>7. BookInv'
  <2>1. ctl'.live /\ ctl'.priced => Priced'
    BY DEF Priced, AllRows, Accounted, Judging
  <2> QED
    BY <1>1, <1>2, <2>1 DEF BookInv, TrialPreparing, TrialStarting, Judging, Accounted, Receiving, Ending
<1>8. GoOnInv'
  BY DEF TrialInv, GoOnInv, Judging, Accounted, Receiving, Ending
<1>9. OrphanInv'
  BY <1>1, <1>2 DEF OrphanInv, TrialPreparing, TrialStarting, Judging, Receiving, Ending, Handling, Failing, Interrupting
<1>10. ReportInv'
  BY <1>1, <1>2 DEF TrialInv, ReportInv, Judging
<1> QED
  BY <1>4, <1>5, <1>6, <1>7, <1>8, <1>9, <1>10 DEF TrialInv

\* A trial that goes on with its failure or its interruption.
LEMMA HandlingKeeps ==
  ASSUME TrialInv, mode' = mode, trials' = trials, artifact' = artifact, faults' \in 0..MaxFaults,
         book' \in {"none", "part", "clean", "blocked"}, NEW row, row.status = NoStatus, row.type # "receipt", Wrote(row),
         ctl.at \in Handling, Controls, ctl'.at \in Handling, ctl'.invoked = ctl.invoked, ctl'.listed = ctl.listed,
         ctl'.outcome = ctl.outcome, ctl'.returned = ctl.returned,
         ctl.doubt => ctl'.doubt, ctl'.doubt => ctl'.seen = ctl'.emitted,
         ctl'.live /\ ctl'.priced => Priced',
         ctl'.live /\ ctl'.at = "fail" /\ ~ ctl'.broken => Priced',
         ctl'.live /\ ~ Priced' => CurrentStatus(ledger) \in {"running", "quarantined"}
  PROVE  TrialInv'
<1>1. ctl.invoked = 1 /\ ctl.outcome = "none" /\ ~ ctl.returned
  <2>1. ctl.at \in TrialPlaces \ (TrialPreparing \cup TrialStarting \cup {"setup_failed", "over"}) /\ ctl.at # "next"
    BY DEF TrialPlaces, TrialPreparing, TrialStarting, Handling, Failing, Interrupting
  <2> QED
    BY <2>1 DEF TrialInv, TrialPlaceInv, BookInv, ReportInv
<1>2. /\ History(ledger') /\ CurrentStatus(ledger') = CurrentStatus(ledger) /\ (Receipted' <=> Receipted)
      /\ \A t : Has(ledger, t) => Has(ledger', t)
  BY WroteKeeps, WroteSays, TrialTyped
<1>3. artifact \in BOOLEAN /\ Receipted' = Receipted
  <2>1. Receipted' \in BOOLEAN /\ Receipted \in BOOLEAN
    BY DEF Receipted, Says
  <2> QED
    BY <1>2, <2>1, TrialTyped
<1>4. TrialTypeInv'
  BY <1>2, <1>3, TypeIsKept, TrialTyped
<1>5. TrialEvidenceInv'
  BY <1>1, <1>2 DEF TrialInv, TrialEvidenceInv, TrialPast
<1>6. TrialPlaceInv' /\ SeenInv'
  BY <1>1 DEF TrialPlaceInv, SeenInv, TrialPreparing, TrialStarting, Judging, Receiving, Ending, Handling, Failing,
     Interrupting
<1>7. BookInv'
  BY <1>1, <1>2 DEF BookInv, TrialPreparing, TrialStarting, Accounted, Receiving, Ending, Handling, Failing, Interrupting
<1>8. GoOnInv'
  BY DEF TrialInv, GoOnInv, Accounted, Receiving, Ending, Handling, Failing, Interrupting
<1>9. OrphanInv'
  <2>1. artifact # Receipted => ctl.doubt /\ CurrentStatus(ledger) \in {"running", "quarantined"}
    BY DEF TrialInv, OrphanInv, Handling, Failing, Interrupting
  <2> QED
    BY <1>2, <1>3, <2>1 DEF OrphanInv, TrialPreparing, TrialStarting, Judging, Receiving, Ending, Handling, Failing,
       Interrupting
<1>10. ReportInv'
  BY <1>1, <1>2 DEF TrialInv, ReportInv, Handling, Failing, Interrupting
<1> QED
  BY <1>4, <1>5, <1>6, <1>7, <1>8, <1>9, <1>10 DEF TrialInv

\* A comparison that is given up.
LEMMA OverKeeps ==
  ASSUME TrialInv, UNCHANGED <<mode, trials, artifact, book>>, faults' \in 0..MaxFaults, NEW row, row.type # "receipt",
         Wrote(row), ctl.at # "over", ctl' = At("over"),
         ctl.outcome # "none" => CurrentStatus(ledger') = CurrentStatus(ledger),
         ctl.live /\ ctl.invoked = 1 /\ ~ Priced => CurrentStatus(ledger') \in {"running", "quarantined"},
         artifact # Receipted => CurrentStatus(ledger') \in {"running", "quarantined"}
  PROVE  TrialInv'
<1>1. Controls /\ ctl'.at = "over" /\ Stays
  BY AtMeans, TrialTyped DEF TrialPlaces
<1>2. /\ History(ledger') /\ (Receipted' <=> Receipted) /\ ~ ctl.returned
      /\ \A t : Has(ledger, t) => Has(ledger', t)
  BY WroteKeeps, WroteSays, TrialTyped DEF TrialInv, BookInv
<1>3. artifact \in BOOLEAN /\ Receipted' = Receipted
  <2>1. Receipted' \in BOOLEAN /\ Receipted \in BOOLEAN
    BY DEF Receipted, Says
  <2> QED
    BY <1>2, <2>1, TrialTyped
<1>4. TrialTypeInv'
  BY <1>1, <1>2, <1>3, TypeIsKept, TrialTyped DEF TrialTypeInv
<1>5. TrialEvidenceInv'
  BY <1>1, <1>2 DEF TrialInv, TrialEvidenceInv, TrialPast, Stays
<1>6. TrialPlaceInv'
  BY <1>1 DEF TrialPlaceInv, TrialPreparing, TrialStarting, Judging, Receiving, Ending
<1>7. SeenInv'
  BY <1>1 DEF TrialInv, SeenInv, TrialPreparing, TrialStarting, Judging, Receiving, Ending, Stays
<1>8. BookInv'
  BY <1>1, <1>2 DEF TrialInv, BookInv, Priced, TrialPreparing, TrialStarting, Accounted, Receiving, Ending, Stays
<1>9. GoOnInv'
  BY <1>1 DEF TrialInv, GoOnInv, Accounted, Receiving, Ending
<1>10. OrphanInv'
  BY <1>1, <1>3 DEF OrphanInv, TrialPreparing, TrialStarting, Judging, Receiving, Ending, Handling, Failing, Interrupting
<1>11. ReportInv'
  BY <1>1, <1>2 DEF TrialInv, ReportInv, Stays
<1> QED
  BY <1>4, <1>5, <1>6, <1>7, <1>8, <1>9, <1>10, <1>11 DEF TrialInv

LEMMA CrashComparisonKeeps ==
  ASSUME TrialInv, CrashComparison
  PROVE  TrialInv'
<1>1. ctl.at # "over" /\ ctl' = At("over") /\ UNCHANGED <<mode, trials, artifact, book, ledger>>
  BY DEF CrashComparison, Untouched
<1>2. faults' \in 0..MaxFaults
  BY LessThanBound, TrialTyped DEF CrashComparison
<1>3. Row("none", "none").type # "receipt" /\ Wrote(Row("none", "none"))
  BY <1>1, NothingWritten DEF Row
<1>4. /\ ctl.live /\ ctl.invoked = 1 /\ ~ Priced => CurrentStatus(ledger') \in {"running", "quarantined"}
      /\ artifact # Receipted => CurrentStatus(ledger') \in {"running", "quarantined"}
  BY <1>1 DEF TrialInv, BookInv, OrphanInv, TrialPlaceInv, Receiving
<1> QED
  BY <1>1, <1>2, <1>3, <1>4, OverKeeps

LEMMA PersistTrialObservationKeeps ==
  ASSUME TrialInv, PersistTrialObservation
  PROVE  TrialInv'
<1> DEFINE row == Observation(ctl.seen + 1)
<1>1. PICK w \in RequiredWrites :
        /\ Pays(w)
        /\ ledger' = IF w.kept /\ \A i \in Rows(ledger, "observed") : ledger[i].n # ctl.seen + 1
                     THEN Append(ledger, row) ELSE ledger
        /\ ctl' = CASE w.raised = "none" -> [ctl EXCEPT !.seen = @ + 1]
                    [] w.raised # "none" /\ ctl.at = "persist" -> Raise(w.raised)
                    [] w.raised = "interrupt" /\ ctl.at = "failed" -> At("over")
                    [] w.raised \in {"error", "refused"} /\ ctl.at = "failed" ->
                         [ctl EXCEPT !.at = "failed_account", !.exc = w.raised, !.doubt = FALSE, !.broken = TRUE]
                    [] w.raised # "none" /\ ctl.at = "interrupted" -> At("interrupted_account")
  BY DEF PersistTrialObservation
<1>2. /\ UNCHANGED <<mode, artifact, trials, book>> /\ ctl.at \in {"persist", "failed", "interrupted"}
      /\ ctl.seen < ctl.emitted
  BY DEF PersistTrialObservation, Untouched
<1>3. row.status = NoStatus /\ row.type # "receipt" /\ row.type = "observed"
  BY DEF Observation, Row
<1> HIDE DEF row
<1>4. Wrote(row) /\ faults' \in 0..MaxFaults
  BY <1>1, <1>3, AppendGains, Bounded, TrialTyped DEF Wrote
<1>5. /\ book \in {"none", "part", "clean", "blocked"} /\ artifact' \in BOOLEAN /\ ctl \in TrialControllers(ctl.cost)
      /\ ctl.seen + 1 \in Nat /\ ctl.seen + 1 <= ctl.emitted /\ ctl.emitted \in Nat /\ TrialTypeInv
  BY <1>2, TrialTyped DEF TrialTypeInv
<1>6. w.raised \in {"error", "interrupt", "refused", "none"}
  BY DEF RequiredWrites, Kinds
<1>7. ~ ctl.doubt
  BY <1>2, <1>5 DEF TrialInv, SeenInv
<1>8. CASE w.raised = "none"
  <2>1. ctl' = [ctl EXCEPT !.seen = ctl.seen + 1]
    BY <1>1, <1>5, <1>8 DEF TrialControllers
  <2>2. ctl' \in TrialControllers(ctl.cost)
    BY <1>5, <2>1 DEF TrialControllers
  <2>3. /\ ctl'.at = ctl.at /\ ctl'.live = ctl.live /\ ctl'.doubt = ctl.doubt /\ ctl'.invoked = ctl.invoked
        /\ ctl'.emitted = ctl.emitted /\ ctl'.seen = ctl.seen + 1 /\ ctl'.result = ctl.result /\ ctl'.cost = ctl.cost
        /\ ctl'.priced = ctl.priced /\ ctl'.broken = ctl.broken /\ ctl'.listed = ctl.listed
        /\ ctl'.outcome = ctl.outcome /\ ctl'.returned = ctl.returned
    BY <1>5, <2>1 DEF TrialControllers
  <2>4. Controls
    BY <1>5, <2>2, <2>3 DEF Controls
  <2>5. CASE ctl.at = "persist"
    <3>1. ctl.at \in Judging /\ ctl'.at \in Judging \ {"inside"} /\ ctl'.at \notin Accounted
      BY <2>3, <2>5 DEF Judging, Accounted, Receiving, Ending
    <3>2. /\ ctl.result # "none" /\ ~ ctl.priced
          /\ ctl.live => ctl.cost.breaker \/ ctl.cost.blocked \/ ctl.cost.harmless
      BY <2>5 DEF TrialInv, TrialPlaceInv, BookInv
    <3> QED
      BY <1>2, <1>3, <1>4, <1>5, <2>3, <2>4, <2>5, <3>1, <3>2, JudgingKeeps
  <2>6. CASE ctl.at \in {"failed", "interrupted"}
    <3>1. /\ ctl.at \in Handling /\ ctl.at # "fail"
          /\ ctl.live /\ ctl.priced => Priced
          /\ ctl.live /\ ~ Priced => CurrentStatus(ledger) \in {"running", "quarantined"}
      BY <2>6 DEF TrialInv, TrialPlaceInv, BookInv, Handling, Failing, Interrupting, TrialPlaces, TrialPreparing, TrialStarting
    <3>2. Priced' = Priced
      BY <1>2, <2>3 DEF Priced
    <3> QED
      BY <1>2, <1>3, <1>4, <1>5, <1>7, <2>3, <2>4, <3>1, <3>2, HandlingKeeps
  <2> QED
    BY <1>2, <2>5, <2>6
<1>9. CASE w.raised # "none" /\ ctl.at = "persist"
  <2>1. ctl' = Raise(w.raised)
    BY <1>1, <1>9
  <2>2. ctl' = [Raise(w.raised) EXCEPT !.doubt = ctl.doubt, !.shown = ctl.shown, !.broken = ctl.broken,
                                       !.emitted = ctl.emitted]
    BY <1>5, <2>1 DEF Raise, TrialControllers
  <2>3. ctl.at \in Judging /\ ~ ctl.priced
    BY <1>9 DEF Judging, TrialInv, BookInv
  <2>4. /\ Controls /\ ctl'.at \in {"failed", "interrupted"} /\ ctl'.invoked = 1 /\ ctl'.returned = ctl.returned
        /\ ctl'.outcome = ctl.outcome /\ ~ ctl'.priced /\ ~ ctl'.doubt /\ ~ ctl'.listed
    BY <1>6, <1>7, <1>9, <2>2, <2>3, RaiseMeans, TrialTyped, NothingPublished DEF Kinds
  <2>5. artifact' = Receipted'
    <3>1. ~ Receipted' /\ ~ artifact' /\ Receipted' \in BOOLEAN
      BY <1>2, <1>3, <1>4, <2>3, WroteSays, NothingPublished, TrialTyped DEF Receipted, Says
    <3> QED
      BY <1>5, <3>1
  <2> QED
    BY <1>2, <1>3, <1>4, <1>5, <2>3, <2>4, <2>5, RaiseKeeps
<1>10. CASE w.raised = "interrupt" /\ ctl.at = "failed"
  <2>1. ctl' = At("over")
    BY <1>1, <1>10
  <2>2. CurrentStatus(ledger') = CurrentStatus(ledger)
    BY <1>3, <1>4, WroteSays, TrialTyped
  <2>3. /\ ctl.live /\ ctl.invoked = 1 /\ ~ Priced => CurrentStatus(ledger') \in {"running", "quarantined"}
        /\ artifact # Receipted => CurrentStatus(ledger') \in {"running", "quarantined"}
    BY <1>10, <2>2 DEF TrialInv, BookInv, OrphanInv
  <2> QED
    BY <1>2, <1>3, <1>4, <1>10, <2>1, <2>2, <2>3, OverKeeps
<1>11. CASE w.raised \in {"error", "refused"} /\ ctl.at = "failed"
  <2>1. ctl' = [ctl EXCEPT !.at = "failed_account", !.exc = w.raised, !.doubt = FALSE, !.broken = TRUE]
    BY <1>1, <1>11
  <2>2. "failed_account" \in TrialPlaces /\ "failed_account" \in Handling /\ w.raised \in Kinds \cup {"none", "refused"}
    BY <1>6 DEF TrialPlaces, Handling, Failing, Kinds
  <2>3. ctl' \in TrialControllers(ctl.cost)
    BY <1>5, <2>1, <2>2 DEF TrialControllers
  <2>4. /\ ctl'.at = "failed_account" /\ ctl'.live = ctl.live /\ ~ ctl'.doubt /\ ctl'.invoked = ctl.invoked
        /\ ctl'.emitted = ctl.emitted /\ ctl'.seen = ctl.seen /\ ctl'.cost = ctl.cost
        /\ ctl'.priced = ctl.priced /\ ctl'.listed = ctl.listed
        /\ ctl'.outcome = ctl.outcome /\ ctl'.returned = ctl.returned
    BY <1>5, <2>1 DEF TrialControllers
  <2>5. Controls
    BY <2>3, <2>4, TrialTyped DEF Controls
  <2>6. /\ ctl.at \in Handling
        /\ ctl.live /\ ctl.priced => Priced
        /\ ctl.live /\ ~ Priced => CurrentStatus(ledger) \in {"running", "quarantined"}
    BY <1>11 DEF TrialInv, TrialPlaceInv, BookInv, Handling, Failing, Interrupting, TrialPlaces, TrialPreparing, TrialStarting
  <2>7. Priced' = Priced
    BY <1>2, <2>4 DEF Priced
  <2> QED
    BY <1>2, <1>3, <1>4, <1>5, <1>7, <2>2, <2>4, <2>5, <2>6, <2>7, HandlingKeeps
<1>12. CASE w.raised # "none" /\ ctl.at = "interrupted"
  <2>1. ctl' = At("interrupted_account")
    BY <1>1, <1>12
  <2>2. "interrupted_account" \in TrialPlaces /\ "interrupted_account" \in Handling
    BY DEF TrialPlaces, Handling, Interrupting
  <2>3. Controls /\ ctl'.at = "interrupted_account" /\ Stays
    BY <1>5, <2>1, <2>2, AtMeans
  <2>4. /\ ctl.at \in Handling
        /\ ctl.live /\ ctl.priced => Priced
        /\ ctl.live /\ ~ Priced => CurrentStatus(ledger) \in {"running", "quarantined"}
    BY <1>12 DEF TrialInv, TrialPlaceInv, BookInv, Handling, Failing, Interrupting, TrialPlaces, TrialPreparing, TrialStarting
  <2>5. Priced' = Priced
    BY <1>2, <2>3 DEF Priced, Stays
  <2> QED
    BY <1>2, <1>3, <1>4, <1>5, <1>7, <2>2, <2>3, <2>4, <2>5, HandlingKeeps DEF Stays
<1> QED
  BY <1>2, <1>6, <1>8, <1>9, <1>10, <1>11, <1>12

LEMMA NoRow ==
  ASSUME ledger' = ledger
  PROVE  LET row == Row("none", "none") IN row.status = NoStatus /\ row.type # "receipt" /\ Wrote(row)
  BY NothingWritten DEF Row

\* What a handler finds in the books.
LEMMA HandlingBooks ==
  ASSUME TrialInv, ctl.at \in Handling
  PROVE  /\ ctl.live /\ ctl.priced => Priced
         /\ ctl.live /\ ~ Priced => CurrentStatus(ledger) \in {"running", "quarantined"}
         /\ ctl.live /\ ctl.at = "fail" /\ ~ ctl.broken => Priced
         /\ ctl.doubt => ctl.seen = ctl.emitted
<1>1. ctl.at \in TrialPlaces \ (TrialPreparing \cup TrialStarting \cup {"setup_failed", "over"})
  BY DEF TrialPlaces, TrialPreparing, TrialStarting, Handling, Failing, Interrupting
<1>2. ctl.invoked = 1
  BY <1>1 DEF TrialInv, TrialPlaceInv
<1> QED
  BY <1>2 DEF TrialInv, BookInv, SeenInv

\* Nothing changes but the place.
LEMMA HandlingMoves ==
  ASSUME TrialInv, UNCHANGED <<mode, trials, artifact, book>>, faults' \in 0..MaxFaults, NEW row, row.status = NoStatus,
         row.type # "receipt", Wrote(row), ctl.at \in Handling, NEW next \in Handling, ctl' = At(next),
         ctl.live /\ next = "fail" => Priced
  PROVE  TrialInv'
<1>1. Controls /\ ctl'.at = next /\ Stays
  BY AtMeans, TrialTyped DEF TrialPlaces
<1>2. Priced' = Priced /\ book' \in {"none", "part", "clean", "blocked"} /\ artifact' \in BOOLEAN
  BY <1>1, TrialTyped DEF Priced, Stays, TrialTypeInv
<1> QED
  BY <1>1, <1>2, HandlingBooks, HandlingKeeps DEF Stays

\* An error of a trial that is judged.
LEMMA JudgingRaises ==
  ASSUME TrialInv, UNCHANGED <<mode, trials, artifact>>, faults' \in 0..MaxFaults,
         book' \in {"none", "part", "clean", "blocked"}, book' = book \/ ~ ctl.priced,
         NEW row, row.status = NoStatus, row.type # "receipt", Wrote(row), ctl.at \in Judging,
         NEW kind \in Kinds \cup {"refused"}, NEW broken \in BOOLEAN, ctl' = [Raise(kind) EXCEPT !.broken = broken]
  PROVE  TrialInv'
<1>1. ctl' = [Raise(kind) EXCEPT !.doubt = ctl.doubt, !.shown = ctl.shown, !.broken = broken, !.emitted = ctl.emitted]
  BY TrialTyped DEF Raise, TrialControllers
<1>2. ~ ctl.doubt
  BY DEF TrialInv, SeenInv, Judging, Handling, Failing, Interrupting
<1>3. /\ Controls /\ ctl'.at \in {"failed", "interrupted"} /\ ctl'.invoked = 1 /\ ctl'.returned = ctl.returned
      /\ ctl'.outcome = ctl.outcome /\ ctl'.priced = ctl.priced /\ ~ ctl'.doubt /\ ~ ctl'.listed
      /\ ctl'.live = ctl.live /\ ctl'.cost = ctl.cost
  <2>1. kind \in Kinds \cup {"none", "refused"}
    OBVIOUS
  <2> QED
    BY <1>1, <1>2, <2>1, RaiseMeans, TrialTyped, NothingPublished
<1>4. artifact' = Receipted' /\ artifact' \in BOOLEAN
  <2>1. ~ Receipted' /\ ~ artifact' /\ Receipted' \in BOOLEAN /\ artifact' \in BOOLEAN
    BY WroteSays, NothingPublished, TrialTyped DEF Receipted, Says
  <2> QED
    BY <2>1
<1>5. ctl'.live /\ ctl'.priced => Priced'
  BY <1>3 DEF TrialInv, BookInv, Priced
<1> QED
  BY <1>3, <1>4, <1>5, RaiseKeeps

LEMMA JudgeTrialKeeps ==
  ASSUME TrialInv, JudgeTrial
  PROVE  TrialInv'
<1>1. /\ UNCHANGED <<mode, artifact, trials, book, ledger, faults>> /\ ctl.at \in {"persist", "failed", "interrupted"}
      /\ ctl.seen = ctl.emitted
      /\ ctl' = CASE ctl.at = "persist" -> [ctl EXCEPT !.at = IF ctl.live THEN "price" ELSE "account", !.judged = TRUE]
                  [] ctl.at = "failed" -> At("failed_account")
                  [] ctl.at = "interrupted" -> At("interrupted_account")
  BY DEF JudgeTrial, Untouched
<1>2. /\ book' \in {"none", "part", "clean", "blocked"} /\ faults' \in 0..MaxFaults
      /\ ctl \in TrialControllers(ctl.cost)
  BY <1>1, TrialTyped DEF TrialTypeInv
<1>3. CASE ctl.at = "persist"
  <2> DEFINE next == IF ctl.live THEN "price" ELSE "account"
  <2>1. ctl' = [ctl EXCEPT !.at = next, !.judged = TRUE]
    BY <1>1, <1>3
  <2>2. /\ next \in TrialPlaces /\ next \in Judging \ {"inside"} /\ ctl.at \in Judging
        /\ next \notin {"persist", "publication_shadow", "intent", "publish"}
        /\ ctl.live => next = "price" /\ next \notin Accounted
        /\ ctl.result # "none" /\ ~ ctl.priced
        /\ ctl.live => ctl.cost.breaker \/ ctl.cost.blocked \/ ctl.cost.harmless
    BY <1>3 DEF TrialPlaces, Judging, Accounted, Receiving, Ending, TrialInv, TrialPlaceInv, BookInv
  <2> HIDE DEF next
  <2>3. ctl' \in TrialControllers(ctl.cost)
    BY <1>2, <2>1, <2>2 DEF TrialControllers
  <2>4. /\ ctl'.at = next /\ ctl'.live = ctl.live /\ ctl'.doubt = ctl.doubt /\ ctl'.invoked = ctl.invoked
        /\ ctl'.emitted = ctl.emitted /\ ctl'.seen = ctl.seen /\ ctl'.result = ctl.result /\ ctl'.cost = ctl.cost
        /\ ctl'.priced = ctl.priced /\ ctl'.listed = ctl.listed
        /\ ctl'.outcome = ctl.outcome /\ ctl'.returned = ctl.returned
    BY <1>2, <2>1 DEF TrialControllers
  <2>5. Controls
    BY <2>3, <2>4, TrialTyped DEF Controls
  <2> QED
    BY <1>1, <1>2, <2>2, <2>4, <2>5, NoRow, JudgingKeeps
<1>4. CASE ctl.at \in {"failed", "interrupted"}
  <2>1. PICK next \in {"failed_account", "interrupted_account"} : ctl' = At(next)
    BY <1>1, <1>4
  <2>2. next \in Handling /\ ctl.at \in Handling /\ next # "fail"
    BY <1>4 DEF Handling, Failing, Interrupting
  <2> QED
    BY <1>1, <1>2, <2>1, <2>2, NoRow, HandlingMoves
<1> QED
  BY <1>1, <1>3, <1>4

LEMMA PriceTrialKeeps ==
  ASSUME TrialInv, PriceTrial
  PROVE  TrialInv'
<1>1. PICK w \in PlainWrites :
        /\ Pays(w)
        /\ ctl' = IF w.raised = "none" THEN [ctl EXCEPT !.at = "account", !.priced = TRUE] ELSE Raise(w.raised)
        /\ IF w.raised = "none" THEN book' = AllRows ELSE book' \in IF w.kept THEN {SomeRows, AllRows} ELSE {book}
  BY DEF PriceTrial
<1>2. UNCHANGED <<mode, ledger, artifact, trials>> /\ ctl.at = "price"
  BY DEF PriceTrial
<1>3. /\ book' \in {"none", "part", "clean", "blocked"} /\ faults' \in 0..MaxFaults
      /\ ctl \in TrialControllers(ctl.cost) /\ w.raised \in Kinds \cup {"refused", "none"}
  BY <1>1, Bounded, TrialTyped DEF TrialTypeInv, AllRows, SomeRows, PlainWrites
<1>4. /\ ctl.at \in Judging /\ ~ ctl.priced /\ ctl.result # "none" /\ ctl.seen = ctl.emitted
      /\ ctl.live => ctl.cost.breaker \/ ctl.cost.blocked \/ ctl.cost.harmless
  BY <1>2 DEF Judging, TrialInv, TrialPlaceInv, SeenInv, BookInv
<1>5. CASE w.raised = "none"
  <2>1. ctl' = [ctl EXCEPT !.at = "account", !.priced = TRUE] /\ book' = AllRows
    BY <1>1, <1>5
  <2>2. /\ "account" \in TrialPlaces /\ "account" \in Judging \ {"inside"}
        /\ "account" \notin {"persist", "price", "publication_shadow", "intent", "publish"}
    BY DEF TrialPlaces, Judging
  <2>3. ctl' \in TrialControllers(ctl.cost)
    BY <1>3, <2>1, <2>2 DEF TrialControllers
  <2>4. /\ ctl'.at = "account" /\ ctl'.live = ctl.live /\ ctl'.doubt = ctl.doubt /\ ctl'.invoked = ctl.invoked
        /\ ctl'.emitted = ctl.emitted /\ ctl'.seen = ctl.seen /\ ctl'.result = ctl.result /\ ctl'.cost = ctl.cost
        /\ ctl'.priced /\ ctl'.listed = ctl.listed
        /\ ctl'.outcome = ctl.outcome /\ ctl'.returned = ctl.returned
    BY <1>3, <2>1 DEF TrialControllers
  <2>5. Controls /\ AllRows' = AllRows
    BY <2>3, <2>4, TrialTyped DEF Controls, AllRows
  <2> QED
    BY <1>2, <1>3, <1>4, <2>1, <2>2, <2>4, <2>5, NoRow, JudgingKeeps
<1>6. CASE w.raised # "none"
  <2>1. ctl' = [Raise(w.raised) EXCEPT !.broken = ctl.broken] /\ ctl.broken \in BOOLEAN
    BY <1>1, <1>3, <1>6, TrialTyped DEF Raise, TrialControllers
  <2> QED
    BY <1>2, <1>3, <1>4, <1>6, <2>1, NoRow, JudgingRaises
<1> QED
  BY <1>5, <1>6

LEMMA AccountTrialKeeps ==
  ASSUME TrialInv, AccountTrial
  PROVE  TrialInv'
<1> DEFINE row == Accounting("settled")
<1>1. PICK w \in RequiredWrites :
        /\ Pays(w) /\ Writing(row, w)
        /\ ctl' = IF w.raised = "none"
                  THEN [ctl EXCEPT !.at = "publication_shadow", !.accounted = TRUE, !.stop = Untrusted]
                  ELSE [Raise(w.raised) EXCEPT !.broken = TRUE]
  BY DEF AccountTrial, Attempts
<1>2. UNCHANGED <<mode, artifact, trials, book>> /\ ctl.at = "account" /\ row.status = NoStatus /\ row.type # "receipt"
  BY DEF AccountTrial, Attempts, Untouched, Accounting, Row
<1> HIDE DEF row
<1>3. /\ Wrote(row) /\ book' \in {"none", "part", "clean", "blocked"} /\ faults' \in 0..MaxFaults
      /\ ctl \in TrialControllers(ctl.cost) /\ w.raised \in Kinds \cup {"refused", "none"}
  BY <1>1, <1>2, AttemptsMeans, TrialTyped DEF TrialTypeInv, RequiredWrites
<1>4. /\ ctl.at \in Judging /\ ctl.result # "none" /\ ctl.seen = ctl.emitted
      /\ ctl.live => ctl.cost.breaker \/ ctl.cost.blocked \/ ctl.cost.harmless
      /\ ctl.live => ctl.priced /\ book = AllRows
  BY <1>2 DEF Judging, TrialInv, TrialPlaceInv, SeenInv, BookInv, Accounted
<1>5. CASE w.raised = "none"
  <2>1. ctl' = [ctl EXCEPT !.at = "publication_shadow", !.accounted = TRUE, !.stop = Untrusted]
    BY <1>1, <1>5
  <2>2. /\ "publication_shadow" \in TrialPlaces /\ "publication_shadow" \in Judging \ {"inside"}
        /\ "publication_shadow" \notin {"persist", "price"} /\ Untrusted \in BOOLEAN
    BY <1>3 DEF TrialPlaces, Judging, Untrusted
  <2>3. ctl' \in TrialControllers(ctl.cost)
    BY <1>3, <2>1, <2>2 DEF TrialControllers
  <2>4. /\ ctl'.at = "publication_shadow" /\ ctl'.live = ctl.live /\ ctl'.doubt = ctl.doubt /\ ctl'.invoked = ctl.invoked
        /\ ctl'.emitted = ctl.emitted /\ ctl'.seen = ctl.seen /\ ctl'.result = ctl.result /\ ctl'.cost = ctl.cost
        /\ ctl'.priced = ctl.priced /\ ctl'.listed = ctl.listed /\ ctl'.matches = ctl.matches /\ ctl'.stop = Untrusted
        /\ ctl'.outcome = ctl.outcome /\ ctl'.returned = ctl.returned
    BY <1>3, <2>1 DEF TrialControllers
  <2>5. Controls /\ AllRows' = AllRows /\ Untrusted' = Untrusted
    BY <2>3, <2>4, TrialTyped DEF Controls, AllRows, Untrusted
  <2> QED
    BY <1>2, <1>3, <1>4, <2>2, <2>4, <2>5, TrialTyped, JudgingKeeps
<1>6. CASE w.raised # "none"
  BY <1>1, <1>2, <1>3, <1>4, <1>6, JudgingRaises
<1> QED
  BY <1>5, <1>6

-----------------------------------------------------------------------------
(* A comparison: the publication. *)

LEMMA RefuseReviewKeeps ==
  ASSUME TrialInv, RefuseReview
  PROVE  TrialInv'
<1>1. PICK kind \in {"error", "refused"} : ctl' = Raise(kind)
  BY DEF RefuseReview
<1>2. UNCHANGED <<mode, artifact, trials, book, ledger, faults>> /\ ctl.at = "publication_shadow" /\ ctl.at \in Judging
  BY DEF RefuseReview, Untouched, Judging
<1>3. ctl' = [Raise(kind) EXCEPT !.broken = ctl.broken] /\ kind \in Kinds \cup {"refused"}
  BY <1>1, TrialTyped DEF Raise, TrialControllers, Kinds
<1>4. book' \in {"none", "part", "clean", "blocked"} /\ faults' \in 0..MaxFaults /\ ctl.broken \in BOOLEAN
  BY <1>2, TrialTyped DEF TrialTypeInv
<1> QED
  BY <1>2, <1>3, <1>4, NoRow, JudgingRaises

\* What a trial that is published has behind it.
LEMMA Publishable ==
  ASSUME TrialInv, ctl.at \in {"publication_shadow", "intent", "publish"}
  PROVE  /\ ctl.at \in Judging /\ ctl.result # "none" /\ ctl.seen = ctl.emitted
         /\ ctl.live => ctl.cost.breaker \/ ctl.cost.blocked \/ ctl.cost.harmless
         /\ ctl.live => ctl.priced /\ book = AllRows
         /\ ctl.stop <=> Untrusted
<1>1. ctl.at \in Judging /\ ctl.at \in Accounted /\ ctl.at \in Accounted \ {"account"}
  BY DEF Judging, Accounted
<1>2. ctl.result # "none" /\ ctl.seen = ctl.emitted
  BY DEF TrialInv, TrialPlaceInv, SeenInv
<1> QED
  BY <1>1, <1>2 DEF TrialInv, BookInv, GoOnInv

LEMMA ObserveTrialPublicationKeeps ==
  ASSUME TrialInv, ObserveTrialPublication
  PROVE  TrialInv'
<1> DEFINE row == Row("publication_shadow", "observed")
<1>1. PICK w \in Writes :
        /\ Pays(w) /\ Writing(row, w)
        /\ ctl' = IF w.raised = "interrupt" THEN Raise(w.raised)
                  ELSE [ctl EXCEPT !.at = "intent", !.shadowed = (w.raised = "none")]
  BY DEF ObserveTrialPublication, Attempts
<1>2. /\ UNCHANGED <<mode, artifact, trials, book>> /\ ctl.at = "publication_shadow"
      /\ row.status = NoStatus /\ row.type # "receipt"
  BY DEF ObserveTrialPublication, Attempts, Untouched, Row
<1> HIDE DEF row
<1>3. /\ Wrote(row) /\ book' \in {"none", "part", "clean", "blocked"} /\ faults' \in 0..MaxFaults
      /\ ctl \in TrialControllers(ctl.cost) /\ w.raised \in Kinds \cup {"none"} /\ artifact' \in BOOLEAN
  BY <1>1, <1>2, AttemptsMeans, TrialTyped DEF TrialTypeInv, Writes
<1>4. CASE w.raised = "interrupt"
  <2>1. ctl' = [Raise(w.raised) EXCEPT !.broken = ctl.broken] /\ ctl.broken \in BOOLEAN /\ w.raised \in Kinds \cup {"refused"}
    BY <1>1, <1>3, <1>4, TrialTyped DEF Raise, TrialControllers
  <2> QED
    BY <1>2, <1>3, <2>1, Publishable, JudgingRaises
<1>5. CASE w.raised # "interrupt"
  <2>1. ctl' = [ctl EXCEPT !.at = "intent", !.shadowed = (w.raised = "none")]
    BY <1>1, <1>5
  <2>2. /\ "intent" \in TrialPlaces /\ "intent" \in Judging \ {"inside"} /\ "intent" \notin {"persist", "price"}
        /\ (w.raised = "none") \in BOOLEAN
    BY DEF TrialPlaces, Judging
  <2>3. ctl' \in TrialControllers(ctl.cost)
    BY <1>3, <2>1, <2>2 DEF TrialControllers
  <2>4. /\ ctl'.at = "intent" /\ ctl'.live = ctl.live /\ ctl'.doubt = ctl.doubt /\ ctl'.invoked = ctl.invoked
        /\ ctl'.emitted = ctl.emitted /\ ctl'.seen = ctl.seen /\ ctl'.result = ctl.result /\ ctl'.cost = ctl.cost
        /\ ctl'.priced = ctl.priced /\ ctl'.listed = ctl.listed /\ ctl'.matches = ctl.matches /\ ctl'.stop = ctl.stop
        /\ ctl'.outcome = ctl.outcome /\ ctl'.returned = ctl.returned
    BY <1>3, <2>1 DEF TrialControllers
  <2>5. Controls /\ AllRows' = AllRows /\ (Untrusted' <=> Untrusted)
    BY <2>3, <2>4, TrialTyped DEF Controls, AllRows, Untrusted
  <2> QED
    BY <1>2, <1>3, <2>2, <2>4, <2>5, Publishable, JudgingKeeps
<1> QED
  BY <1>4, <1>5

LEMMA IntendTrialKeeps ==
  ASSUME TrialInv, IntendTrial
  PROVE  TrialInv'
<1> DEFINE row == Row("intent", IF ctl.shadowed THEN "shadowed" ELSE "unshadowed")
<1>1. PICK w \in PlainWrites :
        /\ Pays(w) /\ Writing(row, w)
        /\ ctl' = IF w.raised = "none" THEN At("publish") ELSE Raise(w.raised)
  BY DEF IntendTrial, Attempts
<1>2. UNCHANGED <<mode, artifact, trials, book>> /\ ctl.at = "intent" /\ row.status = NoStatus /\ row.type # "receipt"
  BY DEF IntendTrial, Attempts, Untouched, Row
<1> HIDE DEF row
<1>3. /\ Wrote(row) /\ book' \in {"none", "part", "clean", "blocked"} /\ faults' \in 0..MaxFaults
      /\ ctl \in TrialControllers(ctl.cost) /\ w.raised \in Kinds \cup {"none", "refused"} /\ artifact' \in BOOLEAN
  BY <1>1, <1>2, AttemptsMeans, TrialTyped DEF TrialTypeInv, PlainWrites
<1>4. CASE w.raised # "none"
  <2>1. ctl' = [Raise(w.raised) EXCEPT !.broken = ctl.broken] /\ ctl.broken \in BOOLEAN /\ w.raised \in Kinds \cup {"refused"}
    BY <1>1, <1>3, <1>4, TrialTyped DEF Raise, TrialControllers
  <2> QED
    BY <1>2, <1>3, <2>1, Publishable, JudgingRaises
<1>5. CASE w.raised = "none"
  <2>1. "publish" \in TrialPlaces /\ "publish" \in Judging \ {"inside"} /\ "publish" \notin {"persist", "price"}
    BY DEF TrialPlaces, Judging
  <2>2. Controls /\ ctl'.at = "publish" /\ Stays
    BY <1>1, <1>5, <2>1, AtMeans, TrialTyped
  <2>3. AllRows' = AllRows /\ (Untrusted' <=> Untrusted)
    BY <2>2 DEF AllRows, Untrusted, Stays
  <2> QED
    BY <1>2, <1>3, <2>1, <2>2, <2>3, Publishable, JudgingKeeps DEF Stays
<1> QED
  BY <1>4, <1>5

\* The file is there, or it may be.
LEMMA PublishingKeeps ==
  ASSUME TrialInv, UNCHANGED <<mode, trials, ledger, book>>, faults' \in 0..MaxFaults, artifact' \in BOOLEAN,
         ctl.at = "publish", Controls, ctl'.at \in Receiving,
         ctl'.live = ctl.live, ctl'.doubt = ctl.doubt, ctl'.invoked = ctl.invoked, ctl'.emitted = ctl.emitted,
         ctl'.seen = ctl.seen, ctl'.result = ctl.result, ctl'.cost = ctl.cost, ctl'.matches = ctl.matches,
         ctl'.priced = ctl.priced, ctl'.listed = ctl.listed, ctl'.stop = ctl.stop, ctl'.outcome = ctl.outcome,
         ctl'.returned = ctl.returned,
         ctl'.at = "failure_receipt" /\ artifact' => ctl'.unknown
  PROVE  TrialInv'
<1>1. /\ ~ Receipted' /\ ~ ctl.listed /\ ctl.invoked = 1 /\ CurrentStatus(ledger) = "running" /\ ctl.outcome = "none"
      /\ ~ ctl.returned
  BY Publishable, NothingPublished DEF Receipted
<1>2. ctl'.at \notin TrialPreparing \cup TrialStarting \cup Judging \cup Ending \cup Handling
                     \cup {"setup_failed", "next", "over"}
  BY DEF TrialPreparing, TrialStarting, Judging, Receiving, Ending, Handling, Failing, Interrupting
<1>3. ~ ctl.doubt
  BY DEF TrialInv, SeenInv, Handling, Failing, Interrupting
<1>4. TrialTypeInv'
  BY TypeIsKept, TrialTyped DEF TrialTypeInv
<1>5. TrialEvidenceInv'
  BY <1>1 DEF TrialInv, TrialEvidenceInv, TrialPast
<1>6. TrialPlaceInv'
  BY <1>1, <1>2, Publishable DEF TrialPlaceInv
<1>7. SeenInv'
  BY <1>2, <1>3, Publishable DEF SeenInv, Judging
<1>8. BookInv'
  <2>1. AllRows' = AllRows /\ Priced' = Priced /\ (ctl.live => Priced)
    BY Publishable DEF AllRows, Priced
  <2> QED
    BY <1>1, <1>2, <2>1, Publishable DEF BookInv, Handling, Failing, Judging
<1>9. GoOnInv'
  <2>1. Untrusted' <=> Untrusted
    BY DEF Untrusted
  <2> QED
    BY <1>2, <2>1, Publishable DEF TrialInv, GoOnInv
<1>10. OrphanInv'
  BY <1>1, <1>2 DEF OrphanInv, Receiving
<1>11. ReportInv'
  BY <1>1, <1>2 DEF TrialInv, ReportInv
<1> QED
  BY <1>4, <1>5, <1>6, <1>7, <1>8, <1>9, <1>10, <1>11 DEF TrialInv

LEMMA PublishReviewKeeps ==
  ASSUME TrialInv, PublishReview
  PROVE  TrialInv'
<1>1. UNCHANGED <<mode, ledger, trials, book>> /\ ctl.at = "publish" /\ ctl \in TrialControllers(ctl.cost)
  BY TrialTyped DEF PublishReview
<1>2. faults' \in 0..MaxFaults
  BY LessThanBound, TrialTyped DEF PublishReview
<1>3. "receipt" \in TrialPlaces /\ "receipt" \in Receiving /\ "failure_receipt" \in TrialPlaces /\ "failure_receipt" \in Receiving
  BY DEF TrialPlaces, Receiving
<1>4. CASE artifact' = TRUE /\ ctl' = At("receipt")
  <2>1. Controls /\ ctl'.at = "receipt" /\ Stays /\ artifact' \in BOOLEAN
    BY <1>3, <1>4, AtMeans, TrialTyped
  <2> QED
    BY <1>1, <1>2, <1>3, <2>1, PublishingKeeps DEF Stays
<1>5. CASE \E kind \in Kinds \cup {"refused"}, unknown \in BOOLEAN :
             /\ artifact' \in IF unknown THEN BOOLEAN ELSE {FALSE}
             /\ ctl' = [ctl EXCEPT !.at = "failure_receipt", !.exc = kind, !.unknown = unknown]
  <2>1. PICK kind \in Kinds \cup {"refused"}, unknown \in BOOLEAN :
             /\ artifact' \in IF unknown THEN BOOLEAN ELSE {FALSE}
             /\ ctl' = [ctl EXCEPT !.at = "failure_receipt", !.exc = kind, !.unknown = unknown]
    BY <1>5
  <2>2. ctl' \in TrialControllers(ctl.cost)
    BY <1>1, <1>3, <2>1 DEF TrialControllers
  <2>3. /\ ctl'.at = "failure_receipt" /\ ctl'.unknown = unknown
        /\ ctl'.live = ctl.live /\ ctl'.doubt = ctl.doubt /\ ctl'.invoked = ctl.invoked
        /\ ctl'.emitted = ctl.emitted /\ ctl'.seen = ctl.seen /\ ctl'.result = ctl.result /\ ctl'.cost = ctl.cost
        /\ ctl'.priced = ctl.priced /\ ctl'.listed = ctl.listed /\ ctl'.matches = ctl.matches /\ ctl'.stop = ctl.stop
        /\ ctl'.outcome = ctl.outcome /\ ctl'.returned = ctl.returned
    BY <1>1, <2>1 DEF TrialControllers
  <2>4. Controls /\ artifact' \in BOOLEAN /\ (artifact' => unknown)
    BY <2>1, <2>2, <2>3, TrialTyped DEF Controls
  <2> QED
    BY <1>1, <1>2, <1>3, <2>3, <2>4, PublishingKeeps
<1> QED
  BY <1>4, <1>5 DEF PublishReview

\* A publication that failed, or that its receipt does not prove.
LEMMA DoubtsKeep ==
  ASSUME TrialInv, UNCHANGED <<mode, trials, book>>, faults' \in 0..MaxFaults, artifact' \in BOOLEAN,
         NEW row, row.status = NoStatus, Wrote(row), ctl.at \in Receiving,
         NEW kind \in Kinds \cup {"none", "refused"}, NEW doubt \in BOOLEAN, NEW shown \in BOOLEAN,
         ctl' = Doubts(kind, doubt, shown), ~ doubt => artifact' = Receipted'
  PROVE  TrialInv'
<1>1. ctl' = [Raise(kind) EXCEPT !.doubt = doubt, !.shown = shown, !.broken = ctl.broken, !.emitted = ctl.emitted]
  BY TrialTyped DEF Doubts, Raise, TrialControllers
<1>2. /\ ~ ctl.listed /\ ctl.invoked = 1 /\ ctl.seen = ctl.emitted
      /\ ctl.live /\ ctl.priced => Priced
  <2>1. ctl.at \in TrialPlaces \ (TrialPreparing \cup TrialStarting \cup {"setup_failed", "over"})
    BY DEF TrialPlaces, TrialPreparing, TrialStarting, Receiving
  <2> QED
    BY <2>1 DEF TrialInv, TrialPlaceInv, SeenInv, BookInv, OrphanInv
<1>3. /\ Controls /\ ctl'.at \in {"failed", "interrupted"} /\ ctl'.invoked = 1 /\ ctl'.returned = ctl.returned
      /\ ctl'.outcome = ctl.outcome /\ ctl'.priced = ctl.priced /\ ctl'.doubt = doubt /\ ~ ctl'.listed
      /\ ctl'.live = ctl.live /\ ctl'.cost = ctl.cost /\ ctl'.seen = ctl'.emitted
  <2>1. TrialTypeInv /\ ctl.broken \in BOOLEAN /\ ctl.emitted \in Nat /\ ctl.seen <= ctl.emitted
    BY TrialTyped
  <2>2. /\ Controls /\ ctl'.at \in {"failed", "interrupted"}
        /\ ctl'.doubt = doubt /\ ctl'.live = ctl.live /\ ctl'.invoked = ctl.invoked /\ ctl'.emitted = ctl.emitted
        /\ ctl'.seen = ctl.seen /\ ctl'.cost = ctl.cost /\ ctl'.priced = ctl.priced /\ ctl'.listed = ctl.listed
        /\ ctl'.outcome = ctl.outcome /\ ctl'.returned = ctl.returned
    BY <1>1, <2>1, RaiseMeans
  <2> QED
    BY <1>2, <2>2
<1>4. ctl'.live /\ ctl'.priced => Priced'
  BY <1>2, <1>3 DEF Priced
<1>5. book' \in {"none", "part", "clean", "blocked"}
  BY TrialTyped DEF TrialTypeInv
<1> QED
  BY <1>3, <1>4, <1>5, RaiseKeeps

LEMMA ReceiveFailureKeeps ==
  ASSUME TrialInv, ReceiveFailure
  PROVE  TrialInv'
<1> DEFINE value == IF ctl.unknown THEN "unknown" ELSE IF ctl.exc = "interrupt" THEN "cancelled" ELSE "failed"
           row == Row("receipt", value)
<1>1. PICK w \in ReceiptWrites :
        /\ Pays(w) /\ Writing(row, w)
        /\ ctl' = Doubts(IF w.cut \/ ctl.exc = "interrupt" THEN "interrupt"
                         ELSE IF w.kept /\ w.proved /\ ~ctl.unknown THEN ctl.exc ELSE "refused",
                         ctl.unknown \/ ~w.proved, ctl.unknown)
  BY DEF ReceiveFailure
<1>2. /\ UNCHANGED <<mode, artifact, trials, book>> /\ ctl.at = "failure_receipt" /\ ctl.at \in Receiving
      /\ row.status = NoStatus /\ row.value # "succeeded"
  BY DEF ReceiveFailure, Untouched, Receiving, Row
<1> HIDE DEF row
<1>3. Wrote(row) /\ faults' \in 0..MaxFaults /\ artifact' \in BOOLEAN
  BY <1>1, <1>2, AttemptsMeans, TrialTyped
<1>4. ~ Receipted' /\ Receipted' \in BOOLEAN
  <2>1. ~ Says(ledger, "receipt", "succeeded")
    BY <1>2 DEF TrialInv, OrphanInv, Receipted
  <2>2. ~ Says(ledger', "receipt", "succeeded")
    BY <1>2, <1>3, <2>1 DEF Wrote, Gained
  <2> QED
    BY <2>2 DEF Receipted, Says
<1>5. artifact => ctl.unknown
  BY <1>2 DEF TrialInv, OrphanInv
<1> DEFINE kind == IF w.cut \/ ctl.exc = "interrupt" THEN "interrupt"
                   ELSE IF w.kept /\ w.proved /\ ~ctl.unknown THEN ctl.exc ELSE "refused"
           doubt == ctl.unknown \/ ~w.proved
<1>6. kind \in Kinds \cup {"none", "refused"} /\ doubt \in BOOLEAN /\ ctl.unknown \in BOOLEAN
  BY TrialTyped DEF Kinds
<1>7. ~ doubt => artifact' = Receipted'
  BY <1>2, <1>3, <1>4, <1>5
<1>8. ctl' = Doubts(kind, doubt, ctl.unknown)
  BY <1>1
<1> HIDE DEF kind, doubt
<1> QED
  BY <1>2, <1>3, <1>6, <1>7, <1>8, DoubtsKeep

LEMMA ThreeFaults ==
  ASSUME NEW x, NEW y, NEW z
  PROVE  Cardinality({f \in {<<1, x>>, <<2, y>>, <<3, z>>} : f[2]}) \in Nat
<1>1. IsFiniteSet({<<1, x>>})
  BY FS_Singleton
<1>2. IsFiniteSet({<<1, x>>} \cup {<<2, y>>})
  BY <1>1, FS_AddElement
<1>3. IsFiniteSet({<<1, x>>} \cup {<<2, y>>} \cup {<<3, z>>})
  BY <1>2, FS_AddElement
<1>4. {f \in {<<1, x>>, <<2, y>>, <<3, z>>} : f[2]} \in SUBSET ({<<1, x>>} \cup {<<2, y>>} \cup {<<3, z>>})
  OBVIOUS
<1> QED
  BY <1>3, <1>4, FS_Subset, FS_CardinalityType

LEMMA ReceiveSuccessKeeps ==
  ASSUME TrialInv, ReceiveSuccess
  PROVE  TrialInv'
<1> DEFINE row == Row("receipt", "succeeded")
<1>1. PICK w \in ReceiptWrites, lost \in BOOLEAN, stuck \in BOOLEAN :
        LET unreceipted == w.proved /\ ~w.kept
            kind == IF w.cut THEN "interrupt" ELSE "refused"
            cost == Cardinality({x \in {<<1, lost>>, <<2, stuck>>, <<3, w.raised # "none">>} : x[2]})
        IN  /\ faults + cost <= MaxFaults /\ faults' = faults + cost
            /\ Writing(row, w)
            /\ artifact' \in IF lost THEN {FALSE}
                             ELSE IF unreceipted THEN IF stuck THEN BOOLEAN ELSE {FALSE} ELSE {TRUE}
            /\ IF w.kept /\ w.proved /\ ~w.cut /\ ~lost
               THEN ctl' = [ctl EXCEPT !.at = "evaluate", !.listed = TRUE]
               ELSE \E shown \in {~unreceipted \/ stuck, ~lost} :
                      ctl' = Doubts(kind, ~unreceipted \/ stuck, shown)
  BY DEF ReceiveSuccess
<1> DEFINE unreceipted == w.proved /\ ~w.kept
           kind == IF w.cut THEN "interrupt" ELSE "refused"
           cost == Cardinality({x \in {<<1, lost>>, <<2, stuck>>, <<3, w.raised # "none">>} : x[2]})
<1>2. /\ faults + cost <= MaxFaults /\ faults' = faults + cost /\ Writing(row, w)
      /\ artifact' \in IF lost THEN {FALSE}
                       ELSE IF unreceipted THEN IF stuck THEN BOOLEAN ELSE {FALSE} ELSE {TRUE}
      /\ IF w.kept /\ w.proved /\ ~w.cut /\ ~lost
         THEN ctl' = [ctl EXCEPT !.at = "evaluate", !.listed = TRUE]
         ELSE \E shown \in {~unreceipted \/ stuck, ~lost} :
                ctl' = Doubts(kind, ~unreceipted \/ stuck, shown)
  BY <1>1
<1>3. /\ UNCHANGED <<mode, trials, book>> /\ ctl.at = "receipt" /\ ctl.at \in Receiving
      /\ row.status = NoStatus /\ row.type = "receipt" /\ row.value = "succeeded"
  BY DEF ReceiveSuccess, Receiving, Row
<1>4. cost \in Nat
  BY ThreeFaults
<1> HIDE DEF row, cost
<1>5. faults' \in 0..MaxFaults
  BY <1>2, <1>4, TrialTyped, TaskRunAssumption DEF TrialTypeInv
<1>6. Wrote(row) /\ (w.kept => Gained(ledger, ledger', row)) /\ (~ w.kept => ledger' = ledger)
  BY <1>2, <1>3, WritingMeans, TrialTyped DEF Wrote, Writing
<1>7. w.kept \in BOOLEAN /\ w.proved \in BOOLEAN /\ w.cut \in BOOLEAN /\ artifact' \in BOOLEAN
  BY <1>2 DEF ReceiptWrites
<1>8. ~ Receipted /\ ~ ctl.listed /\ ctl.invoked = 1 /\ ctl.result # "none" /\ ctl.seen = ctl.emitted
      /\ CurrentStatus(ledger) = "running" /\ ctl.outcome = "none" /\ ~ ctl.returned /\ ~ ctl.doubt
  <2>1. ctl.at \in TrialPlaces \ (TrialPreparing \cup TrialStarting \cup {"setup_failed", "over"})
    BY <1>3 DEF TrialPlaces, TrialPreparing, TrialStarting, Receiving
  <2> QED
    BY <1>3, <2>1 DEF TrialInv, TrialPlaceInv, SeenInv, BookInv, OrphanInv, ReportInv, Handling, Failing, Interrupting
<1>9. CASE ~ (w.kept /\ w.proved /\ ~w.cut /\ ~lost)
  <2> DEFINE doubt == ~unreceipted \/ stuck
  <2>1. PICK shown \in {~unreceipted \/ stuck, ~lost} : ctl' = Doubts(kind, doubt, shown)
    BY <1>2, <1>9
  <2>2. kind \in Kinds \cup {"none", "refused"} /\ doubt \in BOOLEAN /\ shown \in BOOLEAN
    BY <1>7 DEF Kinds
  <2>3. ~ doubt => artifact' = Receipted'
    <3>1. SUFFICES ASSUME ~ doubt PROVE artifact' = Receipted'
      OBVIOUS
    <3>2. ~ artifact' /\ ledger' = ledger
      BY <1>2, <1>6, <1>7, <3>1
    <3>3. ~ Receipted' /\ Receipted' \in BOOLEAN
      BY <1>8, <3>2 DEF Receipted, Says
    <3> QED
      BY <1>7, <3>2, <3>3
  <2> HIDE DEF doubt, kind
  <2> QED
    BY <1>3, <1>5, <1>6, <1>7, <2>1, <2>2, <2>3, DoubtsKeep
<1>10. CASE w.kept /\ w.proved /\ ~w.cut /\ ~lost
  <2>1. ctl' = [ctl EXCEPT !.at = "evaluate", !.listed = TRUE] /\ artifact' = TRUE
    BY <1>2, <1>10
  <2>2. ctl \in TrialControllers(ctl.cost) /\ "evaluate" \in TrialPlaces
    BY TrialTyped DEF TrialPlaces, Ending
  <2>3. ctl' \in TrialControllers(ctl.cost)
    BY <2>1, <2>2 DEF TrialControllers
  <2>4. /\ ctl'.at = "evaluate" /\ ctl'.listed
        /\ ctl'.live = ctl.live /\ ctl'.doubt = ctl.doubt /\ ctl'.invoked = ctl.invoked
        /\ ctl'.emitted = ctl.emitted /\ ctl'.seen = ctl.seen /\ ctl'.result = ctl.result /\ ctl'.cost = ctl.cost
        /\ ctl'.priced = ctl.priced /\ ctl'.matches = ctl.matches /\ ctl'.stop = ctl.stop
        /\ ctl'.outcome = ctl.outcome /\ ctl'.returned = ctl.returned
    BY <2>1, <2>2 DEF TrialControllers
  <2>5. Receipted' /\ artifact' = Receipted' /\ CurrentStatus(ledger') = "running" /\ History(ledger')
        /\ \A t : Has(ledger, t) => Has(ledger', t)
    <3>1. Receipted' /\ Receipted' \in BOOLEAN
      BY <1>3, <1>6, <1>10 DEF Gained, Receipted, Says
    <3> QED
      BY <1>3, <1>6, <1>8, <2>1, <3>1, WroteKeeps, TrialTyped
  <2>6. TrialTypeInv'
    <3>1. Controls
      BY <2>3, <2>4, TrialTyped DEF Controls
    <3> QED
      BY <1>3, <1>5, <1>7, <2>5, <3>1, TypeIsKept, TrialTyped DEF TrialTypeInv
  <2>7. TrialEvidenceInv'
    BY <1>8, <2>5 DEF TrialInv, TrialEvidenceInv, TrialPast
  <2>8. TrialPlaceInv' /\ SeenInv'
    BY <1>8, <2>4, <2>5 DEF TrialPlaceInv, SeenInv, TrialPreparing, TrialStarting
  <2>9. BookInv'
    <3>1. AllRows' = AllRows /\ Priced' = Priced
      BY <1>3, <2>4 DEF AllRows, Priced
    <3>2. ctl.live => /\ ctl.cost.breaker \/ ctl.cost.blocked \/ ctl.cost.harmless
                      /\ ctl.priced /\ book = AllRows /\ Priced
      BY <1>3 DEF TrialInv, BookInv, Accounted, Receiving
    <3> QED
      BY <1>3, <1>8, <2>4, <2>5, <3>1, <3>2 DEF BookInv, TrialPreparing, TrialStarting
  <2>10. GoOnInv'
    <3>1. (Untrusted' <=> Untrusted) /\ (ctl.stop <=> Untrusted)
      BY <1>3, <2>4 DEF TrialInv, GoOnInv, Untrusted, Accounted, Receiving
    <3> QED
      BY <1>3, <2>4, <3>1 DEF TrialInv, GoOnInv
  <2>11. OrphanInv'
    BY <2>1, <2>4, <2>5 DEF OrphanInv, TrialPreparing, TrialStarting, Judging, Receiving, Handling, Failing, Interrupting
  <2>12. ReportInv'
    BY <1>3, <1>8, <2>1, <2>4, <2>5 DEF TrialInv, ReportInv
  <2> QED
    BY <2>6, <2>7, <2>8, <2>9, <2>10, <2>11, <2>12 DEF TrialInv
<1> QED
  BY <1>9, <1>10

-----------------------------------------------------------------------------
(* A comparison: the end of a trial. *)

\* A trial that is published has its artifact and its receipt.
LEMMA Published ==
  ASSUME TrialInv, ctl.at \in Ending
  PROVE  /\ artifact /\ Receipted /\ artifact = Receipted /\ ctl.invoked = 1 /\ CurrentStatus(ledger) = "running"
         /\ ctl.outcome = "none" /\ ~ ctl.returned /\ ~ ctl.doubt /\ ctl.seen = ctl.emitted /\ ctl.result # "none"
         /\ ctl.live => ctl.cost.breaker \/ ctl.cost.blocked \/ ctl.cost.harmless
         /\ ctl.live => ctl.priced /\ book = AllRows /\ Priced
         /\ ctl.stop <=> Untrusted
<1>1. /\ ctl.at \in TrialPlaces \ (TrialPreparing \cup TrialStarting \cup {"setup_failed", "over"})
      /\ ctl.at \in Accounted \ {"account"} /\ ctl.at \notin {"next", "over"} \cup Handling
  BY DEF TrialPlaces, TrialPreparing, TrialStarting, Ending, Accounted, Handling, Failing, Interrupting
<1>2. artifact /\ Receipted /\ artifact = Receipted
  <2>1. artifact /\ Receipted /\ artifact \in BOOLEAN /\ Receipted \in BOOLEAN
    BY TrialTyped DEF TrialInv, OrphanInv, Receipted, Says
  <2> QED
    BY <2>1
<1>3. ctl.invoked = 1 /\ CurrentStatus(ledger) = "running" /\ ctl.result # "none"
  BY <1>1 DEF TrialInv, TrialPlaceInv
<1>4. ctl.outcome = "none" /\ ~ ctl.returned /\ ~ ctl.doubt /\ ctl.seen = ctl.emitted
  BY <1>1 DEF TrialInv, SeenInv, BookInv, ReportInv
<1> QED
  BY <1>1, <1>2, <1>3, <1>4 DEF TrialInv, BookInv, GoOnInv

\* An error of a trial that is published.
LEMMA EndingRaises ==
  ASSUME TrialInv, UNCHANGED <<mode, trials, artifact, book>>, faults' \in 0..MaxFaults,
         NEW row, Wrote(row), ctl.at \in Ending, NEW kind \in Kinds \cup {"none", "refused"}, ctl' = Raise(kind)
  PROVE  TrialInv'
<1>1. ctl' = [Raise(kind) EXCEPT !.doubt = ctl.doubt, !.shown = ctl.shown, !.broken = ctl.broken, !.emitted = ctl.emitted]
  BY TrialTyped DEF Raise, TrialControllers
<1>2. /\ Controls /\ ctl'.at \in {"failed", "interrupted"}
      /\ ctl'.doubt = ctl.doubt /\ ctl'.live = ctl.live /\ ctl'.invoked = ctl.invoked /\ ctl'.emitted = ctl.emitted
      /\ ctl'.seen = ctl.seen /\ ctl'.cost = ctl.cost /\ ctl'.priced = ctl.priced /\ ctl'.listed = ctl.listed
      /\ ctl'.outcome = ctl.outcome /\ ctl'.returned = ctl.returned
  BY <1>1, RaiseMeans, TrialTyped
<1>3. Receipted' /\ artifact' /\ artifact' = Receipted'
  <2>1. Receipted' /\ artifact' /\ Receipted' \in BOOLEAN /\ artifact' \in BOOLEAN
    BY Published, WroteSays, TrialTyped DEF Receipted, Says
  <2> QED
    BY <2>1
<1>4. ctl'.live => Priced'
  BY <1>2, Published DEF Priced
<1>5. book' \in {"none", "part", "clean", "blocked"} /\ artifact' \in BOOLEAN
  BY TrialTyped DEF TrialTypeInv
<1> QED
  BY <1>2, <1>3, <1>4, <1>5, Published, RaiseKeeps

LEMMA EvaluateReviewKeeps ==
  ASSUME TrialInv, EvaluateReview
  PROVE  TrialInv'
<1>1. UNCHANGED <<mode, artifact, trials, book, ledger, faults>> /\ ctl.at = "evaluate" /\ ctl.at \in Ending
  BY DEF EvaluateReview, Untouched, Ending
<1>2. faults' \in 0..MaxFaults /\ artifact' \in BOOLEAN
  BY <1>1, TrialTyped DEF TrialTypeInv
<1>3. CASE \E kind \in {"error", "refused"} : ctl' = Raise(kind)
  <2>1. PICK kind \in Kinds \cup {"none", "refused"} : ctl' = Raise(kind)
    BY <1>3 DEF Kinds
  <2> QED
    BY <1>1, <1>2, <2>1, NoRow, EndingRaises
<1>4. CASE ctl' = At("finish")
  <2>1. "finish" \in TrialPlaces /\ "finish" \in Ending
    BY DEF TrialPlaces, Ending
  <2>2. Controls /\ ctl'.at = "finish" /\ Stays
    BY <1>4, <2>1, AtMeans, TrialTyped
  <2>3. TrialTypeInv'
    BY <1>1, <1>2, <2>2, TypeIsKept, TrialTyped DEF TrialTypeInv
  <2>4. TrialEvidenceInv'
    BY <1>1, Published DEF TrialInv, TrialEvidenceInv, TrialPast
  <2>5. TrialPlaceInv' /\ SeenInv'
    BY <1>1, <2>2, Published DEF TrialPlaceInv, SeenInv, TrialPreparing, TrialStarting, Stays
  <2>6. BookInv'
    <3>1. AllRows' = AllRows /\ Priced' = Priced
      BY <1>1, <2>2 DEF AllRows, Priced, Stays
    <3> QED
      BY <1>1, <2>2, <3>1, Published DEF BookInv, TrialPreparing, TrialStarting, Stays
  <2>7. GoOnInv'
    <3>1. Untrusted' <=> Untrusted
      BY <2>2 DEF Untrusted, Stays
    <3> QED
      BY <1>1, <2>2, <3>1, Published DEF TrialInv, GoOnInv, Stays
  <2>8. OrphanInv' /\ ReportInv'
    <3>1. Receipted' /\ artifact' /\ artifact' = Receipted'
      BY <1>1, Published DEF Receipted
    <3> QED
      BY <1>1, <2>2, <3>1, Published DEF TrialInv, OrphanInv, ReportInv, TrialPreparing, TrialStarting, Judging, Receiving,
         Stays
  <2> QED
    BY <2>3, <2>4, <2>5, <2>6, <2>7, <2>8 DEF TrialInv
<1> QED
  BY <1>3, <1>4 DEF EvaluateReview

\* What the end of a trial leaves: a row that may be on record although the call
\* raised, in a ledger that had not ended before.
LEMMA EndMeans ==
  ASSUME TrialInv, NEW row, row.type # "receipt",
         \/ HasEnded /\ UNCHANGED <<ledger, faults>>
         \/ \E w \in PlainWrites : (w.kept => ~HasEnded) /\ Pays(w) /\ Writing(row, w)
  PROVE  Wrote(row) /\ faults' \in 0..MaxFaults
<1>1. CASE UNCHANGED <<ledger, faults>>
  BY <1>1, TrialTyped DEF Wrote, TrialTypeInv
<1>2. CASE \E w \in PlainWrites : Pays(w) /\ Writing(row, w)
  BY <1>2, AttemptsMeans
<1> QED
  BY <1>1, <1>2

LEMMA CompleteTrialKeeps ==
  ASSUME TrialInv, CompleteTrial
  PROVE  TrialInv'
<1> DEFINE row == [StatusRow("terminal", TrialStatus, "comparison_trial_complete") EXCEPT !.observed = "true"]
<1>1. /\ ctl.at = "finish" /\ UNCHANGED <<mode, artifact, trials, book>>
      /\ \/ HasEnded /\ ctl' = Raise("refused") /\ UNCHANGED <<ledger, faults>>
         \/ \E w \in PlainWrites :
              /\ w.kept => ~HasEnded
              /\ Pays(w)
              /\ Writing(row, w)
              /\ ctl' = IF w.raised = "none" THEN [ctl EXCEPT !.at = "next", !.outcome = TrialStatus]
                        ELSE Raise(w.raised)
  BY DEF CompleteTrial, EndTrial, Untouched
<1>2. row.status = TrialStatus /\ row.type # "receipt"
  BY DEF StatusRow, Row
<1> HIDE DEF row
<1>3. ctl.at \in Ending
  BY <1>1 DEF Ending
<1>4. PICK w \in PlainWrites :
        /\ Pays(w) /\ Writing(row, w)
        /\ ctl' = IF w.raised = "none" THEN [ctl EXCEPT !.at = "next", !.outcome = TrialStatus] ELSE Raise(w.raised)
  BY <1>1, <1>3, Published DEF HasEnded
<1>5. TrialStatus \in Ends /\ TrialStatus \in Transitions[CurrentStatus(ledger)] /\ TrialStatus # NoStatus
  BY <1>3, Published, Follow, TrialTyped DEF TrialStatus, Ends, TrialControllers, NoStatus
<1>6. /\ Wrote(row) /\ faults' \in 0..MaxFaults /\ History(ledger') /\ (w.kept => Gained(ledger, ledger', row))
      /\ w.raised \in Kinds \cup {"none", "refused"}
  BY <1>2, <1>4, <1>5, AttemptsMeans DEF PlainWrites
<1>7. CASE w.raised # "none"
  BY <1>1, <1>3, <1>4, <1>6, <1>7, EndingRaises
<1>8. CASE w.raised = "none"
  <2>1. ctl' = [ctl EXCEPT !.at = "next", !.outcome = TrialStatus] /\ Gained(ledger, ledger', row)
    BY <1>4, <1>6, <1>8 DEF PlainWrites
  <2>2. ctl \in TrialControllers(ctl.cost) /\ "next" \in TrialPlaces /\ "next" \notin Ending
    BY TrialTyped DEF TrialPlaces, Ending
  <2>3. ctl' \in TrialControllers(ctl.cost)
    BY <1>5, <2>1, <2>2 DEF TrialControllers
  <2>4. /\ ctl'.at = "next" /\ ctl'.outcome = TrialStatus
        /\ ctl'.live = ctl.live /\ ctl'.doubt = ctl.doubt /\ ctl'.invoked = ctl.invoked
        /\ ctl'.emitted = ctl.emitted /\ ctl'.seen = ctl.seen /\ ctl'.result = ctl.result /\ ctl'.cost = ctl.cost
        /\ ctl'.priced = ctl.priced /\ ctl'.matches = ctl.matches /\ ctl'.stop = ctl.stop /\ ctl'.listed = ctl.listed
        /\ ctl'.returned = ctl.returned
    BY <2>1, <2>2 DEF TrialControllers
  <2>5. /\ Receipted' /\ artifact' /\ artifact' = Receipted' /\ CurrentStatus(ledger') = TrialStatus
        /\ \A t : Has(ledger, t) => Has(ledger', t)
    <3>1. Receipted' /\ Receipted' \in BOOLEAN /\ artifact' /\ artifact' \in BOOLEAN
      BY <1>1, <1>3, <1>6, Published, WroteSays, TrialTyped DEF Receipted, Says
    <3>2. CurrentStatus(ledger') = TrialStatus
      BY <1>2, <1>5, <2>1 DEF Gained
    <3> QED
      BY <1>6, <3>1, <3>2, WroteSays, TrialTyped
  <2>6. TrialTypeInv'
    <3>1. Controls
      BY <2>3, <2>4, TrialTyped DEF Controls
    <3> QED
      BY <1>1, <1>6, <3>1, TypeIsKept, TrialTyped DEF TrialTypeInv
  <2>7. TrialEvidenceInv'
    BY <1>3, <2>5, Published DEF TrialInv, TrialEvidenceInv, TrialPast
  <2>8. TrialPlaceInv' /\ SeenInv'
    BY <1>3, <2>4, Published DEF TrialPlaceInv, SeenInv, TrialPreparing, TrialStarting, Judging, Receiving, Ending
  <2>9. BookInv'
    <3>1. Priced' = Priced
      BY <1>1, <2>4 DEF Priced
    <3> QED
      BY <1>3, <2>4, <3>1, Published DEF BookInv, TrialPreparing, TrialStarting, Accounted, Receiving, Ending
  <2>10. GoOnInv'
    <3>1. ctl.live /\ ~ ctl.stop => book = "clean" /\ ctl.cost.harmless
      BY <1>3, Published DEF Untrusted, AllRows
    <3> QED
      BY <1>1, <2>4, <3>1 DEF TrialInv, GoOnInv, Accounted, Receiving, Ending
  <2>11. OrphanInv'
    BY <2>4, <2>5 DEF OrphanInv, TrialPreparing, TrialStarting, Judging, Receiving, Ending, Handling, Failing, Interrupting
  <2>12. ReportInv'
    BY <1>1, <1>5, <2>4, <2>5 DEF TrialInv, ReportInv, Ends
  <2> QED
    BY <2>6, <2>7, <2>8, <2>9, <2>10, <2>11, <2>12 DEF TrialInv
<1> QED
  BY <1>7, <1>8

-----------------------------------------------------------------------------
(* A comparison: failures and interruptions. *)

\* An accounting row is no receipt and no end.
LEMMA AccountingFields ==
  ASSUME NEW value
  PROVE  Accounting(value).status = NoStatus /\ Accounting(value).type # "receipt"
  BY DEF Accounting, Row

LEMMA AccountFailureKeeps ==
  ASSUME TrialInv, AccountFailure
  PROVE  TrialInv'
<1>1. ctl.at = "failed_account" /\ ctl.at \in Handling /\ "failed_price" \in Handling
  BY DEF AccountFailure, Handling, Failing, Interrupting
<1>2. CASE ctl.accounted
  <2>1. ctl' = At("failed_price") /\ UNCHANGED <<mode, artifact, trials, book, ledger, faults>>
    BY <1>2 DEF AccountFailure, Untouched
  <2>2. faults' \in 0..MaxFaults
    BY <2>1, TrialTyped DEF TrialTypeInv
  <2> QED
    BY <1>1, <2>1, <2>2, NoRow, HandlingMoves
<1>3. CASE ~ ctl.accounted
  <2>1. PICK value : value = IF ctl.judged /\ ~ Unpriced THEN "settled" ELSE "unsettled"
    OBVIOUS
  <2>2. PICK w \in RequiredWrites :
          /\ Pays(w) /\ Writing(Accounting(value), w)
          /\ ctl' = [ctl EXCEPT !.at = "failed_price", !.broken = @ \/ w.raised # "none"]
    BY <1>3, <2>1 DEF AccountFailure, Attempts
  <2>3. UNCHANGED <<mode, artifact, trials, book>>
    BY <1>3 DEF AccountFailure, Attempts, Untouched
  <2>4. Wrote(Accounting(value)) /\ faults' \in 0..MaxFaults
    BY <2>2, AttemptsMeans
  <2>5. ctl \in TrialControllers(ctl.cost) /\ "failed_price" \in TrialPlaces
    BY TrialTyped DEF TrialPlaces, Handling, Failing
  <2>6. ctl' \in TrialControllers(ctl.cost)
    BY <2>2, <2>5 DEF TrialControllers
  <2>7. /\ ctl'.at = "failed_price" /\ ctl'.live = ctl.live /\ ctl'.doubt = ctl.doubt /\ ctl'.invoked = ctl.invoked
        /\ ctl'.emitted = ctl.emitted /\ ctl'.seen = ctl.seen /\ ctl'.cost = ctl.cost /\ ctl'.priced = ctl.priced
        /\ ctl'.listed = ctl.listed /\ ctl'.outcome = ctl.outcome /\ ctl'.returned = ctl.returned
    BY <2>2, <2>5 DEF TrialControllers
  <2>8. Controls /\ Priced' = Priced
    BY <2>3, <2>6, <2>7, TrialTyped DEF Controls, Priced
  <2>9. book' \in {"none", "part", "clean", "blocked"}
    BY <2>3, TrialTyped DEF TrialTypeInv
  <2> QED
    BY <1>1, <2>3, <2>4, <2>7, <2>8, <2>9, AccountingFields, HandlingBooks, HandlingKeeps
<1> QED
  BY <1>2, <1>3

\* The unknown outcome blocks the account, whatever is already in the books.
LEMMA UnknownBlocks ==
  ASSUME TrialInv, ctl.at \in Handling, NEW w \in PlainWrites, book' \in UnknownRows(w), ctl'.live = ctl.live,
         ctl'.cost = ctl.cost, ctl'.priced = ctl.priced
  PROVE  /\ book' \in {"none", "part", "clean", "blocked"}
         /\ Priced => Priced'
         /\ w.raised = "none" => Priced'
         /\ ctl'.live /\ ctl'.priced => Priced'
         /\ ctl'.live /\ ~ Priced' => CurrentStatus(ledger) \in {"running", "quarantined"}
<1>1. book' \in {book, "blocked"} /\ (w.raised = "none" => book' = "blocked")
  BY DEF UnknownRows
<1>2. book' \in {"none", "part", "clean", "blocked"}
  BY <1>1, TrialTyped DEF TrialTypeInv
<1>3. (Priced => Priced') /\ (w.raised = "none" => Priced')
  BY <1>1 DEF Priced
<1> QED
  BY <1>2, <1>3, HandlingBooks

LEMMA PriceFailureKeeps ==
  ASSUME TrialInv, PriceFailure
  PROVE  TrialInv'
<1>1. /\ ctl.at = "failed_price" /\ ctl.at \in Handling /\ "fail" \in Handling /\ "fail" \in TrialPlaces
      /\ UNCHANGED <<mode, ledger, artifact, trials>>
  BY DEF PriceFailure, Handling, Failing, Interrupting, TrialPlaces
<1>2. CASE ~ Unpriced
  <2>1. ctl' = At("fail") /\ UNCHANGED <<faults, book>>
    BY <1>2 DEF PriceFailure
  <2>2. faults' \in 0..MaxFaults
    BY <2>1, TrialTyped DEF TrialTypeInv
  <2>3. ctl.live => Priced
    BY <1>1, <1>2, HandlingBooks DEF Unpriced
  <2> QED
    BY <1>1, <2>1, <2>2, <2>3, NoRow, HandlingMoves
<1>3. CASE Unpriced
  <2>1. PICK w \in PlainWrites :
          /\ Pays(w) /\ book' \in UnknownRows(w)
          /\ ctl' = [ctl EXCEPT !.at = "fail", !.broken = @ \/ w.raised # "none"]
    BY <1>3 DEF PriceFailure
  <2>2. faults' \in 0..MaxFaults /\ ctl \in TrialControllers(ctl.cost)
    BY <2>1, Bounded, TrialTyped
  <2>3. ctl' \in TrialControllers(ctl.cost)
    BY <1>1, <2>1, <2>2 DEF TrialControllers
  <2>4. /\ ctl'.at = "fail" /\ ctl'.live = ctl.live /\ ctl'.doubt = ctl.doubt /\ ctl'.invoked = ctl.invoked
        /\ ctl'.emitted = ctl.emitted /\ ctl'.seen = ctl.seen /\ ctl'.cost = ctl.cost /\ ctl'.priced = ctl.priced
        /\ ctl'.listed = ctl.listed /\ ctl'.outcome = ctl.outcome /\ ctl'.returned = ctl.returned
        /\ w.raised # "none" => ctl'.broken
    BY <2>1, <2>2 DEF TrialControllers
  <2>5. Controls
    BY <2>3, <2>4, TrialTyped DEF Controls
  <2>6. /\ book' \in {"none", "part", "clean", "blocked"}
        /\ w.raised = "none" => Priced'
        /\ ctl'.live /\ ctl'.priced => Priced'
        /\ ctl'.live /\ ~ Priced' => CurrentStatus(ledger) \in {"running", "quarantined"}
    BY <1>1, <2>1, <2>4, UnknownBlocks
  <2> QED
    BY <1>1, <2>2, <2>4, <2>5, <2>6, NoRow, HandlingBooks, HandlingKeeps
<1> QED
  BY <1>2, <1>3

LEMMA AccountInterruptionKeeps ==
  ASSUME TrialInv, AccountInterruption
  PROVE  TrialInv'
<1>1. ctl.at \in Handling /\ "interrupted_price" \in Handling
  BY DEF AccountInterruption, Handling, Failing, Interrupting
<1>2. CASE ctl.accounted
  <2>1. ctl' = At("interrupted_price") /\ UNCHANGED <<mode, artifact, trials, book, ledger, faults>>
    BY <1>2 DEF AccountInterruption, Untouched
  <2>2. faults' \in 0..MaxFaults
    BY <2>1, TrialTyped DEF TrialTypeInv
  <2> QED
    BY <1>1, <2>1, <2>2, NoRow, HandlingMoves
<1>3. CASE ~ ctl.accounted
  <2>1. PICK value : value = IF ctl.judged /\ ~ ctl.live THEN "settled" ELSE "unsettled"
    OBVIOUS
  <2>2. PICK w \in RequiredWrites : Pays(w) /\ Writing(Accounting(value), w) /\ ctl' = At("interrupted_price")
    BY <1>3, <2>1 DEF AccountInterruption, Attempts
  <2>3. UNCHANGED <<mode, artifact, trials, book>>
    BY <1>3 DEF AccountInterruption, Attempts, Untouched
  <2>4. Wrote(Accounting(value)) /\ faults' \in 0..MaxFaults
    BY <2>2, AttemptsMeans
  <2> QED
    BY <1>1, <2>2, <2>3, <2>4, AccountingFields, HandlingMoves
<1> QED
  BY <1>2, <1>3

LEMMA PriceInterruptionKeeps ==
  ASSUME TrialInv, PriceInterruption
  PROVE  TrialInv'
<1>1. /\ ctl.at \in Handling /\ {"interrupted_end", "interrupted_price_again"} \subseteq Handling \cap TrialPlaces
      /\ UNCHANGED <<mode, ledger, artifact, trials>>
  BY DEF PriceInterruption, Handling, Failing, Interrupting, TrialPlaces
<1>2. CASE ~ ctl.live
  <2>1. ctl' = At("interrupted_end") /\ UNCHANGED <<faults, book>>
    BY <1>2 DEF PriceInterruption
  <2>2. faults' \in 0..MaxFaults
    BY <2>1, TrialTyped DEF TrialTypeInv
  <2> QED
    BY <1>1, <1>2, <2>1, <2>2, NoRow, HandlingMoves
<1>3. CASE ctl.live
  <2>1. PICK w \in PlainWrites :
          /\ Pays(w) /\ book' \in UnknownRows(w)
          /\ ctl' = At(IF w.raised = "none" \/ ctl.at = "interrupted_price_again" THEN "interrupted_end"
                       ELSE "interrupted_price_again")
    BY <1>3 DEF PriceInterruption
  <2>2. PICK next \in {"interrupted_end", "interrupted_price_again"} : ctl' = At(next)
    BY <2>1
  <2>3. faults' \in 0..MaxFaults
    BY <2>1, Bounded, TrialTyped
  <2>4. Controls /\ ctl'.at = next /\ Stays
    BY <1>1, <2>2, AtMeans, TrialTyped
  <2>5. /\ book' \in {"none", "part", "clean", "blocked"}
        /\ ctl'.live /\ ctl'.priced => Priced'
        /\ ctl'.live /\ ~ Priced' => CurrentStatus(ledger) \in {"running", "quarantined"}
    BY <1>1, <2>1, <2>4, UnknownBlocks DEF Stays
  <2> QED
    BY <1>1, <2>3, <2>4, <2>5, NoRow, HandlingBooks, HandlingKeeps DEF Stays
<1> QED
  BY <1>2, <1>3

LEMMA InterruptTrialKeeps ==
  ASSUME TrialInv, InterruptTrial
  PROVE  TrialInv'
<1> DEFINE status == IF ctl.live \/ ctl.doubt THEN "quarantined" ELSE "cancelled"
           row == [StatusRow("terminal", status, "comparison_trial_interrupted")
                     EXCEPT !.observed = Claim(IF ctl.doubt THEN ctl.shown ELSE ctl.listed)]
<1>1. /\ ctl.at = "interrupted_end" /\ UNCHANGED <<mode, artifact, trials, book>> /\ ctl' = At("over")
      /\ \/ HasEnded /\ UNCHANGED <<ledger, faults>>
         \/ \E w \in PlainWrites : (w.kept => ~HasEnded) /\ Pays(w) /\ Writing(row, w)
  BY DEF InterruptTrial, EndTrial, Untouched
<1>2. row.status = status /\ row.type # "receipt"
  BY DEF StatusRow, Row
<1> HIDE DEF row
<1>3. ctl.at \in Handling /\ ctl.at \notin {"over", "next", "receipt"}
  BY <1>1 DEF Handling, Interrupting
<1>4. Wrote(row) /\ faults' \in 0..MaxFaults
  BY <1>1, <1>2, EndMeans
<1>5. CurrentStatus(ledger') \in {CurrentStatus(ledger), status}
  BY <1>2, <1>4, WroteSays, TrialTyped
<1>6. ctl.outcome = "none"
  BY <1>3 DEF TrialInv, ReportInv
<1>7. ctl.live /\ ~ Priced => CurrentStatus(ledger') \in {"running", "quarantined"}
  BY <1>3, <1>5, HandlingBooks
<1>8. artifact # Receipted => CurrentStatus(ledger') \in {"running", "quarantined"}
  <2>1. artifact # Receipted => ctl.doubt /\ CurrentStatus(ledger) \in {"running", "quarantined"}
    BY <1>3 DEF TrialInv, OrphanInv
  <2> QED
    BY <1>5, <2>1
<1> QED
  BY <1>1, <1>2, <1>3, <1>4, <1>6, <1>7, <1>8, OverKeeps

\* A trial that is reported as failed.
LEMMA FailedKeeps ==
  ASSUME TrialInv, ctl.at = "fail", UNCHANGED <<mode, artifact, trials, book>>, faults' \in 0..MaxFaults,
         NEW row, row.status = FailureStatus, row.type # "receipt", Gained(ledger, ledger', row), ~ ctl.broken,
         ctl' = [ctl EXCEPT !.at = "next", !.outcome = FailureStatus, !.stop = TRUE]
  PROVE  TrialInv'
<1>1. /\ ctl.at \in Handling /\ ctl.at \notin {"next", "over"} /\ "next" \in TrialPlaces
      /\ FailureStatus \in {"quarantined", "blocked", "failed"} /\ FailureStatus \in Ends
      /\ FailureStatus \notin {"none", NoStatus}
  BY DEF Handling, Failing, TrialPlaces, FailureStatus, Ends, NoStatus
<1>2. ctl \in TrialControllers(ctl.cost) /\ TrialTypeInv /\ History(ledger) /\ artifact \in BOOLEAN /\ Wrote(row)
  BY TrialTyped DEF Wrote
<1>3. ctl' \in TrialControllers(ctl.cost)
  BY <1>1, <1>2 DEF TrialControllers
<1>4. /\ ctl'.at = "next" /\ ctl'.outcome = FailureStatus /\ ctl'.stop
      /\ ctl'.live = ctl.live /\ ctl'.doubt = ctl.doubt /\ ctl'.invoked = ctl.invoked
      /\ ctl'.emitted = ctl.emitted /\ ctl'.seen = ctl.seen /\ ctl'.cost = ctl.cost
      /\ ctl'.priced = ctl.priced /\ ctl'.listed = ctl.listed /\ ctl'.returned = ctl.returned
  BY <1>1, <1>2 DEF TrialControllers
<1>5. ctl.invoked = 1 /\ ~ ctl.returned /\ (ctl.live => Priced) /\ (ctl.doubt => ctl.seen = ctl.emitted)
  <2>1. ctl.at \in TrialPlaces \ (TrialPreparing \cup TrialStarting \cup {"setup_failed", "over"})
    BY <1>1 DEF TrialPlaces, TrialPreparing, TrialStarting, Handling, Failing
  <2>2. ctl.invoked = 1 /\ ~ ctl.returned
    BY <1>1, <2>1 DEF TrialInv, TrialPlaceInv, BookInv
  <2> QED
    BY <1>1, <2>2, HandlingBooks
<1>6. /\ History(ledger') /\ CurrentStatus(ledger') = FailureStatus /\ (Receipted' <=> Receipted)
      /\ \A t : Has(ledger, t) => Has(ledger', t)
  <2>1. CurrentStatus(ledger') = FailureStatus /\ History(ledger')
    BY <1>1 DEF Gained
  <2> QED
    BY <1>2, <2>1, WroteSays
<1>7. artifact' = artifact /\ Receipted' = Receipted /\ Priced' = Priced
  <2>1. Receipted' \in BOOLEAN /\ Receipted \in BOOLEAN
    BY DEF Receipted, Says
  <2> QED
    BY <1>4, <1>6, <2>1 DEF Priced
<1>8. TrialTypeInv'
  <2>1. Controls
    BY <1>2, <1>3, <1>4, TrialTyped DEF Controls
  <2> QED
    BY <1>2, <1>6, <2>1, TypeIsKept DEF TrialTypeInv
<1>9. TrialEvidenceInv'
  BY <1>4, <1>5, <1>6 DEF TrialInv, TrialEvidenceInv, TrialPast
<1>10. TrialPlaceInv' /\ SeenInv'
  BY <1>4, <1>5 DEF TrialPlaceInv, SeenInv, TrialPreparing, TrialStarting, Judging, Receiving, Ending
<1>11. BookInv'
  BY <1>4, <1>5, <1>7 DEF BookInv, TrialPreparing, TrialStarting, Accounted, Receiving, Ending
<1>12. GoOnInv'
  BY <1>4 DEF TrialInv, GoOnInv, Accounted, Receiving, Ending
<1>13. OrphanInv'
  <2>1. artifact # Receipted => ctl.doubt
    BY <1>1 DEF TrialInv, OrphanInv
  <2>2. artifact # Receipted => FailureStatus = "quarantined"
    BY <2>1 DEF FailureStatus
  <2> QED
    BY <1>4, <1>6, <1>7, <2>2 DEF OrphanInv, TrialPreparing, TrialStarting, Judging, Receiving, Ending, Handling, Failing,
       Interrupting
<1>14. ReportInv'
  BY <1>1, <1>4, <1>6, <1>7 DEF TrialInv, ReportInv
<1> QED
  BY <1>8, <1>9, <1>10, <1>11, <1>12, <1>13, <1>14 DEF TrialInv

LEMMA FailTrialKeeps ==
  ASSUME TrialInv, FailTrial
  PROVE  TrialInv'
<1> DEFINE row == [StatusRow("terminal", FailureStatus, "comparison_trial_failure")
                     EXCEPT !.observed = Claim(IF ctl.doubt THEN ctl.shown ELSE ctl.listed)]
           Closed(raised) == IF raised # "none" \/ ctl.broken THEN At("over")
                            ELSE [ctl EXCEPT !.at = "next", !.outcome = FailureStatus, !.stop = TRUE]
<1>1. /\ ctl.at = "fail" /\ UNCHANGED <<mode, artifact, trials, book>>
      /\ \/ HasEnded /\ ctl' = Closed("refused") /\ UNCHANGED <<ledger, faults>>
         \/ \E w \in PlainWrites :
              (w.kept => ~HasEnded) /\ Pays(w) /\ Writing(row, w) /\ ctl' = Closed(w.raised)
  BY DEF FailTrial, EndTrial, Untouched
<1>2. row.status = FailureStatus /\ row.type # "receipt"
  BY DEF StatusRow, Row
<1> HIDE DEF row
<1>3. ctl.at \in Handling /\ ctl.at \notin {"over", "next", "receipt"} /\ ctl.outcome = "none"
  BY <1>1 DEF Handling, Failing, TrialInv, ReportInv
<1>4. FailureStatus \in {"quarantined", "blocked", "failed"}
  BY DEF FailureStatus
<1>5. /\ ctl.live /\ ~ Priced => FailureStatus = "quarantined"
      /\ artifact # Receipted => FailureStatus = "quarantined"
  <2>1. ctl.live /\ ~ Priced => Unpriced
    BY <1>3, HandlingBooks DEF Unpriced
  <2>2. artifact # Receipted => ctl.doubt
    BY <1>3 DEF TrialInv, OrphanInv
  <2> QED
    BY <2>1, <2>2 DEF FailureStatus
<1>6. ASSUME Wrote(row), faults' \in 0..MaxFaults, ctl' = At("over")
      PROVE  TrialInv'
  <2>1. CurrentStatus(ledger') \in {CurrentStatus(ledger), FailureStatus}
    BY <1>2, <1>6, WroteSays, TrialTyped
  <2>2. ctl.live /\ ~ Priced => CurrentStatus(ledger') \in {"running", "quarantined"}
    BY <1>3, <1>5, <2>1, HandlingBooks
  <2>3. artifact # Receipted => CurrentStatus(ledger') \in {"running", "quarantined"}
    <3>1. artifact # Receipted => CurrentStatus(ledger) \in {"running", "quarantined"}
      BY <1>3 DEF TrialInv, OrphanInv
    <3> QED
      BY <1>5, <2>1, <3>1
  <2> QED
    BY <1>1, <1>2, <1>3, <1>6, <2>2, <2>3, OverKeeps
<1>7. Wrote(row) /\ faults' \in 0..MaxFaults
  BY <1>1, <1>2, EndMeans
<1>8. CASE ctl' = At("over")
  BY <1>6, <1>7, <1>8
<1>9. CASE ctl' # At("over")
  <2>1. PICK w \in PlainWrites :
          (w.kept => ~HasEnded) /\ Pays(w) /\ Writing(row, w) /\ ctl' = Closed(w.raised)
    BY <1>1, <1>9
  <2>2. w.raised = "none" /\ ~ ctl.broken /\ w.kept
    BY <1>9, <2>1 DEF PlainWrites
  <2>3. CurrentStatus(ledger) \in {"created", "running"}
    BY <2>1, <2>2 DEF HasEnded
  <2>4. FailureStatus \in Transitions[CurrentStatus(ledger)]
    BY <1>4, <2>3, Follow
  <2>5. faults' \in 0..MaxFaults /\ Gained(ledger, ledger', row)
    BY <1>2, <2>1, <2>2, <2>4, AttemptsMeans
  <2> QED
    BY <1>1, <1>2, <2>1, <2>2, <2>5, FailedKeeps
<1> QED
  BY <1>8, <1>9

-----------------------------------------------------------------------------
(* A comparison: from one trial to the next, and the report. *)

\* A controller that begins with a trial.
LEMMA FreshMeans ==
  ASSUME NEW live \in BOOLEAN
  PROVE  LET c == Fresh(live)
         IN  /\ c \in TrialControllers(c.cost) /\ c.at = "bind" /\ ~ c.doubt /\ c.invoked = 0 /\ c.emitted = 0
             /\ c.seen = 0 /\ ~ c.priced /\ ~ c.listed /\ c.outcome = "none" /\ ~ c.returned
<1> DEFINE c == Fresh(live)
<1>1. "bind" \in TrialPlaces
  BY DEF TrialPlaces, TrialPreparing
<1>2. c \in TrialControllers(c.cost)
  BY <1>1 DEF Fresh, TrialControllers
<1>3. /\ c.at = "bind" /\ ~ c.doubt /\ c.invoked = 0 /\ c.emitted = 0
      /\ c.seen = 0 /\ ~ c.priced /\ ~ c.listed /\ c.outcome = "none" /\ ~ c.returned
  BY DEF Fresh
<1> QED
  BY <1>2, <1>3

\* A trial that begins has neither a past nor an artifact.
Beginning ==
  /\ \E live \in BOOLEAN : ctl = Fresh(live)
  /\ mode = "comparison" /\ ledger = Created /\ artifact = FALSE /\ faults \in 0..MaxFaults /\ book = "none"
  /\ trials \in Seq({trials[i] : i \in DOMAIN trials})
  /\ \A i \in DOMAIN trials :
       /\ trials[i].live => trials[i].harmless /\ trials[i].book = "clean"
       /\ trials[i].status = trials[i].outcome
       /\ trials[i].listed => trials[i].receipted /\ trials[i].present

LEMMA BeginningKeeps == Beginning => TrialInv
<1> SUFFICES ASSUME Beginning
             PROVE  TrialInv
  OBVIOUS
<1> PICK live \in BOOLEAN : ctl = Fresh(live)
  BY DEF Beginning
<1>1. /\ ctl \in TrialControllers(ctl.cost) /\ ctl.at = "bind" /\ ~ ctl.doubt /\ ctl.invoked = 0 /\ ctl.emitted = 0
      /\ ctl.seen = 0 /\ ~ ctl.priced /\ ~ ctl.listed /\ ctl.outcome = "none" /\ ~ ctl.returned
  BY FreshMeans
<1>2. History(ledger) /\ CurrentStatus(ledger) = "created" /\ ~ Receipted /\ ~ artifact
  BY CreatedMeans DEF Receipted, Beginning
<1>3. artifact = Receipted
  <2>1. Receipted \in BOOLEAN
    BY DEF Receipted, Says
  <2>2. artifact = FALSE /\ Receipted = FALSE
    BY <1>2, <2>1 DEF Beginning
  <2> QED
    BY <2>2
<1>4. TrialTypeInv
  <2>1. artifact \in BOOLEAN /\ book \in {"none", "part", "clean", "blocked"}
    BY DEF Beginning
  <2>2. ctl.seen <= ctl.emitted
    BY <1>1
  <2>3. mode = "comparison" /\ faults \in 0..MaxFaults /\ trials \in Seq({trials[i] : i \in DOMAIN trials})
    BY DEF Beginning
  <2> QED
    BY <1>1, <1>2, <2>1, <2>2, <2>3 DEF TrialTypeInv
<1>5. TrialEvidenceInv /\ TrialPlaceInv /\ SeenInv
  BY <1>1, <1>2 DEF TrialEvidenceInv, TrialPast, TrialPlaceInv, SeenInv, TrialPreparing, TrialStarting, Judging, Receiving,
     Ending
<1>6. BookInv /\ GoOnInv
  BY <1>1 DEF Beginning, BookInv, GoOnInv, Accounted, Receiving, Ending
<1>7. OrphanInv /\ ReportInv
  BY <1>1, <1>2, <1>3 DEF Beginning, OrphanInv, ReportInv, Ending, Handling, Failing, Interrupting
<1> QED
  BY <1>4, <1>5, <1>6, <1>7 DEF TrialInv

LEMMA NextTrialKeeps ==
  ASSUME TrialInv, NextTrial
  PROVE  TrialInv'
<1>1. /\ ctl.at = "next" /\ ~ ctl.stop /\ trials' = Append(trials, Summary) /\ ledger' = Created /\ artifact' = FALSE
      /\ book' = "none" /\ UNCHANGED <<mode, faults>>
  BY DEF NextTrial
<1>2. PICK live \in BOOLEAN : ctl' = Fresh(live)
  BY DEF NextTrial
<1>3. TrialTypeInv /\ mode' = "comparison" /\ faults' \in 0..MaxFaults
  BY <1>1, TrialTyped DEF TrialTypeInv
<1> DEFINE old == {trials[i] : i \in DOMAIN trials}
           n == Len(trials) + 1
<1>4. /\ trials \in Seq(old) /\ Len(trials) \in Nat /\ DOMAIN trials = 1 .. Len(trials) /\ n \in Nat
      /\ trials' \in Seq(old \cup {Summary}) /\ Len(trials') = n /\ DOMAIN trials' = DOMAIN trials \cup {n}
      /\ trials'[n] = Summary /\ \A i \in DOMAIN trials : trials'[i] = trials[i]
  <2>1. trials \in Seq(old) /\ Len(trials) \in Nat /\ DOMAIN trials = 1 .. Len(trials)
    BY <1>3 DEF TrialTypeInv
  <2>2. trials \in Seq(old \cup {Summary})
    BY <2>1
  <2> HIDE DEF old
  <2>3. /\ trials' \in Seq(old \cup {Summary}) /\ Len(trials') = n /\ DOMAIN trials' = 1 .. n
        /\ trials'[n] = Summary /\ \A i \in 1 .. Len(trials) : trials'[i] = trials[i]
    BY <1>1, <2>1, <2>2
  <2> QED
    BY <2>1, <2>3
<1>5. trials' \in Seq({trials'[i] : i \in DOMAIN trials'})
  <2>1. \A i \in 1 .. Len(trials') : trials'[i] \in {trials'[j] : j \in DOMAIN trials'}
    BY <1>4
  <2> HIDE DEF old
  <2> QED
    BY <1>4, <2>1
<1>6. /\ Summary.live => Summary.harmless /\ Summary.book = "clean"
      /\ Summary.status = Summary.outcome /\ (Summary.listed => Summary.receipted /\ Summary.present)
  <2>1. ctl.live => book = "clean" /\ ctl.cost.harmless
    BY <1>1 DEF TrialInv, GoOnInv
  <2>2. CurrentStatus(ledger) = ctl.outcome /\ (ctl.listed => artifact /\ Receipted)
    BY <1>1 DEF TrialInv, ReportInv
  <2> QED
    BY <2>1, <2>2 DEF Summary, Receipted
<1>7. \A i \in DOMAIN trials' :
        /\ trials'[i].live => trials'[i].harmless /\ trials'[i].book = "clean"
        /\ trials'[i].status = trials'[i].outcome
        /\ trials'[i].listed => trials'[i].receipted /\ trials'[i].present
  <2>1. \A i \in DOMAIN trials :
          /\ trials[i].live => trials[i].harmless /\ trials[i].book = "clean"
          /\ trials[i].status = trials[i].outcome
          /\ trials[i].listed => trials[i].receipted /\ trials[i].present
    BY DEF TrialInv, GoOnInv, ReportInv
  <2> HIDE DEF old
  <2> QED
    BY <1>4, <1>6, <2>1
<1>8. Beginning'
  BY <1>1, <1>2, <1>3, <1>5, <1>7 DEF Beginning
<1> QED
  BY <1>8, BeginningKeeps, PTL

LEMMA ReportTrialsKeeps ==
  ASSUME TrialInv, ReportTrials
  PROVE  TrialInv'
<1>1. ctl.at = "next" /\ UNCHANGED <<mode, ledger, artifact, trials, book>>
  BY DEF ReportTrials
<1>2. CASE faults < MaxFaults /\ faults' = faults + 1 /\ ctl' = At("over")
  <2>1. faults' \in 0..MaxFaults
    BY <1>2, LessThanBound, TrialTyped
  <2>2. /\ ctl.live /\ ctl.invoked = 1 /\ ~ Priced => CurrentStatus(ledger') \in {"running", "quarantined"}
        /\ artifact # Receipted => CurrentStatus(ledger') \in {"running", "quarantined"}
    BY <1>1 DEF TrialInv, BookInv, OrphanInv
  <2> QED
    BY <1>1, <1>2, <2>1, <2>2, NoRow, OverKeeps
<1>3. CASE ctl' = [ctl EXCEPT !.at = "over", !.returned = TRUE] /\ UNCHANGED faults
  <2>1. ctl \in TrialControllers(ctl.cost) /\ TrialTypeInv /\ "over" \in TrialPlaces
    BY TrialTyped DEF TrialPlaces
  <2>2. ctl' \in TrialControllers(ctl.cost)
    BY <1>3, <2>1 DEF TrialControllers
  <2>3. /\ ctl'.at = "over" /\ ctl'.outcome = ctl.outcome
        /\ ctl'.live = ctl.live /\ ctl'.doubt = ctl.doubt /\ ctl'.invoked = ctl.invoked
        /\ ctl'.emitted = ctl.emitted /\ ctl'.seen = ctl.seen /\ ctl'.cost = ctl.cost
        /\ ctl'.priced = ctl.priced /\ ctl'.listed = ctl.listed
    BY <1>3, <2>1 DEF TrialControllers
  <2>4. Priced' = Priced /\ Receipted' = Receipted /\ (ctl.live => Priced)
    BY <1>1, <2>3 DEF Priced, Receipted, TrialInv, BookInv
  <2>5. TrialTypeInv'
    <3>1. Controls
      BY <2>1, <2>2, <2>3, TrialTyped DEF Controls
    <3> QED
      BY <1>1, <1>3, <2>1, <3>1, TypeIsKept DEF TrialTypeInv
  <2>6. TrialEvidenceInv' /\ TrialPlaceInv'
    BY <1>1, <2>3 DEF TrialInv, TrialEvidenceInv, TrialPast, TrialPlaceInv, TrialPlaces, TrialPreparing, TrialStarting,
       Judging, Receiving, Ending
  <2>7. SeenInv'
    BY <1>1, <2>3 DEF TrialInv, SeenInv, TrialPreparing, TrialStarting, Receiving, Ending
  <2>8. BookInv'
    BY <1>1, <2>3, <2>4 DEF TrialInv, BookInv, TrialPreparing, TrialStarting, Accounted, Receiving, Ending
  <2>9. GoOnInv'
    BY <1>1, <2>3 DEF TrialInv, GoOnInv, Accounted, Receiving, Ending
  <2>10. OrphanInv'
    BY <1>1, <2>3, <2>4 DEF TrialInv, OrphanInv, TrialPreparing, TrialStarting, Judging, Receiving, Ending, Handling, Failing,
       Interrupting
  <2>11. ReportInv'
    BY <1>1, <2>3, <2>4 DEF TrialInv, ReportInv
  <2> QED
    BY <2>5, <2>6, <2>7, <2>8, <2>9, <2>10, <2>11 DEF TrialInv
<1> QED
  BY <1>1, <1>2, <1>3 DEF ReportTrials

-----------------------------------------------------------------------------
(* A comparison: the invariant holds, and what follows. *)

LEMMA TrialInvInitial ==
  ASSUME ComparisonInit
  PROVE  TrialInv
<1>1. faults \in 0..MaxFaults
  BY TaskRunAssumption, ComparisonAssumption DEF ComparisonInit
<1>2. trials \in Seq({trials[i] : i \in DOMAIN trials}) /\ DOMAIN trials = {}
  BY DEF ComparisonInit
<1>3. Beginning
  BY <1>1, <1>2 DEF ComparisonInit, Beginning
<1> QED
  BY <1>3, BeginningKeeps

LEMMA TrialInvKept ==
  ASSUME TrialInv, ComparisonNext
  PROVE  TrialInv'
<1>1. CASE BindTrial \/ ObserveTrialAdmission \/ RecordTrialBilling \/ RecordTrialRunning \/ BlockTrial
  BY <1>1, BindTrialKeeps, ObserveTrialAdmissionKeeps, RecordTrialBillingKeeps, RecordTrialRunningKeeps, BlockTrialKeeps
<1>2. CASE ObserveTrialDispatch \/ InvokeTrial \/ TrialReturns \/ TrialRaises \/ PersistTrialObservation
  BY <1>2, ObserveTrialDispatchKeeps, InvokeTrialKeeps, TrialReturnsKeeps, TrialRaisesKeeps, PersistTrialObservationKeeps
<1>3. CASE JudgeTrial \/ PriceTrial \/ AccountTrial
  BY <1>3, JudgeTrialKeeps, PriceTrialKeeps, AccountTrialKeeps
<1>4. CASE RefuseReview \/ ObserveTrialPublication \/ IntendTrial \/ PublishReview
  BY <1>4, RefuseReviewKeeps, ObserveTrialPublicationKeeps, IntendTrialKeeps, PublishReviewKeeps
<1>5. CASE ReceiveFailure \/ ReceiveSuccess \/ EvaluateReview \/ CompleteTrial
  BY <1>5, ReceiveFailureKeeps, ReceiveSuccessKeeps, EvaluateReviewKeeps, CompleteTrialKeeps
<1>6. CASE AccountFailure \/ PriceFailure \/ FailTrial
  BY <1>6, AccountFailureKeeps, PriceFailureKeeps, FailTrialKeeps
<1>7. CASE AccountInterruption \/ PriceInterruption \/ InterruptTrial
  BY <1>7, AccountInterruptionKeeps, PriceInterruptionKeeps, InterruptTrialKeeps
<1>8. CASE NextTrial \/ ReportTrials \/ CrashComparison
  BY <1>8, NextTrialKeeps, ReportTrialsKeeps, CrashComparisonKeeps
<1> QED
  BY <1>1, <1>2, <1>3, <1>4, <1>5, <1>6, <1>7, <1>8 DEF ComparisonNext

LEMMA TrialInvMeans ==
  ASSUME TrialInv
  PROVE  TrialHasItsEvidence /\ TrialsAreOnRecord
<1>1. TrialHasItsEvidence
  BY DEF TrialInv, TrialEvidenceInv, TrialPast, TrialHasItsEvidence
<1>2. NothingFollowsCost
  BY DEF TrialInv, GoOnInv, NothingFollowsCost
<1>3. UnpricedIsQuarantined
  <2>1. SUFFICES ASSUME Over, ctl.live, ctl.invoked = 1, book \in {"none", "part"} \/ (book = "clean" /\ ~ ctl.cost.harmless)
                 PROVE  Anyhow /\ ~ ctl.returned
    BY DEF UnpricedIsQuarantined
  <2>2. ~ Priced
    BY <2>1 DEF Priced
  <2> QED
    BY <2>1, <2>2 DEF TrialInv, BookInv, Anyhow
<1>4. OrphanIsQuarantined
  BY DEF TrialInv, OrphanInv, OrphanIsQuarantined, Receipted, Over, Anyhow
<1>5. ReportMatches
  BY DEF TrialInv, ReportInv, ReportMatches, Receipted
<1> QED
  BY <1>1, <1>2, <1>3, <1>4, <1>5 DEF TrialsAreOnRecord

-----------------------------------------------------------------------------
(* A run or a comparison. *)

LEMMA SystemInvInitial ==
  ASSUME SystemInit
  PROVE  SystemInv
  BY RunInvInitial, TrialInvInitial DEF SystemInit, SystemInv

LEMMA SystemInvKept ==
  ASSUME SystemInv, [SystemNext]_comparisonVars
  PROVE  SystemInv'
<1>1. mode \in Modes => mode # "comparison"
  BY DEF Modes
<1>2. TrialInv => mode = "comparison"
  BY DEF TrialInv, TrialTypeInv
<1>3. CASE mode \in Modes /\ RunInv /\ Next
  <2>1. RunInv' /\ mode' = mode
    BY <1>3, RunInvKept
  <2> QED
    BY <1>3, <2>1 DEF SystemInv
<1>4. CASE TrialInv /\ ComparisonNext
  BY <1>4, TrialInvKept DEF SystemInv
<1>5. CASE UNCHANGED comparisonVars
  <2>1. CASE mode \in Modes /\ RunInv
    <3>1. RunInv'
      BY <1>5, <2>1 DEF comparisonVars, RunInv, RunTypeInv, EvidenceInv, PlaceInv, ReceiptInv, SuccessInv, Selected, Past
    <3> QED
      BY <1>5, <2>1, <3>1 DEF SystemInv, comparisonVars
  <2>2. CASE TrialInv
    <3>1. TrialTypeInv' /\ TrialEvidenceInv' /\ TrialPlaceInv'
      BY <1>5, <2>2 DEF comparisonVars, TrialInv, TrialTypeInv, TrialEvidenceInv, TrialPlaceInv, TrialPast
    <3>2. SeenInv' /\ BookInv' /\ GoOnInv'
      BY <1>5, <2>2 DEF comparisonVars, TrialInv, SeenInv, BookInv, GoOnInv, Priced, AllRows, Untrusted
    <3>3. OrphanInv' /\ ReportInv'
      BY <1>5, <2>2 DEF comparisonVars, TrialInv, OrphanInv, ReportInv, Receipted
    <3> QED
      BY <3>1, <3>2, <3>3 DEF TrialInv, SystemInv
  <2> QED
    BY <2>1, <2>2 DEF SystemInv
<1>6. (mode \in Modes /\ RunInv) \/ TrialInv
  BY DEF SystemInv
<1> QED
  BY <1>1, <1>2, <1>3, <1>4, <1>5, <1>6 DEF SystemNext

LEMMA SystemInvMeans ==
  ASSUME SystemInv
  PROVE  RunnersHaveTheirEvidence /\ OutcomesAreOnRecord
<1>1. CASE mode \in Modes /\ RunInv
  <2>1. mode # "comparison"
    BY <1>1 DEF Modes
  <2> QED
    BY <1>1, <2>1, RunInvMeans DEF RunnersHaveTheirEvidence, OutcomesAreOnRecord
<1>2. CASE TrialInv
  <2>1. mode = "comparison"
    BY <1>2 DEF TrialInv, TrialTypeInv
  <2> QED
    BY <1>2, <2>1, TrialInvMeans DEF RunnersHaveTheirEvidence, OutcomesAreOnRecord
<1> QED
  BY <1>1, <1>2 DEF SystemInv

LEMMA SystemInvHolds == SystemSpec => []SystemInv
<1>1. SystemInit => SystemInv
  BY SystemInvInitial
<1>2. SystemInv /\ [SystemNext]_comparisonVars => SystemInv'
  BY SystemInvKept
<1> QED
  BY <1>1, <1>2, PTL DEF SystemSpec

\* No runner is invoked, in a run of any kind or in a trial of a comparison, before
\* the rows that must precede it are on record, however many appends fail
\* (run_chief_of_staff, run_controlled_comparison).
THEOREM RunnersAreEvidenced == SystemSpec => []RunnersHaveTheirEvidence
<1>1. SystemInv => RunnersHaveTheirEvidence
  BY SystemInvMeans
<1> QED
  BY <1>1, SystemInvHolds, PTL

\* Whatever fails and wherever, what is reported is what is on record, an effect
\* without its receipt and a cost that is not on the books end in quarantine or
\* without an end, and no trial follows one that may have cost something
\* (_terminalize_comparison_run, _record_unknown_comparison_billing).
THEOREM OutcomesAreRecorded == SystemSpec => []OutcomesAreOnRecord
<1>1. SystemInv => OutcomesAreOnRecord
  BY SystemInvMeans
<1> QED
  BY <1>1, SystemInvHolds, PTL

\* In every comparison, whatever trial is given an outcome, the resolution of what
\* it cost errs on the side of stopping (_resolve_billing_disposition).
THEOREM BillingStaysConservative == SystemSpec => []BillingIsConservative
<1>1. BillingIsConservative
  BY BillingConservative DEF BillingIsConservative
<1> QED
  BY <1>1, PTL

===============================================================================
