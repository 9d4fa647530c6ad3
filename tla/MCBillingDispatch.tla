------------------------- MODULE MCBillingDispatch -------------------------
(***************************************************************************)
(* Instances of BillingDispatch for TLC.                                   *)
(***************************************************************************)
EXTENDS BillingDispatch, TLC

CONSTANTS r1, r2, r3, a1, a2, p1, p2

Routed(a, p) == [account |-> a, profile |-> p]

\* Everyone but the one named is routed to the account a1 and the profile p1.
Except(one, other) == [r \in Runs |-> IF r = one THEN other ELSE Routed(a1, p1)]

SameRoute == {Except(r1, Routed(a1, p1))}

\* r1 and r2 have both in common, the account or the profile; one may have no
\* profile.
OtherRoutes == {Routed(a1, p2), Routed(a2, p1), Routed(a1, Anyone)}

EveryOverlap ==
  SameRoute \cup {Except(r, other) : r \in {r1, r2}, other \in OtherRoutes}

\* r3 has the account of the others, and a profile of its own.
ThreeRuns == {Except(r3, Routed(a1, p2))}

Routes == EveryOverlap \cup ThreeRuns

\* Bound: r3 takes part only where it shares the account of the two others, and
\* there the operator closes no breaker.
ThirdRunOnlyThere ==
  IF route \in ThreeRuns THEN pardons = {} ELSE run[r3].at = "new"

Interchangeable == Permutations({r1, r2})

\* The operator closes no breaker, or that of the shared account.
NoScopes == {}
SharedScopes == {<<a1, Anyone>>}
=============================================================================
