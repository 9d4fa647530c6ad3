CONSTANTS
  MaxFaults = 3
  TrialFaults = 2
  MaxObservations = 2
  Trials = 2
  Nobody = Nobody
  MaxLifetime = 10
  a1 = a1
  a2 = a2
  Accounts <- MCAccounts
  Instants <- MCInstants
  Preflights <- MCPreflights
  Postflights <- MCPostflights
  Claimed <- MCClaimed
  Signalled <- MCSignalled
SPECIFICATION SystemSpec
INVARIANTS
  RunnersHaveTheirEvidence
  OutcomesAreOnRecord
  InspectionsCanBeReliedOn
  BillingIsConservative
CHECK_DEADLOCK FALSE
