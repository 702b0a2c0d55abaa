SPECIFICATION ReconcileSpec
CONSTANTS
  alice = alice
  g = g  s1 = s1
  Nobody = Nobody
  Users = {alice}
  Account = alice
  Requests = {g, s1}
  Amounts <- MCAmounts
  Adjustments <- MCAdjustments
  CallOf <- MCCallOf
INVARIANT DriftFree
