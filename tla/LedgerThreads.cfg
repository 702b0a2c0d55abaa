SPECIFICATION FairSpec
CONSTANTS
  alice = alice
  g = g  s1 = s1  s2 = s2  c = c  w = w  a = a
  Nobody = Nobody
  Users = {alice}
  Requests = {g, s1, s2, c, w, a}
  Amounts <- MCAmounts
  Adjustments <- MCAdjustments
  CallOf <- MCCallOf
INVARIANTS TypeOK DriftFree NoLeakedLock
PROPERTIES LedgerIsAtomic EveryCallEnds
