SPECIFICATION FaultlessSpec
CONSTANTS
  alice = alice  bob = bob
  b1 = b1  b2 = b2
  t1 = t1  t2 = t2  t3 = t3
  canceller = canceller  retention = retention
  NoBatch = NoBatch
  Users = {alice}
  Batches = {b1, b2}
  Tasks = {t1, t2, t3}
  Cancellers = {canceller}
  Retention = retention
  OwnerOf <- MCOwnerOf
  BatchOf <- MCBatchOf
  Weight <- MCWeight
  UsageOf <- MCFullUsage
  Allowances = {4}
  GrantLimit = 6
INVARIANT Solvent
CHECK_DEADLOCK FALSE
