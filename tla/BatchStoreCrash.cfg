SPECIFICATION FairUnstoppedSpec
CONSTANTS
  alice = alice  bob = bob
  b1 = b1  b2 = b2
  t1 = t1  t2 = t2  t3 = t3
  canceller = canceller  retention = retention
  NoBatch = NoBatch
  Users = {alice}
  Batches = {b1}
  Tasks = {t1, t2}
  Cancellers = {canceller}
  Retention = retention
  OwnerOf <- MCOwnerOf
  BatchOf <- MCBatchOf
  Weight <- MCWeight
  UsageOf <- MCFullUsage
  Allowances = {6}
  GrantLimit = 6
PROPERTY SettledIsFinalized
