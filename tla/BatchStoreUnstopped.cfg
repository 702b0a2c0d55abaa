SPECIFICATION UnstoppedSpec
CONSTANTS
  alice = alice  bob = bob
  b1 = b1  b2 = b2
  t1 = t1  t2 = t2  t3 = t3
  canceller = canceller  retention = retention
  NoBatch = NoBatch
  Users = {alice, bob}
  Batches = {b1, b2}
  Tasks = {t1, t2, t3}
  Cancellers = {canceller}
  Retention = retention
  OwnerOf <- MCTwoOwners
  BatchOf <- MCBatchOf
  Weight <- MCWeight
  UsageOf <- MCUsageOf
  Allowances = {2, 4}
  GrantLimit = 6
INVARIANTS ExactReservation Solvent ResultsComplete
