SPECIFICATION LiveSpec
CONSTANTS
  alice = alice  k1 = k1  k2 = k2  k3 = k3  r1 = r1  r2 = r2  Nobody = Nobody
  People = {alice}
  Keys = {k1, k2, k3}
  Requests = {r1, r2}
  AutoProvision = TRUE
  DefaultGrant = TRUE
  MaxFaults = 1
INVARIANTS OneGrant BarredDoesNothing
PROPERTIES RotationRevokes EveryVisitEnds
