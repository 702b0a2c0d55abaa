SPECIFICATION Spec
CONSTANTS
  alice = alice  bob = bob  carol = carol
  Users = {alice, bob, carol}
  Capacity = 2
  BatchSizes = {1, 3}
  MaxTasks = 6
INVARIANTS ClaimsByTurn FairShare OldestIsTaken
