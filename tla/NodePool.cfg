SPECIFICATION FairSpec
CONSTANTS
  big = big  small = small
  t1 = t1  t2 = t2
  Nodes = {big, small}
  Tasks = {t1, t2}
  Configs <- MCConfigs
  MaxAttempts = 2
  Threshold = 2
  MaxRestarts = 2
  NoNode = NoNode
INVARIANTS TypeOK CountersMatch SlotsRespected EveryClaimFits Levelled RunningIsWorked EjectionIsEarned
PROPERTY EveryTaskEnds
