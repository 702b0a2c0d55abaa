SPECIFICATION Spec
CHECK_DEADLOCK FALSE
CONSTANTS
  t1 = t1  t2 = t2
  Threads = {t1, t2}
  AttemptsPerMinute = 2
  Window = 2
  LastTick = 4
  Modes <- MCModes
  Lines <- MCLines
  DefaultMax = 7
  MaxLines = 4
INVARIANTS ExactUnlessRaced DequeBounded VerdictIsDeserved ConnectionsAreUnbound LinesAnswered ReservesEnough
