\* A low, a neutral and a high reading; three presses, so that the second can
\* interrupt the verdict of the first and the third the test of the second.
CONSTANTS
  Readings = {0, 5, 8}
  threshold = 5
  upLimit = 1
  downLimit = 2
  MaxPresses = 3
SPECIFICATION FairSpec
INVARIANTS
  TypeOK
PROPERTIES
  VerdictRestsOnBreath
  VerdictNeedsFace
  KeepsContract
  TestEnds
  MatchIsWithdrawn
