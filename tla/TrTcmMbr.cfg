SPECIFICATION Spec
CONSTANTS
  Word = 64
  NsecPerSec = 5
  Kilo = 2
  DefaultPir = 23
  Burst = 3
  Rates = {0, 2, 7}
  Lengths = {1, 2}
  Gaps = {0, 1, 4, 17}
  Horizon = 20
\* The clock stops at Horizon, and a division by zero stops the system.
CHECK_DEADLOCK FALSE
INVARIANTS
  MbrHonoured
