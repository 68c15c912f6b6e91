\* No faults are needed.
CONSTANTS
  Minutes = {1}
  Window = 1
  MaxFaults = 0
SPECIFICATION Spec
PROPERTIES
  AlcoholLocks
