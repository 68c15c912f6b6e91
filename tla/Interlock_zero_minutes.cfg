\* The app may store 0 minutes with V30.
CONSTANTS
  Minutes = {0, 1}
  Window = 1
  MaxFaults = 0
SPECIFICATION FairSpec
PROPERTIES
  Relocks
