\* Unlock times 1 and 2 minutes, an update sends into an empty queue, two
\* faults.  The theorems have the safety properties for all bounds.
CONSTANTS
  Minutes = {1, 2}
  Window = 1
  MaxFaults = 2
SPECIFICATION FairSpec
INVARIANTS
  TypeOK
  CountdownMatchesLock
  RelayAgrees
PROPERTIES
  OpensOnlyWhenAsked
  OnlyCleanReportReorders
  KeepsLease
  ImplementsLease
  Relocks
  RelayFollowsLock
