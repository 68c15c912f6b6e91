\* Three slots; five faults fill them and let a sixth fault meet the reset.
CONSTANTS
  Slots = 3
  MaxFaults = 5
SPECIFICATION FairSpec
INVARIANTS
  TypeOK
  FullOnlyOfGone
  VanishedAreTried
PROPERTIES
  SessionsEnd
  RelayIsServed
