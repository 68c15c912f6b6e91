\* The house WiFi works and the app's server never answers; one reset.
CONSTANTS
  Minutes = {1}
  Window = 1
  MaxFaults = 1
SPECIFICATION FairSpecWithoutAppServer
PROPERTIES
  ResetClosesRelay
