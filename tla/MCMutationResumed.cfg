SPECIFICATION Spec
CONSTANTS
  Storage = 6
  MaxLength = 4
  MaxDelta = 2
  HeaderLen <- MCHeaderLen
  Fixtures <- MCFixtures
  CallerHeaders <- MCCallerHeaders
INVARIANT
  PayloadResizingFinalizes
