SPECIFICATION Spec
CONSTANTS
  Scales <- TwoScales
  MaxEvents = 1
  Probes = {anna, ben}
  Attempts = 2
  Nobody = Nobody
INVARIANTS
  TypeOK
  SeedsConverge
  ResolvableVersionsAreAttributed
  DemoReportsThreeRuns
  NothingIsLeftForNothing
PROPERTIES
  LiveProbesAreLeftAlone
  ProbesEnd
CHECK_DEADLOCK FALSE
