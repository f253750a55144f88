SPECIFICATION FairSpec
CONSTANTS
  d1 = d1
  d2 = d2
  r0 = r0
  Deploys = {d1, d2}
  Initial = r0
  NoRelease = none
  SchemaOf <- MCSchemaOf
  Starts <- MCStarts
  KEEP = 1
  Checks = 2
  MaxFaults = 2
INVARIANTS SchemaReady OutcomeIsTrue
PROPERTIES EveryDeployEnds ServiceReturns
CHECK_DEADLOCK FALSE
