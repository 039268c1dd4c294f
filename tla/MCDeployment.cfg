SPECIFICATION DeploymentSpec
CONSTANTS
  Jobs <- MCJobs
  Instants <- MCInstants
  NoString = NoString
INVARIANTS
  TypeOK
  SpecsAreLayered
  ListsAreOwn
  NextOpenIsNext
CHECK_DEADLOCK FALSE
