SPECIFICATION FairSpec
CONSTANTS
  a = a
  b = b
  Deployers = {d1, d2, d3}
  NumFiles <- MCNumFiles
  Ddl <- MCDdl
  Contents <- MCContents
  Releases <- MCReleases
  MaxDeployments <- MCMaxDeployments
INVARIANTS
  OneDeployer
  LogTellsWhatRan
  LockIsGivenBack
PROPERTIES
  InReleaseOrder
  DeploymentEnds
\* the deployments are bounded
CHECK_DEADLOCK FALSE
