CONSTANTS
  r1 = r1
  r2 = r2
  MCServices = {"core-control-plane", "app-server-adapter", "orchestrator", "gateway", "deployment-agent"}
  Releases = {r1, r2}
  First = r1
  Version <- MCVersion
  Manifest <- MCManifest
  Activations = {1, 2}
  Changes <- MCChanges
  MaxFaults = 1
  Damaged = Damaged
  Down = Down
  Nobody = Nobody
SPECIFICATION DeploymentSpec
INVARIANTS
  AnsweredReleaseIsServed
  DependenciesRestartFirst
PROPERTIES
  ActivationsEnd
CHECK_DEADLOCK FALSE
