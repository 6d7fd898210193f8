SPECIFICATION SafetySpec
CONSTANTS
  a1 = a1  a2 = a2  v1 = v1  v2 = v2  v3 = v3  dev11 = dev11  uat = uat  j1 = j1  j2 = j2
  Apps = {a1, a2}
  Envs = {dev11, uat}
  Versions = {v1, v2, v3}
  NoVersion = NoVersion
  Jobs = {j1, j2}
  Releases <- MCReleases
  Pages = {p1}
  Configs <- SeveralRows
  Workflow = {j1, j2}
  JobStates = {"ready"}
  MaxCalls = 1
INVARIANT CorrespondingJob
CHECK_DEADLOCK FALSE
