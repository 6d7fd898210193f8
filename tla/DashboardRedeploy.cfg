CONSTANTS
  a1 = a1  a2 = a2  v1 = v1  v2 = v2  dev11 = dev11  j1 = j1  sDev = sDev
  Apps = {a1, a2}
  Envs = {dev11}
  Versions = {v1, v2}
  NoVersion = NoVersion
  Jobs = {j1}
  Releases <- MCReleases
  Pages = {p1}
  Configs <- OneRow
  Workflow = {j1}
  JobStates = {"ready"}
  MaxCalls = 2
  Spaces = {sDev}
  Slots = {"live", "temp"}
  Agents = {g1}
  Builds = {1, 2}
  Droplets = {1, 2}
  NoSpace = NoSpace
  NoBuild = NoBuild
  Published <- MCPublished
  LoginEnvs = {dev11}
  SpaceOf <- MCSpaceOf
  Executors = 1
  ConcurrentBuilds = FALSE
SPECIFICATION MCDRSpec
INVARIANTS DRTypeOK SuccessfulIsLive LiveWasAskedFor
PROPERTIES EveryClickIsAnswered
CHECK_DEADLOCK FALSE
