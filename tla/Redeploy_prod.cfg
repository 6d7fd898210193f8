\* "prod" is offered by the job (work/jobs/Redeploy/config.xml:42) and has no
\* branch in the Login stage.
CONSTANTS
  dev11 = dev11  uat = uat  prod = prod
  sDev = sDev  sUat = sUat  sProd = sProd  v2 = v2
  Apps = {a1}
  Envs = {dev11, prod}
  Spaces = {sDev, sProd}
  Builds = {b1, b2}
  Droplets = {b1, b2}
  Slots = {"live", "temp"}
  Agents = {g1}
  NoSpace = NoSpace
  NoBuild = NoBuild
  Versions = {v1}
  NoVersion = NoVersion
  Published <- MCPublished
  LoginEnvs = {dev11}
  SpaceOf <- MCSpaceOf
  Executors = 2
  ConcurrentBuilds = FALSE
SPECIFICATION SafetySpec
PROPERTIES SuccessMeansLive
CHECK_DEADLOCK FALSE
