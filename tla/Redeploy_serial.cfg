\* One job without concurrent builds (work/jobs/Redeploy/config.xml:60), one agent
\* with two executors (work/config.xml:5), three builds in any order.
CONSTANTS
  dev11 = dev11  uat = uat  prod = prod
  sDev = sDev  sUat = sUat  sProd = sProd  v2 = v2
  Apps = {a1}
  Envs = {dev11, uat}
  Spaces = {sDev, sUat}
  Builds = {b1, b2, b3}
  Droplets = {b1, b2, b3}
  Slots = {"live", "temp"}
  Agents = {g1}
  NoSpace = NoSpace
  NoBuild = NoBuild
  Versions = {v1, v2}
  NoVersion = NoVersion
  Published <- MCPublished
  LoginEnvs = {dev11, uat}
  SpaceOf <- MCSpaceOf
  Executors = 2
  ConcurrentBuilds = FALSE
SPECIFICATION SafetySpec
SYMMETRY BuildSymmetry
INVARIANTS TypeOK RoutesInOwnSpace IInv
PROPERTIES OnlyOwnSpace OutageOnlyByPush SuccessMeansLive NeverWedged NoComeback ImplementsLiveService
\* A finite set of builds: when all have ended nothing happens any more.
CHECK_DEADLOCK FALSE
