\* Two builds of Redeploy, to dev11 or uat, of the CI's version or of a release, beside
\* two builds of the CI.
CONSTANTS
  dev11 = dev11  sDev = sDev  sUat = sUat
  Apps = {a1}
  Envs = {dev11, uat}
  Spaces = {sDev, sUat}
  Builds = {b1, b2}
  CiBuilds = {c1, c2}
  Droplets = {b1, b2, c1, c2}
  Slots = {"live", "temp"}
  Agents = {g1}
  NoSpace = NoSpace
  NoBuild = NoBuild
  Versions = {v1, v3}
  NoVersion = NoVersion
  Published <- MCPublished
  LoginEnvs = {dev11, uat}
  SpaceOf <- MCSpaceOf
  Executors = 2
  ConcurrentBuilds = FALSE
  ArtifactOf <- MCArtifactOf
  CiEnv = dev11
  DevVersion = v1
SPECIFICATION MCSpec
SYMMETRY BuildSymmetry
INVARIANTS CiTypeOK
PROPERTIES SuccessOrOvertaken RefusedOnlyWhenTaken OutageOnlyByAPush MixedOnlyIfRaced  PromiseElsewhere
\* A finite set of builds: when all have ended nothing happens any more.
CHECK_DEADLOCK FALSE
