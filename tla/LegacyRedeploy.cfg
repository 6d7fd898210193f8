\* Four builds of a job that does not run its builds beside each other.
CONSTANTS
  Apps = {a1}
  Environments = {dev11, uat}
  Envs = {domain}
  Domain = domain
  Spaces = {sDev}
  Space = sDev
  Builds = {b1, b2, b3, b4}
  Droplets = {b1, b2, b3, b4, dev11, uat}
  Slots = {"temp", dev11, uat}
  Agents = {g1, g2}
  NoSpace = NoSpace
  NoBuild = NoBuild
  ConcurrentBuilds = FALSE
SPECIFICATION Spec
SYMMETRY BuildSymmetry
INVARIANTS LegacyInv OwnAnswers
PROPERTIES SuccessIsSwapped AnsweringStays RefusedOnlyIfMissing
\* A finite set of builds: when all have ended nothing happens any more.
CHECK_DEADLOCK FALSE
