SPECIFICATION MCSpec
CONSTANTS
  Apps = {a1, a2}
  NotDeployable = {a2}
  first = a1
  Coverages = {"enough", "too low"}
  Old = 1
  OldResults = {"UNSTABLE"}
  Last = 3
  NoBuild = NoBuild
INVARIANTS TypeOK NoFailureUnannounced FinallyOnlyIfSilent StatusesSettled RepositoryWhole
PROPERTY CountIsRunOfBad
