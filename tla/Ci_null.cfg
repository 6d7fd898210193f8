SPECIFICATION Spec
CONSTANTS
  Apps = {a1}
  NotDeployable = {}
  Coverages = {"enough", "low", "too low"}
  Old = 0
  OldResults = {}
  Last = 1
  NoBuild = NoBuild
INVARIANT OnlyFailedCalledFailed
