\* One page, one submit and two changes of applications while it is rendered.
SPECIFICATION Spec
CONSTANTS
  a1 = a1  a2 = a2  dev11 = dev11  uat = uat
  Pages = {p1}
  Apps = {a1, a2}
  Envs = {dev11, uat}
  Blank = Blank
  Configs <- MCConfigs
  MaxSubmits = 1
  MaxChanges = 2
INVARIANTS TypeOK TableAligned RunningIsComplete CellsAreRecent
PROPERTIES RenderEnds
\* A shown page stays as it is; nothing has to happen after it.
CHECK_DEADLOCK FALSE
