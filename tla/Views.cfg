\* Pages built while requests write between their SELECTs.
SPECIFICATION ViewsSpec
CONSTANTS
  Req = {r1}
  NoDeadline = NoDeadline
  Time <- TwoInstants
  TaskForms <- AnyTask
  ActivityForms <- InAndOut
  PlanForms <- InRange
  LegacyTasks <- OneTask
  LegacyActivities <- Nothing
  MaxRows = 2
  LatestN = 1
  PlansLimit = 2
  UndoneLimit = 2
  WindowLength = 1
INVARIANTS
  PageOK
  TaskFound
  DayPlansKnown
  TaskPageBehind
  ExportExact
PROPERTIES
  DayLostByMove
  PlansNotCut
  UndoneComplete
