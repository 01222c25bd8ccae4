\* A day's page while an activity on it is edited.
SPECIFICATION ViewsSpec
CONSTANTS
  Req = {r1}
  NoDeadline = NoDeadline
  Time <- TwoInstants
  TaskForms <- AnyTask
  ActivityForms <- InAndOut
  PlanForms <- InRange
  LegacyTasks <- OneTask
  LegacyActivities <- Nothing
  MaxRows = 2
  LatestN = 1
  PlansLimit = 2
  UndoneLimit = 2
  WindowLength = 1
INVARIANT
  DayTasksKnown
