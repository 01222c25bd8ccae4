\* An extension and an edit of the same activity at once.
SPECIFICATION Spec
CONSTANTS
  Req = {r1, r2}
  NoDeadline = NoDeadline
  Time <- Instants
  TaskForms <- TimedTasks
  ActivityForms <- TimedActivities
  PlanForms <- TimedPlans
  LegacyTasks <- OneTask
  LegacyActivities <- OldActivity
  MaxRows = 1
PROPERTY
  ExtendOnlyMovesEnd
