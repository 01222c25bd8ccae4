\* Two activities of one task that end at the same moment.
SPECIFICATION Spec
CONSTANTS
  Req = {r1}
  NoDeadline = NoDeadline
  Time <- Instants
  TaskForms <- TimedTasks
  ActivityForms <- TimedActivities
  PlanForms <- TimedPlans
  LegacyTasks <- OneTask
  LegacyActivities <- OldActivity
  MaxRows = 2
INVARIANT
  UndoneListedOnce
