\* A new deadline while an activity or a plan is being added.
SPECIFICATION Spec
CONSTANTS
  Req = {r1, r2}
  NoDeadline = NoDeadline
  Time <- Instants
  TaskForms <- TimedTasks
  ActivityForms <- TimedActivities
  PlanForms <- TimedPlans
  LegacyTasks <- OneTask
  LegacyActivities <- OldActivity
  MaxRows = 2
PROPERTY
  DeadlineRespected
