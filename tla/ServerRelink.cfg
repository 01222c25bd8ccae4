\* Two activities for one plan, both posted from pages that offered it.
SPECIFICATION Spec
CONSTANTS
  Req = {r1, r2}
  NoDeadline = NoDeadline
  Time <- Instant
  TaskForms <- AnyTask
  ActivityForms <- AnyActivity
  PlanForms <- AnyPlan
  LegacyTasks <- OneTask
  LegacyActivities <- Nothing
  MaxRows = 2
PROPERTY
  LinkKept
