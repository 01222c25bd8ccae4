\* References between rows, with requests interleaving statement by statement.
SPECIFICATION Spec
CONSTANTS
  Req = {r1, r2, r3}
  NoDeadline = NoDeadline
  Time <- Instant
  TaskForms <- AnyTask
  ActivityForms <- AnyActivity
  PlanForms <- AnyPlan
  LegacyTasks <- OneTask
  LegacyActivities <- Nothing
  MaxRows = 2
SYMMETRY Symmetry
INVARIANTS
  TypeOK
  References
  PlanFulfilledByOwnTask
  OnePlanPerActivity
  Consistent
PROPERTY
  KeepsLedger
