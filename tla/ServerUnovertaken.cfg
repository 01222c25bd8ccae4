\* Two requests at once, neither of which changes a row the other will write by.
SPECIFICATION Unovertaken
CONSTANTS
  Req = {r1, r2}
  NoDeadline = NoDeadline
  Time <- TwoInstants
  TaskForms <- Deadline
  ActivityForms <- TwoActivities
  PlanForms <- LatePlan
  LegacyTasks <- OneTask
  LegacyActivities <- OldActivity
  MaxRows = 2
SYMMETRY Symmetry
INVARIANTS
  UndoneExact
PROPERTIES
  KeepsAtomic
  ExtendOnlyMovesEnd
  DeadlineRespected
