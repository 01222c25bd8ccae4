-------------------------------- MODULE Store --------------------------------
(***************************************************************************)
(* The rows and the SQL statements of database/database.go, as operators   *)
(* on tables.  A table is a sequence of rows and a row's id is its index:  *)
(* every id column is an INTEGER PRIMARY KEY without AUTOINCREMENT, so     *)
(* SQLite hands out max(id) + 1, and the program never deletes a row.      *)
(*                                                                         *)
(* Free text (titles, descriptions, notes, locations) and the due date,    *)
(* which no guard of the program reads, are abstracted away.               *)
(***************************************************************************)
EXTENDS Integers, Sequences, FiniteSets

CONSTANTS
  Time,        \* the instants a form can name, in Unix seconds
  NoDeadline   \* a NULL deadline

ASSUME TimeAssumption == Time \subseteq Int /\ NoDeadline \notin Int

StatusUnknown    == 0
StatusNotStarted == 1
StatusInProgress == 2
StatusDone       == 3

Status == {StatusUnknown, StatusNotStarted, StatusInProgress, StatusDone}

RowId == Nat \ {0}

TaskRow     == [deadline : Time \cup {NoDeadline}]
ActivityRow == [task : RowId, start : Time, end : Time, status : Status]
PlanRow     == [task : RowId, activity : Nat, atAfter : Time, before : Time]

(* storage.Activity: what handlers hold in memory; id is 0 until stored.   *)
Activity == [id : Nat, task : RowId, start : Time, end : Time, done : BOOLEAN]

-----------------------------------------------------------------------------
(* Writes.                                                                 *)

(* The id that LastInsertId reports for a row appended to table.           *)
NewId(table) == Len(table) + 1

(* The status column ActivityAdd stores.                                   *)
AddStatus(done) == IF done THEN StatusDone ELSE StatusInProgress

MutEditStatus(done, orig) == IF done THEN StatusDone ELSE StatusInProgress

(* The status column ActivityEdit stores over a row whose status was orig. *)
EditStatus(done, orig) ==
  IF done THEN StatusDone
  ELSE IF orig = StatusDone THEN StatusInProgress
  ELSE orig

(* The activity_log row that stores storage.Activity a with this status.   *)
RowOf(a, status) ==
  [task |-> a.task, start |-> a.start, end |-> a.end, status |-> status]

(* activityToStorage: the four statuses collapse to one Boolean.           *)
activityToStorage(id, row) ==
  [id |-> id, task |-> row.task, start |-> row.start, end |-> row.end,
   done |-> row.status = StatusDone]

-----------------------------------------------------------------------------
(* Queries.                                                                *)

(* The ids of the activities of task t.                                    *)
ActivitiesOf(acts, t) == {a \in DOMAIN acts : acts[a].task = t}

MutEndsLast(acts, a) ==
  \E b \in ActivitiesOf(acts, acts[a].task) : acts[b].end <= acts[a].end

(* time_end = (SELECT MAX(time_end) ... of the same task)                  *)
EndsLast(acts, a) ==
  \A b \in ActivitiesOf(acts, acts[a].task) : acts[b].end <= acts[a].end

(* deadlineWhere: deadline IS NULL OR UNIXEPOCH(deadline) >= now           *)
DeadlineAhead(task, now) == task.deadline # NoDeadline => task.deadline >= now

(* notDoneJoinWhere: one row per joined activity, so a task whose last     *)
(* activities end at the same moment appears once for each of them.        *)
NotDoneJoin(tasks, acts) ==
  {row \in (DOMAIN tasks) \X (DOMAIN acts) :
     /\ acts[row[2]].task = row[1]
     /\ EndsLast(acts, row[2])
     /\ acts[row[2]].status # StatusDone}

(* unionNoLogs: tasks without any activity, written with activity 0.       *)
NoLogs(tasks, acts) ==
  {<<t, 0>> : t \in {u \in DOMAIN tasks : ActivitiesOf(acts, u) = {}}}

(* TaskSearch("", now): the rows of the UNION ALL, each a <<task, joined   *)
(* activity>> pair.                                                        *)
TaskSearch(tasks, acts, now) ==
  {row \in NotDoneJoin(tasks, acts) \cup NoLogs(tasks, acts) :
     DeadlineAhead(tasks[row[1]], now)}

(* Range(lo, hi): the three SELECTs, in the order the code issues them.    *)
RangeActivities(acts, lo, hi) ==
  {a \in DOMAIN acts : acts[a].start >= lo /\ acts[a].end < hi}

RangePlans(plans, lo, hi) ==
  {p \in DOMAIN plans : plans[p].atAfter >= lo /\ plans[p].before < hi}

MutRangeTasks(tasks, acts, plans, lo, hi) ==
  {t \in DOMAIN tasks : \E p \in RangePlans(plans, lo, hi) : plans[p].task = t}

MutRangeTasksSwapped(tasks, acts, plans, lo, hi) ==
  {t \in DOMAIN tasks :
     \/ \E p \in RangePlans(plans, hi, lo) : plans[p].task = t
     \/ \E a \in RangeActivities(acts, lo, hi) : acts[a].task = t}

RangeTasks(tasks, acts, plans, lo, hi) ==
  {t \in DOMAIN tasks :
     \/ \E p \in RangePlans(plans, lo, hi) : plans[p].task = t
     \/ \E a \in RangeActivities(acts, lo, hi) : acts[a].task = t}

=============================================================================
