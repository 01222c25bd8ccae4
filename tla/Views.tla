-------------------------------- MODULE Views --------------------------------
(***************************************************************************)
(* The GET handlers of server/main.go that need more than one SELECT, or   *)
(* cut a result off, beside the handlers of Server that write.  No page is *)
(* built in a transaction: writes happen between any two of its SELECTs.   *)
(*                                                                         *)
(* One page is built at a time.  It is kept until it is left, so that the  *)
(* properties can look at it; a reader does not disturb another.           *)
(***************************************************************************)
EXTENDS Server

CONSTANTS
  LatestN,       \* activities on the latest page (7 in the code)
  PlansLimit,    \* plans read for a task's page (100)
  UndoneLimit,   \* rows read for the undone page (100)
  WindowLength   \* rows read at a time by an export (100)

ASSUME LimitsAssumption ==
  {LatestN, PlansLimit, UndoneLimit, WindowLength} \subseteq Nat \ {0}

VARIABLE page    \* the page being built: its next SELECT, what it has read

NoPage == [pc |-> "none"]

ViewsInit == Init /\ page = NoPage

Reads(pc) == page.pc = pc

-----------------------------------------------------------------------------
(* GET /day/{date}: the three SELECTs of Range.  Of the activities and     *)
(* plans it keeps the tasks, which the page looks up by id.                *)

dayView ==
  /\ page = NoPage
  /\ \E lo, hi \in Time :
       /\ lo < hi
       /\ page' = [pc |-> "RangePlans", lo |-> lo, hi |-> hi,
                   activities |-> {acts[a].task : a \in RangeActivities(acts, lo, hi)}]

SelectPlans ==
  /\ Reads("RangePlans")
  /\ page' = [pc |-> "RangeTasks", lo |-> page.lo, hi |-> page.hi,
              activities |-> page.activities,
              plans |-> {plans[p].task : p \in RangePlans(plans, page.lo, page.hi)}]

SelectTasks ==
  /\ Reads("RangeTasks")
  /\ page' = [pc |-> "day", activities |-> page.activities, plans |-> page.plans,
              tasks |-> RangeTasks(tasks, acts, plans, page.lo, page.hi)]

-----------------------------------------------------------------------------
(* GET /activity/{id}, /activity/{id}/edit and /activity/latest: read      *)
(* activities, then the task of each; a task that is not found fails the   *)
(* request.                                                                *)

activityView ==
  /\ page = NoPage
  /\ \E a \in DOMAIN acts : page' = [pc |-> "TaskGet", follow |-> {acts[a].task}]

(* ActivityLatestN: of several activities that end together any may come   *)
(* first.                                                                  *)
Latest ==
  {as \in SUBSET (DOMAIN acts) :
     /\ Cardinality(as) = IF Len(acts) < LatestN THEN Len(acts) ELSE LatestN
     /\ \A a \in as, b \in (DOMAIN acts) \ as : acts[b].end <= acts[a].end}

activityLatest ==
  /\ page = NoPage
  /\ \E as \in Latest : page' = [pc |-> "TaskGet", follow |-> {acts[a].task : a \in as}]

TaskGet ==
  /\ Reads("TaskGet")
  /\ \E t \in page.follow :
       page' = IF t \in DOMAIN tasks
                 THEN [pc |-> "TaskGet", follow |-> page.follow \ {t}]
                 ELSE [pc |-> "not found"]

-----------------------------------------------------------------------------
(* Pages of rows: LIMIT limit OFFSET offset over rows in the order of ids. *)

PageOf(rows, limit, offset) ==
  {x \in rows : Cardinality({y \in rows : y < x}) \in offset..offset + limit - 1}

PlansOf(t) == {p \in DOMAIN plans : plans[p].task = t}

(* GET /task/{id}: TaskGet, TaskGetActivities, TaskGetPlans.               *)
taskView ==
  /\ page = NoPage
  /\ \E id \in DOMAIN tasks : page' = [pc |-> "TaskGetActivities", task |-> id]

TaskGetActivities ==
  /\ Reads("TaskGetActivities")
  /\ page' = [pc |-> "TaskGetPlans", task |-> page.task,
              activities |-> ActivitiesOf(acts, page.task)]

MutTaskGetPlans ==
  /\ Reads("TaskGetPlans")
  /\ LET ps == PageOf(PlansOf(page.task), PlansLimit - 1, 0)
     IN  page' = IF Cardinality(ps) = PlansLimit
                   THEN [pc |-> "too many plans"]
                   ELSE [pc |-> "task", task |-> page.task,
                         activities |-> page.activities,
                         plans |-> ps, links |-> {plans[p].activity : p \in ps}]

(* When as many plans are read as the limit allows, there may be more and  *)
(* the page is refused.                                                    *)
TaskGetPlans ==
  /\ Reads("TaskGetPlans")
  /\ LET ps == PageOf(PlansOf(page.task), PlansLimit, 0)
     IN  page' = IF Cardinality(ps) = PlansLimit
                   THEN [pc |-> "too many plans"]
                   ELSE [pc |-> "task", task |-> page.task,
                         activities |-> page.activities,
                         plans |-> ps, links |-> {plans[p].activity : p \in ps}]

(* GET /undone-tasks: one SELECT, with a warning when it may be cut off.   *)
(* Which rows LIMIT keeps is left open: they are in the order of deadline  *)
(* and due date, compared as the text they are stored as.                  *)
Undone(now) ==
  {rows \in SUBSET TaskSearch(tasks, acts, now) :
     LET found == Cardinality(TaskSearch(tasks, acts, now))
     IN  Cardinality(rows) = IF found < UndoneLimit THEN found ELSE UndoneLimit}

MutUndoneTasks ==
  /\ page = NoPage
  /\ \E now \in Time : \E rows \in Undone(now) :
       page' = [pc |-> "undone", now |-> now, listed |-> {row[1] : row \in rows},
                tooMany |-> Cardinality(rows) > UndoneLimit]

undoneTasks ==
  /\ page = NoPage
  /\ \E now \in Time : \E rows \in Undone(now) :
       page' = [pc |-> "undone", now |-> now, listed |-> {row[1] : row \in rows},
                tooMany |-> Cardinality(rows) = UndoneLimit]

-----------------------------------------------------------------------------
(* GET /rdf/all: mergeWindowToGraph reads a window WindowLength rows at a  *)
(* time, until it gets fewer.  getRDF calls it for undone tasks, for       *)
(* activities and for plans, from the zero time up to now.  The tasks,     *)
(* whose order depends on the due date, are left out.                      *)

Earliest == CHOOSE t \in Time : \A u \in Time : t <= u

Window(name, as, ps, now) ==
  IF name = "activities" THEN RangeActivities(as, Earliest, now)
                         ELSE RangePlans(ps, Earliest, now)

(* had and still are history: the window when the export began, and        *)
(* whether no row that existed has entered or left the window since.       *)
getRDF ==
  /\ page = NoPage
  /\ \E name \in {"activities", "plans"}, now \in Time :
       page' = [pc |-> "export", name |-> name, now |-> now, offset |-> 0,
                got |-> {}, twice |-> {}, had |-> Window(name, acts, plans, now), still |-> TRUE]

MutMergeWindowToGraph ==
  /\ Reads("export")
  /\ LET rows == PageOf(Window(page.name, acts, plans, page.now), WindowLength, page.offset)
     IN  page' = [page EXCEPT
                    !.pc = IF Cardinality(rows) <= WindowLength THEN "exported" ELSE "export",
                    !.offset = page.offset + WindowLength,
                    !.got = page.got \cup rows,
                    !.twice = page.twice \cup (page.got \cap rows)]

mergeWindowToGraph ==
  /\ Reads("export")
  /\ LET rows == PageOf(Window(page.name, acts, plans, page.now), WindowLength, page.offset)
     IN  page' = [page EXCEPT
                    !.pc = IF Cardinality(rows) < WindowLength THEN "exported" ELSE "export",
                    !.offset = page.offset + WindowLength,
                    !.got = page.got \cup rows,
                    !.twice = page.twice \cup (page.got \cap rows)]

-----------------------------------------------------------------------------

(* The page has been sent, or a SELECT failed.                             *)
Leave ==
  /\ page # NoPage
  /\ page' = NoPage

Read ==
  \/ dayView \/ SelectPlans \/ SelectTasks
  \/ activityView \/ activityLatest \/ TaskGet
  \/ taskView \/ TaskGetActivities \/ TaskGetPlans
  \/ undoneTasks
  \/ getRDF \/ mergeWindowToGraph
  \/ Leave

(* No row that existed before the step enters or leaves the window.        *)
WindowStill ==
  LET before == Window(page.name, acts, plans, page.now)
      after  == Window(page.name, acts', plans', page.now)
      ids    == IF page.name = "activities" THEN DOMAIN acts ELSE DOMAIN plans
  IN  after \cap ids = before

Write ==
  /\ Next
  /\ page' = IF Reads("export")
               THEN [page EXCEPT !.still = page.still /\ WindowStill]
               ELSE page

ViewsNext == Write \/ (Read /\ UNCHANGED vars)

ViewsSpec == ViewsInit /\ [][ViewsNext]_<<vars, page>>

-----------------------------------------------------------------------------
(* Properties.                                                             *)

(* What the page can be: NoPage, what has been read before a SELECT, or a  *)
(* page that is complete.                                                  *)
ReadingPlans == [pc : {"RangePlans"}, lo : Time, hi : Time, activities : SUBSET RowId]
ReadingTasks ==
  [pc : {"RangeTasks"}, lo : Time, hi : Time, activities : SUBSET RowId,
   plans : SUBSET RowId]
DayPage ==
  [pc : {"day"}, activities : SUBSET RowId, plans : SUBSET RowId, tasks : SUBSET RowId]
Following         == [pc : {"TaskGet"}, follow : SUBSET RowId]
Refused           == [pc : {"not found", "too many plans"}]
ReadingActivities == [pc : {"TaskGetActivities"}, task : RowId]
ReadingTaskPlans ==
  [pc : {"TaskGetPlans"}, task : RowId, activities : SUBSET RowId]
TaskPage ==
  [pc : {"task"}, task : RowId, activities : SUBSET RowId, plans : SUBSET RowId,
   links : SUBSET Nat]
UndonePage ==
  [pc : {"undone"}, now : Time, listed : SUBSET RowId, tooMany : BOOLEAN]
Exporting ==
  [pc : {"export", "exported"}, name : {"activities", "plans"}, now : Time,
   offset : Nat, got : SUBSET RowId, twice : SUBSET RowId, had : SUBSET RowId,
   still : BOOLEAN]

Pages ==
  {NoPage} \cup ReadingPlans \cup ReadingTasks \cup DayPage \cup Following
    \cup Refused \cup ReadingActivities \cup ReadingTaskPlans \cup TaskPage
    \cup UndonePage \cup Exporting

(* The page holds what its next SELECT and its template need.              *)
PageOK == TypeOK /\ page \in Pages

(* Following the task of an activity that was read never ends in "not      *)
(* found", whatever is written in between.                                 *)
TaskFound == page.pc # "not found"

(* "Tasks are the tasks referred to by each activity and plan": the page   *)
(* of a day shows no activity or plan without the title of its task.       *)
DayTasksKnown ==
  page.pc = "day" => page.activities \cup page.plans \subseteq page.tasks

(* For plans it holds whatever is written while the page is built, because *)
(* no handler moves a plan and the tasks are read last.                    *)
DayPlansKnown == page.pc = "day" => page.plans \subseteq page.tasks

(* The third SELECT would find, or has found, the task of each activity.   *)
DayCovered ==
  /\ page.pc \in {"RangePlans", "RangeTasks"} =>
       page.activities \subseteq RangeTasks(tasks, acts, plans, page.lo, page.hi)
  /\ page.pc = "day" => page.activities \subseteq page.tasks

(* For activities it holds unless, while the page is built, an edit or an  *)
(* extension moves one of them out of the day: nothing else loses a task.  *)
DayLostByMove ==
  [][DayCovered /\ ~DayCovered' =>
       \E r \in Req :
         /\ ActivityEditUpdate(r)
         /\ req[r].a.id \in RangeActivities(acts, page.lo, page.hi)
         /\ req[r].a.id \notin RangeActivities(acts', page.lo, page.hi)]_<<vars, page>>

(* A task's page is behind in one way only: a plan on it may be linked to  *)
(* an activity that is not listed, but that was added after the list was   *)
(* read.                                                                   *)
TaskPageBehind ==
  page.pc = "task" =>
    \A link \in page.links :
      \/ link \in {0} \cup page.activities
      \/ \A a \in page.activities : link > a

(* A task's page that is shown has every plan of the task: none is cut off *)
(* silently at the limit.                                                  *)
PlansNotCut ==
  [][page'.pc = "task" /\ page.pc # "task" =>
       page'.plans = PlansOf(page'.task)]_<<vars, page>>

(* The undone page misses an unfinished task whose deadline is ahead only  *)
(* if it says "(too many tasks, truncated)", although a task with two last *)
(* activities takes two of the rows.                                       *)
UndoneComplete ==
  [][page'.pc = "undone" /\ page.pc # "undone" /\ ~page'.tooMany =>
       \A t \in DOMAIN tasks :
         DeadlineAhead(tasks[t], page'.now) /\ ~Finished(t)
           => t \in page'.listed]_<<vars, page>>

(* An export has each plan that existed when it began once.  So it has     *)
(* each activity, as long as no edit moves one into or out of the window   *)
(* while it runs: rows that are only added do no harm.                     *)
ExportExact ==
  page.pc = "exported" /\ (page.name = "plans" \/ page.still) =>
    page.had \subseteq page.got /\ page.twice = {}

=============================================================================
