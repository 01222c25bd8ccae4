------------------------------- MODULE Server --------------------------------
(***************************************************************************)
(* The request handlers of server/main.go that write, over the tables of   *)
(* database/database.go.  net/http runs each request on a goroutine of its *)
(* own and no handler opens a transaction, so the unit of atomicity is one *)
(* SQL statement: a handler is one action per statement, and what it holds *)
(* in Go variables between two statements is kept in req.                  *)
(*                                                                         *)
(* Parsing and form decoding, which touch no shared state, are part of the *)
(* handler's first statement; what was posted is kept in the form of req.  *)
(* A request that is rejected before its first write leaves no trace and   *)
(* is not a step.                                                          *)
(***************************************************************************)
EXTENDS Store

CONSTANTS
  Req,            \* request slots: goroutines serving requests at once
  TaskForms,      \* decoded task forms
  ActivityForms,  \* decoded activity forms
  PlanForms,      \* decoded plan forms
  LegacyTasks,    \* tasks of a database written by an earlier version
  LegacyActivities, \* its activities, whose status defaulted to Unknown
  MaxRows         \* bound: rows a table holds before its INSERTs fail

ActivityForm == [start : Time, end : Time, done : BOOLEAN]
PlanForm     == [atAfter : Time, before : Time]

ASSUME FormsAssumption ==
  /\ TaskForms \subseteq TaskRow
  /\ ActivityForms \subseteq ActivityForm
  /\ PlanForms \subseteq PlanForm

ASSUME LegacyAssumption ==
  /\ LegacyTasks \in Seq(TaskRow)
  /\ LegacyActivities \in Seq(ActivityRow)
  /\ \A a \in DOMAIN LegacyActivities :
       LegacyActivities[a].task \in DOMAIN LegacyTasks

ASSUME BoundAssumption == MaxRows \in Nat

VARIABLES
  tasks,  \* table tasks
  acts,   \* table activity_log
  plans,  \* table plans
  req     \* req[r]: the handler running in slot r and its local variables

tables == <<tasks, acts, plans>>
vars   == <<tasks, acts, plans, req>>

Idle == [pc |-> "idle"]

Init ==
  /\ tasks = LegacyTasks
  /\ acts = LegacyActivities
  /\ plans = <<>>
  /\ req = [r \in Req |-> Idle]

(* Slot r, which is free, takes a request.                                 *)
Accept(r) == req[r] = Idle

(* The handler in slot r is about to issue the statement named pc.         *)
At(r, pc) == req[r].pc = pc

Goto(r, next) == req' = [req EXCEPT ![r] = next]

Room(table) == Len(table) < MaxRows

-----------------------------------------------------------------------------
(* What the handlers compute between two statements.                       *)

MutFormActivity0(task, f) ==
  [id |-> 0, task |-> 0, start |-> f.start, end |-> f.end, done |-> f.done]

MutFormActivity(task, f) ==
  [id |-> 0, task |-> task + 1, start |-> f.start, end |-> f.end, done |-> f.done]

(* A posted activity form, for the task the handler chose.                 *)
FormActivity(task, f) ==
  [id |-> 0, task |-> task, start |-> f.start, end |-> f.end, done |-> f.done]

MutParsed(id, row, f) == [FormActivity(id, f) EXCEPT !.id = id]

(* activityEditPost: the form replaces every column but id and task id.    *)
Parsed(id, row, f) == [FormActivity(row.task, f) EXCEPT !.id = id]

(* activityExtend: the row that was read, with a new end.                  *)
Extended(id, row, end) == [activityToStorage(id, row) EXCEPT !.end = end]

MutResumed(row, start, end) == [activityToStorage(0, row) EXCEPT !.start = start]

(* activityResume: a copy of the row, Done included, at another time.      *)
Resumed(row, start, end) ==
  [activityToStorage(0, row) EXCEPT !.start = start, !.end = end]

MutWithinDeadline(task, first, last) ==
  task.deadline # NoDeadline => first <= task.deadline

(* Neither end of an activity or plan is after the task's deadline.        *)
WithinDeadline(task, first, last) ==
  task.deadline # NoDeadline => first <= task.deadline /\ last <= task.deadline

MutOfferedPlans(task) == {0} \cup DOMAIN plans

(* The values of PlanID the task's page offers, 0 for "None".  The page    *)
(* may be old, so a plan it offers may be linked by now.                   *)
OfferedPlans(task) == {0} \cup {p \in DOMAIN plans : plans[p].task = task}

-----------------------------------------------------------------------------
(* POST /task/new and POST /task/{id}/edit: one statement each.  An UPDATE *)
(* that matches no row changes nothing and is not a step.                  *)

taskNewPost(r) ==
  /\ Accept(r)
  /\ Room(tasks)
  /\ \E f \in TaskForms : tasks' = Append(tasks, f)
  /\ UNCHANGED <<acts, plans, req>>

taskEditPost(r) ==
  /\ Accept(r)
  /\ \E id \in DOMAIN tasks, f \in TaskForms : tasks' = [tasks EXCEPT ![id] = f]
  /\ UNCHANGED <<acts, plans, req>>

(* POST /task/new/activity/new: TaskAdd, then ActivityAdd.                 *)
taskNewActivityNewPost(r) ==
  /\ Accept(r)
  /\ Room(tasks)
  /\ \E t \in TaskForms, f \in ActivityForms :
       /\ tasks' = Append(tasks, t)
       /\ Goto(r, [pc |-> "ActivityAdd", op |-> "taskNewActivityNewPost",
                   form |-> f, a |-> FormActivity(NewId(tasks), f),
                   plan |-> 0, of |-> 0])
  /\ UNCHANGED <<acts, plans>>

(* POST /task/{id}/activity/new: TaskGet and the deadline checks; then     *)
(* ActivityAdd and, if a plan was chosen, PlanGet and PlanEdit.            *)
taskActivityNewPost(r) ==
  /\ Accept(r)
  /\ \E id \in DOMAIN tasks, f \in ActivityForms : \E plan \in OfferedPlans(id) :
       /\ WithinDeadline(tasks[id], f.start, f.end)
       /\ Goto(r, [pc |-> "ActivityAdd", op |-> "taskActivityNewPost",
                   form |-> f, a |-> FormActivity(id, f),
                   plan |-> plan, of |-> 0])
  /\ UNCHANGED tables

(* POST /activity/{id}/resume: ActivityGet, then ActivityAdd of the copy.  *)
activityResume(r) ==
  /\ Accept(r)
  /\ \E id \in DOMAIN acts, f \in ActivityForms :
       Goto(r, [pc |-> "ActivityAdd", op |-> "activityResume",
                form |-> [start |-> f.start, end |-> f.end],
                a |-> Resumed(acts[id], f.start, f.end), plan |-> 0, of |-> id])
  /\ UNCHANGED tables

ActivityAdd(r) ==
  /\ At(r, "ActivityAdd")
  /\ Room(acts)
  /\ acts' = Append(acts, RowOf(req[r].a, AddStatus(req[r].a.done)))
  /\ Goto(r, IF req[r].plan = 0
               THEN Idle
               ELSE [pc |-> "PlanGet", plan |-> req[r].plan,
                     activity |-> NewId(acts)])
  /\ UNCHANGED <<tasks, plans>>

MutPlanGet(r) ==
  /\ At(r, "PlanGet")
  /\ Goto(r, [pc |-> "PlanEdit", id |-> req[r].plan,
              row |-> [plans[req[r].plan] EXCEPT !.activity = Len(acts)]])
  /\ UNCHANGED tables

PlanGet(r) ==
  /\ At(r, "PlanGet")
  /\ Goto(r, [pc |-> "PlanEdit", id |-> req[r].plan,
              row |-> [plans[req[r].plan] EXCEPT !.activity = req[r].activity]])
  /\ UNCHANGED tables

PlanEdit(r) ==
  /\ At(r, "PlanEdit")
  /\ plans' = [plans EXCEPT ![req[r].id] = req[r].row]
  /\ Goto(r, Idle)
  /\ UNCHANGED <<tasks, acts>>

(* POST /task/{id}/plan/new: TaskGet and the deadline checks; PlanAdd.     *)
(* The whole plan is decoded from the form, and only its task is set from  *)
(* the path; a plan is posted with the fields of the page's form, which    *)
(* has neither an id nor an activity.                                      *)
taskPlanNewPost(r) ==
  /\ Accept(r)
  /\ \E id \in DOMAIN tasks, f \in PlanForms :
       /\ WithinDeadline(tasks[id], f.atAfter, f.before)
       /\ Goto(r, [pc |-> "PlanAdd", form |-> f,
                   row |-> [task |-> id, activity |-> 0,
                            atAfter |-> f.atAfter, before |-> f.before]])
  /\ UNCHANGED tables

PlanAdd(r) ==
  /\ At(r, "PlanAdd")
  /\ Room(plans)
  /\ plans' = Append(plans, req[r].row)
  /\ Goto(r, Idle)
  /\ UNCHANGED <<tasks, acts>>

(* POST /activity/{id}/edit and POST /activity/{id}/extend: ActivityGet,   *)
(* then ActivityEdit, which SELECTs the row again for its status and then  *)
(* UPDATEs every column.                                                   *)
activityEditPost(r) ==
  /\ Accept(r)
  /\ \E id \in DOMAIN acts, f \in ActivityForms :
       Goto(r, [pc |-> "ActivityEditSelect", op |-> "activityEditPost",
                form |-> f, a |-> Parsed(id, acts[id], f)])
  /\ UNCHANGED tables

activityExtend(r) ==
  /\ Accept(r)
  /\ \E id \in DOMAIN acts, end \in Time :
       Goto(r, [pc |-> "ActivityEditSelect", op |-> "activityExtend",
                form |-> [end |-> end], a |-> Extended(id, acts[id], end)])
  /\ UNCHANGED tables

ActivityEditSelect(r) ==
  /\ At(r, "ActivityEditSelect")
  /\ Goto(r, [pc |-> "ActivityEditUpdate", op |-> req[r].op,
              form |-> req[r].form, a |-> req[r].a,
              status |-> EditStatus(req[r].a.done, acts[req[r].a.id].status)])
  /\ UNCHANGED tables

ActivityEditUpdate(r) ==
  /\ At(r, "ActivityEditUpdate")
  /\ acts' = [acts EXCEPT ![req[r].a.id] = RowOf(req[r].a, req[r].status)]
  /\ Goto(r, Idle)
  /\ UNCHANGED <<tasks, plans>>

(* The next statement fails (the database is busy or full, the connection  *)
(* is gone, the client cancelled the request context) or the process dies: *)
(* the handler stops where it is, and what it has written stays written.   *)
StorageError(r) ==
  /\ req[r] # Idle
  /\ Goto(r, Idle)
  /\ UNCHANGED tables

-----------------------------------------------------------------------------

Start(r) ==
  \/ taskNewPost(r)
  \/ taskEditPost(r)
  \/ taskNewActivityNewPost(r)
  \/ taskActivityNewPost(r)
  \/ activityResume(r)
  \/ taskPlanNewPost(r)
  \/ activityEditPost(r)
  \/ activityExtend(r)

Continue(r) ==
  \/ ActivityAdd(r)
  \/ PlanGet(r)
  \/ PlanEdit(r)
  \/ PlanAdd(r)
  \/ ActivityEditSelect(r)
  \/ ActivityEditUpdate(r)
  \/ StorageError(r)

Next == \E r \in Req : Start(r) \/ Continue(r)

Spec == Init /\ [][Next]_vars

-----------------------------------------------------------------------------
(* Properties.                                                             *)

(* What a slot can hold: Idle, or the next statement and its arguments.    *)
AddingActivity ==
  [pc : {"ActivityAdd"},
   op : {"taskNewActivityNewPost", "taskActivityNewPost", "activityResume"},
   form : ActivityForms \cup [start : Time, end : Time],
   a : Activity, plan : Nat, of : Nat]
GettingPlan == [pc : {"PlanGet"}, plan : RowId, activity : RowId]
EditingPlan == [pc : {"PlanEdit"}, id : RowId, row : PlanRow]
AddingPlan  == [pc : {"PlanAdd"}, form : PlanForms, row : PlanRow]
SelectingActivity ==
  [pc : {"ActivityEditSelect"}, op : {"activityEditPost", "activityExtend"},
   form : ActivityForms \cup [end : Time], a : Activity]
UpdatingActivity ==
  [pc : {"ActivityEditUpdate"}, op : {"activityEditPost", "activityExtend"},
   form : ActivityForms \cup [end : Time], a : Activity, status : Status]

Pending ==
  {Idle} \cup AddingActivity \cup GettingPlan \cup EditingPlan
    \cup AddingPlan \cup SelectingActivity \cup UpdatingActivity

(* Every row and every handler in flight is of its type.                   *)
TypeOK ==
  /\ tasks \in Seq(TaskRow)
  /\ acts \in Seq(ActivityRow)
  /\ plans \in Seq(PlanRow)
  /\ req \in [Req -> Pending]

(* The foreign keys that the migrations declare and that the connection,   *)
(* opened without PRAGMA foreign_keys, does not enforce: every activity    *)
(* and plan is for a task that exists, every linked activity exists.  The  *)
(* handlers that follow such an id (activityView, activityLatest) answer   *)
(* 500 when it leads nowhere.                                              *)
References ==
  /\ \A a \in DOMAIN acts : acts[a].task \in DOMAIN tasks
  /\ \A p \in DOMAIN plans :
       /\ plans[p].task \in DOMAIN tasks
       /\ plans[p].activity \in {0} \cup DOMAIN acts

(* The activity that fulfilled a plan was spent on the plan's own task.    *)
(* taskActivityNewPost never compares the two: it relies on the page's     *)
(* list of plans and on the task of a row never changing afterwards.       *)
PlanFulfilledByOwnTask ==
  \A p \in DOMAIN plans :
    plans[p].activity # 0 => acts[plans[p].activity].task = plans[p].task

(* No activity fulfils two plans, however requests that add activities and *)
(* requests that link plans interleave: each links the row it inserted.    *)
OnePlanPerActivity ==
  \A p, q \in DOMAIN plans :
    plans[p].activity = plans[q].activity /\ plans[p].activity # 0 => p = q

(* The activity that the handler in slot r is going to link to a plan.     *)
Pledged(r) ==
  IF At(r, "PlanGet") THEN req[r].activity
  ELSE IF At(r, "PlanEdit") THEN req[r].row.activity
  ELSE 0

(* A handler's local copies agree with the rows they were read from on the *)
(* columns that no statement changes.                                      *)
LocalsFresh(r) ==
  /\ At(r, "ActivityAdd") =>
       /\ req[r].a.task \in DOMAIN tasks
       /\ req[r].plan # 0 =>
            /\ req[r].plan \in DOMAIN plans
            /\ plans[req[r].plan].task = req[r].a.task
  /\ At(r, "PlanGet") =>
       /\ req[r].plan \in DOMAIN plans
       /\ plans[req[r].plan].task = acts[req[r].activity].task
  /\ At(r, "PlanEdit") =>
       /\ req[r].id \in DOMAIN plans
       /\ plans[req[r].id].task = req[r].row.task
       /\ req[r].row.task = acts[req[r].row.activity].task
       /\ req[r].row.activity # 0
  /\ At(r, "PlanAdd") =>
       /\ req[r].row.task \in DOMAIN tasks
       /\ req[r].row.activity = 0
  /\ At(r, "ActivityEditSelect") \/ At(r, "ActivityEditUpdate") =>
       /\ req[r].a.id \in DOMAIN acts
       /\ acts[req[r].a.id].task = req[r].a.task

(* An activity that a handler is about to link exists, no plan has it, and *)
(* no other handler is about to link it.                                   *)
PledgesExclusive ==
  \A r \in Req : Pledged(r) # 0 =>
    /\ Pledged(r) \in DOMAIN acts
    /\ \A p \in DOMAIN plans : plans[p].activity # Pledged(r)
    /\ \A s \in Req : Pledged(s) = Pledged(r) => s = r

(* The inductive invariant: what the tables promise, and what every        *)
(* handler between two statements may still rely on.                       *)
Consistent ==
  /\ TypeOK
  /\ References
  /\ PlanFulfilledByOwnTask
  /\ OnePlanPerActivity
  /\ \A r \in Req : LocalsFresh(r)
  /\ PledgesExclusive

(* The task has a done activity that ends after all its unfinished ones.   *)
Finished(t) ==
  \E a \in ActivitiesOf(acts, t) :
    /\ acts[a].status = StatusDone
    /\ \A b \in ActivitiesOf(acts, t) :
         acts[b].status # StatusDone => acts[b].end < acts[a].end

(* The undone list shows exactly the unfinished tasks whose deadline is    *)
(* still ahead: a task without activities is on it, a done activity that   *)
(* is not the last one does not take its task off.                         *)
UndoneExact ==
  \A now \in Time, t \in DOMAIN tasks :
    (\E row \in TaskSearch(tasks, acts, now) : row[1] = t)
      <=> DeadlineAhead(tasks[t], now) /\ ~Finished(t)

(* A task is on the undone list once, so that the page's count of undone   *)
(* tasks counts tasks.                                                     *)
UndoneListedOnce ==
  \A now \in Time : \A x, y \in TaskSearch(tasks, acts, now) :
    x[1] = y[1] => x = y

(* The step is slot r's own and writes table.                              *)
Writes(r, pc, table) == At(r, pc) /\ req'[r] # req[r] /\ table' # table

(* The Extend form has one field, "New End": extending an activity leaves  *)
(* its other columns (task, start, status) as they are.                    *)
ExtendOnlyMovesEnd ==
  [][\A r \in Req :
       Writes(r, "ActivityEditUpdate", acts) /\ req[r].op = "activityExtend"
         => \E end \in Time : acts' = [acts EXCEPT ![req[r].a.id].end = end]]_vars

NotAfter(row, deadline) ==
  deadline # NoDeadline => row.first <= deadline /\ row.last <= deadline

(* "start time cannot be after deadline", "end time cannot be after        *)
(* deadline": an activity or a plan added from its task's page lies within *)
(* the deadline the task has when the row is stored.                       *)
DeadlineRespected ==
  [][\A r \in Req :
       /\ Writes(r, "ActivityAdd", acts) /\ req[r].op = "taskActivityNewPost"
            => NotAfter([first |-> req[r].a.start, last |-> req[r].a.end],
                        tasks[req[r].a.task].deadline)
       /\ Writes(r, "PlanAdd", plans)
            => NotAfter([first |-> req[r].row.atAfter, last |-> req[r].row.before],
                        tasks[req[r].row.task].deadline)]_vars

(* The form offers only plans that no activity fulfils yet: a plan keeps   *)
(* the activity it was first linked to.                                    *)
LinkKept ==
  [][\A p \in DOMAIN plans :
       plans[p].activity # 0 => plans'[p].activity = plans[p].activity]_vars

(* The references between rows, as module Ledger promises them.            *)
TasksOf(table) == [i \in DOMAIN table |-> table[i].task]
LinksOf(table) == [i \in DOMAIN table |-> table[i].activity]

L == INSTANCE Ledger WITH
       nTasks       <- Len(tasks),
       activityTask <- TasksOf(acts),
       planTask     <- TasksOf(plans),
       planActivity <- LinksOf(plans)

(* Every write of every handler is a step of the ledger or leaves all      *)
(* references alone.                                                       *)
KeepsLedger == L!Spec

(* What a handler between two statements has yet to do, as its form was    *)
(* posted, whatever it has read and made of it since.                      *)
AskedBy(h) ==
  CASE h.pc = "ActivityAdd" /\ h.op # "activityResume" ->
         [op |-> h.op, task |-> h.a.task, form |-> h.form, plan |-> h.plan]
    [] h.pc = "ActivityAdd" /\ h.op = "activityResume" ->
         [op |-> h.op, of |-> h.of, form |-> h.form]
    [] h.pc = "PlanGet" ->
         [op |-> "link", plan |-> h.plan, activity |-> h.activity]
    [] h.pc = "PlanEdit" ->
         [op |-> "link", plan |-> h.id, activity |-> h.row.activity]
    [] h.pc = "PlanAdd" ->
         [op |-> "taskPlanNewPost", task |-> h.row.task, form |-> h.form]
    [] h.pc \in {"ActivityEditSelect", "ActivityEditUpdate"} ->
         [op |-> h.op, id |-> h.a.id, form |-> h.form]
    [] OTHER -> [op |-> "nothing"]

Atom == INSTANCE Atomic WITH asked <- [r \in Req |-> AskedBy(req[r])]

(* Handlers of several statements have the effect of one: a request does   *)
(* what its form says to the rows as they are when it does it.             *)
KeepsAtomic == Atom!Spec

(* The rows that the handler in slot r has read and will write by.         *)
TasksRead(r) ==
  IF At(r, "PlanAdd") THEN {req[r].row.task}
  ELSE IF At(r, "ActivityAdd") /\ req[r].op = "taskActivityNewPost" THEN {req[r].a.task}
  ELSE {}

ActivitiesRead(r) ==
  IF At(r, "ActivityAdd") /\ req[r].op = "activityResume" THEN {req[r].of}
  ELSE IF \/ At(r, "ActivityEditSelect") /\ req[r].op = "activityExtend"
          \/ At(r, "ActivityEditUpdate") THEN {req[r].a.id}
  ELSE {}

(* The step is another handler's, and changes one of those rows.           *)
Overtaken(r) ==
  /\ req'[r] = req[r]
  /\ \/ \E t \in TasksRead(r) : tasks'[t] # tasks[t]
     \/ \E a \in ActivitiesRead(r) : acts'[a] # acts[a]

(* Requests interleave, but no row is changed between the statement of     *)
(* another request that reads it and the one that writes by it.            *)
Unovertaken == Init /\ [][Next /\ \A r \in Req : ~Overtaken(r)]_vars

=============================================================================
