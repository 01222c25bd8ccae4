---------------------------- MODULE ServerProofs -----------------------------
(***************************************************************************)
(* Proofs that every behaviour of Server keeps its types and the promises  *)
(* its tables make to each other, for every number of request slots, every *)
(* set of forms and every bound on the rows.                               *)
(***************************************************************************)
EXTENDS Server, SequenceTheorems, WellFoundedInduction, TLAPS

(* The statement a handler is at tells what its slot holds.                *)
LEMMA PendingShape ==
  ASSUME NEW x \in Pending
  PROVE  /\ x.pc = "ActivityAdd" => x \in AddingActivity
         /\ x.pc = "PlanGet" => x \in GettingPlan
         /\ x.pc = "PlanEdit" => x \in EditingPlan
         /\ x.pc = "PlanAdd" => x \in AddingPlan
         /\ x.pc = "ActivityEditSelect" => x \in SelectingActivity
         /\ x.pc = "ActivityEditUpdate" => x \in UpdatingActivity
         /\ x.pc = "idle" => x = Idle
BY DEF Pending, AddingActivity, GettingPlan, EditingPlan, AddingPlan,
       SelectingActivity, UpdatingActivity, Idle

(* Appending a row, or replacing one, keeps a table a table.               *)
LEMMA AppendRow ==
  ASSUME NEW S, NEW table \in Seq(S), NEW row \in S
  PROVE  /\ Append(table, row) \in Seq(S)
         /\ DOMAIN Append(table, row) = DOMAIN table \cup {NewId(table)}
         /\ NewId(table) \notin DOMAIN table
         /\ NewId(table) \in RowId
         /\ Append(table, row)[NewId(table)] = row
         /\ \A i \in DOMAIN table : Append(table, row)[i] = table[i]
BY DEF NewId, RowId

LEMMA ReplaceRow ==
  ASSUME NEW S, NEW table \in Seq(S), NEW row \in S, NEW id \in DOMAIN table
  PROVE  /\ [table EXCEPT ![id] = row] \in Seq(S)
         /\ DOMAIN [table EXCEPT ![id] = row] = DOMAIN table
         /\ [table EXCEPT ![id] = row][id] = row
         /\ \A i \in DOMAIN table :
              i # id => [table EXCEPT ![id] = row][i] = table[i]
BY ExceptSeq

LEMMA RowIds ==
  ASSUME NEW S, NEW table \in Seq(S), NEW id \in DOMAIN table
  PROVE  id \in RowId /\ table[id] \in S
BY DEF RowId

LEMMA Moves ==
  ASSUME TypeOK, NEW r \in Req, NEW x \in Pending, Goto(r, x)
  PROVE  /\ req' \in [Req -> Pending]
         /\ req'[r] = x
         /\ \A s \in Req : s # r => req'[s] = req[s]
BY DEF TypeOK, Goto

LEMMA ActivityTypes ==
  /\ \A task \in RowId, f \in ActivityForms : FormActivity(task, f) \in Activity
  /\ \A id \in Nat, row \in ActivityRow, f \in ActivityForms :
       Parsed(id, row, f) \in Activity
  /\ \A id \in Nat, row \in ActivityRow, end \in Time :
       Extended(id, row, end) \in Activity
  /\ \A row \in ActivityRow, f \in ActivityForms :
       Resumed(row, f.start, f.end) \in Activity
BY FormsAssumption
   DEF FormActivity, Parsed, Extended, Resumed, activityToStorage, Activity,
       ActivityRow, ActivityForm, RowId

(* The columns that editing, extending and resuming leave alone.           *)
LEMMA KeptColumns ==
  /\ \A id, row, f : /\ Parsed(id, row, f).id = id
                     /\ Parsed(id, row, f).task = row.task
  /\ \A id, row, end : /\ Extended(id, row, end).id = id
                       /\ Extended(id, row, end).task = row.task
  /\ \A row, start, end : Resumed(row, start, end).task = row.task
BY DEF Parsed, Extended, Resumed, FormActivity, activityToStorage

LEMMA StatusTypes ==
  /\ \A done \in BOOLEAN : AddStatus(done) \in Status
  /\ \A done \in BOOLEAN, orig \in Status : EditStatus(done, orig) \in Status
  /\ \A a \in Activity, status \in Status : RowOf(a, status) \in ActivityRow
BY DEF AddStatus, EditStatus, Status, StatusDone, StatusInProgress,
       StatusUnknown, StatusNotStarted, RowOf, Activity, ActivityRow

-----------------------------------------------------------------------------
(* Type correctness.                                                       *)

LEMMA InitType == Init => TypeOK
<1> SUFFICES ASSUME Init PROVE TypeOK
  OBVIOUS
<1>1. plans \in Seq(PlanRow)
  BY DEF Init
<1>2. req \in [Req -> Pending]
  BY DEF Init, Pending
<1> QED
  BY <1>1, <1>2, LegacyAssumption DEF Init, TypeOK

LEMMA StartType ==
  ASSUME TypeOK, NEW r \in Req, Start(r)
  PROVE  TypeOK'
<1> USE DEF tables
<1>1. CASE taskNewPost(r)
  BY <1>1, AppendRow, FormsAssumption DEF taskNewPost, TypeOK
<1>2. CASE taskEditPost(r)
  BY <1>2, ReplaceRow, FormsAssumption DEF taskEditPost, TypeOK
<1>3. CASE taskNewActivityNewPost(r)
  <2>1. PICK t \in TaskForms, f \in ActivityForms :
          /\ tasks' = Append(tasks, t)
          /\ Goto(r, [pc |-> "ActivityAdd", op |-> "taskNewActivityNewPost",
                      form |-> f, a |-> FormActivity(NewId(tasks), f),
                      plan |-> 0, of |-> 0])
    BY <1>3 DEF taskNewActivityNewPost
  <2>2. tasks' \in Seq(TaskRow) /\ NewId(tasks) \in RowId
    BY <2>1, AppendRow, FormsAssumption DEF TypeOK
  <2>3. [pc |-> "ActivityAdd", op |-> "taskNewActivityNewPost",
         form |-> f, a |-> FormActivity(NewId(tasks), f),
         plan |-> 0, of |-> 0] \in Pending
    BY <2>2, ActivityTypes DEF Pending, AddingActivity
  <2> QED
    BY <1>3, <2>1, <2>2, <2>3, Moves DEF taskNewActivityNewPost, TypeOK
<1>4. CASE taskActivityNewPost(r)
  <2>0. PICK id \in DOMAIN tasks, f \in ActivityForms : \E plan \in OfferedPlans(id) :
          Goto(r, [pc |-> "ActivityAdd", op |-> "taskActivityNewPost",
                   form |-> f, a |-> FormActivity(id, f),
                   plan |-> plan, of |-> 0])
    BY <1>4 DEF taskActivityNewPost
  <2>1. PICK plan \in OfferedPlans(id) :
          Goto(r, [pc |-> "ActivityAdd", op |-> "taskActivityNewPost",
                   form |-> f, a |-> FormActivity(id, f),
                   plan |-> plan, of |-> 0])
    BY <2>0
  <2>2. id \in RowId /\ plan \in Nat
    BY RowIds DEF OfferedPlans, RowId, TypeOK
  <2>3. [pc |-> "ActivityAdd", op |-> "taskActivityNewPost",
         form |-> f, a |-> FormActivity(id, f),
         plan |-> plan, of |-> 0] \in Pending
    BY <2>2, ActivityTypes DEF Pending, AddingActivity
  <2> QED
    BY <1>4, <2>1, <2>3, Moves DEF taskActivityNewPost, TypeOK
<1>5. CASE activityResume(r)
  <2>1. PICK id \in DOMAIN acts, f \in ActivityForms :
          Goto(r, [pc |-> "ActivityAdd", op |-> "activityResume",
                   form |-> [start |-> f.start, end |-> f.end],
                   a |-> Resumed(acts[id], f.start, f.end), plan |-> 0, of |-> id])
    BY <1>5 DEF activityResume
  <2>2. [pc |-> "ActivityAdd", op |-> "activityResume",
         form |-> [start |-> f.start, end |-> f.end],
         a |-> Resumed(acts[id], f.start, f.end), plan |-> 0, of |-> id] \in Pending
    <3>1. id \in RowId /\ Resumed(acts[id], f.start, f.end) \in Activity
      BY RowIds, ActivityTypes DEF TypeOK
    <3>2. f.start \in Time /\ f.end \in Time
      BY FormsAssumption DEF ActivityForm
    <3> QED
      BY <3>1, <3>2 DEF Pending, AddingActivity, RowId
  <2> QED
    BY <1>5, <2>1, <2>2, Moves DEF activityResume, TypeOK
<1>6. CASE taskPlanNewPost(r)
  <2>1. PICK id \in DOMAIN tasks, f \in PlanForms :
          Goto(r, [pc |-> "PlanAdd", form |-> f,
                   row |-> [task |-> id, activity |-> 0,
                            atAfter |-> f.atAfter, before |-> f.before]])
    BY <1>6 DEF taskPlanNewPost
  <2>2. [task |-> id, activity |-> 0, atAfter |-> f.atAfter,
         before |-> f.before] \in PlanRow
    BY RowIds, FormsAssumption DEF PlanRow, PlanForm, TypeOK
  <2>3. [pc |-> "PlanAdd", form |-> f,
         row |-> [task |-> id, activity |-> 0, atAfter |-> f.atAfter,
                  before |-> f.before]] \in Pending
    BY <2>2 DEF Pending, AddingPlan
  <2> QED
    BY <1>6, <2>1, <2>3, Moves DEF taskPlanNewPost, TypeOK
<1>7. CASE activityEditPost(r)
  <2>1. PICK id \in DOMAIN acts, f \in ActivityForms :
          Goto(r, [pc |-> "ActivityEditSelect", op |-> "activityEditPost",
                   form |-> f, a |-> Parsed(id, acts[id], f)])
    BY <1>7 DEF activityEditPost
  <2>2. [pc |-> "ActivityEditSelect", op |-> "activityEditPost",
         form |-> f, a |-> Parsed(id, acts[id], f)] \in Pending
    BY RowIds, ActivityTypes DEF Pending, SelectingActivity, TypeOK, RowId
  <2> QED
    BY <1>7, <2>1, <2>2, Moves DEF activityEditPost, TypeOK
<1>8. CASE activityExtend(r)
  <2>1. PICK id \in DOMAIN acts, end \in Time :
          Goto(r, [pc |-> "ActivityEditSelect", op |-> "activityExtend",
                   form |-> [end |-> end], a |-> Extended(id, acts[id], end)])
    BY <1>8 DEF activityExtend
  <2>2. [pc |-> "ActivityEditSelect", op |-> "activityExtend",
         form |-> [end |-> end], a |-> Extended(id, acts[id], end)] \in Pending
    BY RowIds, ActivityTypes DEF Pending, SelectingActivity, TypeOK, RowId
  <2> QED
    BY <1>8, <2>1, <2>2, Moves DEF activityExtend, TypeOK
<1> QED
  BY <1>1, <1>2, <1>3, <1>4, <1>5, <1>6, <1>7, <1>8 DEF Start

LEMMA ContinueType ==
  ASSUME TypeOK, Consistent, NEW r \in Req, Continue(r)
  PROVE  TypeOK'
<1> USE DEF tables
<1>0. req[r] \in Pending
  BY DEF TypeOK
<1>1. CASE ActivityAdd(r)
  <2>1. req[r] \in AddingActivity
    BY <1>0, <1>1, PendingShape DEF ActivityAdd, At
  <2>2. RowOf(req[r].a, AddStatus(req[r].a.done)) \in ActivityRow
    BY <2>1, StatusTypes DEF AddingActivity, Activity
  <2>3. acts' \in Seq(ActivityRow) /\ NewId(acts) \in RowId
    BY <1>1, <2>2, AppendRow DEF ActivityAdd, TypeOK
  <2>4. (IF req[r].plan = 0
           THEN Idle
           ELSE [pc |-> "PlanGet", plan |-> req[r].plan,
                 activity |-> NewId(acts)]) \in Pending
    BY <2>1, <2>3 DEF AddingActivity, RowId, GettingPlan, Pending
  <2> QED
    BY <1>1, <2>3, <2>4, Moves DEF ActivityAdd, TypeOK
<1>2. CASE PlanGet(r)
  <2>1. req[r] \in GettingPlan
    BY <1>0, <1>2, PendingShape DEF PlanGet, At
  <2>2. plans[req[r].plan] \in PlanRow
    BY <1>2, RowIds DEF PlanGet, Consistent, LocalsFresh, TypeOK
  <2>3. [plans[req[r].plan] EXCEPT !.activity = req[r].activity] \in PlanRow
    BY <2>1, <2>2 DEF GettingPlan, PlanRow, RowId
  <2>4. [pc |-> "PlanEdit", id |-> req[r].plan,
         row |-> [plans[req[r].plan] EXCEPT !.activity = req[r].activity]]
          \in Pending
    BY <2>1, <2>3 DEF GettingPlan, EditingPlan, Pending
  <2> QED
    BY <1>2, <2>4, Moves DEF PlanGet, TypeOK
<1>3. CASE PlanEdit(r)
  <2>1. req[r] \in EditingPlan /\ req[r].id \in DOMAIN plans
    BY <1>0, <1>3, PendingShape DEF PlanEdit, At, Consistent, LocalsFresh
  <2>2. plans' \in Seq(PlanRow)
    BY <1>3, <2>1, ReplaceRow DEF PlanEdit, EditingPlan, TypeOK
  <2> QED
    BY <1>3, <2>2, Moves DEF PlanEdit, Pending, TypeOK
<1>4. CASE PlanAdd(r)
  <2>1. req[r] \in AddingPlan
    BY <1>0, <1>4, PendingShape DEF PlanAdd, At
  <2>2. plans' \in Seq(PlanRow)
    BY <1>4, <2>1, AppendRow DEF PlanAdd, AddingPlan, TypeOK
  <2> QED
    BY <1>4, <2>2, Moves DEF PlanAdd, Pending, TypeOK
<1>5. CASE ActivityEditSelect(r)
  <2>1. req[r] \in SelectingActivity /\ req[r].a.id \in DOMAIN acts
    BY <1>0, <1>5, PendingShape
       DEF ActivityEditSelect, At, Consistent, LocalsFresh
  <2>2. acts[req[r].a.id] \in ActivityRow
    BY <2>1, RowIds DEF TypeOK
  <2>3. EditStatus(req[r].a.done, acts[req[r].a.id].status) \in Status
    BY <2>1, <2>2, StatusTypes DEF SelectingActivity, Activity, ActivityRow
  <2>4. [pc |-> "ActivityEditUpdate", op |-> req[r].op,
         form |-> req[r].form, a |-> req[r].a,
         status |-> EditStatus(req[r].a.done, acts[req[r].a.id].status)]
          \in Pending
    BY <2>1, <2>3 DEF SelectingActivity, UpdatingActivity, Pending
  <2> QED
    BY <1>5, <2>4, Moves DEF ActivityEditSelect, TypeOK
<1>6. CASE ActivityEditUpdate(r)
  <2>1. req[r] \in UpdatingActivity /\ req[r].a.id \in DOMAIN acts
    BY <1>0, <1>6, PendingShape
       DEF ActivityEditUpdate, At, Consistent, LocalsFresh
  <2>2. acts' \in Seq(ActivityRow)
    BY <1>6, <2>1, ReplaceRow, StatusTypes
       DEF ActivityEditUpdate, UpdatingActivity, TypeOK
  <2> QED
    BY <1>6, <2>2, Moves DEF ActivityEditUpdate, Pending, TypeOK
<1>7. CASE StorageError(r)
  BY <1>7, Moves DEF StorageError, Pending, TypeOK
<1> QED
  BY <1>1, <1>2, <1>3, <1>4, <1>5, <1>6, <1>7 DEF Continue

-----------------------------------------------------------------------------
(* What one step does to the columns that the promises are about.          *)

(* No row disappears or changes its task.                                  *)
TasksStay ==
  /\ DOMAIN tasks \subseteq DOMAIN tasks'
  /\ \A a \in DOMAIN acts : a \in DOMAIN acts' /\ acts'[a].task = acts[a].task
  /\ \A p \in DOMAIN plans :
       p \in DOMAIN plans' /\ plans'[p].task = plans[p].task

(* A row that is new, or was written, is for a task that exists.           *)
TasksExist ==
  /\ \A a \in DOMAIN acts' : acts'[a].task \in DOMAIN tasks'
  /\ \A p \in DOMAIN plans' : plans'[p].task \in DOMAIN tasks'

(* No plan is linked that was not.                                         *)
NoNewLink ==
  \A p \in DOMAIN plans' :
    plans'[p].activity # 0 =>
      p \in DOMAIN plans /\ plans'[p].activity = plans[p].activity

(* Slot r alone moves.                                                     *)
OnlyMoves(r) == \A s \in Req : s # r => req'[s] = req[s]

LEMMA OthersFresh ==
  ASSUME Consistent, TasksStay, NEW s \in Req, req'[s] = req[s]
  PROVE  LocalsFresh(s)'
<1>1. LocalsFresh(s) /\ PledgesExclusive /\ req[s] \in Pending
  BY DEF Consistent, TypeOK
<1>2. CASE At(s, "ActivityAdd")
  BY <1>1, <1>2 DEF LocalsFresh, At, TasksStay
<1>3. CASE At(s, "PlanGet")
  <2>1. req[s].activity # 0
    BY <1>1, <1>3, PendingShape DEF At, GettingPlan, RowId
  <2>2. req[s].activity \in DOMAIN acts
    BY <1>1, <1>3, <2>1 DEF PledgesExclusive, Pledged
  <2> QED
    BY <1>1, <1>3, <2>2 DEF LocalsFresh, At, TasksStay
<1>4. CASE At(s, "PlanEdit")
  <2>1. req[s].row.activity \in DOMAIN acts
    BY <1>1, <1>4 DEF PledgesExclusive, Pledged, At, LocalsFresh
  <2> QED
    BY <1>1, <1>4, <2>1 DEF LocalsFresh, At, TasksStay
<1>5. CASE At(s, "PlanAdd")
  BY <1>1, <1>5 DEF LocalsFresh, At, TasksStay
<1>6. CASE At(s, "ActivityEditSelect") \/ At(s, "ActivityEditUpdate")
  BY <1>1, <1>6 DEF LocalsFresh, At, TasksStay
<1> QED
  BY <1>2, <1>3, <1>4, <1>5, <1>6 DEF LocalsFresh, At

LEMMA TablesKept ==
  ASSUME Consistent, TypeOK', TasksStay, TasksExist, NoNewLink
  PROVE  References' /\ PlanFulfilledByOwnTask' /\ OnePlanPerActivity'
<1>1. References'
  <2> SUFFICES ASSUME NEW p \in DOMAIN plans', plans'[p].activity # 0
               PROVE  plans'[p].activity \in DOMAIN acts'
    BY DEF References, TasksExist
  <2> QED
    BY DEF NoNewLink, Consistent, References, TasksStay
<1>2. PlanFulfilledByOwnTask'
  <2> SUFFICES ASSUME NEW p \in DOMAIN plans', plans'[p].activity # 0
               PROVE  acts'[plans'[p].activity].task = plans'[p].task
    BY DEF PlanFulfilledByOwnTask
  <2>1. p \in DOMAIN plans /\ plans'[p].activity = plans[p].activity
    BY DEF NoNewLink
  <2>2. plans[p].activity \in DOMAIN acts
    BY <2>1 DEF Consistent, References
  <2> QED
    BY <2>1, <2>2 DEF Consistent, PlanFulfilledByOwnTask, TasksStay
<1>3. OnePlanPerActivity'
  BY DEF NoNewLink, Consistent, OnePlanPerActivity
<1> QED
  BY <1>1, <1>2, <1>3

LEMMA PledgesKept ==
  ASSUME Consistent, TasksStay, NoNewLink, NEW r \in Req, OnlyMoves(r),
         Pledged(r)' \in {0, Pledged(r)}
  PROVE  PledgesExclusive'
<1>1. \A s \in Req : Pledged(s)' \in {0, Pledged(s)}
  BY DEF OnlyMoves, Pledged, At
<1>2. SUFFICES ASSUME NEW s \in Req, Pledged(s)' # 0
               PROVE  /\ Pledged(s)' \in DOMAIN acts'
                      /\ \A p \in DOMAIN plans' : plans'[p].activity # Pledged(s)'
                      /\ \A t \in Req : Pledged(t)' = Pledged(s)' => t = s
  BY DEF PledgesExclusive
<1>3. /\ Pledged(s)' = Pledged(s)
      /\ Pledged(s) \in DOMAIN acts
      /\ \A p \in DOMAIN plans : plans[p].activity # Pledged(s)
      /\ \A t \in Req : Pledged(t) = Pledged(s) => t = s
  BY <1>1, <1>2 DEF Consistent, PledgesExclusive
<1>4. Pledged(s) \in DOMAIN acts'
  BY <1>3 DEF TasksStay
<1>5. \A p \in DOMAIN plans' : plans'[p].activity # Pledged(s)
  BY <1>2, <1>3 DEF NoNewLink
<1>6. \A t \in Req : Pledged(t)' = Pledged(s) => t = s
  BY <1>1, <1>2, <1>3
<1> QED
  BY <1>3, <1>4, <1>5, <1>6

(* A step that links nothing keeps the invariant when the handler that     *)
(* takes it does.                                                          *)
LEMMA QuietStep ==
  ASSUME Consistent, TypeOK', NEW r \in Req, OnlyMoves(r),
         TasksStay, TasksExist, NoNewLink,
         LocalsFresh(r)', Pledged(r)' \in {0, Pledged(r)}
  PROVE  Consistent'
<1>1. \A s \in Req : LocalsFresh(s)'
  BY OthersFresh DEF OnlyMoves
<1> QED
  BY <1>1, TablesKept, PledgesKept DEF Consistent

-----------------------------------------------------------------------------
(* Each action preserves the invariant.                                    *)

LEMMA StartConsistent ==
  ASSUME Consistent, TypeOK', NEW r \in Req, Start(r)
  PROVE  Consistent'
<1> USE DEF tables
<1>a. TypeOK /\ References
  BY DEF Consistent
<1>1. CASE taskNewPost(r)
  <2>1. req[r] = Idle /\ req' = req /\ acts' = acts /\ plans' = plans
    BY <1>1 DEF taskNewPost, Accept
  <2>2. DOMAIN tasks \subseteq DOMAIN tasks'
    BY <1>1, <1>a, AppendRow, FormsAssumption DEF taskNewPost, TypeOK
  <2>3. TasksStay /\ TasksExist /\ NoNewLink /\ OnlyMoves(r)
    BY <2>1, <2>2, <1>a DEF TasksStay, TasksExist, NoNewLink, OnlyMoves, References
  <2>4. LocalsFresh(r)' /\ Pledged(r)' = 0
    BY <2>1 DEF LocalsFresh, Pledged, At, Idle
  <2> QED
    BY <2>3, <2>4, QuietStep
<1>2. CASE taskEditPost(r)
  <2>1. req[r] = Idle /\ req' = req /\ acts' = acts /\ plans' = plans
    BY <1>2 DEF taskEditPost, Accept
  <2>2. DOMAIN tasks' = DOMAIN tasks
    BY <1>2, <1>a, ReplaceRow, FormsAssumption DEF taskEditPost, TypeOK
  <2>3. TasksStay /\ TasksExist /\ NoNewLink /\ OnlyMoves(r)
    BY <2>1, <2>2, <1>a DEF TasksStay, TasksExist, NoNewLink, OnlyMoves, References
  <2>4. LocalsFresh(r)' /\ Pledged(r)' = 0
    BY <2>1 DEF LocalsFresh, Pledged, At, Idle
  <2> QED
    BY <2>3, <2>4, QuietStep
<1>3. CASE taskNewActivityNewPost(r)
  <2>1. PICK t \in TaskForms, f \in ActivityForms :
          /\ tasks' = Append(tasks, t)
          /\ Goto(r, [pc |-> "ActivityAdd", op |-> "taskNewActivityNewPost",
                      form |-> f, a |-> FormActivity(NewId(tasks), f),
                      plan |-> 0, of |-> 0])
    BY <1>3 DEF taskNewActivityNewPost
  <2>2. acts' = acts /\ plans' = plans
    BY <1>3 DEF taskNewActivityNewPost
  <2>3. /\ DOMAIN tasks \subseteq DOMAIN tasks'
        /\ NewId(tasks) \in DOMAIN tasks'
    BY <2>1, <1>a, AppendRow, FormsAssumption DEF TypeOK
  <2>4. TasksStay /\ TasksExist /\ NoNewLink /\ OnlyMoves(r)
    BY <2>1, <2>2, <2>3, <1>a
       DEF TasksStay, TasksExist, NoNewLink, OnlyMoves, References, Goto, TypeOK
  <2>5. LocalsFresh(r)' /\ Pledged(r)' = 0
    BY <2>1, <2>3, <1>a DEF LocalsFresh, Pledged, At, Goto, FormActivity, TypeOK
  <2> QED
    BY <2>4, <2>5, QuietStep
<1>4. CASE /\ UNCHANGED tables
           /\ req[r] = Idle
           /\ \/ taskActivityNewPost(r)
              \/ activityResume(r)
              \/ taskPlanNewPost(r)
              \/ activityEditPost(r)
              \/ activityExtend(r)
  <2>1. TasksStay /\ TasksExist /\ NoNewLink
    BY <1>4, <1>a DEF TasksStay, TasksExist, NoNewLink, References
  <2>2. OnlyMoves(r)
    BY <1>4, <1>a DEF OnlyMoves, Goto, TypeOK, taskActivityNewPost,
       activityResume, taskPlanNewPost, activityEditPost, activityExtend
  <2>3. LocalsFresh(r)' /\ Pledged(r)' = 0
    <3>1. CASE taskActivityNewPost(r)
      BY <1>4, <3>1, <1>a DEF taskActivityNewPost, OfferedPlans, FormActivity,
         LocalsFresh, Pledged, At, Goto, TypeOK
    <3>2. CASE activityResume(r)
      BY <1>4, <3>2, <1>a, KeptColumns DEF activityResume, References,
         LocalsFresh, Pledged, At, Goto, TypeOK
    <3>3. CASE taskPlanNewPost(r)
      BY <1>4, <3>3, <1>a DEF taskPlanNewPost, LocalsFresh, Pledged, At, Goto,
         TypeOK
    <3>4. CASE activityEditPost(r)
      BY <1>4, <3>4, <1>a, KeptColumns DEF activityEditPost, LocalsFresh,
         Pledged, At, Goto, TypeOK
    <3>5. CASE activityExtend(r)
      BY <1>4, <3>5, <1>a, KeptColumns DEF activityExtend, LocalsFresh, Pledged,
         At, Goto, TypeOK
    <3> QED
      BY <1>4, <3>1, <3>2, <3>3, <3>4, <3>5
  <2> QED
    BY <2>1, <2>2, <2>3, QuietStep
<1> QED
  BY <1>1, <1>2, <1>3, <1>4 DEF Start, Accept, taskActivityNewPost,
     activityResume, taskPlanNewPost, activityEditPost, activityExtend

LEMMA ContinueConsistent ==
  ASSUME Consistent, TypeOK', NEW r \in Req, Continue(r)
  PROVE  Consistent'
<1> USE DEF tables
<1>a. TypeOK /\ References /\ LocalsFresh(r) /\ req[r] \in Pending
  BY DEF Consistent, TypeOK
<1>m. OnlyMoves(r)
  BY <1>a DEF Continue, ActivityAdd, PlanGet, PlanEdit, PlanAdd,
     ActivityEditSelect, ActivityEditUpdate, StorageError, Goto, OnlyMoves,
     TypeOK
<1>1. CASE ActivityAdd(r)
  <2> DEFINE n == NewId(acts)
             row == RowOf(req[r].a, AddStatus(req[r].a.done))
  <2>1. /\ req[r] \in AddingActivity
        /\ row \in ActivityRow
        /\ row.task = req[r].a.task
        /\ row.task \in DOMAIN tasks
    <3>1. req[r] \in AddingActivity
      BY <1>1, <1>a, PendingShape DEF ActivityAdd, At
    <3> QED
      BY <3>1, <1>1, <1>a, StatusTypes
         DEF AddingActivity, Activity, RowOf, ActivityAdd, LocalsFresh
  <2>2. acts' = Append(acts, row) /\ tasks' = tasks /\ plans' = plans
    BY <1>1 DEF ActivityAdd
  <2>3. /\ DOMAIN acts' = DOMAIN acts \cup {n}
        /\ n \notin DOMAIN acts
        /\ n \in RowId
        /\ acts'[n] = row
        /\ \A i \in DOMAIN acts : acts'[i] = acts[i]
    BY <2>1, <2>2, <1>a, AppendRow DEF TypeOK
  <2> HIDE DEF n, row
  <2>4. TasksStay /\ TasksExist /\ NoNewLink
    BY <2>1, <2>2, <2>3, <1>a DEF TasksStay, TasksExist, NoNewLink, References
  <2>5. CASE req[r].plan = 0
    <3>1. req'[r] = Idle
      BY <1>1, <2>5, <1>a DEF ActivityAdd, Goto, TypeOK
    <3>2. LocalsFresh(r)' /\ Pledged(r)' = 0
      BY <3>1 DEF LocalsFresh, Pledged, At, Idle
    <3> QED
      BY <1>m, <2>4, <3>2, QuietStep
  <2>6. CASE req[r].plan # 0
    <3>1. req'[r] = [pc |-> "PlanGet", plan |-> req[r].plan, activity |-> n]
      BY <1>1, <2>6, <1>a DEF ActivityAdd, Goto, TypeOK, n
    <3>2. LocalsFresh(r)'
      BY <1>1, <2>1, <2>2, <2>3, <2>6, <3>1, <1>a
         DEF ActivityAdd, LocalsFresh, At
    <3>3. \A s \in Req : LocalsFresh(s)'
      BY <1>m, <2>4, <3>2, OthersFresh DEF OnlyMoves
    <3>4. Pledged(r)' = n /\ n # 0
      BY <2>3, <3>1 DEF Pledged, At, RowId
    <3>5. \A s \in Req : s # r => Pledged(s)' = Pledged(s)
      BY <1>m DEF OnlyMoves, Pledged, At
    <3>6. \A s \in Req : Pledged(s) # 0 => Pledged(s) \in DOMAIN acts
      BY DEF Consistent, PledgesExclusive
    <3>7. \A p \in DOMAIN plans' : plans'[p].activity # n
      <4>1. 0 # n /\ n \notin {0} \cup DOMAIN acts
        BY <2>3 DEF RowId
      <4> QED
        BY <2>2, <4>1, <1>a DEF References
    <3>8. PledgesExclusive'
      <4> SUFFICES ASSUME NEW s \in Req, Pledged(s)' # 0
                   PROVE  /\ Pledged(s)' \in DOMAIN acts'
                          /\ \A p \in DOMAIN plans' :
                               plans'[p].activity # Pledged(s)'
                          /\ \A t \in Req : Pledged(t)' = Pledged(s)' => t = s
        BY DEF PledgesExclusive
      <4>1. CASE s = r
        BY <4>1, <2>3, <3>4, <3>5, <3>6, <3>7
      <4>2. CASE s # r
        BY <4>2, <2>2, <2>3, <3>4, <3>5, <3>6 DEF Consistent, PledgesExclusive
      <4> QED
        BY <4>1, <4>2
    <3> QED
      BY <2>4, <3>3, <3>8, TablesKept DEF Consistent
  <2> QED
    BY <2>5, <2>6
<1>2. CASE PlanGet(r)
  <2>1. req[r] \in GettingPlan
    BY <1>2, <1>a, PendingShape DEF PlanGet, At
  <2>2. plans[req[r].plan] \in PlanRow
    BY <1>2, <1>a, RowIds DEF PlanGet, LocalsFresh, TypeOK
  <2>3. /\ req'[r].pc = "PlanEdit"
        /\ req'[r].id = req[r].plan
        /\ req'[r].row = [plans[req[r].plan] EXCEPT !.activity = req[r].activity]
    BY <1>2, <1>a DEF PlanGet, Goto, TypeOK
  <2>4. /\ req'[r].row.task = plans[req[r].plan].task
        /\ req'[r].row.activity = req[r].activity
    BY <2>2, <2>3 DEF PlanRow
  <2>5. TasksStay /\ TasksExist /\ NoNewLink
    BY <1>2, <1>a DEF PlanGet, TasksStay, TasksExist, NoNewLink, References
  <2>6. LocalsFresh(r)' /\ Pledged(r)' = Pledged(r)
    BY <1>2, <2>1, <2>3, <2>4, <1>a
       DEF PlanGet, GettingPlan, RowId, LocalsFresh, Pledged, At
  <2> QED
    BY <1>m, <2>5, <2>6, QuietStep
<1>3. CASE PlanEdit(r)
  <2> DEFINE q == req[r].id
             row == req[r].row
  <2>1. /\ req[r] \in EditingPlan
        /\ q \in DOMAIN plans
        /\ row.task = plans[q].task
        /\ row.activity # 0
        /\ row.task = acts[row.activity].task
    BY <1>3, <1>a, PendingShape DEF PlanEdit, At, LocalsFresh
  <2>2. tasks' = tasks /\ acts' = acts
    BY <1>3 DEF PlanEdit
  <2>3. /\ DOMAIN plans' = DOMAIN plans
        /\ plans'[q] = row
        /\ \A p \in DOMAIN plans : p # q => plans'[p] = plans[p]
    BY <1>3, <2>1, <1>a, ReplaceRow DEF PlanEdit, EditingPlan, TypeOK
  <2>4. /\ Pledged(r) = row.activity
        /\ req'[r] = Idle
        /\ Pledged(r)' = 0
    BY <1>3, <1>a DEF PlanEdit, Goto, Idle, Pledged, At, TypeOK
  <2> HIDE DEF q, row
  <2>5. /\ row.activity \in DOMAIN acts
        /\ \A p \in DOMAIN plans : plans[p].activity # row.activity
        /\ \A s \in Req : Pledged(s) = row.activity => s = r
    BY <2>1, <2>4 DEF Consistent, PledgesExclusive
  <2>6. TasksStay
    BY <2>1, <2>2, <2>3 DEF TasksStay
  <2>7. \A s \in Req : LocalsFresh(s)'
    <3>1. LocalsFresh(r)'
      BY <2>4 DEF LocalsFresh, At, Idle
    <3> QED
      BY <1>m, <2>6, <3>1, OthersFresh DEF OnlyMoves
  <2>8. References'
    BY <2>1, <2>2, <2>3, <2>5, <1>a DEF References
  <2>9. PlanFulfilledByOwnTask'
    BY <2>1, <2>2, <2>3 DEF Consistent, PlanFulfilledByOwnTask
  <2>10. OnePlanPerActivity'
    BY <2>3, <2>5 DEF Consistent, OnePlanPerActivity
  <2>11. PledgesExclusive'
    <3>1. \A s \in Req : Pledged(s)' = IF s = r THEN 0 ELSE Pledged(s)
      BY <1>m, <2>4 DEF OnlyMoves, Pledged, At
    <3>2. SUFFICES ASSUME NEW s \in Req, s # r, Pledged(s) # 0
                   PROVE  /\ Pledged(s) \in DOMAIN acts'
                          /\ \A p \in DOMAIN plans' :
                               plans'[p].activity # Pledged(s)
                          /\ \A t \in Req : t # r /\ Pledged(t) = Pledged(s)
                                              => t = s
      BY <3>1 DEF PledgesExclusive
    <3>3. Pledged(s) # row.activity
      BY <2>5, <3>2
    <3> QED
      BY <2>2, <2>3, <3>2, <3>3 DEF Consistent, PledgesExclusive
  <2> QED
    BY <2>7, <2>8, <2>9, <2>10, <2>11 DEF Consistent
<1>4. CASE PlanAdd(r)
  <2>1. /\ req[r] \in AddingPlan
        /\ req[r].row.task \in DOMAIN tasks
        /\ req[r].row.activity = 0
    BY <1>4, <1>a, PendingShape DEF PlanAdd, At, LocalsFresh
  <2>2. /\ DOMAIN plans' = DOMAIN plans \cup {NewId(plans)}
        /\ plans'[NewId(plans)] = req[r].row
        /\ \A p \in DOMAIN plans : plans'[p] = plans[p]
        /\ tasks' = tasks /\ acts' = acts
    BY <1>4, <2>1, <1>a, AppendRow DEF PlanAdd, AddingPlan, TypeOK
  <2>3. TasksStay /\ TasksExist /\ NoNewLink
    BY <2>1, <2>2, <1>a DEF TasksStay, TasksExist, NoNewLink, References
  <2>4. LocalsFresh(r)' /\ Pledged(r)' = 0
    BY <1>4, <1>a DEF PlanAdd, LocalsFresh, Pledged, At, Goto, Idle, TypeOK
  <2> QED
    BY <1>m, <2>3, <2>4, QuietStep
<1>5. CASE ActivityEditSelect(r)
  <2>1. TasksStay /\ TasksExist /\ NoNewLink
    BY <1>5, <1>a DEF ActivityEditSelect, TasksStay, TasksExist, NoNewLink,
       References
  <2>2. LocalsFresh(r)' /\ Pledged(r)' = 0
    BY <1>5, <1>a DEF ActivityEditSelect, LocalsFresh, Pledged, At, Goto, TypeOK
  <2> QED
    BY <1>m, <2>1, <2>2, QuietStep
<1>6. CASE ActivityEditUpdate(r)
  <2> DEFINE id == req[r].a.id
  <2>1. /\ req[r] \in UpdatingActivity
        /\ id \in DOMAIN acts
        /\ req[r].a.task = acts[id].task
    BY <1>6, <1>a, PendingShape DEF ActivityEditUpdate, At, LocalsFresh
  <2>2. /\ DOMAIN acts' = DOMAIN acts
        /\ acts'[id] = RowOf(req[r].a, req[r].status)
        /\ \A i \in DOMAIN acts : i # id => acts'[i] = acts[i]
        /\ tasks' = tasks /\ plans' = plans
    BY <1>6, <2>1, <1>a, ReplaceRow, StatusTypes
       DEF ActivityEditUpdate, UpdatingActivity, TypeOK
  <2>3. acts'[id].task = acts[id].task
    BY <2>1, <2>2 DEF RowOf
  <2> HIDE DEF id
  <2>4. TasksStay /\ TasksExist /\ NoNewLink
    BY <2>1, <2>2, <2>3, <1>a DEF TasksStay, TasksExist, NoNewLink, References
  <2>5. LocalsFresh(r)' /\ Pledged(r)' = 0
    BY <1>6, <1>a
       DEF ActivityEditUpdate, LocalsFresh, Pledged, At, Goto, Idle, TypeOK
  <2> QED
    BY <1>m, <2>4, <2>5, QuietStep
<1>7. CASE StorageError(r)
  <2>1. TasksStay /\ TasksExist /\ NoNewLink
    BY <1>7, <1>a DEF StorageError, TasksStay, TasksExist, NoNewLink, References
  <2>2. LocalsFresh(r)' /\ Pledged(r)' = 0
    BY <1>7, <1>a
       DEF StorageError, LocalsFresh, Pledged, At, Goto, Idle, TypeOK
  <2> QED
    BY <1>m, <2>1, <2>2, QuietStep
<1> QED
  BY <1>1, <1>2, <1>3, <1>4, <1>5, <1>6, <1>7 DEF Continue

LEMMA InitConsistent == Init => Consistent
<1> SUFFICES ASSUME Init PROVE Consistent
  OBVIOUS
<1>1. TypeOK
  BY InitType
<1>2. References
  BY LegacyAssumption DEF Init, References
<1>3. PlanFulfilledByOwnTask /\ OnePlanPerActivity
  BY DEF Init, PlanFulfilledByOwnTask, OnePlanPerActivity
<1>4. \A r \in Req : req[r].pc = "idle"
  BY DEF Init, Idle
<1>5. \A r \in Req : LocalsFresh(r) /\ Pledged(r) = 0
  BY <1>4 DEF LocalsFresh, Pledged, At
<1> QED
  BY <1>1, <1>2, <1>3, <1>5 DEF Consistent, PledgesExclusive

LEMMA StepConsistent == Consistent /\ [Next]_vars => Consistent'
<1> SUFFICES ASSUME Consistent, [Next]_vars PROVE Consistent'
  OBVIOUS
<1>1. CASE UNCHANGED vars
  BY <1>1 DEF vars, Consistent, TypeOK, References, PlanFulfilledByOwnTask,
     OnePlanPerActivity, LocalsFresh, PledgesExclusive, Pledged, At
<1>2. ASSUME NEW r \in Req, Start(r) PROVE Consistent'
  BY <1>2, StartType, StartConsistent DEF Consistent
<1>3. ASSUME NEW r \in Req, Continue(r) PROVE Consistent'
  BY <1>3, ContinueType, ContinueConsistent DEF Consistent
<1> QED
  BY <1>1, <1>2, <1>3 DEF Next

-----------------------------------------------------------------------------
(* The theorems.                                                           *)

(* Every reachable state satisfies the inductive invariant: the promises   *)
(* of the tables, and what each handler between two statements relies on.  *)
THEOREM Invariance == Spec => []Consistent
<1>1. Init => Consistent
  BY InitConsistent
<1>2. Consistent /\ [Next]_vars => Consistent'
  BY StepConsistent
<1> QED
  BY <1>1, <1>2, PTL DEF Spec

(* Every row and every handler in flight is always of its type.            *)
THEOREM TypeCorrect == Spec => []TypeOK
<1>1. Consistent => TypeOK
  BY DEF Consistent
<1> QED
  BY <1>1, Invariance, PTL

(* The foreign keys that SQLite is not asked to enforce always hold.       *)
THEOREM ReferencesHold == Spec => []References
<1>1. Consistent => References
  BY DEF Consistent
<1> QED
  BY <1>1, Invariance, PTL

(* However requests interleave and fail, a plan is only ever fulfilled by  *)
(* an activity of its own task ...                                         *)
THEOREM PlansFulfilled == Spec => []PlanFulfilledByOwnTask
<1>1. Consistent => PlanFulfilledByOwnTask
  BY DEF Consistent
<1> QED
  BY <1>1, Invariance, PTL

(* ... and an activity fulfils at most one plan.                           *)
THEOREM LinksSound == Spec => []OnePlanPerActivity
<1>1. Consistent => OnePlanPerActivity
  BY DEF Consistent
<1> QED
  BY <1>1, Invariance, PTL

-----------------------------------------------------------------------------
(* What the queries find, in any tables whose references are sound.        *)

(* A set of numbers has a least element, which the library has as "less    *)
(* than is well-founded".                                                  *)
LEMMA LeastNumber ==
  ASSUME NEW T \in SUBSET Nat, T # {}
  PROVE  \E x \in T : \A y \in T : x <= y
<1> DEFINE R == {ss \in Nat \X Nat : ss[1] < ss[2]}
<1>1. IsWellFoundedOn(R, Nat)
  BY NatLessThanWellFounded DEF OpToRel
<1>2. PICK x \in T : \A y \in T : ~(<<y, x>> \in R)
  <2> HIDE DEF R
  <2> QED
    BY <1>1, WFMin, Zenon
<1>3. \A y \in T : ~(y < x)
  BY <1>2 DEF R
<1> QED
  BY <1>3

LEMMA EndsTyped ==
  ASSUME TypeOK, NEW a \in DOMAIN acts
  PROVE  acts[a].end \in Int
<1>1. acts[a] \in ActivityRow
  BY DEF TypeOK
<1>2. acts[a].end \in Time
  BY <1>1 DEF ActivityRow
<1> QED
  BY <1>2, TimeAssumption

(* A task that has activities has one that no other ends after: else there *)
(* is a first row that its predecessors' last activity does not settle.    *)
LEMMA LastExists ==
  ASSUME TypeOK, NEW t, ActivitiesOf(acts, t) # {}
  PROVE  \E a \in ActivitiesOf(acts, t) :
           \A b \in ActivitiesOf(acts, t) : acts[b].end <= acts[a].end
<1> DEFINE A == ActivitiesOf(acts, t)
           Upto(k) == {a \in A : a <= k}
           Settled(k) ==
             Upto(k) # {} =>
               \E a \in Upto(k) : \A b \in Upto(k) : acts[b].end <= acts[a].end
           Open == {k \in Nat : ~Settled(k)}
<1>1. \A a \in A : a \in 1..Len(acts) /\ acts[a].end \in Int
  BY EndsTyped DEF ActivitiesOf, TypeOK
<1>2. Len(acts) \in Nat
  BY DEF TypeOK
<1> HIDE DEF A
<1>a. \A a \in A : a \in Int /\ acts[a].end \in Int
  BY <1>1
<1>3. Open = {}
  <2> SUFFICES ASSUME Open # {} PROVE FALSE
    OBVIOUS
  <2>1. PICK k \in Open : \A j \in Open : k <= j
    <3>1. Open \in SUBSET Nat
      OBVIOUS
    <3> HIDE DEF Open
    <3> QED
      BY <3>1, LeastNumber
  <2>2. k \in Nat /\ ~Settled(k)
    OBVIOUS
  <2>k. k \in Nat
    BY <2>2
  <2>3. k # 0
    BY <1>1, <2>2
  <2>4. k - 1 \in Nat /\ Settled(k - 1)
    BY <2>1, <2>2, <2>3
  <2>5. Upto(k) = Upto(k - 1) \cup (A \cap {k})
    <3>1. \A a \in A : a <= k <=> a <= k - 1 \/ a = k
      <4> HIDE DEF Open
      <4> QED
        BY <1>a, <2>k
    <3> QED
      BY <3>1
  <2>6. CASE Upto(k - 1) = {}
    BY <1>1, <2>2, <2>5, <2>6
  <2>7. CASE Upto(k - 1) # {}
    <3>1. PICK a \in Upto(k - 1) : \A b \in Upto(k - 1) : acts[b].end <= acts[a].end
      BY <2>4, <2>7
    <3>2. CASE k \notin A
      BY <2>2, <2>5, <3>1, <3>2
    <3>3. CASE k \in A /\ acts[k].end <= acts[a].end
      BY <2>2, <2>5, <3>1, <3>3
    <3>4. CASE k \in A /\ ~(acts[k].end <= acts[a].end)
      <4>1. \A b \in Upto(k - 1) : acts[b].end <= acts[k].end
        <5> SUFFICES ASSUME NEW b \in Upto(k - 1)
                     PROVE  acts[b].end <= acts[k].end
          OBVIOUS
        <5>1. acts[b].end <= acts[a].end /\ b \in A /\ a \in A /\ k \in A
          BY <3>1, <3>4
        <5>2. acts[b].end \in Int /\ acts[a].end \in Int /\ acts[k].end \in Int
          BY <1>a, <5>1
        <5> HIDE DEF Open
        <5> QED
          BY <3>4, <5>1, <5>2
      <4>2. \A b \in Upto(k) : acts[b].end <= acts[k].end
        BY <1>1, <2>5, <3>4, <4>1
      <4>3. k \in Upto(k)
        BY <2>5, <3>4
      <4> QED
        BY <2>2, <4>2, <4>3
    <3> QED
      BY <3>2, <3>3, <3>4
  <2> QED
    BY <2>6, <2>7
<1>4. Settled(Len(acts))
  BY <1>2, <1>3
<1>5. Upto(Len(acts)) = A
  BY <1>1
<1> QED
  BY <1>4, <1>5 DEF A

(* The two halves of the query: a task with activities is listed by one of *)
(* the last, if that is not done, a task without by itself.                *)
LEMMA ListedExactly ==
  ASSUME TypeOK, NEW now, NEW t \in DOMAIN tasks
  PROVE  (\E row \in TaskSearch(tasks, acts, now) : row[1] = t)
           <=> DeadlineAhead(tasks[t], now) /\ ~Finished(t)
<1> DEFINE A == ActivitiesOf(acts, t)
<1>1. \A a \in A : a \in DOMAIN acts /\ acts[a].task = t /\ acts[a].end \in Int
  BY EndsTyped DEF ActivitiesOf
<1>2. ASSUME NEW row \in TaskSearch(tasks, acts, now), row[1] = t
      PROVE  DeadlineAhead(tasks[t], now) /\ ~Finished(t)
  <2>1. DeadlineAhead(tasks[t], now)
    BY <1>2 DEF TaskSearch
  <2>2. CASE row \in NoLogs(tasks, acts)
    <3>1. A = {}
      BY <1>2, <2>2 DEF NoLogs
    <3> QED
      BY <2>1, <3>1 DEF Finished
  <2>3. CASE row \in NotDoneJoin(tasks, acts)
    <3>1. /\ row[2] \in A
          /\ acts[row[2]].status # StatusDone
          /\ \A b \in A : acts[b].end <= acts[row[2]].end
      BY <1>2, <2>3 DEF NotDoneJoin, EndsLast, ActivitiesOf
    <3> QED
      BY <1>1, <2>1, <3>1 DEF Finished
  <2> QED
    BY <2>2, <2>3 DEF TaskSearch
<1>3. ASSUME DeadlineAhead(tasks[t], now), ~Finished(t)
      PROVE  \E row \in TaskSearch(tasks, acts, now) : row[1] = t
  <2>1. CASE A = {}
    <3>1. <<t, 0>> \in NoLogs(tasks, acts)
      BY <2>1 DEF NoLogs
    <3> QED
      BY <1>3, <3>1 DEF TaskSearch
  <2>2. CASE A # {}
    <3>1. PICK a \in A : \A b \in A : acts[b].end <= acts[a].end
      BY <2>2, LastExists
    <3>2. PICK b \in A : acts[b].status # StatusDone /\ acts[b].end = acts[a].end
      BY <1>1, <1>3, <3>1 DEF Finished
    <3>3. EndsLast(acts, b)
      BY <1>1, <3>1, <3>2 DEF EndsLast
    <3>4. <<t, b>> \in NotDoneJoin(tasks, acts)
      BY <1>1, <3>2, <3>3 DEF NotDoneJoin
    <3> QED
      BY <1>3, <3>4 DEF TaskSearch
  <2> QED
    BY <2>1, <2>2
<1> QED
  BY <1>2, <1>3

(* The undone list is exact in every state, for every time it is asked.    *)
THEOREM UndoneListExact == Spec => []UndoneExact
<1>1. TypeOK => UndoneExact
  BY ListedExactly DEF UndoneExact
<1> QED
  BY <1>1, TypeCorrect, PTL

-----------------------------------------------------------------------------
(* What no statement changes, whatever copies it is written from.          *)

(* What a handler that is about to link a plan holds of it agrees with the *)
(* plan's times, which no statement changes.                               *)
TimesFresh ==
  \A r \in Req : At(r, "PlanEdit") =>
    /\ req[r].row.atAfter = plans[req[r].id].atAfter
    /\ req[r].row.before = plans[req[r].id].before

(* What a step of a writer leaves alone: rows stay, an activity keeps its  *)
(* task, a plan its task and times, and a new id is above all others.      *)
RowsStay ==
  /\ DOMAIN tasks \subseteq DOMAIN tasks'
  /\ \A a \in DOMAIN acts : a \in DOMAIN acts' /\ acts'[a].task = acts[a].task
  /\ \A a \in (DOMAIN acts') \ DOMAIN acts : \A b \in DOMAIN acts : a > b
  /\ \A p \in DOMAIN plans :
       /\ p \in DOMAIN plans'
       /\ plans'[p].task = plans[p].task
       /\ plans'[p].atAfter = plans[p].atAfter
       /\ plans'[p].before = plans[p].before

LEMMA StartRows ==
  ASSUME Consistent, NEW r \in Req, Start(r)
  PROVE  RowsStay /\ plans' = plans
<1> USE DEF tables
<1>a. TypeOK
  BY DEF Consistent
<1>1. acts' = acts /\ plans' = plans
  BY DEF Start, taskNewPost, taskEditPost, taskNewActivityNewPost,
     taskActivityNewPost, activityResume, taskPlanNewPost, activityEditPost,
     activityExtend
<1>2. DOMAIN tasks \subseteq DOMAIN tasks'
  <2>1. CASE taskNewPost(r)
    <3>1. PICK f \in TaskForms : tasks' = Append(tasks, f)
      BY <2>1 DEF taskNewPost
    <3> QED
      BY <3>1, <1>a, FormsAssumption, AppendRow DEF TypeOK
  <2>2. CASE taskNewActivityNewPost(r)
    <3>1. PICK t \in TaskForms : tasks' = Append(tasks, t)
      BY <2>2 DEF taskNewActivityNewPost
    <3> QED
      BY <3>1, <1>a, FormsAssumption, AppendRow DEF TypeOK
  <2>3. CASE taskEditPost(r)
    BY <2>3 DEF taskEditPost
  <2>4. CASE UNCHANGED tables
    BY <2>4
  <2> QED
    BY <2>1, <2>2, <2>3, <2>4
       DEF Start, taskActivityNewPost, activityResume, taskPlanNewPost,
           activityEditPost, activityExtend
<1> QED
  BY <1>1, <1>2 DEF RowsStay

LEMMA ContinueRows ==
  ASSUME Consistent, TimesFresh, NEW r \in Req, Continue(r)
  PROVE  RowsStay
<1> USE DEF tables
<1>a. TypeOK /\ LocalsFresh(r) /\ req[r] \in Pending
  BY DEF Consistent, TypeOK
<1>1. CASE ActivityAdd(r)
  <2> DEFINE row == RowOf(req[r].a, AddStatus(req[r].a.done))
  <2>1. req[r] \in AddingActivity
    BY <1>1, <1>a, PendingShape DEF ActivityAdd, At
  <2>2. row \in ActivityRow
    <3>1. req[r].a \in Activity /\ req[r].a.done \in BOOLEAN
      BY <2>1 DEF AddingActivity, Activity
    <3> QED
      BY <3>1, StatusTypes
  <2>3. acts' = Append(acts, row) /\ tasks' = tasks /\ plans' = plans
    BY <1>1 DEF ActivityAdd
  <2> HIDE DEF row
  <2>4. /\ DOMAIN acts' = DOMAIN acts \cup {NewId(acts)}
        /\ \A i \in DOMAIN acts : acts'[i] = acts[i]
    BY <2>2, <2>3, <1>a, AppendRow DEF TypeOK
  <2>5. \A b \in DOMAIN acts : NewId(acts) > b
    BY <1>a DEF TypeOK, NewId
  <2> QED
    BY <2>3, <2>4, <2>5 DEF RowsStay
<1>2. CASE PlanEdit(r)
  <2>1. /\ req[r] \in EditingPlan
        /\ req[r].id \in DOMAIN plans
        /\ plans[req[r].id].task = req[r].row.task
        /\ req[r].row.atAfter = plans[req[r].id].atAfter
        /\ req[r].row.before = plans[req[r].id].before
    BY <1>2, <1>a, PendingShape DEF PlanEdit, At, LocalsFresh, TimesFresh
  <2>2. /\ DOMAIN plans' = DOMAIN plans
        /\ plans'[req[r].id] = req[r].row
        /\ \A p \in DOMAIN plans : p # req[r].id => plans'[p] = plans[p]
        /\ tasks' = tasks /\ acts' = acts
    BY <1>2, <2>1, <1>a, ReplaceRow DEF PlanEdit, EditingPlan, TypeOK
  <2> QED
    BY <2>1, <2>2 DEF RowsStay
<1>3. CASE PlanAdd(r)
  <2>1. req[r] \in AddingPlan
    BY <1>3, <1>a, PendingShape DEF PlanAdd, At
  <2>2. /\ DOMAIN plans' = DOMAIN plans \cup {NewId(plans)}
        /\ \A p \in DOMAIN plans : plans'[p] = plans[p]
        /\ tasks' = tasks /\ acts' = acts
    BY <1>3, <2>1, <1>a, AppendRow DEF PlanAdd, AddingPlan, TypeOK
  <2> QED
    BY <2>2 DEF RowsStay
<1>4. CASE ActivityEditUpdate(r)
  <2>1. /\ req[r] \in UpdatingActivity
        /\ req[r].a.id \in DOMAIN acts
        /\ req[r].a.task = acts[req[r].a.id].task
    BY <1>4, <1>a, PendingShape DEF ActivityEditUpdate, At, LocalsFresh
  <2>2. /\ DOMAIN acts' = DOMAIN acts
        /\ acts'[req[r].a.id] = RowOf(req[r].a, req[r].status)
        /\ \A i \in DOMAIN acts : i # req[r].a.id => acts'[i] = acts[i]
        /\ tasks' = tasks /\ plans' = plans
    BY <1>4, <2>1, <1>a, ReplaceRow, StatusTypes
       DEF ActivityEditUpdate, UpdatingActivity, TypeOK
  <2>3. acts'[req[r].a.id].task = acts[req[r].a.id].task
    BY <2>1, <2>2 DEF RowOf
  <2> QED
    BY <2>2, <2>3 DEF RowsStay
<1>5. CASE UNCHANGED tables
  BY <1>5 DEF RowsStay
<1> QED
  BY <1>1, <1>2, <1>3, <1>4, <1>5
     DEF Continue, PlanGet, ActivityEditSelect, StorageError

LEMMA StepRows ==
  ASSUME Consistent, TimesFresh, [Next]_vars
  PROVE  RowsStay
<1>1. CASE UNCHANGED vars
  BY <1>1 DEF vars, RowsStay
<1> QED
  BY <1>1, StartRows, ContinueRows DEF Next

(* Reading a plan and setting its activity leaves its times alone.         *)
LEMMA KeptTimes ==
  ASSUME NEW row \in PlanRow, NEW x
  PROVE  /\ [row EXCEPT !.activity = x].atAfter = row.atAfter
         /\ [row EXCEPT !.activity = x].before = row.before
BY DEF PlanRow

LEMMA StepTimes ==
  ASSUME Consistent, TimesFresh, [Next]_vars
  PROVE  TimesFresh'
<1>a. TypeOK
  BY DEF Consistent
<1>b. RowsStay
  BY StepRows
<1>1. ASSUME NEW s \in Req, req'[s] = req[s], At(s, "PlanEdit")
      PROVE  /\ req[s].row.atAfter = plans'[req[s].id].atAfter
             /\ req[s].row.before = plans'[req[s].id].before
  BY <1>1, <1>b DEF Consistent, LocalsFresh, TimesFresh, RowsStay
<1>2. CASE UNCHANGED vars
  BY <1>2 DEF vars, TimesFresh, At
<1>3. ASSUME NEW r \in Req, Start(r) PROVE TimesFresh'
  <2>1. /\ req'[r].pc # "PlanEdit"
        /\ \A s \in Req : s # r => req'[s] = req[s]
    BY <1>3, <1>a DEF Start, taskNewPost, taskEditPost, taskNewActivityNewPost,
       taskActivityNewPost, activityResume, taskPlanNewPost, activityEditPost,
       activityExtend, Accept, Goto, TypeOK, Idle
  <2> QED
    BY <2>1, <1>1 DEF TimesFresh, At
<1>4. ASSUME NEW r \in Req, PlanGet(r) PROVE TimesFresh'
  <2> DEFINE p == req[r].plan
             row == [plans[p] EXCEPT !.activity = req[r].activity]
  <2>1. p \in DOMAIN plans /\ plans[p] \in PlanRow
    BY <1>4, <1>a, RowIds DEF PlanGet, Consistent, LocalsFresh, TypeOK
  <2>2. row.atAfter = plans[p].atAfter /\ row.before = plans[p].before
    BY <2>1, KeptTimes
  <2>3. req' = [req EXCEPT ![r] = [pc |-> "PlanEdit", id |-> p, row |-> row]]
    BY <1>4 DEF PlanGet, Goto
  <2>4. plans' = plans
    BY <1>4 DEF PlanGet, tables
  <2> HIDE DEF p, row
  <2>5. /\ req'[r] = [pc |-> "PlanEdit", id |-> p, row |-> row]
        /\ \A s \in Req : s # r => req'[s] = req[s]
    BY <2>3, <1>a DEF TypeOK
  <2>6. req'[r].id = p /\ req'[r].row = row
    BY <2>5
  <2>7. ASSUME NEW s \in Req, At(s, "PlanEdit")'
        PROVE  /\ req'[s].row.atAfter = plans'[req'[s].id].atAfter
               /\ req'[s].row.before = plans'[req'[s].id].before
    <3>1. CASE s = r
      BY <3>1, <2>2, <2>4, <2>6
    <3>2. CASE s # r
      BY <3>2, <2>5, <2>7, <1>1 DEF At
    <3> QED
      BY <3>1, <3>2
  <2> QED
    BY <2>7 DEF TimesFresh
<1>5. ASSUME NEW r \in Req, Continue(r), ~PlanGet(r) PROVE TimesFresh'
  <2>1. /\ req'[r].pc # "PlanEdit"
        /\ \A s \in Req : s # r => req'[s] = req[s]
    <3>1. CASE ActivityAdd(r)
      BY <3>1, <1>a DEF ActivityAdd, Goto, TypeOK, Idle
    <3>2. CASE PlanEdit(r) \/ PlanAdd(r) \/ StorageError(r) \/ ActivityEditUpdate(r)
      BY <3>2, <1>a DEF PlanEdit, PlanAdd, StorageError, ActivityEditUpdate,
         Goto, TypeOK, Idle
    <3>3. CASE ActivityEditSelect(r)
      BY <3>3, <1>a DEF ActivityEditSelect, Goto, TypeOK
    <3> QED
      BY <3>1, <3>2, <3>3, <1>5 DEF Continue
  <2> QED
    BY <2>1, <1>1 DEF TimesFresh, At
<1> QED
  BY <1>2, <1>3, <1>4, <1>5 DEF Next, Continue

LEMMA InitTimes == Init => TimesFresh
BY DEF Init, TimesFresh, At, Idle

(* The inductive invariant, with what the copies of plans agree on.        *)
LEMMA RowsInvariance == Spec => [](Consistent /\ TimesFresh)
<1>1. TimesFresh /\ Consistent /\ [Next]_vars => TimesFresh'
  BY StepTimes
<1> QED
  BY <1>1, InitTimes, Invariance, PTL DEF Spec

-----------------------------------------------------------------------------
(* Server implements Ledger.                                               *)

LEMMA ColumnsOfAppend ==
  ASSUME NEW S, NEW table \in Seq(S), NEW row
  PROVE  /\ TasksOf(Append(table, row)) = Append(TasksOf(table), row.task)
         /\ LinksOf(Append(table, row)) = Append(LinksOf(table), row.activity)
<1>1. /\ TasksOf(table) \in Seq({table[i].task : i \in DOMAIN table})
      /\ LinksOf(table) \in Seq({table[i].activity : i \in DOMAIN table})
      /\ Len(TasksOf(table)) = Len(table)
      /\ Len(LinksOf(table)) = Len(table)
  BY DEF TasksOf, LinksOf
<1> QED
  BY <1>1 DEF TasksOf, LinksOf

LEMMA InitLedger == Init => L!Init
<1> SUFFICES ASSUME Init PROVE L!Init
  OBVIOUS
<1>1. TasksOf(plans) = <<>> /\ LinksOf(plans) = <<>>
  BY DEF Init, TasksOf, LinksOf
<1>2. TasksOf(acts) \in Seq(1..Len(tasks))
  <2>1. /\ acts \in Seq(ActivityRow)
        /\ tasks \in Seq(TaskRow)
        /\ \A a \in DOMAIN acts : acts[a].task \in DOMAIN tasks
    BY LegacyAssumption DEF Init
  <2>2. DOMAIN tasks = 1..Len(tasks) /\ DOMAIN acts = 1..Len(acts)
    BY <2>1
  <2>3. Len(acts) \in Nat
    BY <2>1
  <2>4. TasksOf(acts) \in [1..Len(acts) -> 1..Len(tasks)]
    BY <2>1, <2>2 DEF TasksOf
  <2> QED
    BY <2>3, <2>4
<1>3. Len(tasks) \in Nat
  BY LegacyAssumption DEF Init
<1> QED
  BY <1>1, <1>2, <1>3 DEF L!Init

(* An appended task, activity or plan, a link and every other step.        *)
LEMMA StepLedger ==
  ASSUME Consistent, NEW r \in Req, Start(r) \/ Continue(r)
  PROVE  L!Next \/ UNCHANGED L!vars
<1> USE DEF tables
<1>a. TypeOK /\ References /\ LocalsFresh(r) /\ req[r] \in Pending
  BY DEF Consistent, TypeOK
<1>1. CASE taskNewPost(r) \/ taskNewActivityNewPost(r)
  <2>1. PICK t : tasks' = Append(tasks, t)
    BY <1>1 DEF taskNewPost, taskNewActivityNewPost
  <2>2. Len(tasks') = Len(tasks) + 1 /\ acts' = acts /\ plans' = plans
    BY <1>1, <2>1, <1>a DEF taskNewPost, taskNewActivityNewPost, TypeOK
  <2>3. L!NewTask
    BY <2>2 DEF L!NewTask
  <2> QED
    BY <2>3 DEF L!Next
<1>2. CASE taskEditPost(r)
  <2>1. Len(tasks') = Len(tasks) /\ acts' = acts /\ plans' = plans
    BY <1>2, <1>a DEF taskEditPost, TypeOK
  <2> QED
    BY <2>1 DEF L!vars
<1>3. CASE ActivityAdd(r)
  <2> DEFINE row == RowOf(req[r].a, AddStatus(req[r].a.done))
  <2>1. acts' = Append(acts, row) /\ tasks' = tasks /\ plans' = plans
    BY <1>3 DEF ActivityAdd
  <2>2. row.task = req[r].a.task /\ row.task \in DOMAIN tasks
    BY <1>3, <1>a DEF ActivityAdd, LocalsFresh, RowOf
  <2>3. DOMAIN tasks = 1..Len(tasks)
    BY <1>a DEF TypeOK
  <2> HIDE DEF row
  <2>4. TasksOf(acts)' = Append(TasksOf(acts), row.task)
    BY <2>1, <1>a, ColumnsOfAppend DEF TypeOK
  <2>5. L!NewActivity(row.task)
    BY <2>1, <2>4 DEF L!NewActivity
  <2> QED
    BY <2>2, <2>3, <2>5 DEF L!Next
<1>4. CASE PlanAdd(r)
  <2> DEFINE row == req[r].row
  <2>1. plans' = Append(plans, row) /\ tasks' = tasks /\ acts' = acts
    BY <1>4 DEF PlanAdd
  <2>2. row.activity = 0 /\ row.task \in DOMAIN tasks
    BY <1>4, <1>a DEF PlanAdd, LocalsFresh
  <2>3. DOMAIN tasks = 1..Len(tasks)
    BY <1>a DEF TypeOK
  <2> HIDE DEF row
  <2>4. /\ TasksOf(plans)' = Append(TasksOf(plans), row.task)
        /\ LinksOf(plans)' = Append(LinksOf(plans), 0)
    BY <2>1, <2>2, <1>a, ColumnsOfAppend DEF TypeOK
  <2>5. L!NewPlan(row.task)
    BY <2>1, <2>4 DEF L!NewPlan
  <2> QED
    BY <2>2, <2>3, <2>5 DEF L!Next
<1>5. CASE PlanEdit(r)
  <2> DEFINE p == req[r].id
             row == req[r].row
  <2>1. /\ p \in DOMAIN plans
        /\ row.task = plans[p].task
        /\ row.task = acts[row.activity].task
        /\ row.activity # 0
        /\ Pledged(r) = row.activity
    BY <1>5, <1>a DEF PlanEdit, At, LocalsFresh, Pledged
  <2>2. /\ row.activity \in DOMAIN acts
        /\ \A q \in DOMAIN plans : plans[q].activity # row.activity
    BY <2>1 DEF Consistent, PledgesExclusive
  <2>3. plans' = [plans EXCEPT ![p] = row] /\ tasks' = tasks /\ acts' = acts
    BY <1>5 DEF PlanEdit
  <2> HIDE DEF p, row
  <2>4. TasksOf(plans)' = TasksOf(plans)
    BY <2>1, <2>3 DEF TasksOf
  <2>5. LinksOf(plans)' = [LinksOf(plans) EXCEPT ![p] = row.activity]
    BY <2>1, <2>3 DEF LinksOf
  <2>6. L!Link(p, row.activity)
    BY <2>1, <2>2, <2>3, <2>4, <2>5 DEF L!Link, TasksOf, LinksOf
  <2>7. p \in DOMAIN TasksOf(plans) /\ row.activity \in DOMAIN TasksOf(acts)
    BY <2>1, <2>2 DEF TasksOf
  <2> QED
    BY <2>6, <2>7 DEF L!Next
<1>6. CASE ActivityEditUpdate(r)
  <2> DEFINE id == req[r].a.id
             row == RowOf(req[r].a, req[r].status)
  <2>1. id \in DOMAIN acts /\ row.task = acts[id].task
    BY <1>6, <1>a DEF ActivityEditUpdate, LocalsFresh, RowOf
  <2>2. acts' = [acts EXCEPT ![id] = row] /\ tasks' = tasks /\ plans' = plans
    BY <1>6 DEF ActivityEditUpdate
  <2> HIDE DEF id, row
  <2>3. TasksOf(acts)' = TasksOf(acts)
    BY <2>1, <2>2 DEF TasksOf
  <2> QED
    BY <2>2, <2>3 DEF L!vars
<1>7. CASE UNCHANGED tables
  BY <1>7 DEF L!vars
<1> QED
  BY <1>1, <1>2, <1>3, <1>4, <1>5, <1>6, <1>7
     DEF Start, Continue, taskActivityNewPost, activityResume, taskPlanNewPost,
         activityEditPost, activityExtend, PlanGet, ActivityEditSelect,
         StorageError

(* Every behaviour of the server's handlers, seen as the references        *)
(* between its rows, is one the ledger allows.                             *)
THEOREM Refinement == Spec => KeepsLedger
<1>1. Init => L!Init
  BY InitLedger
<1>2. Consistent /\ [Next]_vars => [L!Next]_(L!vars)
  <2> SUFFICES ASSUME Consistent, [Next]_vars PROVE L!Next \/ UNCHANGED L!vars
    OBVIOUS
  <2>1. CASE UNCHANGED vars
    BY <2>1 DEF vars, L!vars
  <2> QED
    BY <2>1, StepLedger DEF Next
<1> QED
  BY <1>1, <1>2, Invariance, PTL DEF Spec, KeepsLedger, L!Spec

=============================================================================
