---------------------------- MODULE AtomicProofs -----------------------------
(***************************************************************************)
(* Proofs of what the write handlers do while no request changes a row     *)
(* between the statement of another request that reads it and the one that *)
(* writes by it: every request then takes effect at one moment, whatever   *)
(* else is interleaved with it, and the promises hold that only such an    *)
(* overtaking breaks.                                                      *)
(***************************************************************************)
EXTENDS ServerProofs

(* Requests are served one after the other.                                *)
OneSlot == \A r, s \in Req : r = s

(* What a handler is about to write is what its form makes of the rows as  *)
(* they are now: of an activity or a plan to add ...                       *)
AddsAsAsked(r) ==
  /\ req[r].form \in ActivityForms
  /\ req[r].a = FormActivity(req[r].a.task, req[r].form)
  /\ req[r].op = "taskActivityNewPost" =>
       WithinDeadline(tasks[req[r].a.task], req[r].a.start, req[r].a.end)

ResumesAsAsked(r) ==
  /\ req[r].plan = 0
  /\ req[r].of \in DOMAIN acts
  /\ req[r].form \in [start : Time, end : Time]
  /\ req[r].a = Resumed(acts[req[r].of], req[r].form.start, req[r].form.end)

PlansAsAsked(r) ==
  /\ req[r].row = [task |-> req[r].row.task, activity |-> 0,
                   atAfter |-> req[r].form.atAfter, before |-> req[r].form.before]
  /\ WithinDeadline(tasks[req[r].row.task], req[r].row.atAfter, req[r].row.before)

(* ... or of an activity to replace.                                       *)
EditsAsAsked(r) ==
  /\ req[r].form \in ActivityForms
  /\ req[r].a = [id |-> req[r].a.id, task |-> req[r].a.task,
                 start |-> req[r].form.start, end |-> req[r].form.end,
                 done |-> req[r].form.done]

ExtendsAsAsked(r) ==
  /\ req[r].form \in [end : Time]
  /\ req[r].a = Extended(req[r].a.id, acts[req[r].a.id], req[r].form.end)

UpToDate(r) ==
  /\ At(r, "ActivityAdd") /\ req[r].op # "activityResume" => AddsAsAsked(r)
  /\ At(r, "ActivityAdd") /\ req[r].op = "activityResume" => ResumesAsAsked(r)
  /\ At(r, "PlanAdd") => PlansAsAsked(r)
  /\ At(r, "ActivityEditSelect") \/ At(r, "ActivityEditUpdate") =>
       /\ req[r].op = "activityEditPost" => EditsAsAsked(r)
       /\ req[r].op = "activityExtend" => ExtendsAsAsked(r)
  /\ At(r, "ActivityEditUpdate") =>
       req[r].status = EditStatus(req[r].a.done, acts[req[r].a.id].status)

(* The inductive invariant.                                                *)
AtomicInv ==
  /\ Consistent
  /\ TimesFresh
  /\ \A r \in Req : UpToDate(r)

-----------------------------------------------------------------------------
(* Rows as the forms make them.                                            *)

LEMMA RowWith ==
  ASSUME NEW row \in ActivityRow, NEW start, NEW end, NEW status
  PROVE  [row EXCEPT !.start = start, !.end = end, !.status = status] =
         [task |-> row.task, start |-> start, end |-> end, status |-> status]
<1> DEFINE new == [row EXCEPT !.start = start, !.end = end, !.status = status]
<1>1. DOMAIN row = {"task", "start", "end", "status"} /\ row = [x \in DOMAIN row |-> row[x]]
  BY DEF ActivityRow
<1>2. /\ DOMAIN new = {"task", "start", "end", "status"}
      /\ new = [x \in DOMAIN new |-> new[x]]
  BY <1>1
<1>3. new.task = row.task /\ new.start = start /\ new.end = end /\ new.status = status
  BY <1>1
<1> HIDE DEF new
<1>4. new \in [task : {row.task}, start : {start}, end : {end}, status : {status}]
  BY <1>2, <1>3
<1>5. new = [task |-> row.task, start |-> start, end |-> end, status |-> status]
  BY <1>4
<1> QED
  BY <1>5, Zenon DEF new

(* Adding what a form says, as the server and as module Atomic have it.    *)
LEMMA AddedRow ==
  ASSUME NEW task, NEW f
  PROVE  RowOf(FormActivity(task, f), AddStatus(FormActivity(task, f).done)) =
         [task |-> task, start |-> f.start, end |-> f.end,
          status |-> IF f.done THEN Atom!StatusDone ELSE Atom!StatusInProgress]
<1>1. FormActivity(task, f).done = f.done
  BY DEF FormActivity
<1>2. AddStatus(f.done) = IF f.done THEN Atom!StatusDone ELSE Atom!StatusInProgress
  BY DEF AddStatus, StatusDone, StatusInProgress, Atom!StatusDone, Atom!StatusInProgress
<1> QED
  BY <1>1, <1>2 DEF RowOf, FormActivity

(* A copy of a row keeps its task and whether it was done.                 *)
LEMMA ResumedRow ==
  ASSUME NEW row \in ActivityRow, NEW f
  PROVE  RowOf(Resumed(row, f.start, f.end),
               AddStatus(Resumed(row, f.start, f.end).done)) = Atom!Again(row, f)
<1>1. /\ Resumed(row, f.start, f.end).task = row.task
      /\ Resumed(row, f.start, f.end).start = f.start
      /\ Resumed(row, f.start, f.end).end = f.end
      /\ Resumed(row, f.start, f.end).done = (row.status = StatusDone)
  BY DEF Resumed, activityToStorage
<1> DEFINE status == IF row.status = Atom!StatusDone THEN row.status
                     ELSE Atom!StatusInProgress
<1>2. AddStatus(row.status = StatusDone) = status
  BY DEF AddStatus, StatusDone, StatusInProgress, Atom!StatusDone, Atom!StatusInProgress
<1>3. Atom!Again(row, f) =
        [task |-> row.task, start |-> f.start, end |-> f.end, status |-> status]
  <2>1. Atom!Again(row, f) =
          [row EXCEPT !.start = f.start, !.end = f.end, !.status = status]
    BY Zenon DEF Atom!Again
  <2> HIDE DEF status
  <2> QED
    BY <2>1, RowWith
<1> HIDE DEF status
<1> QED
  BY <1>1, <1>2, <1>3 DEF RowOf

(* An edit keeps the task, and the status unless "Done" has changed.       *)
LEMMA EditedRow ==
  ASSUME NEW row \in ActivityRow, NEW f \in ActivityForm, NEW a,
         a.task = row.task, a.start = f.start, a.end = f.end, a.done = f.done
  PROVE  RowOf(a, EditStatus(a.done, row.status)) = Atom!Edited(row, f)
<1> DEFINE status == IF f.done = (row.status = Atom!StatusDone) THEN row.status
                     ELSE IF f.done THEN Atom!StatusDone ELSE Atom!StatusInProgress
<1>0. f.done \in BOOLEAN
  BY DEF ActivityForm
<1>1. EditStatus(f.done, row.status) = status
  <2>1. CASE f.done = TRUE
    BY <2>1 DEF EditStatus, StatusDone, StatusInProgress,
       Atom!StatusDone, Atom!StatusInProgress
  <2>2. CASE f.done = FALSE
    BY <2>2 DEF EditStatus, StatusDone, StatusInProgress,
       Atom!StatusDone, Atom!StatusInProgress
  <2> QED
    BY <1>0, <2>1, <2>2
<1>2. Atom!Edited(row, f) =
        [task |-> row.task, start |-> f.start, end |-> f.end, status |-> status]
  <2>1. Atom!Edited(row, f) =
          [row EXCEPT !.start = f.start, !.end = f.end, !.status = status]
    BY Zenon DEF Atom!Edited
  <2> HIDE DEF status
  <2> QED
    BY <2>1, RowWith
<1> HIDE DEF status
<1> QED
  BY <1>1, <1>2 DEF RowOf

(* An extension keeps everything but the end, the status included.         *)
LEMMA ExtendedRow ==
  ASSUME NEW id, NEW row \in ActivityRow, NEW end
  PROVE  RowOf(Extended(id, row, end), EditStatus(Extended(id, row, end).done, row.status))
           = [row EXCEPT !.end = end]
<1>1. /\ Extended(id, row, end).task = row.task
      /\ Extended(id, row, end).start = row.start
      /\ Extended(id, row, end).end = end
      /\ Extended(id, row, end).done = (row.status = StatusDone)
  BY DEF Extended, activityToStorage
<1>2. EditStatus(row.status = StatusDone, row.status) = row.status
  BY Zenon DEF EditStatus
<1>3. [row EXCEPT !.end = end] =
        [task |-> row.task, start |-> row.start, end |-> end, status |-> row.status]
  BY DEF ActivityRow
<1>4. Extended(id, row, end).done = (row.status = StatusDone)
      => EditStatus(Extended(id, row, end).done, row.status) = row.status
  BY <1>2, Zenon
<1> QED
  BY <1>1, <1>3, <1>4 DEF RowOf

(* A plan whose activity alone is set.                                     *)
LEMMA LinkedRow ==
  ASSUME NEW old \in PlanRow, NEW row \in PlanRow, row.task = old.task,
         row.atAfter = old.atAfter, row.before = old.before
  PROVE  [old EXCEPT !.activity = row.activity] = row
BY DEF PlanRow

-----------------------------------------------------------------------------
(* What a handler has yet to do.                                           *)

LEMMA AskedCases ==
  ASSUME NEW h
  PROVE  /\ h.pc = "idle" => AskedBy(h) = Atom!Nothing
         /\ h.pc = "ActivityAdd" /\ h.op # "activityResume" =>
              AskedBy(h) = [op |-> h.op, task |-> h.a.task, form |-> h.form,
                            plan |-> h.plan]
         /\ h.pc = "ActivityAdd" /\ h.op = "activityResume" =>
              AskedBy(h) = [op |-> h.op, of |-> h.of, form |-> h.form]
         /\ h.pc = "PlanGet" =>
              AskedBy(h) = [op |-> "link", plan |-> h.plan, activity |-> h.activity]
         /\ h.pc = "PlanEdit" =>
              AskedBy(h) = [op |-> "link", plan |-> h.id, activity |-> h.row.activity]
         /\ h.pc = "PlanAdd" =>
              AskedBy(h) = [op |-> "taskPlanNewPost", task |-> h.row.task,
                            form |-> h.form]
         /\ h.pc \in {"ActivityEditSelect", "ActivityEditUpdate"} =>
              AskedBy(h) = [op |-> h.op, id |-> h.a.id, form |-> h.form]
<1>1. h.pc = "idle" => AskedBy(h) = Atom!Nothing
  BY DEF AskedBy, Atom!Nothing
<1>2. h.pc = "ActivityAdd" /\ h.op # "activityResume" =>
        AskedBy(h) = [op |-> h.op, task |-> h.a.task, form |-> h.form, plan |-> h.plan]
  BY DEF AskedBy
<1>3. h.pc = "ActivityAdd" /\ h.op = "activityResume" =>
        AskedBy(h) = [op |-> h.op, of |-> h.of, form |-> h.form]
  BY DEF AskedBy
<1>4. h.pc = "PlanGet" =>
        AskedBy(h) = [op |-> "link", plan |-> h.plan, activity |-> h.activity]
  BY DEF AskedBy
<1>5. h.pc = "PlanEdit" =>
        AskedBy(h) = [op |-> "link", plan |-> h.id, activity |-> h.row.activity]
  BY DEF AskedBy
<1>6. h.pc = "PlanAdd" =>
        AskedBy(h) = [op |-> "taskPlanNewPost", task |-> h.row.task, form |-> h.form]
  BY DEF AskedBy
<1>7. h.pc \in {"ActivityEditSelect", "ActivityEditUpdate"} =>
        AskedBy(h) = [op |-> h.op, id |-> h.a.id, form |-> h.form]
  BY DEF AskedBy
<1> QED
  BY <1>1, <1>2, <1>3, <1>4, <1>5, <1>6, <1>7

LEMMA AskedIdle == AskedBy(Idle) = Atom!Nothing
BY DEF AskedBy, Idle, Atom!Nothing

LEMMA BecomeStep ==
  ASSUME TypeOK, NEW r \in Req, NEW x, Goto(r, x), NEW y, AskedBy(x) = y
  PROVE  Atom!Become(r, y)
BY DEF TypeOK, Goto, Atom!Become

LEMMA AskedStays ==
  ASSUME TypeOK, NEW r \in Req, NEW x, Goto(r, x), AskedBy(x) = AskedBy(req[r])
  PROVE  [q \in Req |-> AskedBy(req[q])]' = [q \in Req |-> AskedBy(req[q])]
BY DEF TypeOK, Goto

-----------------------------------------------------------------------------
(* The invariant: what was asked is still what is to be written.           *)

LEMMA StartUpToDate ==
  ASSUME TypeOK, NEW r \in Req, Start(r)
  PROVE  UpToDate(r)'
<1> USE DEF tables
<1>1. CASE taskNewPost(r) \/ taskEditPost(r)
  <2>1. req[r] = Idle /\ req' = req
    BY <1>1 DEF taskNewPost, taskEditPost, Accept
  <2> QED
    BY <2>1 DEF UpToDate, At, Idle
<1>2. CASE taskNewActivityNewPost(r)
  <2>1. PICK t \in TaskForms, f \in ActivityForms :
          Goto(r, [pc |-> "ActivityAdd", op |-> "taskNewActivityNewPost",
                   form |-> f, a |-> FormActivity(NewId(tasks), f),
                   plan |-> 0, of |-> 0])
    BY <1>2 DEF taskNewActivityNewPost
  <2>2. /\ req'[r].pc = "ActivityAdd" /\ req'[r].op = "taskNewActivityNewPost"
        /\ req'[r].form = f /\ req'[r].a = FormActivity(NewId(tasks), f)
    BY <2>1 DEF Goto, TypeOK
  <2>3. req'[r].a.task = NewId(tasks)
    BY <2>2 DEF FormActivity
  <2> QED
    BY <2>2, <2>3 DEF UpToDate, AddsAsAsked, At
<1>3. CASE taskActivityNewPost(r)
  <2>0. PICK id \in DOMAIN tasks, f \in ActivityForms : \E plan \in OfferedPlans(id) :
          /\ WithinDeadline(tasks[id], f.start, f.end)
          /\ Goto(r, [pc |-> "ActivityAdd", op |-> "taskActivityNewPost",
                      form |-> f, a |-> FormActivity(id, f),
                      plan |-> plan, of |-> 0])
    BY <1>3 DEF taskActivityNewPost
  <2>1. PICK plan \in OfferedPlans(id) :
          /\ WithinDeadline(tasks[id], f.start, f.end)
          /\ Goto(r, [pc |-> "ActivityAdd", op |-> "taskActivityNewPost",
                      form |-> f, a |-> FormActivity(id, f),
                      plan |-> plan, of |-> 0])
    BY <2>0
  <2>2. /\ req'[r].pc = "ActivityAdd" /\ req'[r].op = "taskActivityNewPost"
        /\ req'[r].form = f /\ req'[r].a = FormActivity(id, f)
        /\ tasks' = tasks
    BY <1>3, <2>1 DEF taskActivityNewPost, Goto, TypeOK
  <2>3. req'[r].a.task = id /\ req'[r].a.start = f.start /\ req'[r].a.end = f.end
    BY <2>2 DEF FormActivity
  <2> QED
    BY <2>1, <2>2, <2>3 DEF UpToDate, AddsAsAsked, At
<1>4. CASE activityResume(r)
  <2>1. PICK id \in DOMAIN acts, f \in ActivityForms :
          Goto(r, [pc |-> "ActivityAdd", op |-> "activityResume",
                   form |-> [start |-> f.start, end |-> f.end],
                   a |-> Resumed(acts[id], f.start, f.end), plan |-> 0, of |-> id])
    BY <1>4 DEF activityResume
  <2>2. /\ req'[r].pc = "ActivityAdd" /\ req'[r].op = "activityResume"
        /\ req'[r].form = [start |-> f.start, end |-> f.end]
        /\ req'[r].a = Resumed(acts[id], f.start, f.end)
        /\ req'[r].plan = 0 /\ req'[r].of = id
        /\ acts' = acts
    BY <1>4, <2>1 DEF activityResume, Goto, TypeOK
  <2>3. f.start \in Time /\ f.end \in Time
    BY FormsAssumption DEF ActivityForm
  <2> QED
    BY <2>2, <2>3 DEF UpToDate, ResumesAsAsked, At
<1>5. CASE taskPlanNewPost(r)
  <2>1. PICK id \in DOMAIN tasks, f \in PlanForms :
          /\ WithinDeadline(tasks[id], f.atAfter, f.before)
          /\ Goto(r, [pc |-> "PlanAdd", form |-> f,
                      row |-> [task |-> id, activity |-> 0,
                               atAfter |-> f.atAfter, before |-> f.before]])
    BY <1>5 DEF taskPlanNewPost
  <2>2. /\ req'[r].pc = "PlanAdd" /\ req'[r].form = f
        /\ req'[r].row = [task |-> id, activity |-> 0,
                          atAfter |-> f.atAfter, before |-> f.before]
        /\ tasks' = tasks
    BY <1>5, <2>1 DEF taskPlanNewPost, Goto, TypeOK
  <2> QED
    BY <2>1, <2>2 DEF UpToDate, PlansAsAsked, At
<1>6. CASE activityEditPost(r)
  <2>1. PICK id \in DOMAIN acts, f \in ActivityForms :
          Goto(r, [pc |-> "ActivityEditSelect", op |-> "activityEditPost",
                   form |-> f, a |-> Parsed(id, acts[id], f)])
    BY <1>6 DEF activityEditPost
  <2>2. /\ req'[r].pc = "ActivityEditSelect" /\ req'[r].op = "activityEditPost"
        /\ req'[r].form = f /\ req'[r].a = Parsed(id, acts[id], f)
    BY <2>1 DEF Goto, TypeOK
  <2>3. Parsed(id, acts[id], f) = [id |-> id, task |-> acts[id].task,
          start |-> f.start, end |-> f.end, done |-> f.done]
    BY DEF Parsed, FormActivity
  <2> QED
    BY <2>2, <2>3 DEF UpToDate, EditsAsAsked, At
<1>7. CASE activityExtend(r)
  <2>1. PICK id \in DOMAIN acts, end \in Time :
          Goto(r, [pc |-> "ActivityEditSelect", op |-> "activityExtend",
                   form |-> [end |-> end], a |-> Extended(id, acts[id], end)])
    BY <1>7 DEF activityExtend
  <2>2. /\ req'[r].pc = "ActivityEditSelect" /\ req'[r].op = "activityExtend"
        /\ req'[r].form = [end |-> end]
        /\ req'[r].a = Extended(id, acts[id], end)
        /\ acts' = acts
    BY <1>7, <2>1 DEF activityExtend, Goto, TypeOK
  <2>3. req'[r].a.id = id
    BY <2>2, KeptColumns
  <2> QED
    BY <2>2, <2>3 DEF UpToDate, ExtendsAsAsked, At
<1> QED
  BY <1>1, <1>2, <1>3, <1>4, <1>5, <1>6, <1>7 DEF Start

LEMMA ContinueUpToDate ==
  ASSUME Consistent, NEW r \in Req, UpToDate(r), Continue(r)
  PROVE  UpToDate(r)'
<1>a. TypeOK
  BY DEF Consistent
<1>1. CASE ActivityEditSelect(r)
  <2>1. /\ req'[r] = [pc |-> "ActivityEditUpdate", op |-> req[r].op,
                      form |-> req[r].form, a |-> req[r].a,
                      status |-> EditStatus(req[r].a.done, acts[req[r].a.id].status)]
        /\ acts' = acts
        /\ req[r].pc = "ActivityEditSelect"
    BY <1>1, <1>a DEF ActivityEditSelect, Goto, TypeOK, tables, At
  <2>2. /\ req'[r].pc = "ActivityEditUpdate" /\ req'[r].op = req[r].op
        /\ req'[r].form = req[r].form /\ req'[r].a = req[r].a
        /\ req'[r].status = EditStatus(req'[r].a.done, acts'[req'[r].a.id].status)
    BY <2>1
  <2>3. req[r].op = "activityEditPost" => EditsAsAsked(r)'
    BY <2>1, <2>2 DEF UpToDate, EditsAsAsked, At
  <2>4. req[r].op = "activityExtend" => ExtendsAsAsked(r)'
    BY <2>1, <2>2 DEF UpToDate, ExtendsAsAsked, At
  <2> QED
    BY <2>2, <2>3, <2>4 DEF UpToDate, At
<1>2. CASE ActivityAdd(r) \/ PlanGet(r)
  <2>1. req'[r].pc \in {"idle", "PlanGet", "PlanEdit"}
    BY <1>2, <1>a DEF ActivityAdd, PlanGet, Goto, TypeOK, Idle
  <2> QED
    BY <2>1 DEF UpToDate, At
<1>3. CASE PlanEdit(r) \/ PlanAdd(r) \/ ActivityEditUpdate(r) \/ StorageError(r)
  <2>1. req'[r].pc = "idle"
    BY <1>3, <1>a DEF PlanEdit, PlanAdd, ActivityEditUpdate, StorageError,
       Goto, TypeOK, Idle
  <2> QED
    BY <2>1 DEF UpToDate, At
<1> QED
  BY <1>1, <1>2, <1>3 DEF Continue

(* A handler that waits stays up to date unless it is overtaken.           *)
LEMMA OthersUpToDate ==
  ASSUME RowsStay, NEW r \in Req, UpToDate(r), req'[r] = req[r], ~Overtaken(r)
  PROVE  UpToDate(r)'
<1>1. /\ \A t \in TasksRead(r) : tasks'[t] = tasks[t]
      /\ \A a \in ActivitiesRead(r) : acts'[a] = acts[a]
  BY DEF Overtaken
<1>2. CASE At(r, "ActivityAdd")
  <2>1. CASE req[r].op = "activityResume"
    <3>1. req[r].of \in DOMAIN acts /\ acts'[req[r].of] = acts[req[r].of]
      BY <1>1, <1>2, <2>1 DEF UpToDate, ResumesAsAsked, ActivitiesRead, At
    <3> QED
      BY <1>2, <2>1, <3>1 DEF UpToDate, ResumesAsAsked, At, RowsStay
  <2>2. CASE req[r].op # "activityResume"
    <3>1. req[r].op = "taskActivityNewPost" =>
            tasks'[req[r].a.task] = tasks[req[r].a.task]
      BY <1>1, <1>2 DEF TasksRead, At
    <3> QED
      BY <1>2, <2>2, <3>1 DEF UpToDate, AddsAsAsked, At
  <2> QED
    BY <2>1, <2>2
<1>3. CASE At(r, "PlanAdd")
  <2>1. tasks'[req[r].row.task] = tasks[req[r].row.task]
    BY <1>1, <1>3 DEF TasksRead
  <2> QED
    BY <1>3, <2>1 DEF UpToDate, PlansAsAsked, At
<1>4. CASE At(r, "ActivityEditSelect")
  <2>1. req[r].op = "activityExtend" => acts'[req[r].a.id] = acts[req[r].a.id]
    BY <1>1, <1>4 DEF ActivitiesRead, At
  <2> QED
    BY <1>4, <2>1 DEF UpToDate, EditsAsAsked, ExtendsAsAsked, At
<1>5. CASE At(r, "ActivityEditUpdate")
  <2>1. acts'[req[r].a.id] = acts[req[r].a.id]
    BY <1>1, <1>5 DEF ActivitiesRead, At
  <2> QED
    BY <1>5, <2>1 DEF UpToDate, EditsAsAsked, ExtendsAsAsked, At
<1> QED
  BY <1>2, <1>3, <1>4, <1>5 DEF UpToDate, At

LEMMA StepMoves ==
  ASSUME TypeOK, NEW r \in Req, Start(r) \/ Continue(r)
  PROVE  OnlyMoves(r)
BY DEF Start, Continue, taskNewPost, taskEditPost, taskNewActivityNewPost,
   taskActivityNewPost, activityResume, taskPlanNewPost, activityEditPost,
   activityExtend, ActivityAdd, PlanGet, PlanEdit, PlanAdd, ActivityEditSelect,
   ActivityEditUpdate, StorageError, Goto, OnlyMoves, TypeOK

LEMMA StepUpToDate ==
  ASSUME AtomicInv, NEW r \in Req, Start(r) \/ Continue(r),
         \A s \in Req : ~Overtaken(s)
  PROVE  AtomicInv'
<1>1. Next /\ TypeOK
  BY DEF Next, AtomicInv, Consistent
<1>2. Consistent' /\ TimesFresh' /\ RowsStay
  BY <1>1, StepConsistent, StepTimes, StepRows DEF AtomicInv
<1>3. UpToDate(r)'
  BY <1>1, StartUpToDate, ContinueUpToDate DEF AtomicInv
<1>4. ASSUME NEW s \in Req, s # r PROVE UpToDate(s)'
  BY <1>1, <1>2, <1>4, StepMoves, OthersUpToDate DEF AtomicInv, OnlyMoves
<1> QED
  BY <1>2, <1>3, <1>4 DEF AtomicInv

LEMMA InitAtomic == Init => AtomicInv
<1> SUFFICES ASSUME Init PROVE AtomicInv
  OBVIOUS
<1>1. \A r \in Req : UpToDate(r)
  BY DEF Init, Idle, UpToDate, At
<1> QED
  BY <1>1, InitConsistent, InitTimes DEF AtomicInv

LEMMA AtomicInvariance == Unovertaken => []AtomicInv
<1> DEFINE Step == Next /\ \A r \in Req : ~Overtaken(r)
<1>1. AtomicInv /\ [Step]_vars => AtomicInv'
  <2> SUFFICES ASSUME AtomicInv, [Step]_vars PROVE AtomicInv'
    OBVIOUS
  <2>1. CASE UNCHANGED vars
    <3>1. Consistent'
      BY <2>1, StepConsistent DEF AtomicInv
    <3>2. TimesFresh' /\ \A r \in Req : UpToDate(r)'
      BY <2>1 DEF AtomicInv, vars, TimesFresh, UpToDate, AddsAsAsked, ResumesAsAsked,
         PlansAsAsked, EditsAsAsked, ExtendsAsAsked, At
    <3> QED
      BY <3>1, <3>2 DEF AtomicInv
  <2>2. CASE Step
    BY <2>2, StepUpToDate DEF Next
  <2> QED
    BY <2>1, <2>2
<1> QED
  BY <1>1, InitAtomic, PTL DEF Unovertaken

-----------------------------------------------------------------------------
(* Server implements Atomic.                                               *)

(* A page asks; nothing has happened yet.                                  *)
LEMMA AskStep ==
  ASSUME TypeOK, NEW r \in Req, req[r] = Idle, UNCHANGED tables,
         NEW x, Goto(r, x), AskedBy(x) \in Atom!Requests
  PROVE  Atom!Next
<1>1. [q \in Req |-> AskedBy(req[q])][r] = Atom!Nothing
  BY AskedIdle
<1>2. Atom!Become(r, AskedBy(x))
  BY BecomeStep
<1>3. Atom!Ask(r)
  BY <1>1, <1>2 DEF Atom!Ask, Atom!tables, tables
<1> QED
  BY <1>3 DEF Atom!Next

LEMMA StartAtomic ==
  ASSUME TypeOK, NEW r \in Req, Start(r)
  PROVE  Atom!Next
<1>a. req[r] = Idle
  BY DEF Start, Accept, taskNewPost, taskEditPost, taskNewActivityNewPost,
     taskActivityNewPost, activityResume, taskPlanNewPost, activityEditPost,
     activityExtend
<1>b. [q \in Req |-> AskedBy(req[q])][r] = Atom!Nothing
  BY <1>a, AskedIdle
<1>1. CASE taskNewPost(r)
  <2>1. Atom!NewTask(r)
    BY <1>1, <1>b DEF taskNewPost, Atom!NewTask
  <2> QED
    BY <2>1 DEF Atom!Next
<1>2. CASE taskEditPost(r)
  <2>1. Atom!EditTask
    BY <1>2 DEF taskEditPost, Atom!EditTask
  <2> QED
    BY <2>1 DEF Atom!Next
<1>3. CASE taskNewActivityNewPost(r)
  <2>1. PICK t \in TaskForms, f \in ActivityForms :
          /\ tasks' = Append(tasks, t)
          /\ Goto(r, [pc |-> "ActivityAdd", op |-> "taskNewActivityNewPost",
                      form |-> f, a |-> FormActivity(NewId(tasks), f),
                      plan |-> 0, of |-> 0])
    BY <1>3 DEF taskNewActivityNewPost
  <2> DEFINE h == [pc |-> "ActivityAdd", op |-> "taskNewActivityNewPost",
                   form |-> f, a |-> FormActivity(NewId(tasks), f),
                   plan |-> 0, of |-> 0]
             y == [op |-> "taskNewActivityNewPost", task |-> Len(tasks) + 1,
                   form |-> f, plan |-> 0]
  <2>2. h.a.task = Len(tasks) + 1
    BY DEF FormActivity, NewId
  <2>3. AskedBy(h) = y
    <3>1. h.pc = "ActivityAdd" /\ h.op = "taskNewActivityNewPost"
          /\ h.form = f /\ h.plan = 0
      OBVIOUS
    <3> HIDE DEF h
    <3> QED
      BY <2>2, <3>1, AskedCases
  <2>4. Goto(r, h)
    BY <2>1
  <2> HIDE DEF h, y
  <2>5. Atom!Become(r, y)
    BY <2>3, <2>4, BecomeStep
  <2>6. UNCHANGED <<acts, plans>>
    BY <1>3 DEF taskNewActivityNewPost
  <2>7. Atom!NewTask(r)
    BY <1>b, <2>1, <2>5, <2>6 DEF Atom!NewTask, y
  <2> QED
    BY <2>7 DEF Atom!Next
<1>4. CASE taskActivityNewPost(r)
  <2>0. PICK id \in DOMAIN tasks, f \in ActivityForms : \E plan \in OfferedPlans(id) :
          Goto(r, [pc |-> "ActivityAdd", op |-> "taskActivityNewPost",
                   form |-> f, a |-> FormActivity(id, f),
                   plan |-> plan, of |-> 0])
    BY <1>4 DEF taskActivityNewPost
  <2>1. PICK plan \in OfferedPlans(id) :
          Goto(r, [pc |-> "ActivityAdd", op |-> "taskActivityNewPost",
                   form |-> f, a |-> FormActivity(id, f),
                   plan |-> plan, of |-> 0])
    BY <2>0
  <2> DEFINE h == [pc |-> "ActivityAdd", op |-> "taskActivityNewPost",
                   form |-> f, a |-> FormActivity(id, f),
                   plan |-> plan, of |-> 0]
  <2>2. /\ h.pc = "ActivityAdd" /\ h.op = "taskActivityNewPost"
        /\ h.form = f /\ h.plan = plan /\ h.a.task = id
    BY DEF FormActivity
  <2>3. Goto(r, h) /\ UNCHANGED tables
    BY <1>4, <2>1 DEF taskActivityNewPost
  <2>4. plan \in {0} \cup DOMAIN plans
    BY DEF OfferedPlans
  <2> HIDE DEF h
  <2>5. AskedBy(h) = [op |-> "taskActivityNewPost", task |-> id, form |-> f,
                      plan |-> plan]
    BY <2>2, AskedCases
  <2>6. AskedBy(h) \in Atom!Requests
    BY <2>4, <2>5 DEF Atom!Requests
  <2> QED
    BY <1>a, <2>3, <2>6, AskStep
<1>5. CASE activityResume(r)
  <2>1. PICK id \in DOMAIN acts, f \in ActivityForms :
          Goto(r, [pc |-> "ActivityAdd", op |-> "activityResume",
                   form |-> [start |-> f.start, end |-> f.end],
                   a |-> Resumed(acts[id], f.start, f.end), plan |-> 0, of |-> id])
    BY <1>5 DEF activityResume
  <2> DEFINE h == [pc |-> "ActivityAdd", op |-> "activityResume",
                   form |-> [start |-> f.start, end |-> f.end],
                   a |-> Resumed(acts[id], f.start, f.end), plan |-> 0, of |-> id]
  <2>2. /\ h.pc = "ActivityAdd" /\ h.op = "activityResume"
        /\ h.form = [start |-> f.start, end |-> f.end] /\ h.of = id
    OBVIOUS
  <2>3. Goto(r, h) /\ UNCHANGED tables
    BY <1>5, <2>1 DEF activityResume
  <2>4. f.start \in Time /\ f.end \in Time
    BY FormsAssumption DEF ActivityForm
  <2> HIDE DEF h
  <2>5. AskedBy(h) = [op |-> "activityResume", of |-> id,
                      form |-> [start |-> f.start, end |-> f.end]]
    BY <2>2, AskedCases
  <2>6. AskedBy(h) \in Atom!Requests
    BY <2>4, <2>5 DEF Atom!Requests
  <2> QED
    BY <1>a, <2>3, <2>6, AskStep
<1>6. CASE taskPlanNewPost(r)
  <2>1. PICK id \in DOMAIN tasks, f \in PlanForms :
          Goto(r, [pc |-> "PlanAdd", form |-> f,
                   row |-> [task |-> id, activity |-> 0,
                            atAfter |-> f.atAfter, before |-> f.before]])
    BY <1>6 DEF taskPlanNewPost
  <2> DEFINE h == [pc |-> "PlanAdd", form |-> f,
                   row |-> [task |-> id, activity |-> 0,
                            atAfter |-> f.atAfter, before |-> f.before]]
  <2>2. h.pc = "PlanAdd" /\ h.form = f /\ h.row.task = id
    OBVIOUS
  <2>3. Goto(r, h) /\ UNCHANGED tables
    BY <1>6, <2>1 DEF taskPlanNewPost
  <2> HIDE DEF h
  <2>4. AskedBy(h) = [op |-> "taskPlanNewPost", task |-> id, form |-> f]
    BY <2>2, AskedCases
  <2>5. AskedBy(h) \in Atom!Requests
    BY <2>4 DEF Atom!Requests
  <2> QED
    BY <1>a, <2>3, <2>5, AskStep
<1>7. CASE activityEditPost(r)
  <2>1. PICK id \in DOMAIN acts, f \in ActivityForms :
          Goto(r, [pc |-> "ActivityEditSelect", op |-> "activityEditPost",
                   form |-> f, a |-> Parsed(id, acts[id], f)])
    BY <1>7 DEF activityEditPost
  <2> DEFINE h == [pc |-> "ActivityEditSelect", op |-> "activityEditPost",
                   form |-> f, a |-> Parsed(id, acts[id], f)]
  <2>2. /\ h.pc = "ActivityEditSelect" /\ h.op = "activityEditPost"
        /\ h.form = f /\ h.a.id = id
    BY KeptColumns
  <2>3. Goto(r, h) /\ UNCHANGED tables
    BY <1>7, <2>1 DEF activityEditPost
  <2> HIDE DEF h
  <2>4. AskedBy(h) = [op |-> "activityEditPost", id |-> id, form |-> f]
    BY <2>2, AskedCases
  <2>5. AskedBy(h) \in Atom!Requests
    BY <2>4 DEF Atom!Requests
  <2> QED
    BY <1>a, <2>3, <2>5, AskStep
<1>8. CASE activityExtend(r)
  <2>1. PICK id \in DOMAIN acts, end \in Time :
          Goto(r, [pc |-> "ActivityEditSelect", op |-> "activityExtend",
                   form |-> [end |-> end], a |-> Extended(id, acts[id], end)])
    BY <1>8 DEF activityExtend
  <2> DEFINE h == [pc |-> "ActivityEditSelect", op |-> "activityExtend",
                   form |-> [end |-> end], a |-> Extended(id, acts[id], end)]
  <2>2. /\ h.pc = "ActivityEditSelect" /\ h.op = "activityExtend"
        /\ h.form = [end |-> end] /\ h.a.id = id
    BY KeptColumns
  <2>3. Goto(r, h) /\ UNCHANGED tables
    BY <1>8, <2>1 DEF activityExtend
  <2> HIDE DEF h
  <2>4. AskedBy(h) = [op |-> "activityExtend", id |-> id, form |-> [end |-> end]]
    BY <2>2, AskedCases
  <2>5. AskedBy(h) \in Atom!Requests
    BY <2>4 DEF Atom!Requests
  <2> QED
    BY <1>a, <2>3, <2>5, AskStep
<1> QED
  BY <1>1, <1>2, <1>3, <1>4, <1>5, <1>6, <1>7, <1>8 DEF Start

LEMMA ActivityAddAtomic ==
  ASSUME AtomicInv, NEW r \in Req, ActivityAdd(r)
  PROVE  Atom!Next
<1> DEFINE h == req[r]
<1>a. /\ TypeOK /\ UpToDate(r) /\ At(r, "ActivityAdd") /\ h \in AddingActivity
      /\ acts' = Append(acts, RowOf(h.a, AddStatus(h.a.done)))
      /\ UNCHANGED <<tasks, plans>>
  BY PendingShape DEF AtomicInv, Consistent, TypeOK, ActivityAdd, At
<1>b. [q \in Req |-> AskedBy(req[q])][r] = AskedBy(h)
  OBVIOUS
<1>1. CASE h.op = "activityResume"
  <2>1. h.plan = 0 /\ h.of \in DOMAIN acts /\ h.a = Resumed(acts[h.of], h.form.start, h.form.end)
    BY <1>1, <1>a DEF UpToDate, ResumesAsAsked
  <2>2. AskedBy(h) = [op |-> h.op, of |-> h.of, form |-> h.form]
    BY <1>1, <1>a, AskedCases DEF At
  <2>3. acts[h.of] \in ActivityRow
    BY <1>a, <2>1, RowIds DEF TypeOK
  <2>4. RowOf(h.a, AddStatus(h.a.done)) = Atom!Again(acts[h.of], h.form)
    BY <2>1, <2>3, ResumedRow
  <2>5. Goto(r, Idle)
    BY <2>1 DEF ActivityAdd
  <2>6. Atom!Become(r, Atom!Nothing)
    BY <1>a, <2>5, AskedIdle, BecomeStep
  <2>7. /\ AskedBy(h).op = "activityResume" /\ AskedBy(h).of = h.of
        /\ AskedBy(h).form = h.form
    BY <1>1, <2>2
  <2>8. Atom!Resume(r)
    BY <1>a, <1>b, <2>4, <2>6, <2>7 DEF Atom!Resume
  <2> QED
    BY <2>8 DEF Atom!Next
<1>2. CASE h.op # "activityResume"
  <2> DEFINE row == [task |-> h.a.task, start |-> h.form.start, end |-> h.form.end,
                     status |-> IF h.form.done THEN Atom!StatusDone
                                ELSE Atom!StatusInProgress]
             next == IF h.plan = 0
                       THEN Atom!Nothing
                       ELSE [op |-> "link", plan |-> h.plan, activity |-> Len(acts) + 1]
  <2>1. /\ h.a = FormActivity(h.a.task, h.form)
        /\ h.op = "taskActivityNewPost" =>
             WithinDeadline(tasks[h.a.task], h.a.start, h.a.end)
    BY <1>2, <1>a DEF UpToDate, AddsAsAsked
  <2>2. AskedBy(h) = [op |-> h.op, task |-> h.a.task, form |-> h.form, plan |-> h.plan]
    BY <1>2, <1>a, AskedCases DEF At
  <2>3. /\ AskedBy(h).op = h.op /\ AskedBy(h).task = h.a.task
        /\ AskedBy(h).form = h.form /\ AskedBy(h).plan = h.plan
    BY <2>2
  <2>4. h.op \in {"taskActivityNewPost", "taskNewActivityNewPost"}
    BY <1>2, <1>a DEF AddingActivity
  <2>5. RowOf(h.a, AddStatus(h.a.done)) = row
    BY <2>1, AddedRow
  <2>6. Atom!Become(r, next)
    <3>1. CASE h.plan = 0
      <4>1. Goto(r, Idle)
        BY <3>1 DEF ActivityAdd
      <4> QED
        BY <3>1, <4>1, <1>a, AskedIdle, BecomeStep
    <3>2. CASE h.plan # 0
      <4> DEFINE x == [pc |-> "PlanGet", plan |-> h.plan, activity |-> NewId(acts)]
      <4>1. Goto(r, x)
        BY <3>2 DEF ActivityAdd
      <4>2. x.pc = "PlanGet" /\ x.plan = h.plan /\ x.activity = Len(acts) + 1
        BY DEF NewId
      <4> HIDE DEF x
      <4>3. AskedBy(x) = next
        BY <3>2, <4>2, AskedCases
      <4> QED
        BY <4>1, <4>3, <1>a, BecomeStep
    <3> QED
      BY <3>1, <3>2
  <2>7. h.a.start = h.form.start /\ h.a.end = h.form.end
    BY <2>1 DEF FormActivity
  <2>8. h.op = "taskActivityNewPost" =>
          Atom!InTime(tasks[h.a.task].deadline, h.form.start, h.form.end)
    BY <2>1, <2>7 DEF WithinDeadline, Atom!InTime
  <2>9. Atom!AddActivity(r)
    BY <1>a, <1>b, <2>3, <2>4, <2>5, <2>6, <2>8 DEF Atom!AddActivity
  <2> QED
    BY <2>9 DEF Atom!Next
<1> QED
  BY <1>1, <1>2

(* Linking writes every column of the plan, and only changes the activity. *)
LEMMA PlanEditAtomic ==
  ASSUME AtomicInv, NEW r \in Req, PlanEdit(r)
  PROVE  Atom!Next
<1> DEFINE h == req[r]
<1>a. /\ TypeOK /\ At(r, "PlanEdit") /\ h \in EditingPlan
      /\ plans' = [plans EXCEPT ![h.id] = h.row]
      /\ UNCHANGED <<tasks, acts>>
      /\ Goto(r, Idle)
  BY PendingShape DEF AtomicInv, Consistent, TypeOK, PlanEdit, At
<1>1. /\ h.id \in DOMAIN plans /\ h.row.task = plans[h.id].task
      /\ h.row.atAfter = plans[h.id].atAfter /\ h.row.before = plans[h.id].before
  BY <1>a DEF AtomicInv, Consistent, LocalsFresh, TimesFresh
<1>2. [plans[h.id] EXCEPT !.activity = h.row.activity] = h.row
  <2>1. h.row \in PlanRow /\ plans[h.id] \in PlanRow
    BY <1>1, <1>a, RowIds DEF TypeOK, EditingPlan
  <2> QED
    BY <1>1, <2>1, LinkedRow
<1>3. AskedBy(h) = [op |-> "link", plan |-> h.id, activity |-> h.row.activity]
  BY <1>a, AskedCases DEF At
<1>4. /\ [q \in Req |-> AskedBy(req[q])][r].op = "link"
      /\ [q \in Req |-> AskedBy(req[q])][r].plan = h.id
      /\ [q \in Req |-> AskedBy(req[q])][r].activity = h.row.activity
  BY <1>3
<1>5. Atom!Become(r, Atom!Nothing)
  BY <1>a, AskedIdle, BecomeStep
<1> HIDE DEF h
<1>6. plans' = [plans EXCEPT ![h.id].activity = h.row.activity]
  BY <1>a, <1>2
<1>7. Atom!Link(r)
  BY <1>a, <1>4, <1>5, <1>6 DEF Atom!Link
<1> QED
  BY <1>7 DEF Atom!Next

LEMMA PlanAddAtomic ==
  ASSUME AtomicInv, NEW r \in Req, PlanAdd(r)
  PROVE  Atom!Next
<1> DEFINE h == req[r]
<1>a. /\ TypeOK /\ At(r, "PlanAdd") /\ PlansAsAsked(r)
      /\ plans' = Append(plans, h.row)
      /\ UNCHANGED <<tasks, acts>>
      /\ Goto(r, Idle)
  BY DEF AtomicInv, Consistent, UpToDate, PlanAdd
<1>1. AskedBy(h) = [op |-> "taskPlanNewPost", task |-> h.row.task, form |-> h.form]
  BY <1>a, AskedCases DEF At
<1>2. /\ [q \in Req |-> AskedBy(req[q])][r].op = "taskPlanNewPost"
      /\ [q \in Req |-> AskedBy(req[q])][r].task = h.row.task
      /\ [q \in Req |-> AskedBy(req[q])][r].form = h.form
  BY <1>1
<1>3. Atom!Become(r, Atom!Nothing)
  BY <1>a, AskedIdle, BecomeStep
<1>4. /\ h.row = [task |-> h.row.task, activity |-> 0,
                  atAfter |-> h.form.atAfter, before |-> h.form.before]
      /\ Atom!InTime(tasks[h.row.task].deadline, h.form.atAfter, h.form.before)
  BY <1>a DEF PlansAsAsked, WithinDeadline, Atom!InTime
<1> HIDE DEF h
<1>5. Atom!AddPlan(r)
  BY <1>a, <1>2, <1>3, <1>4 DEF Atom!AddPlan
<1> QED
  BY <1>5 DEF Atom!Next

LEMMA UpdateAtomic ==
  ASSUME AtomicInv, NEW r \in Req, ActivityEditUpdate(r)
  PROVE  Atom!Next
<1> DEFINE h == req[r]
           row == acts[h.a.id]
<1>a. /\ TypeOK /\ UpToDate(r) /\ At(r, "ActivityEditUpdate") /\ h \in UpdatingActivity
      /\ acts' = [acts EXCEPT ![h.a.id] = RowOf(h.a, h.status)]
      /\ UNCHANGED <<tasks, plans>>
      /\ Goto(r, Idle)
  BY PendingShape DEF AtomicInv, Consistent, TypeOK, ActivityEditUpdate, At
<1>1. h.a.id \in DOMAIN acts /\ row.task = h.a.task /\ row \in ActivityRow
  <2>1. h.a.id \in DOMAIN acts /\ row.task = h.a.task
    BY <1>a DEF AtomicInv, Consistent, LocalsFresh
  <2> QED
    BY <2>1, <1>a, RowIds DEF TypeOK
<1>2. AskedBy(h) = [op |-> h.op, id |-> h.a.id, form |-> h.form]
  BY <1>a, AskedCases DEF At
<1>3. /\ [q \in Req |-> AskedBy(req[q])][r].op = h.op
      /\ [q \in Req |-> AskedBy(req[q])][r].id = h.a.id
      /\ [q \in Req |-> AskedBy(req[q])][r].form = h.form
  BY <1>2
<1>4. Atom!Become(r, Atom!Nothing)
  BY <1>a, AskedIdle, BecomeStep
<1>5. h.status = EditStatus(h.a.done, row.status)
  BY <1>a DEF UpToDate
<1>6. h.op \in {"activityEditPost", "activityExtend"}
  BY <1>a DEF UpdatingActivity
<1>7. CASE h.op = "activityEditPost"
  <2>1. h.form \in ActivityForm /\ h.a.start = h.form.start
        /\ h.a.end = h.form.end /\ h.a.done = h.form.done
    BY <1>7, <1>a, FormsAssumption DEF UpToDate, EditsAsAsked
  <2>2. RowOf(h.a, h.status) = Atom!Edited(row, h.form)
    <3> HIDE DEF h, row
    <3> QED
      BY <1>1, <1>5, <2>1, EditedRow
  <2>3. acts' = [acts EXCEPT ![h.a.id] = Atom!Edited(acts[h.a.id], h.form)]
    BY <1>a, <2>2
  <2>4. Atom!Edit(r)
    BY <1>7, <1>a, <1>3, <1>4, <2>3 DEF Atom!Edit
  <2> QED
    BY <2>4 DEF Atom!Next
<1>8. CASE h.op = "activityExtend"
  <2>1. h.a = Extended(h.a.id, row, h.form.end)
    BY <1>8, <1>a DEF UpToDate, ExtendsAsAsked
  <2>2. RowOf(h.a, h.status) = [row EXCEPT !.end = h.form.end]
    <3> DEFINE id == h.a.id
               end == h.form.end
               a == h.a
               status == h.status
    <3>1. a = Extended(id, row, end) /\ status = EditStatus(a.done, row.status)
          /\ row \in ActivityRow
      BY <2>1, <1>5, <1>1
    <3>2. RowOf(a, status) = [row EXCEPT !.end = end]
      <4> HIDE DEF id, end, a, status, row
      <4>1. RowOf(Extended(id, row, end),
                  EditStatus(Extended(id, row, end).done, row.status))
              = [row EXCEPT !.end = end]
        BY <3>1, ExtendedRow
      <4> QED
        BY <3>1, <4>1, Zenon
    <3> QED
      BY <3>2
  <2>3. acts' = [acts EXCEPT ![h.a.id].end = h.form.end]
    BY <1>a, <2>2
  <2>4. Atom!Extend(r)
    BY <1>8, <1>a, <1>3, <1>4, <2>3 DEF Atom!Extend
  <2> QED
    BY <2>4 DEF Atom!Next
<1> QED
  BY <1>6, <1>7, <1>8

(* Reading again does nothing, failing has no effect of its own.           *)
LEMMA QuietAtomic ==
  ASSUME AtomicInv, NEW r \in Req,
         PlanGet(r) \/ ActivityEditSelect(r) \/ StorageError(r)
  PROVE  Atom!Next \/ UNCHANGED Atom!vars
<1>a. TypeOK /\ LocalsFresh(r) /\ req[r] \in Pending
  BY DEF AtomicInv, Consistent, TypeOK
<1>b. UNCHANGED tables
  BY DEF PlanGet, ActivityEditSelect, StorageError
<1>1. CASE PlanGet(r)
  <2> DEFINE row == [plans[req[r].plan] EXCEPT !.activity = req[r].activity]
             x == [pc |-> "PlanEdit", id |-> req[r].plan, row |-> row]
  <2>1. At(r, "PlanGet") /\ Goto(r, x) /\ plans[req[r].plan] \in PlanRow
    BY <1>1, <1>a, RowIds DEF PlanGet, LocalsFresh, TypeOK
  <2>2. row.activity = req[r].activity
    BY <2>1 DEF PlanRow
  <2> HIDE DEF row
  <2>3. x.pc = "PlanEdit" /\ x.id = req[r].plan /\ x.row = row
    OBVIOUS
  <2> HIDE DEF x
  <2>4. AskedBy(x) = AskedBy(req[r])
    BY <2>1, <2>2, <2>3, AskedCases DEF At
  <2> QED
    BY <1>a, <1>b, <2>1, <2>4, AskedStays DEF Atom!vars, tables
<1>2. CASE ActivityEditSelect(r)
  <2> DEFINE x == [pc |-> "ActivityEditUpdate", op |-> req[r].op,
                   form |-> req[r].form, a |-> req[r].a,
                   status |-> EditStatus(req[r].a.done, acts[req[r].a.id].status)]
  <2>1. At(r, "ActivityEditSelect") /\ Goto(r, x)
    BY <1>2 DEF ActivityEditSelect
  <2>2. /\ x.pc = "ActivityEditUpdate" /\ x.op = req[r].op
        /\ x.form = req[r].form /\ x.a = req[r].a
    OBVIOUS
  <2> HIDE DEF x
  <2>3. AskedBy(x) = AskedBy(req[r])
    BY <2>1, <2>2, AskedCases DEF At
  <2> QED
    BY <1>a, <1>b, <2>1, <2>3, AskedStays DEF Atom!vars, tables
<1>3. CASE StorageError(r)
  <2>1. Atom!Become(r, Atom!Nothing)
    BY <1>3, <1>a, AskedIdle, BecomeStep DEF StorageError
  <2>2. Atom!Fail(r)
    BY <1>b, <2>1 DEF Atom!Fail, Atom!tables, tables
  <2> QED
    BY <2>2 DEF Atom!Next
<1> QED
  BY <1>1, <1>2, <1>3

-----------------------------------------------------------------------------
(* The theorems.                                                           *)

(* However many requests interleave, as long as none changes a row that    *)
(* another has read and is about to write by, each does what its form says *)
(* to the rows as they are when it does it, and nothing else.              *)
THEOREM AtomicUnlessOvertaken == Unovertaken => KeepsAtomic
<1> DEFINE Step == Next /\ \A r \in Req : ~Overtaken(r)
<1>1. Init => Atom!Init
  <2> SUFFICES ASSUME Init PROVE Atom!Init
    OBVIOUS
  <2>1. [r \in Req |-> AskedBy(req[r])] = [r \in Req |-> Atom!Nothing]
    BY AskedIdle DEF Init
  <2> QED
    BY <2>1 DEF Init, Atom!Init
<1>2. AtomicInv /\ [Step]_vars => [Atom!Next]_(Atom!vars)
  <2> SUFFICES ASSUME AtomicInv, [Step]_vars
               PROVE  Atom!Next \/ UNCHANGED Atom!vars
    OBVIOUS
  <2>1. CASE UNCHANGED vars
    BY <2>1 DEF vars, Atom!vars
  <2>2. ASSUME NEW r \in Req, Start(r) PROVE Atom!Next
    BY <2>2, StartAtomic DEF AtomicInv, Consistent
  <2>3. ASSUME NEW r \in Req, Continue(r) PROVE Atom!Next \/ UNCHANGED Atom!vars
    BY <2>3, ActivityAddAtomic, PlanEditAtomic, PlanAddAtomic, UpdateAtomic,
       QuietAtomic DEF Continue
  <2> QED
    BY <2>1, <2>2, <2>3 DEF Next
<1> QED
  BY <1>1, <1>2, AtomicInvariance, PTL DEF Unovertaken, KeepsAtomic, Atom!Spec

(* Which action a write is.                                                *)
LEMMA WriteOf ==
  ASSUME TypeOK, [Next]_vars, NEW r \in Req
  PROVE  /\ Writes(r, "ActivityEditUpdate", acts) => ActivityEditUpdate(r)
         /\ Writes(r, "ActivityAdd", acts) => ActivityAdd(r)
         /\ Writes(r, "PlanAdd", plans) => PlanAdd(r)
<1> SUFFICES ASSUME req'[r] # req[r],
                    req[r].pc \in {"ActivityEditUpdate", "ActivityAdd", "PlanAdd"},
                    ~UNCHANGED tables
             PROVE  \/ At(r, "ActivityEditUpdate") /\ ActivityEditUpdate(r)
                    \/ At(r, "ActivityAdd") /\ ActivityAdd(r)
                    \/ At(r, "PlanAdd") /\ PlanAdd(r)
  BY DEF Writes, At, tables
<1>1. PICK s \in Req : Start(s) \/ Continue(s)
  BY DEF Next, vars, tables
<1>2. s = r
  BY <1>1, StepMoves DEF OnlyMoves
<1>3. req[r] # Idle
  BY DEF Idle
<1>4. Continue(r)
  BY <1>1, <1>2, <1>3 DEF Start, Accept, taskNewPost, taskEditPost,
     taskNewActivityNewPost, taskActivityNewPost, activityResume,
     taskPlanNewPost, activityEditPost, activityExtend
<1> QED
  BY <1>4 DEF Continue, ActivityAdd, PlanGet, PlanEdit, PlanAdd,
     ActivityEditSelect, ActivityEditUpdate, StorageError, At

(* Unless it is overtaken, extending an activity moves its end and nothing *)
(* else ...                                                                *)
THEOREM ExtendUnlessOvertaken == Unovertaken => ExtendOnlyMovesEnd
<1> DEFINE Step == Next /\ \A r \in Req : ~Overtaken(r)
<1>1. AtomicInv /\ [Step]_vars =>
        [\A r \in Req :
           Writes(r, "ActivityEditUpdate", acts) /\ req[r].op = "activityExtend"
             => \E end \in Time : acts' = [acts EXCEPT ![req[r].a.id].end = end]]_vars
  <2> SUFFICES ASSUME AtomicInv, [Step]_vars, NEW r \in Req,
                      Writes(r, "ActivityEditUpdate", acts),
                      req[r].op = "activityExtend"
               PROVE  \E end \in Time :
                        acts' = [acts EXCEPT ![req[r].a.id].end = end]
    OBVIOUS
  <2> DEFINE a == req[r].a
             row == acts[a.id]
             end == req[r].form.end
  <2>a. /\ TypeOK /\ LocalsFresh(r) /\ UpToDate(r) /\ req[r] \in Pending
        /\ At(r, "ActivityEditUpdate")
    BY DEF AtomicInv, Consistent, TypeOK, Writes
  <2>1. acts' = [acts EXCEPT ![a.id] = RowOf(a, req[r].status)]
    BY <2>a, WriteOf DEF ActivityEditUpdate
  <2>2. row \in ActivityRow
    BY <2>a, RowIds DEF LocalsFresh, TypeOK
  <2>3. /\ end \in Time
        /\ a = Extended(a.id, row, end)
        /\ req[r].status = EditStatus(a.done, row.status)
    BY <2>a DEF UpToDate, ExtendsAsAsked
  <2>4. RowOf(a, req[r].status) = [row EXCEPT !.end = end]
    <3> DEFINE status == req[r].status
               id == a.id
    <3>1. RowOf(Extended(id, row, end),
                EditStatus(Extended(id, row, end).done, row.status))
            = [row EXCEPT !.end = end]
      BY <2>2, ExtendedRow
    <3>2. a = Extended(id, row, end) /\ status = EditStatus(a.done, row.status)
      BY <2>3
    <3>3. RowOf(a, status) = [row EXCEPT !.end = end]
      <4> HIDE DEF a, row, end, status, id
      <4> QED
        BY <3>1, <3>2, Zenon
    <3> QED
      BY <3>3
  <2> QED
    BY <2>1, <2>3, <2>4
<1> QED
  BY <1>1, AtomicInvariance, PTL DEF Unovertaken, ExtendOnlyMovesEnd

(* ... and what is stored from the pages of a task lies within the         *)
(* deadline that the task then has.                                        *)
THEOREM DeadlineUnlessOvertaken == Unovertaken => DeadlineRespected
<1> DEFINE Step == Next /\ \A r \in Req : ~Overtaken(r)
<1>1. AtomicInv /\ [Step]_vars =>
        [\A r \in Req :
           /\ Writes(r, "ActivityAdd", acts) /\ req[r].op = "taskActivityNewPost"
                => NotAfter([first |-> req[r].a.start, last |-> req[r].a.end],
                            tasks[req[r].a.task].deadline)
           /\ Writes(r, "PlanAdd", plans)
                => NotAfter([first |-> req[r].row.atAfter, last |-> req[r].row.before],
                            tasks[req[r].row.task].deadline)]_vars
  BY DEF AtomicInv, UpToDate, AddsAsAsked, PlansAsAsked, Writes, NotAfter,
         WithinDeadline
<1> QED
  BY <1>1, AtomicInvariance, PTL DEF Unovertaken, DeadlineRespected

(* A request cannot overtake itself: served one after the other, requests  *)
(* take effect whole, so all that can go wrong with them is interleaving.  *)
THEOREM SerialAtomic == ASSUME OneSlot PROVE Spec => KeepsAtomic
<1>1. ASSUME TypeOK, NEW r \in Req, Start(r) \/ Continue(r), NEW s \in Req
      PROVE  ~Overtaken(s)
  <2>1. s = r
    BY DEF OneSlot
  <2>2. CASE req[r] = Idle
    BY <2>1, <2>2 DEF Overtaken, TasksRead, ActivitiesRead, At, Idle
  <2>3. CASE req[r] # Idle
    <3>1. Continue(r)
      BY <1>1, <2>3 DEF Start, Accept, taskNewPost, taskEditPost,
         taskNewActivityNewPost, taskActivityNewPost, activityResume,
         taskPlanNewPost, activityEditPost, activityExtend
    <3>2. CASE StorageError(r)
      BY <1>1, <2>1, <2>3, <3>2 DEF StorageError, Goto, TypeOK, Overtaken
    <3>3. CASE ~StorageError(r)
      <4>1. req'[r].pc # req[r].pc
        BY <1>1, <3>1, <3>3 DEF Continue, ActivityAdd, PlanGet, PlanEdit, PlanAdd,
           ActivityEditSelect, ActivityEditUpdate, Goto, At, TypeOK, Idle
      <4> QED
        BY <2>1, <4>1 DEF Overtaken
    <3> QED
      BY <3>2, <3>3
  <2> QED
    BY <2>2, <2>3
<1> DEFINE Step == Next /\ \A r \in Req : ~Overtaken(r)
<1>2. TypeOK /\ [Next]_vars => [Step]_vars
  BY <1>1 DEF Next
<1>3. Spec => Unovertaken
  BY <1>2, TypeCorrect, PTL DEF Spec, Unovertaken
<1> QED
  BY <1>3, AtomicUnlessOvertaken

=============================================================================
