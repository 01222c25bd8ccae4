------------------------------- MODULE Atomic --------------------------------
(***************************************************************************)
(* What the pages lead a user to expect of the write handlers: a request   *)
(* takes effect at one moment, on the rows as they are at that moment, and *)
(* changes what its form shows; or it fails and has no effect.  Two        *)
(* requests have two effects, the second of which may fail by itself: a    *)
(* task with its first activity, and an activity that fulfils a plan.      *)
(***************************************************************************)
EXTENDS Store

CONSTANTS Req, TaskForms, ActivityForms, PlanForms, LegacyTasks, LegacyActivities

VARIABLES
  tasks, acts, plans,
  asked   \* asked[r]: what the request in slot r has yet to do

tables == <<tasks, acts, plans>>
vars   == <<tasks, acts, plans, asked>>

Nothing == [op |-> "nothing"]

Init ==
  /\ tasks = LegacyTasks
  /\ acts = LegacyActivities
  /\ plans = <<>>
  /\ asked = [r \in Req |-> Nothing]

Become(r, x) == asked' = [asked EXCEPT ![r] = x]

(* What a page may ask for, besides a new task or another form for one.    *)
Requests ==
  [op : {"taskActivityNewPost"}, task : DOMAIN tasks, form : ActivityForms,
   plan : {0} \cup DOMAIN plans]
  \cup [op : {"activityResume"}, of : DOMAIN acts, form : [start : Time, end : Time]]
  \cup [op : {"taskPlanNewPost"}, task : DOMAIN tasks, form : PlanForms]
  \cup [op : {"activityEditPost"}, id : DOMAIN acts, form : ActivityForms]
  \cup [op : {"activityExtend"}, id : DOMAIN acts, form : [end : Time]]

Ask(r) ==
  /\ asked[r] = Nothing
  /\ \E x \in Requests : Become(r, x)
  /\ UNCHANGED tables

(* A new task, which may have its first activity to come.                  *)
NewTask(r) ==
  /\ asked[r] = Nothing
  /\ \E t \in TaskForms : tasks' = Append(tasks, t)
  /\ \/ UNCHANGED asked
     \/ \E f \in ActivityForms :
          Become(r, [op |-> "taskNewActivityNewPost", task |-> Len(tasks) + 1,
                     form |-> f, plan |-> 0])
  /\ UNCHANGED <<acts, plans>>

EditTask ==
  /\ \E id \in DOMAIN tasks, f \in TaskForms : tasks' = [tasks EXCEPT ![id] = f]
  /\ UNCHANGED <<acts, plans, asked>>

(* "start time cannot be after deadline", "end time cannot be after        *)
(* deadline".                                                              *)
InTime(deadline, first, last) ==
  deadline # NoDeadline => first <= deadline /\ last <= deadline

AddActivity(r) ==
  /\ asked[r].op \in {"taskActivityNewPost", "taskNewActivityNewPost"}
  /\ asked[r].op = "taskActivityNewPost" =>
       InTime(tasks[asked[r].task].deadline, asked[r].form.start, asked[r].form.end)
  /\ acts' = Append(acts,
       [task |-> asked[r].task, start |-> asked[r].form.start, end |-> asked[r].form.end,
        status |-> IF asked[r].form.done THEN StatusDone ELSE StatusInProgress])
  /\ Become(r, IF asked[r].plan = 0
                 THEN Nothing
                 ELSE [op |-> "link", plan |-> asked[r].plan, activity |-> Len(acts) + 1])
  /\ UNCHANGED <<tasks, plans>>

(* The plan of an activity that was added is fulfilled by it.              *)
Link(r) ==
  /\ asked[r].op = "link"
  /\ plans' = [plans EXCEPT ![asked[r].plan].activity = asked[r].activity]
  /\ Become(r, Nothing)
  /\ UNCHANGED <<tasks, acts>>

AddPlan(r) ==
  /\ asked[r].op = "taskPlanNewPost"
  /\ InTime(tasks[asked[r].task].deadline, asked[r].form.atAfter, asked[r].form.before)
  /\ plans' = Append(plans,
       [task |-> asked[r].task, activity |-> 0,
        atAfter |-> asked[r].form.atAfter, before |-> asked[r].form.before])
  /\ Become(r, Nothing)
  /\ UNCHANGED <<tasks, acts>>

(* The same again at another time: done, if it was done.                   *)
Again(row, f) ==
  [row EXCEPT !.start = f.start, !.end = f.end,
              !.status = IF @ = StatusDone THEN @ ELSE StatusInProgress]

Resume(r) ==
  /\ asked[r].op = "activityResume"
  /\ acts' = Append(acts, Again(acts[asked[r].of], asked[r].form))
  /\ Become(r, Nothing)
  /\ UNCHANGED <<tasks, plans>>

(* Its times, and its status if the "Done" box is not as it was.           *)
Edited(row, f) ==
  [row EXCEPT !.start = f.start, !.end = f.end,
              !.status = IF f.done = (@ = StatusDone) THEN @
                         ELSE IF f.done THEN StatusDone ELSE StatusInProgress]

Edit(r) ==
  /\ asked[r].op = "activityEditPost"
  /\ acts' = [acts EXCEPT ![asked[r].id] = Edited(@, asked[r].form)]
  /\ Become(r, Nothing)
  /\ UNCHANGED <<tasks, plans>>

Extend(r) ==
  /\ asked[r].op = "activityExtend"
  /\ acts' = [acts EXCEPT ![asked[r].id].end = asked[r].form.end]
  /\ Become(r, Nothing)
  /\ UNCHANGED <<tasks, plans>>

Fail(r) == Become(r, Nothing) /\ UNCHANGED tables

Next ==
  \/ EditTask
  \/ \E r \in Req :
       \/ Ask(r) \/ NewTask(r)
       \/ AddActivity(r) \/ Link(r) \/ AddPlan(r) \/ Resume(r)
       \/ Edit(r) \/ Extend(r)
       \/ Fail(r)

Spec == Init /\ [][Next]_vars

=============================================================================
