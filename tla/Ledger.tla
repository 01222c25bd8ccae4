------------------------------- MODULE Ledger --------------------------------
(***************************************************************************)
(* What the store promises about how its rows refer to each other, with    *)
(* every column that is not a reference left out.  The migrations declare  *)
(* these references as foreign keys, but the connection is opened without  *)
(* enforcing them: the promise is kept by the handlers alone.              *)
(*                                                                         *)
(*  - rows are only appended, and name a task that exists when they are;   *)
(*  - the task of an activity and the task of a plan never change;         *)
(*  - a plan is linked only to an activity of its own task that no plan    *)
(*    has, and never becomes unlinked.                                     *)
(***************************************************************************)
EXTENDS Integers, Sequences

VARIABLES
  nTasks,        \* tasks 1..nTasks exist
  activityTask,  \* activityTask[a]: the task activity a was spent on
  planTask,      \* planTask[p]: the task plan p is for
  planActivity   \* planActivity[p]: the activity that fulfilled p, or 0

vars == <<nTasks, activityTask, planTask, planActivity>>

Init ==
  /\ nTasks \in Nat
  /\ activityTask \in Seq(1..nTasks)
  /\ planTask = <<>>
  /\ planActivity = <<>>

NewTask ==
  /\ nTasks' = nTasks + 1
  /\ UNCHANGED <<activityTask, planTask, planActivity>>

NewActivity(t) ==
  /\ activityTask' = Append(activityTask, t)
  /\ UNCHANGED <<nTasks, planTask, planActivity>>

NewPlan(t) ==
  /\ planTask' = Append(planTask, t)
  /\ planActivity' = Append(planActivity, 0)
  /\ UNCHANGED <<nTasks, activityTask>>

Link(p, a) ==
  /\ planTask[p] = activityTask[a]
  /\ \A q \in DOMAIN planActivity : planActivity[q] # a
  /\ planActivity' = [planActivity EXCEPT ![p] = a]
  /\ UNCHANGED <<nTasks, activityTask, planTask>>

Next ==
  \/ NewTask
  \/ \E t \in 1..nTasks : NewActivity(t) \/ NewPlan(t)
  \/ \E p \in DOMAIN planTask, a \in DOMAIN activityTask : Link(p, a)

Spec == Init /\ [][Next]_vars

=============================================================================
