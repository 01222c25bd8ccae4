------------------------------ MODULE MCServer -------------------------------
(* Instances of Server for TLC: which forms are posted, and what the       *)
(* database holds when the server starts.                                  *)
EXTENDS Server, TLC

task(d) == [deadline |-> d]
form(s, e, d) == [start |-> s, end |-> e, done |-> d]

Symmetry == Permutations(Req)

(* One instant: for properties that no time matters to.                    *)
Instant    == {0}
AnyTask    == {task(NoDeadline)}
AnyActivity == {form(0, 0, TRUE)}
AnyPlan    == {[atAfter |-> 0, before |-> 0]}

(* One task from before activities and plans existed.                      *)
OneTask == <<task(NoDeadline)>>

(* Three instants, a deadline that is set and removed.                     *)
Instants       == 0..2
TimedTasks     == {task(NoDeadline), task(1)}
TimedActivities == {form(0, 0, TRUE), form(0, 1, FALSE), form(0, 2, TRUE)}
TimedPlans     == {[atAfter |-> 0, before |-> 1], [atAfter |-> 1, before |-> 2]}

(* Two instants and one deadline, that lies between the ends of the forms: *)
(* as little as tells deadlines, ranges and what is done apart.            *)
TwoInstants    == 0..1
Deadline       == {task(0)}
TwoActivities  == {form(0, 0, TRUE), form(0, 1, FALSE)}
LatePlan       == {[atAfter |-> 0, before |-> 1]}

Nothing == <<>>

(* An activity from before statuses were stored.                           *)
OldActivity == <<[task |-> 1, start |-> 0, end |-> 1, status |-> StatusUnknown]>>
=============================================================================
