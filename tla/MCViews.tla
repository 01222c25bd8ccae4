------------------------------ MODULE MCViews -------------------------------
(* Instances of Views for TLC.                                             *)
EXTENDS Views

(* Two instants: an activity can be within the only range, or without; the *)
(* ones within are not done, so that two of them can end together.         *)
TwoInstants == 0..1
AnyTask     == {[deadline |-> NoDeadline]}
InAndOut    == {[start |-> 0, end |-> 0, done |-> FALSE],
                [start |-> 0, end |-> 1, done |-> TRUE]}
InRange     == {[atAfter |-> 0, before |-> 0]}

OneTask == <<[deadline |-> NoDeadline]>>

Nothing == <<>>
=============================================================================
