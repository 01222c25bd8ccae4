----------------------------- MODULE MCRRuleGen ------------------------------
(* Instances of RRuleGen for TLC.                                          *)
EXTENDS RRuleGen, TLC

CONSTANTS daily, weekly

TwoRules == {daily, weekly}

AnyTime == 1..4

(* Occurrences that meet the end of a window, and that lie in the gap a    *)
(* run can leave before it starts; and one that only a later run reaches.  *)
AnyDates == daily :> {2, 3, 6} @@ weekly :> {3}
=============================================================================
