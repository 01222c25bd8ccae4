------------------------------ MODULE MCLayout -------------------------------
(* Instances of Layout for TLC: every slice of at most MaxBoxes boxes.     *)
EXTENDS Layout

CONSTANT MaxBoxes

Slices == UNION {[1..n -> Box] : n \in 0..MaxBoxes}

(* Box heights below, at and above the smallest drawn height, 1; a         *)
(* negative height is an activity whose end precedes its start.            *)
AnyHeight == {-1, 1, 3}

(* Tops before, at and after 1970.                                         *)
AnyTop == -1..2
=============================================================================
