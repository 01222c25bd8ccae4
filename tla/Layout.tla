------------------------------- MODULE Layout --------------------------------
(***************************************************************************)
(* layout.Layout of layout/layout.go: the day page puts activities and     *)
(* plans, as boxes with a top (a start, in Unix seconds) and a height, in  *)
(* columns.  It sorts the boxes in place, twice, and then gives each box   *)
(* the first column whose bottom is not below the top of the box.          *)
(* The slices that the code indexes from 0 start at 1, columns at 0.       *)
(***************************************************************************)
EXTENDS Integers, Sequences, FiniteSets

CONSTANTS
  Tops,       \* tops of the boxes
  Heights,    \* heights of the boxes
  minHeight,  \* no box is drawn smaller
  Inputs      \* the slices that callers pass

Box == [top : Tops, height : Heights]

ASSUME LayoutAssumption ==
  /\ Tops \subseteq Int
  /\ Heights \subseteq Int
  /\ minHeight \in Int
  /\ Inputs \subseteq Seq(Box)

VARIABLES
  boxes,          \* the slice, which Layout reorders
  columns,        \* columns[k]: the column of boxes[k]
  columnBottoms,  \* columnBottoms[c]: bottom of the last box in column c
  nColumns,       \* columns used so far
  i,              \* the box being placed
  column,         \* the column being tried for it
  pc

vars == <<boxes, columns, columnBottoms, nColumns, i, column, pc>>

MutInit ==
  /\ boxes \in Inputs
  /\ columns = [k \in DOMAIN boxes |-> 0]
  /\ columnBottoms = [c \in 0..Len(boxes) |-> 0]
  /\ nColumns = 0
  /\ i = 1
  /\ column = 0
  /\ pc = "sortByHeight"

Init ==
  /\ boxes \in Inputs
  /\ columns = [k \in DOMAIN boxes |-> 0]
  /\ columnBottoms = [c \in 0..Len(boxes) - 1 |-> 0]
  /\ nColumns = 0
  /\ i = 1
  /\ column = 0
  /\ pc = "sortByHeight"

DrawnHeight(box) == IF box.height > minHeight THEN box.height ELSE minHeight

Bottom(box) == box.top + DrawnHeight(box)

Taller(x, y) == DrawnHeight(x) > DrawnHeight(y)

Higher(x, y) == x.top < y.top

(* The ways to reorder the boxes.                                          *)
Orders ==
  {p \in [DOMAIN boxes -> DOMAIN boxes] :
     \A a, b \in DOMAIN boxes : p[a] = p[b] => a = b}

(* sort.Slice, which need not be stable.                                   *)
UnstableSort(before(_, _)) ==
  \E p \in Orders :
    /\ \A a, b \in DOMAIN boxes : a < b => ~before(boxes[p[b]], boxes[p[a]])
    /\ boxes' = [k \in DOMAIN boxes |-> boxes[p[k]]]

(* sort.SliceStable(boxes, before): p lists the old places in the new      *)
(* order, in which places that neither goes before the other keep theirs.  *)
StableSort(before(_, _)) ==
  \E p \in Orders :
    /\ \A a, b \in DOMAIN boxes : a < b =>
         \/ before(boxes[p[a]], boxes[p[b]])
         \/ p[a] < p[b] /\ ~before(boxes[p[b]], boxes[p[a]])
    /\ boxes' = [k \in DOMAIN boxes |-> boxes[p[k]]]

SortByHeight ==
  /\ pc = "sortByHeight"
  /\ StableSort(Taller)
  /\ pc' = "sortByTop"
  /\ UNCHANGED <<columns, columnBottoms, nColumns, i, column>>

MutSortByTop ==
  /\ pc = "sortByTop"
  /\ UnstableSort(Higher)
  /\ pc' = "place"
  /\ UNCHANGED <<columns, columnBottoms, nColumns, i, column>>

SortByTop ==
  /\ pc = "sortByTop"
  /\ StableSort(Higher)
  /\ pc' = "place"
  /\ UNCHANGED <<columns, columnBottoms, nColumns, i, column>>

Placing == pc = "place" /\ i \in DOMAIN boxes

MutTaken(c) == columnBottoms[c] >= boxes[i].top

MutTakenBelow(c) == columnBottoms[c] > Bottom(boxes[i])

(* Column c is still occupied where box i begins.                          *)
Taken(c) == columnBottoms[c] > boxes[i].top

MutNextColumn ==
  /\ Placing
  /\ column \in DOMAIN columnBottoms
  /\ Taken(column)
  /\ UNCHANGED vars

NextColumn ==
  /\ Placing
  /\ column \in DOMAIN columnBottoms
  /\ Taken(column)
  /\ column' = column + 1
  /\ UNCHANGED <<boxes, columns, columnBottoms, nColumns, i, pc>>

(* The index runs off columnBottoms, which has one column for each box.    *)
Panic ==
  /\ Placing
  /\ column \notin DOMAIN columnBottoms
  /\ pc' = "panic"
  /\ UNCHANGED <<boxes, columns, columnBottoms, nColumns, i, column>>

MutWidened == IF column > nColumns THEN column ELSE nColumns

(* nColumns when this column is in use.                                    *)
Widened == IF column + 1 > nColumns THEN column + 1 ELSE nColumns

PlaceBox ==
  /\ Placing
  /\ column \in DOMAIN columnBottoms
  /\ ~Taken(column)
  /\ columns' = [columns EXCEPT ![i] = column]
  /\ nColumns' = Widened
  /\ columnBottoms' = [columnBottoms EXCEPT ![column] = Bottom(boxes[i])]
  /\ i' = i + 1
  /\ column' = 0
  /\ UNCHANGED <<boxes, pc>>

Return ==
  /\ pc = "place"
  /\ i > Len(boxes)
  /\ pc' = "done"
  /\ UNCHANGED <<boxes, columns, columnBottoms, nColumns, i, column>>

Stopped ==
  /\ pc \in {"done", "panic"}
  /\ UNCHANGED vars

Step == SortByHeight \/ SortByTop \/ NextColumn \/ Panic \/ PlaceBox \/ Return

Next == Step \/ Stopped

(* The function runs on, once called.                                      *)
Spec == Init /\ [][Next]_vars /\ WF_vars(Step)

-----------------------------------------------------------------------------
(* Properties.                                                             *)

TypeOK ==
  /\ boxes \in Seq(Box)
  /\ columns \in [DOMAIN boxes -> Nat]
  /\ columnBottoms \in [0..Len(boxes) - 1 -> Int]
  /\ nColumns \in Nat
  /\ i \in Nat \ {0}
  /\ column \in Nat
  /\ pc \in {"sortByHeight", "sortByTop", "place", "done", "panic"}

(* The boxes that have their column.                                       *)
Placed == {k \in DOMAIN boxes : k < i}

(* "make sure each box does not overlap with each other": of two boxes in  *)
(* one column, the lower begins where the upper, as drawn, has ended.      *)
NoOverlap ==
  \A j, k \in Placed : j < k /\ columns[j] = columns[k] =>
    Bottom(boxes[j]) <= boxes[k].top

(* Boxes are placed from the top down, the tallest first where several     *)
(* begin together: the first sort survives the second.                     *)
InOrder ==
  pc \in {"place", "done"} =>
    \A j, k \in DOMAIN boxes : j < k =>
      \/ Higher(boxes[j], boxes[k])
      \/ boxes[j].top = boxes[k].top /\ ~Taller(boxes[k], boxes[j])

Overlap(x, y) == Bottom(x) > y.top /\ Bottom(y) > x.top

(* First fit is the best there is: however the same boxes are put in fewer *)
(* columns, two that overlap share one.                                    *)
FewestColumns ==
  pc = "done" /\ boxes # <<>> =>
    \A f \in [DOMAIN boxes -> 0..nColumns - 2] :
      \E j, k \in DOMAIN boxes :
        j # k /\ f[j] = f[k] /\ Overlap(boxes[j], boxes[k])

(* The page draws the columns below nColumns, so every box is in one of    *)
(* them; and none of them is empty.                                        *)
ColumnsDrawn ==
  {columns[k] : k \in Placed} = 0..nColumns - 1

(* The search runs out of columns, and the function panics, exactly when a *)
(* box begins before 1970: the bottom of an empty column is 0, whatever    *)
(* the tops of the boxes.                                                  *)
PanicsBeforeEpoch ==
  LET early == {k \in DOMAIN boxes : boxes[k].top < 0}
  IN  (pc = "panic" => early # {}) /\ (pc = "done" => early = {})

(* The search for a column ends: the function returns with every box       *)
(* placed, or panics.                                                      *)
Returns == <>(pc = "panic" \/ (pc = "done" /\ Placed = DOMAIN boxes))

=============================================================================
