---------------------------- MODULE LayoutProofs -----------------------------
(***************************************************************************)
(* Proofs about layout.Layout for slices of every length: boxes in one     *)
(* column never overlap, no layout without overlap has fewer columns, and  *)
(* the search ends: in a panic only when a box begins before 1970.         *)
(***************************************************************************)
EXTENDS Layout, FiniteSetTheorems, TLAPS

(* After the first sort, and until the second.                             *)
ByHeight ==
  pc = "sortByTop" =>
    \A j, k \in DOMAIN boxes : j < k => ~Taller(boxes[k], boxes[j])

(* Nothing is placed before the boxes are sorted.                          *)
PlacedLater ==
  /\ pc \in {"sortByHeight", "sortByTop"} => i = 1 /\ column = 0 /\ nColumns = 0
  /\ i <= Len(boxes) + 1
  /\ pc = "done" => i = Len(boxes) + 1
  /\ pc = "panic" => \E k \in DOMAIN boxes : boxes[k].top < 0
  /\ \A k \in Placed : boxes[k].top >= 0

(* Every column in use ends with the last box in it; the others are as     *)
(* they were made.                                                         *)
BottomsExact ==
  /\ nColumns < i
  /\ \A c \in DOMAIN columnBottoms :
       IF c < nColumns
       THEN \E m \in Placed :
              /\ columns[m] = c
              /\ columnBottoms[c] = Bottom(boxes[m])
              /\ \A k \in Placed : columns[k] = c => k <= m
       ELSE columnBottoms[c] = 0

(* The columns passed over are taken; with no box before 1970, the search  *)
(* does not pass the first empty column.                                   *)
SearchExact ==
  pc = "place" /\ i \in DOMAIN boxes =>
    /\ \A c \in DOMAIN columnBottoms : c < column => Taken(c)
    /\ column > nColumns => boxes[i].top < 0

(* The boxes before k that reach below its top.                            *)
Beside(k) == {j \in DOMAIN boxes : j < k /\ Bottom(boxes[j]) > boxes[k].top}

(* No column is wasted: a box is in column c only if c boxes are beside    *)
(* it.                                                                     *)
NoColumnWasted ==
  \A k \in Placed : columns[k] <= Cardinality(Beside(k))

LayoutInv ==
  /\ TypeOK
  /\ ByHeight
  /\ PlacedLater
  /\ InOrder
  /\ BottomsExact
  /\ SearchExact
  /\ NoOverlap
  /\ ColumnsDrawn
  /\ NoColumnWasted

LEMMA BoxTypes ==
  ASSUME NEW b \in Box
  PROVE  /\ b.top \in Int
         /\ b.height \in Int
         /\ DrawnHeight(b) \in Int
         /\ Bottom(b) \in Int
<1>1. b.top \in Int /\ b.height \in Int
  BY LayoutAssumption DEF Box
<1>2. DrawnHeight(b) \in Int
  BY <1>1, LayoutAssumption DEF DrawnHeight
<1> QED
  BY <1>1, <1>2 DEF Bottom

(* A sort permutes the boxes.                                              *)
LEMMA Rearranged ==
  ASSUME TypeOK, NEW p \in Orders,
         boxes' = [k \in DOMAIN boxes |-> boxes[p[k]]]
  PROVE  /\ boxes' \in Seq(Box)
         /\ DOMAIN boxes' = DOMAIN boxes
         /\ Len(boxes') = Len(boxes)
         /\ \A k \in DOMAIN boxes : p[k] \in DOMAIN boxes /\ boxes'[k] = boxes[p[k]]
<1>1. p \in [DOMAIN boxes -> DOMAIN boxes]
  BY DEF Orders
<1>2. Len(boxes) \in Nat /\ DOMAIN boxes = 1..Len(boxes)
  BY DEF TypeOK
<1>3. boxes' \in [1..Len(boxes) -> Box]
  BY <1>1, <1>2 DEF TypeOK
<1>4. boxes' \in Seq(Box)
  BY <1>2, <1>3
<1>5. Len(boxes') = Len(boxes)
  BY <1>2, <1>3, <1>4
<1> QED
  BY <1>1, <1>2, <1>3, <1>4, <1>5

LEMMA InitLayout == Init => LayoutInv
<1> SUFFICES ASSUME Init PROVE LayoutInv
  OBVIOUS
<1>1. boxes \in Seq(Box) /\ Len(boxes) \in Nat /\ DOMAIN boxes = 1..Len(boxes)
  BY LayoutAssumption DEF Init
<1>2. TypeOK
  BY <1>1 DEF Init, TypeOK
<1>3. Placed = {}
  BY <1>1 DEF Init, Placed
<1>4. ByHeight /\ InOrder /\ SearchExact
  BY DEF Init, ByHeight, InOrder, SearchExact
<1>5. PlacedLater
  BY <1>1, <1>3 DEF Init, PlacedLater
<1>6. BottomsExact
  BY <1>1 DEF Init, BottomsExact
<1>7. NoOverlap /\ NoColumnWasted
  BY <1>3 DEF NoOverlap, NoColumnWasted
<1>8. ColumnsDrawn
  BY <1>3 DEF Init, ColumnsDrawn
<1> QED
  BY <1>2, <1>4, <1>5, <1>6, <1>7, <1>8 DEF LayoutInv

-----------------------------------------------------------------------------
(* The sorts.                                                              *)

LEMMA SortByHeightStep == LayoutInv /\ SortByHeight => LayoutInv'
<1> SUFFICES ASSUME LayoutInv, SortByHeight PROVE LayoutInv'
  OBVIOUS
<1>1. PICK p \in Orders :
        /\ \A a, b \in DOMAIN boxes : a < b =>
             \/ Taller(boxes[p[a]], boxes[p[b]])
             \/ p[a] < p[b] /\ ~Taller(boxes[p[b]], boxes[p[a]])
        /\ boxes' = [k \in DOMAIN boxes |-> boxes[p[k]]]
  BY DEF SortByHeight, StableSort
<1>2. /\ boxes' \in Seq(Box)
      /\ DOMAIN boxes' = DOMAIN boxes
      /\ Len(boxes') = Len(boxes)
      /\ \A k \in DOMAIN boxes : p[k] \in DOMAIN boxes /\ boxes'[k] = boxes[p[k]]
  BY <1>1, Rearranged DEF LayoutInv
<1>3. /\ pc = "sortByHeight" /\ pc' = "sortByTop"
      /\ i = 1 /\ column = 0 /\ nColumns = 0
      /\ UNCHANGED <<columns, columnBottoms, nColumns, i, column>>
  BY DEF SortByHeight, LayoutInv, PlacedLater
<1>4. TypeOK'
  BY <1>2, <1>3 DEF LayoutInv, TypeOK
<1>5. Placed = {} /\ Placed' = {}
  BY <1>2, <1>3 DEF LayoutInv, TypeOK, Placed
<1>6. ByHeight'
  <2> SUFFICES ASSUME NEW j \in DOMAIN boxes, NEW k \in DOMAIN boxes, j < k
               PROVE  ~Taller(boxes'[k], boxes'[j])
    BY <1>2, <1>3 DEF ByHeight, Taller, DrawnHeight
  <2>1. boxes[p[j]] \in Box /\ boxes[p[k]] \in Box
    BY <1>2 DEF LayoutInv, TypeOK
  <2>2. ~Taller(boxes[p[k]], boxes[p[j]])
    <3>1. CASE Taller(boxes[p[j]], boxes[p[k]])
      <4>1. /\ DrawnHeight(boxes[p[j]]) \in Int
            /\ DrawnHeight(boxes[p[k]]) \in Int
        BY <2>1, BoxTypes
      <4> QED
        BY <3>1, <4>1 DEF Taller
    <3> QED
      BY <1>1, <3>1
  <2> QED
    BY <1>2, <2>2
<1>7. InOrder' /\ SearchExact'
  BY <1>3 DEF InOrder, SearchExact
<1>8. PlacedLater'
  BY <1>2, <1>3, <1>5 DEF LayoutInv, PlacedLater
<1>9. BottomsExact'
  BY <1>2, <1>3, <1>5 DEF LayoutInv, BottomsExact
<1>10. NoOverlap' /\ NoColumnWasted'
  BY <1>5 DEF NoOverlap, NoColumnWasted
<1>11. ColumnsDrawn'
  BY <1>3, <1>5 DEF ColumnsDrawn
<1> QED
  BY <1>4, <1>6, <1>7, <1>8, <1>9, <1>10, <1>11 DEF LayoutInv

LEMMA SortByTopStep == LayoutInv /\ SortByTop => LayoutInv'
<1> SUFFICES ASSUME LayoutInv, SortByTop PROVE LayoutInv'
  OBVIOUS
<1>1. PICK p \in Orders :
        /\ \A a, b \in DOMAIN boxes : a < b =>
             \/ Higher(boxes[p[a]], boxes[p[b]])
             \/ p[a] < p[b] /\ ~Higher(boxes[p[b]], boxes[p[a]])
        /\ boxes' = [k \in DOMAIN boxes |-> boxes[p[k]]]
  BY DEF SortByTop, StableSort
<1>2. /\ boxes' \in Seq(Box)
      /\ DOMAIN boxes' = DOMAIN boxes
      /\ Len(boxes') = Len(boxes)
      /\ \A k \in DOMAIN boxes : p[k] \in DOMAIN boxes /\ boxes'[k] = boxes[p[k]]
  BY <1>1, Rearranged DEF LayoutInv
<1>3. /\ pc = "sortByTop" /\ pc' = "place"
      /\ i = 1 /\ column = 0 /\ nColumns = 0
      /\ UNCHANGED <<columns, columnBottoms, nColumns, i, column>>
  BY DEF SortByTop, LayoutInv, PlacedLater
<1>4. TypeOK'
  BY <1>2, <1>3 DEF LayoutInv, TypeOK
<1>5. Placed = {} /\ Placed' = {}
  BY <1>2, <1>3 DEF LayoutInv, TypeOK, Placed
<1>6. InOrder'
  <2> SUFFICES ASSUME NEW j \in DOMAIN boxes, NEW k \in DOMAIN boxes, j < k
               PROVE  \/ Higher(boxes'[j], boxes'[k])
                      \/ /\ boxes'[j].top = boxes'[k].top
                         /\ ~Taller(boxes'[k], boxes'[j])
    BY <1>2, <1>3 DEF InOrder, Higher, Taller, DrawnHeight
  <2>1. boxes[p[j]] \in Box /\ boxes[p[k]] \in Box
    BY <1>2 DEF LayoutInv, TypeOK
  <2>2. CASE Higher(boxes[p[j]], boxes[p[k]])
    BY <1>2, <2>2
  <2>3. CASE /\ p[j] < p[k]
             /\ ~Higher(boxes[p[j]], boxes[p[k]])
             /\ ~Higher(boxes[p[k]], boxes[p[j]])
    <3>1. boxes[p[j]].top = boxes[p[k]].top
      BY <2>1, <2>3, BoxTypes DEF Higher
    <3>2. ~Taller(boxes[p[k]], boxes[p[j]])
      BY <1>2, <1>3, <2>3 DEF LayoutInv, ByHeight
    <3> QED
      BY <1>2, <3>1, <3>2
  <2> QED
    BY <1>1, <2>2, <2>3
<1>7. SearchExact'
  BY <1>3 DEF SearchExact, LayoutInv, TypeOK
<1>8. PlacedLater'
  BY <1>2, <1>3, <1>5 DEF LayoutInv, PlacedLater
<1>9. BottomsExact'
  BY <1>2, <1>3, <1>5 DEF LayoutInv, BottomsExact
<1>10. NoOverlap' /\ NoColumnWasted' /\ ByHeight'
  BY <1>3, <1>5 DEF NoOverlap, NoColumnWasted, ByHeight
<1>11. ColumnsDrawn'
  BY <1>3, <1>5 DEF ColumnsDrawn
<1> QED
  BY <1>4, <1>6, <1>7, <1>8, <1>9, <1>10, <1>11 DEF LayoutInv

-----------------------------------------------------------------------------
(* The search for a column.                                                *)

(* What a step that places nothing has to show.                            *)
LEMMA NothingPlaced ==
  ASSUME LayoutInv, UNCHANGED <<boxes, columns, columnBottoms, nColumns, i>>,
         pc = "place", pc' \in {"place", "done", "panic"}, column' \in Nat,
         SearchExact',
         pc' = "done" => i = Len(boxes) + 1,
         pc' = "panic" => \E k \in DOMAIN boxes : boxes[k].top < 0
  PROVE  LayoutInv'
<1>1. TypeOK' /\ ByHeight'
  BY DEF LayoutInv, TypeOK, ByHeight
<1>2. PlacedLater'
  BY DEF LayoutInv, PlacedLater, Placed
<1>3. InOrder'
  BY DEF LayoutInv, InOrder, Higher, Taller, DrawnHeight
<1>4. BottomsExact' /\ NoOverlap'
  BY DEF LayoutInv, BottomsExact, NoOverlap, Placed, Bottom, DrawnHeight
<1>5. ColumnsDrawn' /\ NoColumnWasted'
  BY DEF LayoutInv, ColumnsDrawn, NoColumnWasted, Placed, Beside, Bottom,
     DrawnHeight
<1> QED
  BY <1>1, <1>2, <1>3, <1>4, <1>5 DEF LayoutInv

LEMMA NextColumnStep == LayoutInv /\ NextColumn => LayoutInv'
<1> SUFFICES ASSUME LayoutInv, NextColumn PROVE LayoutInv'
  OBVIOUS
<1>1. /\ pc = "place" /\ i \in DOMAIN boxes
      /\ column \in DOMAIN columnBottoms
      /\ columnBottoms[column] > boxes[i].top
      /\ column' = column + 1
      /\ UNCHANGED <<boxes, columns, columnBottoms, nColumns, i, pc>>
  BY DEF NextColumn, Placing, Taken
<1>2. /\ column \in Nat /\ nColumns \in Nat
      /\ columnBottoms \in [0..Len(boxes) - 1 -> Int]
      /\ boxes[i].top \in Int
  BY <1>1, BoxTypes DEF LayoutInv, TypeOK
<1>3. \A c \in DOMAIN columnBottoms : c < column' => columnBottoms[c] > boxes[i].top
  BY <1>1, <1>2 DEF LayoutInv, SearchExact, Taken
<1>4. column' > nColumns => boxes[i].top < 0
  <2>1. CASE column > nColumns
    BY <1>1, <2>1 DEF LayoutInv, SearchExact
  <2>2. CASE column = nColumns
    <3>1. columnBottoms[column] = 0
      BY <1>1, <1>2, <2>2 DEF LayoutInv, BottomsExact
    <3> QED
      BY <1>1, <1>2, <3>1
  <2> QED
    BY <1>1, <1>2, <2>1, <2>2
<1>5. SearchExact'
  BY <1>1, <1>3, <1>4 DEF SearchExact, Taken
<1> QED
  BY <1>1, <1>2, <1>5, NothingPlaced

LEMMA PanicStep == LayoutInv /\ Panic => LayoutInv'
<1> SUFFICES ASSUME LayoutInv, Panic PROVE LayoutInv'
  OBVIOUS
<1>1. /\ pc = "place" /\ i \in DOMAIN boxes /\ pc' = "panic"
      /\ column \notin DOMAIN columnBottoms
      /\ UNCHANGED <<boxes, columns, columnBottoms, nColumns, i, column>>
  BY DEF Panic, Placing
<1>2. /\ nColumns < i /\ i <= Len(boxes)
      /\ nColumns \in Nat /\ i \in Nat /\ column \in Nat /\ Len(boxes) \in Nat
      /\ column > Len(boxes) - 1
  BY <1>1 DEF LayoutInv, BottomsExact, TypeOK
<1>3. boxes[i].top < 0
  BY <1>1, <1>2 DEF LayoutInv, SearchExact
<1>4. SearchExact'
  BY <1>1 DEF SearchExact
<1> QED
  BY <1>1, <1>2, <1>3, <1>4, NothingPlaced

LEMMA ReturnStep == LayoutInv /\ Return => LayoutInv'
<1> SUFFICES ASSUME LayoutInv, Return PROVE LayoutInv'
  OBVIOUS
<1>1. i = Len(boxes) + 1 /\ column \in Nat
  BY DEF Return, LayoutInv, PlacedLater, TypeOK
<1>2. SearchExact'
  BY DEF Return, SearchExact
<1> QED
  BY <1>1, <1>2, NothingPlaced DEF Return

-----------------------------------------------------------------------------
(* Placing a box.                                                          *)

(* Every column passed over holds a box beside the one to be placed, and   *)
(* no box is in two columns.                                               *)
LEMMA BesideEachColumn ==
  ASSUME LayoutInv, pc = "place", i \in DOMAIN boxes,
         column \in DOMAIN columnBottoms, column <= nColumns
  PROVE  column <= Cardinality(Beside(i))
<1>1. /\ column \in Nat /\ nColumns \in Nat /\ i \in Nat
      /\ DOMAIN columnBottoms = 0..Len(boxes) - 1
      /\ DOMAIN boxes = 1..Len(boxes) /\ Len(boxes) \in Nat
  BY DEF LayoutInv, TypeOK
<1>2. IsFiniteSet(Beside(i)) /\ Cardinality(Beside(i)) \in Nat
  <2>1. IsFiniteSet(1..Len(boxes))
    BY <1>1, FS_Interval
  <2>2. Beside(i) \in SUBSET (1..Len(boxes))
    BY <1>1 DEF Beside
  <2> QED
    BY <2>1, <2>2, FS_Subset, FS_CardinalityType
<1>3. IsFiniteSet(0..column - 1) /\ Cardinality(0..column - 1) = column
  <2>1. 0 \in Int /\ column - 1 \in Int
    BY <1>1
  <2>2. /\ IsFiniteSet(0..column - 1)
        /\ Cardinality(0..column - 1) =
             IF 0 > column - 1 THEN 0 ELSE (column - 1) - 0 + 1
    BY ONLY <2>1, FS_Interval
  <2> QED
    BY <1>1, <2>2
<1>4. SUFFICES ASSUME Cardinality(Beside(i)) < column PROVE FALSE
  BY <1>1, <1>2
<1> DEFINE Last(c) == CHOOSE m \in Beside(i) : columns[m] = c
           last == [c \in 0..column - 1 |-> Last(c)]
<1>5. ASSUME NEW c \in 0..column - 1
      PROVE  \E m \in Beside(i) : columns[m] = c
  <2>1. /\ c \in DOMAIN columnBottoms /\ c < column /\ c < nColumns
    BY <1>1
  <2>2. columnBottoms[c] > boxes[i].top
    BY <2>1 DEF LayoutInv, SearchExact, Taken
  <2>3. PICK m \in Placed : columns[m] = c /\ columnBottoms[c] = Bottom(boxes[m])
    BY <2>1 DEF LayoutInv, BottomsExact
  <2>4. m \in Beside(i)
    BY <2>2, <2>3 DEF Placed, Beside
  <2> QED
    BY <2>3, <2>4
<1>6. ASSUME NEW c \in 0..column - 1
      PROVE  last[c] \in Beside(i) /\ columns[last[c]] = c
  <2>1. last[c] = CHOOSE m \in Beside(i) : columns[m] = c
    OBVIOUS
  <2> QED
    BY <1>5, <2>1
<1>7. last \in [0..column - 1 -> Beside(i)]
  BY <1>6
<1> HIDE DEF last
<1>8. PICK x \in 0..column - 1, y \in 0..column - 1 : x # y /\ last[x] = last[y]
  BY <1>2, <1>3, <1>4, <1>7, FS_PigeonHole
<1> QED
  BY <1>6, <1>8

LEMMA PlaceBoxStep == LayoutInv /\ PlaceBox => LayoutInv'
<1> SUFFICES ASSUME LayoutInv, PlaceBox PROVE LayoutInv'
  OBVIOUS
<1>1. /\ pc = "place" /\ pc' = "place" /\ boxes' = boxes
      /\ i \in DOMAIN boxes /\ i' = i + 1
      /\ column \in DOMAIN columnBottoms /\ column' = 0
      /\ columns' = [columns EXCEPT ![i] = column]
      /\ nColumns' = IF column + 1 > nColumns THEN column + 1 ELSE nColumns
      /\ columnBottoms' = [columnBottoms EXCEPT ![column] = Bottom(boxes[i])]
  BY DEF PlaceBox, Placing, Widened
<1>2. /\ column \in Nat /\ nColumns \in Nat /\ i \in Nat
      /\ i <= Len(boxes) /\ Len(boxes) \in Nat
      /\ DOMAIN boxes = 1..Len(boxes)
      /\ columns \in [DOMAIN boxes -> Nat]
      /\ columnBottoms \in [0..Len(boxes) - 1 -> Int]
      /\ \A k \in DOMAIN boxes : boxes[k] \in Box
      /\ nColumns < i
  <2>1. TypeOK /\ nColumns < i
    BY DEF LayoutInv, BottomsExact
  <2>2. boxes \in Seq(Box)
    BY <2>1 DEF TypeOK
  <2>3. Len(boxes) \in Nat /\ DOMAIN boxes = 1..Len(boxes)
    BY <2>2
  <2>4. \A k \in DOMAIN boxes : boxes[k] \in Box
    BY <2>2
  <2> QED
    BY <1>1, <2>1, <2>3, <2>4 DEF TypeOK
<1>3. boxes[i].top \in Int /\ Bottom(boxes[i]) \in Int
  BY <1>1, <1>2, BoxTypes
<1>4. columnBottoms[column] <= boxes[i].top
  <2>1. columnBottoms[column] \in Int /\ ~(columnBottoms[column] > boxes[i].top)
    BY <1>1, <1>2 DEF PlaceBox, Taken
  <2> QED
    BY <1>3, <2>1
<1>5. column <= nColumns
  <2> SUFFICES ASSUME column > nColumns PROVE FALSE
    BY <1>2
  <2>1. columnBottoms[column] = 0
    BY <1>1, <1>2 DEF LayoutInv, BottomsExact
  <2>2. boxes[i].top < 0
    BY <1>1 DEF LayoutInv, SearchExact
  <2> QED
    BY <1>3, <1>4, <2>1, <2>2
<1>6. /\ Placed' = Placed \cup {i} /\ i \notin Placed
      /\ \A k \in Placed : k < i /\ k \in DOMAIN boxes
  BY <1>1, <1>2 DEF Placed
<1>7. /\ columns'[i] = column
      /\ \A k \in Placed : columns'[k] = columns[k]
  BY <1>1, <1>2, <1>6
<1>8. ASSUME NEW k \in Placed PROVE boxes[k].top <= boxes[i].top
  <2>1. Higher(boxes[k], boxes[i]) \/ boxes[k].top = boxes[i].top
    BY <1>1, <1>6 DEF LayoutInv, InOrder
  <2>2. boxes[k].top \in Int
    BY <1>2, <1>6, BoxTypes
  <2> QED
    BY <1>3, <2>1, <2>2 DEF Higher
<1>9. TypeOK'
  BY <1>1, <1>2, <1>3 DEF LayoutInv, TypeOK
<1>10. ByHeight' /\ InOrder'
  BY <1>1 DEF LayoutInv, ByHeight, InOrder, Higher, Taller, DrawnHeight
<1>11. PlacedLater'
  <2>1. boxes[i].top >= 0
    <3>1. CASE i = 1
      <4>1. columnBottoms[column] = 0
        BY <1>1, <1>2, <3>1 DEF LayoutInv, BottomsExact
      <4> QED
        BY <1>3, <1>4, <4>1
    <3>2. CASE i > 1
      <4>1. 1 \in Placed /\ boxes[1].top \in Int
        BY <1>2, <3>2, BoxTypes DEF Placed
      <4>2. boxes[1].top >= 0
        BY <4>1 DEF LayoutInv, PlacedLater
      <4> QED
        BY <1>3, <1>8, <4>1, <4>2
    <3> QED
      BY <1>1, <1>2, <3>1, <3>2
  <2>2. \A k \in Placed' : boxes'[k].top >= 0
    BY <1>1, <1>6, <2>1 DEF LayoutInv, PlacedLater
  <2> QED
    BY <1>1, <1>2, <2>2 DEF PlacedLater
<1>12. BottomsExact'
  <2>1. nColumns' < i'
    BY <1>1, <1>2, <1>5
  <2>2. ASSUME NEW c \in DOMAIN columnBottoms, c = column
        PROVE  /\ c < nColumns'
               /\ columns'[i] = c
               /\ columnBottoms'[c] = Bottom(boxes[i])
               /\ \A k \in Placed' : k <= i
    BY <1>1, <1>2, <1>6, <1>7, <2>2
  <2>3. ASSUME NEW c \in DOMAIN columnBottoms, c # column
        PROVE  /\ c < nColumns' <=> c < nColumns
               /\ columnBottoms'[c] = columnBottoms[c]
               /\ \A k \in Placed' : columns'[k] = c => k \in Placed /\ columns[k] = c
    BY <1>1, <1>2, <1>5, <1>6, <1>7, <2>3
  <2>4. ASSUME NEW c \in DOMAIN columnBottoms
        PROVE  IF c < nColumns'
               THEN \E m \in Placed' :
                      /\ columns'[m] = c
                      /\ columnBottoms'[c] = Bottom(boxes[m])
                      /\ \A k \in Placed' : columns'[k] = c => k <= m
               ELSE columnBottoms'[c] = 0
    <3>1. CASE c = column
      BY <1>6, <2>2, <3>1
    <3>2. CASE c # column /\ c < nColumns
      <4>1. PICK m \in Placed :
              /\ columns[m] = c
              /\ columnBottoms[c] = Bottom(boxes[m])
              /\ \A k \in Placed : columns[k] = c => k <= m
        BY <3>2 DEF LayoutInv, BottomsExact
      <4>2. /\ m \in Placed'
            /\ columns'[m] = c
            /\ columnBottoms'[c] = Bottom(boxes[m])
            /\ \A k \in Placed' : columns'[k] = c => k <= m
        BY <1>6, <1>7, <2>3, <3>2, <4>1
      <4> QED
        BY <2>3, <3>2, <4>2
    <3>3. CASE c # column /\ ~(c < nColumns)
      BY <2>3, <3>3 DEF LayoutInv, BottomsExact
    <3> QED
      BY <3>1, <3>2, <3>3
  <2>5. DOMAIN columnBottoms' = DOMAIN columnBottoms
    BY <1>1
  <2> QED
    BY <1>1, <2>1, <2>4, <2>5 DEF BottomsExact, Bottom, DrawnHeight
<1>13. SearchExact'
  <2>1. nColumns' \in Nat /\ \A c \in DOMAIN columnBottoms' : ~(c < 0)
    BY <1>1, <1>2
  <2> QED
    BY <1>1, <2>1 DEF SearchExact
<1>14. NoOverlap'
  <2>1. ASSUME NEW j \in Placed, columns[j] = column
        PROVE  Bottom(boxes[j]) <= boxes[i].top
    <3>1. column < nColumns
      BY <1>1, <1>2, <2>1 DEF LayoutInv, ColumnsDrawn
    <3>2. PICK m \in Placed :
            /\ columns[m] = column
            /\ columnBottoms[column] = Bottom(boxes[m])
            /\ \A k \in Placed : columns[k] = column => k <= m
      BY <1>1, <3>1 DEF LayoutInv, BottomsExact
    <3>3. CASE j = m
      BY <1>4, <3>2, <3>3
    <3>4. CASE j < m
      <4>1. Bottom(boxes[j]) <= boxes[m].top
        BY <2>1, <3>2, <3>4 DEF LayoutInv, NoOverlap
      <4>2. boxes[m].top \in Int /\ Bottom(boxes[j]) \in Int
        BY <1>2, <1>6, BoxTypes
      <4> QED
        BY <1>3, <1>8, <4>1, <4>2
    <3> QED
      BY <1>2, <1>6, <2>1, <3>2, <3>3, <3>4
  <2>2. ASSUME NEW j \in Placed', NEW k \in Placed', j < k,
               columns'[j] = columns'[k]
        PROVE  Bottom(boxes[j]) <= boxes[k].top
    <3>1. j \in Placed
      BY <1>2, <1>6, <2>2
    <3>2. CASE k \in Placed
      BY <1>7, <2>2, <3>1, <3>2 DEF LayoutInv, NoOverlap
    <3>3. CASE k = i
      BY <1>7, <2>1, <2>2, <3>1, <3>3
    <3> QED
      BY <1>6, <3>2, <3>3
  <2> QED
    BY <1>1, <2>2 DEF NoOverlap, Bottom, DrawnHeight
<1>15. ColumnsDrawn'
  <2>1. {columns'[k] : k \in Placed'} = {columns[k] : k \in Placed} \cup {column}
    BY <1>6, <1>7
  <2>2. 0..nColumns' - 1 = (0..nColumns - 1) \cup {column}
    BY <1>1, <1>2, <1>5
  <2> QED
    BY <2>1, <2>2 DEF LayoutInv, ColumnsDrawn
<1>16. NoColumnWasted'
  <2>1. column <= Cardinality(Beside(i))
    BY <1>1, <1>5, BesideEachColumn
  <2>2. \A k : Beside(k)' = Beside(k)
    BY <1>1 DEF Beside, Bottom, DrawnHeight
  <2> QED
    BY <1>6, <1>7, <2>1, <2>2 DEF LayoutInv, NoColumnWasted
<1> QED
  BY <1>9, <1>10, <1>11, <1>12, <1>13, <1>14, <1>15, <1>16 DEF LayoutInv

-----------------------------------------------------------------------------
(* The theorems.                                                           *)

LEMMA StepLayout == LayoutInv /\ [Next]_vars => LayoutInv'
<1> SUFFICES ASSUME LayoutInv, [Next]_vars PROVE LayoutInv'
  OBVIOUS
<1>1. CASE UNCHANGED vars \/ Stopped
  <2>1. UNCHANGED <<boxes, columns, columnBottoms, nColumns, i, column, pc>>
    BY <1>1 DEF vars, Stopped
  <2> QED
    BY <2>1 DEF LayoutInv, TypeOK, ByHeight, PlacedLater, InOrder, BottomsExact,
       SearchExact, NoOverlap, ColumnsDrawn, NoColumnWasted, Placed, Beside,
       Taken, Bottom, DrawnHeight, Higher, Taller
<1> QED
  BY <1>1, SortByHeightStep, SortByTopStep, NextColumnStep, PanicStep,
     PlaceBoxStep, ReturnStep DEF Next, Step

LEMMA LayoutInvariance == Spec => []LayoutInv
<1> QED
  BY InitLayout, StepLayout, PTL DEF Spec

(* The slices stay slices of boxes, whatever is passed.                    *)
THEOREM LayoutTypes == Spec => []TypeOK
<1>1. LayoutInv => TypeOK
  BY DEF LayoutInv
<1> QED
  BY <1>1, LayoutInvariance, PTL

(* Boxes in one column never overlap as drawn, however many there are and  *)
(* whatever their heights, negative ones included.                         *)
THEOREM BoxesApart == Spec => []NoOverlap
<1>1. LayoutInv => NoOverlap
  BY DEF LayoutInv
<1> QED
  BY <1>1, LayoutInvariance, PTL

(* The boxes are in order when the first is placed: the second sort keeps  *)
(* what the first one did.                                                 *)
THEOREM SortsCompose == Spec => []InOrder
<1>1. LayoutInv => InOrder
  BY DEF LayoutInv
<1> QED
  BY <1>1, LayoutInvariance, PTL

(* A box is in column c only because c boxes are beside it.                *)
THEOREM ColumnsMinimal == Spec => []NoColumnWasted
<1>1. LayoutInv => NoColumnWasted
  BY DEF LayoutInv
<1> QED
  BY <1>1, LayoutInvariance, PTL

(* The box in the last column and those beside it overlap one another, and *)
(* are one more than fewer columns can hold apart.                         *)
LEMMA Crowded ==
  ASSUME minHeight > 0, LayoutInv, pc = "done", boxes # <<>>,
         NEW f \in [DOMAIN boxes -> 0..nColumns - 2]
  PROVE  \E j, k \in DOMAIN boxes :
           j # k /\ f[j] = f[k] /\ Overlap(boxes[j], boxes[k])
<1>1. /\ Len(boxes) \in Nat /\ DOMAIN boxes = 1..Len(boxes) /\ Len(boxes) > 0
      /\ \A k \in DOMAIN boxes : boxes[k] \in Box
      /\ i = Len(boxes) + 1 /\ nColumns \in Nat
  <2>1. boxes \in Seq(Box) /\ i = Len(boxes) + 1 /\ nColumns \in Nat
    BY DEF LayoutInv, TypeOK, PlacedLater
  <2> QED
    BY <2>1
<1>2. Placed = DOMAIN boxes
  BY <1>1 DEF Placed
<1>3. {columns[k] : k \in DOMAIN boxes} = 0..nColumns - 1
  BY <1>2 DEF LayoutInv, ColumnsDrawn
<1>4. nColumns > 0
  <2>1. columns[1] \in 0..nColumns - 1
    BY <1>1, <1>3
  <2> QED
    BY <1>1, <2>1
<1>5. PICK k \in DOMAIN boxes : columns[k] = nColumns - 1
  <2>1. nColumns - 1 \in 0..nColumns - 1
    BY <1>1, <1>4
  <2> QED
    BY <1>3, <2>1
<1> DEFINE S == Beside(k) \cup {k}
<1>6. S \subseteq DOMAIN boxes /\ k \notin Beside(k)
  BY <1>1 DEF Beside
<1>7. IsFiniteSet(Beside(k)) /\ Cardinality(Beside(k)) \in Nat
  <2>1. IsFiniteSet(1..Len(boxes))
    BY <1>1, FS_Interval
  <2>2. Beside(k) \in SUBSET (1..Len(boxes))
    BY <1>1 DEF Beside
  <2> QED
    BY <2>1, <2>2, FS_Subset, FS_CardinalityType
<1>8. IsFiniteSet(S) /\ Cardinality(S) = Cardinality(Beside(k)) + 1
  BY <1>6, <1>7, FS_AddElement
<1>9. Cardinality(Beside(k)) >= nColumns - 1
  <2>1. columns[k] <= Cardinality(Beside(k))
    BY <1>2 DEF LayoutInv, NoColumnWasted
  <2> QED
    BY <1>1, <1>5, <1>7, <2>1
<1>10. IsFiniteSet(0..nColumns - 2) /\ Cardinality(0..nColumns - 2) = nColumns - 1
  <2>1. 0 \in Int /\ nColumns - 2 \in Int
    BY <1>1
  <2>2. /\ IsFiniteSet(0..nColumns - 2)
        /\ Cardinality(0..nColumns - 2) =
             IF 0 > nColumns - 2 THEN 0 ELSE (nColumns - 2) - 0 + 1
    BY ONLY <2>1, FS_Interval
  <2> QED
    BY <1>1, <1>4, <2>2
<1> DEFINE g == [x \in S |-> f[x]]
<1>11. g \in [S -> 0..nColumns - 2]
  BY <1>6
<1>12. ASSUME NEW x \in S
       PROVE  /\ boxes[x].top \in Int /\ boxes[x].top <= boxes[k].top
              /\ Bottom(boxes[x]) \in Int /\ Bottom(boxes[x]) > boxes[k].top
  <2>1. boxes[x].top \in Int /\ DrawnHeight(boxes[x]) \in Int
        /\ Bottom(boxes[x]) \in Int /\ boxes[k].top \in Int
    BY <1>1, <1>6, BoxTypes
  <2>2. CASE x = k
    <3>1. DrawnHeight(boxes[k]) > 0
      <4>1. boxes[k].height \in Int
        BY <1>1, BoxTypes
      <4> QED
        BY <4>1, LayoutAssumption DEF DrawnHeight
    <3> QED
      BY <2>1, <2>2, <3>1 DEF Bottom
  <2>3. CASE x \in Beside(k)
    <3>1. x \in DOMAIN boxes /\ x < k /\ Bottom(boxes[x]) > boxes[k].top
      BY <2>3 DEF Beside
    <3>2. Higher(boxes[x], boxes[k]) \/ boxes[x].top = boxes[k].top
      BY <3>1 DEF LayoutInv, InOrder
    <3> QED
      BY <2>1, <3>1, <3>2 DEF Higher
  <2> QED
    BY <2>2, <2>3
<1>13. PICK x \in S, y \in S : x # y /\ g[x] = g[y]
  <2> HIDE DEF g, S
  <2>1. Cardinality(0..nColumns - 2) < Cardinality(S)
    BY <1>1, <1>7, <1>8, <1>9, <1>10
  <2> QED
    BY <1>8, <1>10, <1>11, <2>1, FS_PigeonHole
<1>14. Overlap(boxes[x], boxes[y])
  <2>1. /\ boxes[x].top \in Int /\ boxes[x].top <= boxes[k].top
        /\ Bottom(boxes[x]) \in Int /\ Bottom(boxes[x]) > boxes[k].top
        /\ boxes[y].top \in Int /\ boxes[y].top <= boxes[k].top
        /\ Bottom(boxes[y]) \in Int /\ Bottom(boxes[y]) > boxes[k].top
    BY <1>12
  <2>2. boxes[k].top \in Int
    BY <1>1, BoxTypes
  <2> QED
    BY <2>1, <2>2 DEF Overlap
<1> QED
  BY <1>6, <1>13, <1>14

(* No other way to put the boxes in columns without overlap needs fewer    *)
(* columns, if boxes have a height as drawn (the page passes 20 minutes).  *)
THEOREM FirstFitBest ==
  ASSUME minHeight > 0
  PROVE  Spec => []FewestColumns
<1>1. LayoutInv => FewestColumns
  BY Crowded DEF FewestColumns
<1> QED
  BY <1>1, LayoutInvariance, PTL

(* The page draws exactly the columns that hold a box.                     *)
THEOREM ColumnsAllDrawn == Spec => []ColumnsDrawn
<1>1. LayoutInv => ColumnsDrawn
  BY DEF LayoutInv
<1> QED
  BY <1>1, LayoutInvariance, PTL

(* The function panics only when a box begins before 1970, and returns     *)
(* only when none does.                                                    *)
THEOREM PanicCondition == Spec => []PanicsBeforeEpoch
<1>1. LayoutInv => PanicsBeforeEpoch
  <2> SUFFICES ASSUME LayoutInv PROVE PanicsBeforeEpoch
    OBVIOUS
  <2>1. pc = "panic" => \E k \in DOMAIN boxes : boxes[k].top < 0
    BY DEF LayoutInv, PlacedLater
  <2>2. ASSUME pc = "done", NEW k \in DOMAIN boxes PROVE ~(boxes[k].top < 0)
    <3>1. i = Len(boxes) + 1 /\ boxes \in Seq(Box)
      BY <2>2 DEF LayoutInv, PlacedLater, TypeOK
    <3>2. k \in Placed /\ boxes[k] \in Box
      BY <3>1 DEF Placed
    <3>3. boxes[k].top >= 0 /\ boxes[k].top \in Int
      BY <3>2, BoxTypes DEF LayoutInv, PlacedLater
    <3> QED
      BY <3>3
  <2> QED
    BY <2>1, <2>2 DEF PanicsBeforeEpoch
<1> QED
  BY <1>1, LayoutInvariance, PTL

-----------------------------------------------------------------------------
(* The function returns: that it takes its steps is fairness, and is left  *)
(* to the run; that it cannot take them for ever is proved here.           *)

(* A bound on the steps to the return or the panic: a box is tried in at   *)
(* most as many columns as there are boxes.                                *)
StepsLeft ==
  (Len(boxes) + 1 - i) * (Len(boxes) + 2) - column
  + CASE pc = "sortByHeight" -> 3
      [] pc = "sortByTop" -> 2
      [] pc = "place" -> 1
      [] OTHER -> 0

(* The search stays within the slice, or has just run off it, and begins   *)
(* anew for every box.                                                     *)
SearchBounded ==
  /\ column <= Len(boxes)
  /\ i = Len(boxes) + 1 => column = 0

BoundedInv == LayoutInv /\ SearchBounded

LEMMA BoundedTypes ==
  ASSUME BoundedInv
  PROVE  /\ Len(boxes) \in Nat /\ DOMAIN boxes = 1..Len(boxes)
         /\ i \in Nat \ {0} /\ column \in Nat
         /\ i <= Len(boxes) + 1 /\ column <= Len(boxes)
         /\ i = Len(boxes) + 1 => column = 0
         /\ DOMAIN columnBottoms = 0..Len(boxes) - 1
BY DEF BoundedInv, SearchBounded, LayoutInv, TypeOK, PlacedLater

LEMMA Rows ==
  ASSUME NEW n \in Nat, NEW w \in Nat, n > 0
  PROVE  n * w = (n - 1) * w + w /\ (n - 1) * w \in Nat /\ n * w \in Nat
OBVIOUS

(* There are steps left as long as a box is: never less than none.         *)
LEMMA TrialsLeft ==
  ASSUME NEW l \in Nat, NEW j \in Nat \ {0}, NEW c \in Nat,
         j <= l + 1, c <= l, j = l + 1 => c = 0
  PROVE  (l + 1 - j) * (l + 2) - c \in Nat
<1>1. CASE j = l + 1
  BY <1>1
<1>2. CASE j < l + 1
  <2> DEFINE n == l + 1 - j
             w == l + 2
  <2>1. n \in Nat /\ n > 0 /\ w \in Nat /\ c < w
    BY <1>2
  <2> HIDE DEF n, w
  <2>2. n * w = (n - 1) * w + w /\ (n - 1) * w \in Nat
    BY <2>1, Rows
  <2>3. n * w - c \in Nat
    BY <2>1, <2>2
  <2> QED
    BY <2>3 DEF n, w
<1> QED
  BY <1>1, <1>2

LEMMA StepBounded == BoundedInv /\ [Next]_vars => BoundedInv'
<1> SUFFICES ASSUME BoundedInv, [Next]_vars PROVE BoundedInv'
  OBVIOUS
<1>1. LayoutInv'
  BY StepLayout DEF BoundedInv
<1>2. /\ Len(boxes) \in Nat /\ i \in Nat \ {0} /\ column \in Nat
      /\ DOMAIN boxes = 1..Len(boxes)
      /\ i <= Len(boxes) + 1 /\ column <= Len(boxes)
      /\ i = Len(boxes) + 1 => column = 0
      /\ DOMAIN columnBottoms = 0..Len(boxes) - 1
  BY BoundedTypes
<1>3. CASE SortByHeight \/ SortByTop
  <2>1. /\ column' = column /\ i' = i
        /\ \E p \in Orders : boxes' = [k \in DOMAIN boxes |-> boxes[p[k]]]
    BY <1>3 DEF SortByHeight, SortByTop, StableSort
  <2>2. Len(boxes') = Len(boxes)
    BY <2>1, Rearranged DEF BoundedInv, LayoutInv
  <2> QED
    BY <1>1, <1>2, <2>1, <2>2 DEF BoundedInv, SearchBounded
<1>4. CASE NextColumn
  BY <1>1, <1>2, <1>4 DEF NextColumn, Placing, BoundedInv, SearchBounded
<1>5. CASE PlaceBox
  BY <1>1, <1>2, <1>5 DEF PlaceBox, BoundedInv, SearchBounded
<1>6. CASE Panic \/ Return \/ Stopped \/ UNCHANGED vars
  <2>1. UNCHANGED <<boxes, i, column>>
    BY <1>6 DEF Panic, Return, Stopped, vars
  <2> QED
    BY <1>1, <1>2, <2>1 DEF BoundedInv, SearchBounded
<1> QED
  BY <1>3, <1>4, <1>5, <1>6 DEF Next, Step

LEMMA StepShortens == BoundedInv /\ Step => StepsLeft' < StepsLeft
<1> SUFFICES ASSUME BoundedInv, Step PROVE StepsLeft' < StepsLeft
  OBVIOUS
<1>1. /\ Len(boxes) \in Nat /\ i \in Nat \ {0} /\ column \in Nat
      /\ DOMAIN boxes = 1..Len(boxes)
      /\ column <= Len(boxes)
      /\ DOMAIN columnBottoms = 0..Len(boxes) - 1
  BY BoundedTypes
<1> DEFINE n == Len(boxes) + 1 - i
           w == Len(boxes) + 2
<1>2. CASE SortByHeight \/ SortByTop
  <2>1. /\ column' = column /\ i' = i
        /\ \E p \in Orders : boxes' = [k \in DOMAIN boxes |-> boxes[p[k]]]
    BY <1>2 DEF SortByHeight, SortByTop, StableSort
  <2>2. Len(boxes') = Len(boxes)
    BY <2>1, Rearranged DEF BoundedInv, LayoutInv
  <2>3. \/ pc = "sortByHeight" /\ pc' = "sortByTop"
        \/ pc = "sortByTop" /\ pc' = "place"
    BY <1>2 DEF SortByHeight, SortByTop
  <2>4. n * w - column \in Int
    BY <1>1
  <2> QED
    BY <2>1, <2>2, <2>3, <2>4 DEF StepsLeft
<1>3. CASE NextColumn
  <2>1. column' = column + 1 /\ UNCHANGED <<boxes, i, pc>> /\ pc = "place"
    BY <1>3 DEF NextColumn, Placing
  <2>2. n * w \in Int
    BY <1>1
  <2> QED
    BY <1>1, <2>1, <2>2 DEF StepsLeft
<1>4. CASE Panic \/ Return
  <2>1. UNCHANGED <<boxes, i, column>> /\ pc = "place" /\ pc' \in {"panic", "done"}
    BY <1>4 DEF Panic, Return, Placing
  <2>2. n * w - column \in Int
    BY <1>1
  <2> QED
    BY <2>1, <2>2 DEF StepsLeft
<1>5. CASE PlaceBox
  <2>1. /\ i \in DOMAIN boxes /\ i' = i + 1 /\ column' = 0
        /\ boxes' = boxes /\ pc' = pc /\ pc = "place"
        /\ column \in DOMAIN columnBottoms
    BY <1>5 DEF PlaceBox, Placing
  <2>2. n \in Nat /\ n > 0 /\ w \in Nat /\ column < w
    BY <1>1, <2>1
  <2>3. n * w = (n - 1) * w + w /\ (n - 1) * w \in Nat
    BY <2>2, Rows
  <2>4. Len(boxes') + 1 - i' = n - 1 /\ Len(boxes') + 2 = w
    BY <1>1, <2>1
  <2>5. StepsLeft' = (n - 1) * w - 0 + 1 /\ StepsLeft = n * w - column + 1
    BY <2>1, <2>4 DEF StepsLeft
  <2> HIDE DEF n, w
  <2> QED
    BY <1>1, <2>2, <2>3, <2>5
<1> QED
  BY <1>2, <1>3, <1>4, <1>5 DEF Step

(* Every step of Layout leaves fewer steps to take, from a number that the *)
(* length of the slice bounds: no slice makes the search go on for ever.   *)
THEOREM SearchEnds ==
  Spec => [][Step => StepsLeft' \in Nat /\ StepsLeft' < StepsLeft]_vars
<1>1. Init => BoundedInv
  <2> SUFFICES ASSUME Init PROVE BoundedInv
    OBVIOUS
  <2>1. boxes \in Seq(Box) /\ Len(boxes) \in Nat
    BY LayoutAssumption DEF Init
  <2> QED
    BY <2>1, InitLayout DEF Init, BoundedInv, SearchBounded
<1>2. BoundedInv /\ BoundedInv' /\ [Next]_vars =>
        [Step => StepsLeft' \in Nat /\ StepsLeft' < StepsLeft]_vars
  <2> SUFFICES ASSUME BoundedInv, BoundedInv', Step
               PROVE  StepsLeft' \in Nat /\ StepsLeft' < StepsLeft
    OBVIOUS
  <2>1. /\ Len(boxes') \in Nat /\ i' \in Nat \ {0} /\ column' \in Nat
        /\ i' <= Len(boxes') + 1 /\ column' <= Len(boxes')
        /\ i' = Len(boxes') + 1 => column' = 0
    BY DEF BoundedInv, SearchBounded, LayoutInv, TypeOK, PlacedLater
  <2>2. (Len(boxes') + 1 - i') * (Len(boxes') + 2) - column' \in Nat
    BY <2>1, TrialsLeft
  <2>3. StepsLeft' \in Nat
    BY <2>2 DEF StepsLeft
  <2> QED
    BY <2>3, StepShortens
<1> QED
  BY <1>1, <1>2, StepBounded, PTL DEF Spec

(* What Layout returns has a column for every box that was passed.         *)
THEOREM ReturnsAllPlaced == Spec => [](pc = "done" => Placed = DOMAIN boxes)
<1>1. LayoutInv => (pc = "done" => Placed = DOMAIN boxes)
  <2> SUFFICES ASSUME LayoutInv, pc = "done" PROVE Placed = DOMAIN boxes
    OBVIOUS
  <2>1. boxes \in Seq(Box) /\ i = Len(boxes) + 1
    BY DEF LayoutInv, TypeOK, PlacedLater
  <2>2. Len(boxes) \in Nat /\ DOMAIN boxes = 1..Len(boxes)
    BY <2>1
  <2> QED
    BY <2>1, <2>2 DEF Placed
<1> QED
  BY <1>1, LayoutInvariance, PTL

=============================================================================
