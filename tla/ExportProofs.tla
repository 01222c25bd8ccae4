---------------------------- MODULE ExportProofs -----------------------------
(***************************************************************************)
(* Proof that an export, which pages through a window of rows while others *)
(* write, has each row of the window once.                                 *)
(***************************************************************************)
EXTENDS ViewsProofs

-----------------------------------------------------------------------------
(* Pages of rows.                                                          *)

(* Two pages in a row, the second from where the first ends, are one page. *)
LEMMA NextPage ==
  ASSUME NEW rows \in SUBSET Nat, IsFiniteSet(rows),
         NEW offset \in Nat, NEW limit \in Nat
  PROVE  LET first == PageOf(rows, offset, 0)
             second == PageOf(rows, limit, offset)
         IN  /\ PageOf(rows, offset + limit, 0) = first \cup second
             /\ first \cap second = {}
<1> DEFINE rank(x) == Cardinality({y \in rows : y < x})
<1>1. \A x \in rows : rank(x) \in Nat
  BY FS_Subset, FS_CardinalityType
<1>2. /\ PageOf(rows, offset, 0) = {x \in rows : rank(x) \in 0..0 + offset - 1}
      /\ PageOf(rows, limit, offset) =
           {x \in rows : rank(x) \in offset..offset + limit - 1}
      /\ PageOf(rows, offset + limit, 0) =
           {x \in rows : rank(x) \in 0..0 + (offset + limit) - 1}
  BY DEF PageOf
<1> HIDE DEF rank
<1>3. ASSUME NEW x \in rows
      PROVE  /\ rank(x) \in 0..0 + (offset + limit) - 1 <=>
                  \/ rank(x) \in 0..0 + offset - 1
                  \/ rank(x) \in offset..offset + limit - 1
             /\ ~ /\ rank(x) \in 0..0 + offset - 1
                  /\ rank(x) \in offset..offset + limit - 1
  BY <1>1
<1> QED
  BY <1>2, <1>3

(* Rows that are added behind all others leave a full page as it is.       *)
LEMMA NewerRows ==
  ASSUME NEW rows \in SUBSET Nat, NEW more \in SUBSET Nat, IsFiniteSet(more),
         rows \subseteq more,
         \A x \in more \ rows : \A y \in rows : x > y,
         NEW n \in Nat, Cardinality(PageOf(rows, n, 0)) = n
  PROVE  PageOf(more, n, 0) = PageOf(rows, n, 0)
<1> DEFINE ps == PageOf(rows, n, 0)
<1>a. \A x \in more : x \in Int
  OBVIOUS
<1>1. ASSUME NEW x \in rows
      PROVE  {y \in more : y < x} = {y \in rows : y < x}
  <2>1. ASSUME NEW y \in more, y < x PROVE y \in rows
    <3>1. x \in Int /\ y \in Int
      BY <1>a
    <3>2. ~(y > x)
      BY <2>1, <3>1
    <3> QED
      BY <3>2
  <2> QED
    BY <2>1
<1>2. ASSUME NEW x \in more \ rows
      PROVE  ~(Cardinality({y \in more : y < x}) \in 0..0 + n - 1)
  <2> DEFINE earlier == {y \in more : y < x}
  <2>1. ps \subseteq earlier
    <3>1. ps \subseteq rows
      BY PageOfRows
    <3>2. ASSUME NEW y \in rows PROVE y \in more /\ y < x
      <4>1. x \in Int /\ y \in Int /\ x > y
        BY <1>a
      <4> QED
        BY <4>1
    <3> HIDE DEF ps
    <3> QED
      BY <3>1, <3>2
  <2>2. IsFiniteSet(earlier)
    BY FS_Subset
  <2>3. Cardinality(earlier) \in Nat /\ n <= Cardinality(earlier)
    BY <2>1, <2>2, FS_Subset, FS_CardinalityType
  <2> HIDE DEF earlier
  <2> QED
    <3>1. ~(Cardinality(earlier) \in 0..0 + n - 1)
      BY <2>3
    <3> QED
      BY <3>1 DEF earlier
<1>3. /\ PageOf(more, n, 0) =
           {x \in more : Cardinality({y \in more : y < x}) \in 0..0 + n - 1}
      /\ ps = {x \in rows : Cardinality({y \in rows : y < x}) \in 0..0 + n - 1}
  BY DEF PageOf
<1> HIDE DEF ps
<1>4. \A x : x \in PageOf(more, n, 0) <=> x \in ps
  BY <1>1, <1>2, <1>3
<1> QED
  BY <1>4 DEF ps

-----------------------------------------------------------------------------
(* The window while rows are written.                                      *)

InWindow == Window(page.name, acts, plans, page.now)

LEMMA WindowFinite ==
  ASSUME NEW log \in Seq(ActivityRow), NEW ps \in Seq(PlanRow), NEW name, NEW now
  PROVE  /\ Window(name, log, ps, now) \in SUBSET Nat
         /\ IsFiniteSet(Window(name, log, ps, now))
<1>1. Len(log) \in Nat /\ Len(ps) \in Nat
  OBVIOUS
<1>2. /\ IsFiniteSet(DOMAIN log) /\ IsFiniteSet(DOMAIN ps)
      /\ DOMAIN log \subseteq Nat /\ DOMAIN ps \subseteq Nat
  <2>1. IsFiniteSet(1..Len(log)) /\ IsFiniteSet(1..Len(ps))
    BY <1>1, FS_Interval
  <2>2. DOMAIN log = 1..Len(log) /\ DOMAIN ps = 1..Len(ps)
    OBVIOUS
  <2> QED
    BY <1>1, <2>1, <2>2
<1>3. \/ Window(name, log, ps, now) \subseteq DOMAIN log
      \/ Window(name, log, ps, now) \subseteq DOMAIN ps
  BY DEF Window, RangeActivities, RangePlans
<1> QED
  BY <1>2, <1>3, FS_Subset

(* The export whose rows are counted on.                                   *)
Counted == page.name = "plans" \/ page.still

LEMMA WindowGrows ==
  ASSUME ViewsInv, Write, Reads("export"), Counted'
  PROVE  /\ Counted
         /\ page' = [page EXCEPT !.still = page'.still]
         /\ InWindow \subseteq InWindow'
         /\ \A x \in InWindow' \ InWindow : \A y \in InWindow : x > y
<1> DEFINE now == page.now
<1>1. page \in Exporting
  BY PageShape DEF ViewsInv
<1>2. page' = [page EXCEPT !.still = page.still /\ WindowStill]
  BY DEF Write
<1>3. /\ page' = [page EXCEPT !.still = page'.still]
      /\ page'.still = (page.still /\ WindowStill)
      /\ page'.name = page.name /\ page'.now = page.now
  BY <1>1, <1>2 DEF Exporting
<1>4. RowsStay /\ TypeOK /\ TypeOK'
  BY StepRows, StepConsistent DEF ViewsInv, Write, Consistent
<1>5. CASE page.name = "plans"
  <2>1. InWindow = RangePlans(plans, Earliest, now)
    BY <1>5 DEF InWindow, Window
  <2>2. InWindow' = RangePlans(plans', Earliest, now)
    BY <1>3, <1>5 DEF InWindow, Window
  <2>3. \A p \in DOMAIN plans :
          p \in RangePlans(plans, Earliest, now)
            <=> p \in RangePlans(plans', Earliest, now)
    BY <1>4 DEF RowsStay, RangePlans
  <2>4. ASSUME NEW p \in (DOMAIN plans') \ DOMAIN plans, NEW q \in DOMAIN plans
        PROVE  p > q
    <3>1. /\ DOMAIN plans = 1..Len(plans) /\ Len(plans) \in Nat
          /\ DOMAIN plans' = 1..Len(plans') /\ Len(plans') \in Nat
      BY <1>4 DEF TypeOK
    <3> QED
      BY <3>1
  <2>5. /\ RangePlans(plans, Earliest, now) \subseteq DOMAIN plans
        /\ RangePlans(plans', Earliest, now) \subseteq DOMAIN plans'
    BY DEF RangePlans
  <2> QED
    BY <1>3, <1>5, <2>1, <2>2, <2>3, <2>4, <2>5 DEF Counted
<1>6. CASE page.name # "plans"
  <2>1. page.name = "activities"
    BY <1>1, <1>6 DEF Exporting
  <2>2. page.still /\ WindowStill
    BY <1>3, <1>6 DEF Counted
  <2>3. InWindow' = Window(page.name, acts', plans', now)
    BY <1>3 DEF InWindow
  <2>4. InWindow' \cap DOMAIN acts = InWindow
    BY <2>1, <2>2, <2>3 DEF WindowStill, InWindow
  <2>5. InWindow' \subseteq DOMAIN acts'
    BY <2>1, <2>3 DEF Window, RangeActivities
  <2> QED
    BY <1>3, <1>4, <2>2, <2>4, <2>5 DEF RowsStay, Counted
<1> QED
  BY <1>5, <1>6

-----------------------------------------------------------------------------
(* The inductive invariant: an export has read the first rows of the       *)
(* window, as many as its offset, none twice, and no row has left.         *)
ExportSound ==
  Reads("export") /\ Counted =>
    /\ page.had \subseteq InWindow
    /\ page.got = PageOf(InWindow, page.offset, 0)
    /\ Cardinality(page.got) = page.offset
    /\ page.twice = {}

ExportInv == ExportSound /\ ExportExact

(* The other pages are no export.                                          *)
LEMMA NoExport ==
  ASSUME page.pc \notin {"export", "exported"}
  PROVE  ExportInv
BY DEF ExportInv, ExportSound, ExportExact, Reads

LEMMA BeginExport ==
  ASSUME ViewsInv, getRDF, UNCHANGED vars
  PROVE  ExportInv'
<1>1. PICK name \in {"activities", "plans"}, now \in Time :
        page' = [pc |-> "export", name |-> name, now |-> now, offset |-> 0,
                 got |-> {}, twice |-> {}, had |-> Window(name, acts, plans, now),
                 still |-> TRUE]
  BY DEF getRDF
<1> DEFINE W == Window(name, acts, plans, now)
<1>2. InWindow' = W
  BY <1>1 DEF InWindow, vars, tables
<1>3. PageOf(W, 0, 0) = {}
  <2>1. \A n : ~(n \in 0..0 + 0 - 1)
    OBVIOUS
  <2> QED
    BY <2>1 DEF PageOf
<1>4. page'.pc = "export" /\ page'.had = W /\ page'.got = {}
      /\ page'.offset = 0 /\ page'.twice = {}
  BY <1>1
<1> HIDE DEF W
<1> QED
  BY <1>2, <1>3, <1>4, FS_EmptySet DEF ExportInv, ExportSound, ExportExact, Reads

(* One page of rows more.                                                  *)
LEMMA StepExport ==
  ASSUME ViewsInv, ExportInv, mergeWindowToGraph, UNCHANGED vars
  PROVE  ExportInv'
<1> DEFINE offset == page.offset
           L1 == WindowLength
           rows == PageOf(InWindow, L1, offset)
           next == IF Cardinality(rows) < L1 THEN "exported" ELSE "export"
<1>a. TypeOK /\ Reads("export")
  BY DEF ViewsInv, Consistent, mergeWindowToGraph
<1>b. page \in Exporting /\ offset \in Nat /\ L1 \in Nat
  BY <1>a, PageShape, LimitsAssumption DEF ViewsInv, Exporting
<1>c. InWindow \in SUBSET Nat /\ IsFiniteSet(InWindow)
  BY <1>a, WindowFinite DEF InWindow, TypeOK
<1>1. page' = [page EXCEPT !.pc = next,
                 !.offset = offset + L1,
                 !.got = page.got \cup rows,
                 !.twice = page.twice \cup (page.got \cap rows)]
  BY DEF mergeWindowToGraph, InWindow
<1> HIDE DEF rows, next
<1>2. /\ page'.pc = next /\ page'.offset = offset + L1
      /\ page'.got = page.got \cup rows
      /\ page'.twice = page.twice \cup (page.got \cap rows)
      /\ page'.name = page.name /\ page'.now = page.now
      /\ page'.had = page.had /\ page'.still = page.still
  BY <1>b, <1>1 DEF Exporting
<1>3. InWindow' = InWindow /\ (Counted' <=> Counted)
  BY <1>2 DEF InWindow, Counted, vars, tables
<1>4. CASE ~Counted
  BY <1>3, <1>4 DEF ExportInv, ExportSound, ExportExact, Counted
<1>5. CASE Counted
  <2>1. /\ page.had \subseteq InWindow
        /\ page.got = PageOf(InWindow, offset, 0)
        /\ Cardinality(page.got) = offset
        /\ page.twice = {}
    BY <1>a, <1>5 DEF ExportInv, ExportSound
  <2>2. /\ page'.got = PageOf(InWindow, offset + L1, 0)
        /\ page.got \cap rows = {}
    BY <1>b, <1>c, <1>2, <2>1, NextPage DEF rows
  <2>3. Cardinality(page'.got) = offset + Cardinality(rows)
    <3>1. IsFiniteSet(page.got) /\ IsFiniteSet(rows)
      BY <1>c, <2>1, PageOfRows, FS_Subset DEF rows
    <3>2. Cardinality(page.got \cap rows) = 0
      BY <2>2, FS_EmptySet
    <3>3. Cardinality(rows) \in Nat
      BY <3>1, FS_CardinalityType
    <3>4. Cardinality(page.got \cup rows) =
            Cardinality(page.got) + Cardinality(rows) - Cardinality(page.got \cap rows)
      BY <3>1, FS_Union
    <3> QED
      BY <1>b, <1>2, <2>1, <3>2, <3>3, <3>4
  <2>4. Cardinality(rows) \in Nat /\ Cardinality(rows) <= L1
    <3>1. Cardinality(page'.got) <= offset + L1
      BY <1>b, <1>c, <2>2, PageFits
    <3>2. Cardinality(rows) \in Nat
      BY <1>c, PageOfRows, FS_Subset, FS_CardinalityType DEF rows
    <3> QED
      BY <1>b, <2>3, <3>1, <3>2
  <2>5. page'.twice = {}
    BY <1>2, <2>1, <2>2
  <2>6. CASE next = "export"
    <3>1. Cardinality(rows) = L1
      BY <1>b, <2>4, <2>6 DEF next
    <3>2. Cardinality(page'.got) = page'.offset
      BY <1>2, <2>3, <3>1
    <3> QED
      BY <1>2, <1>3, <2>1, <2>2, <2>5, <2>6, <3>2
         DEF ExportInv, ExportSound, ExportExact, Reads
  <2>7. CASE next = "exported"
    <3>1. Cardinality(rows) < L1
      BY <2>7 DEF next
    <3>2. Cardinality(page'.got) # offset + L1
      BY <1>b, <2>3, <2>4, <3>1
    <3>3. page'.got = InWindow
      BY <1>b, <1>c, <2>2, <3>2, ShortPage
    <3> QED
      BY <1>2, <2>1, <2>5, <2>7, <3>3
         DEF ExportInv, ExportSound, ExportExact, Reads
  <2> QED
    BY <2>6, <2>7 DEF next
<1> QED
  BY <1>4, <1>5

(* A write while an export runs, or after it.                              *)
LEMMA WriteExport ==
  ASSUME ViewsInv, ExportInv, Write
  PROVE  ExportInv'
<1>1. CASE ~Reads("export")
  <2>1. page' = page
    BY <1>1 DEF Write
  <2> QED
    BY <1>1, <2>1 DEF ExportInv, ExportSound, ExportExact, Reads
<1>2. CASE Reads("export")
  <2>1. page \in Exporting
    BY <1>2, PageShape DEF ViewsInv
  <2>2. page' = [page EXCEPT !.still = page.still /\ WindowStill]
    BY <1>2 DEF Write
  <2>3. /\ page'.pc = "export" /\ page'.had = page.had /\ page'.got = page.got
        /\ page'.offset = page.offset /\ page'.twice = page.twice
    BY <1>2, <2>1, <2>2 DEF Exporting, Reads
  <2>4. ASSUME Counted'
        PROVE  /\ page.had \subseteq InWindow'
               /\ page.got = PageOf(InWindow', page.offset, 0)
               /\ Cardinality(page.got) = page.offset
               /\ page.twice = {}
    <3>1. /\ Counted /\ InWindow \subseteq InWindow'
          /\ \A x \in InWindow' \ InWindow : \A y \in InWindow : x > y
      BY <1>2, <2>4, WindowGrows
    <3>2. /\ page.had \subseteq InWindow
          /\ page.got = PageOf(InWindow, page.offset, 0)
          /\ Cardinality(page.got) = page.offset
          /\ page.twice = {}
      BY <1>2, <3>1 DEF ExportInv, ExportSound
    <3>3. InWindow \in SUBSET Nat
      BY WindowFinite DEF ViewsInv, Consistent, TypeOK, InWindow
    <3>4. InWindow' \in SUBSET Nat /\ IsFiniteSet(InWindow')
      <4>1. acts' \in Seq(ActivityRow) /\ plans' \in Seq(PlanRow)
        BY StepConsistent DEF ViewsInv, Write, Consistent, TypeOK
      <4> QED
        BY <4>1, WindowFinite DEF InWindow
    <3>5. page.offset \in Nat
      BY <2>1 DEF Exporting
    <3> QED
      BY <3>1, <3>2, <3>3, <3>4, <3>5, NewerRows
  <2> QED
    BY <2>3, <2>4 DEF ExportInv, ExportSound, ExportExact, Reads
<1> QED
  BY <1>1, <1>2

(* Each other page begins with another SELECT.                             *)
LEMMA OtherPages ==
  ASSUME ViewsInv, Read, ~getRDF, ~mergeWindowToGraph
  PROVE  page'.pc \notin {"export", "exported"}
<1>1. CASE dayView \/ SelectPlans \/ SelectTasks \/ activityView \/ activityLatest
  BY <1>1 DEF dayView, SelectPlans, SelectTasks, activityView, activityLatest
<1>2. CASE TaskGet
  <2>1. PICK t \in page.follow :
          page' = IF t \in DOMAIN tasks
                    THEN [pc |-> "TaskGet", follow |-> page.follow \ {t}]
                    ELSE [pc |-> "not found"]
    BY <1>2 DEF TaskGet
  <2> QED
    BY <2>1
<1>3. CASE taskView \/ TaskGetActivities \/ Leave
  BY <1>3 DEF taskView, TaskGetActivities, Leave, NoPage
<1>4. CASE TaskGetPlans
  BY <1>4 DEF TaskGetPlans
<1>5. CASE undoneTasks
  BY <1>5 DEF undoneTasks
<1> QED
  BY <1>1, <1>2, <1>3, <1>4, <1>5 DEF Read

LEMMA StepExportInv == ViewsInv /\ ExportInv /\ [ViewsNext]_<<vars, page>> => ExportInv'
<1> SUFFICES ASSUME ViewsInv, ExportInv, [ViewsNext]_<<vars, page>> PROVE ExportInv'
  OBVIOUS
<1>1. CASE UNCHANGED <<vars, page>>
  BY <1>1 DEF ExportInv, ExportSound, ExportExact, Reads, Counted, InWindow,
     vars, tables
<1>2. CASE Read /\ UNCHANGED vars /\ ~getRDF /\ ~mergeWindowToGraph
  BY <1>2, OtherPages DEF ExportInv, ExportSound, ExportExact, Reads
<1> QED
  BY <1>1, <1>2, BeginExport, StepExport, WriteExport DEF ViewsNext

(* An export has each plan of the window once, however often the tables    *)
(* are written between its pages, and each activity, unless an edit moves  *)
(* one into or out of the window meanwhile.                                *)
THEOREM ExportsExact == ViewsSpec => []ExportExact
<1>1. ViewsInit => ExportInv
  BY NoExport DEF ViewsInit, NoPage
<1>2. ExportInv => ExportExact
  BY DEF ExportInv
<1> QED
  BY <1>1, <1>2, ViewsInvariance, StepExportInv, PTL DEF ViewsSpec

=============================================================================
