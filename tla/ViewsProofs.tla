----------------------------- MODULE ViewsProofs -----------------------------
(***************************************************************************)
(* Proofs about the pages that Views builds from several SELECTs, whatever *)
(* any number of requests write in between.                                *)
(***************************************************************************)
EXTENDS Views, ServerProofs, FiniteSetTheorems

(* What a page between two SELECTs may still rely on.                      *)
PageSound ==
  /\ ~Reads("not found")
  /\ Reads("TaskGet") => page.follow \subseteq DOMAIN tasks
  /\ Reads("RangeTasks") =>
       \A t \in page.plans :
         /\ t \in DOMAIN tasks
         /\ \E p \in RangePlans(plans, page.lo, page.hi) : plans[p].task = t
  /\ Reads("TaskGetPlans") =>
       /\ page.activities \subseteq DOMAIN acts
       /\ \A a \in ActivitiesOf(acts, page.task) :
            a \in page.activities \/ \A b \in page.activities : a > b
  /\ DayPlansKnown
  /\ TaskPageBehind

(* The inductive invariant.                                                *)
ViewsInv ==
  /\ Consistent
  /\ TimesFresh
  /\ page \in Pages
  /\ PageSound

(* What the page reads next tells what it holds.                           *)
LEMMA PageShape ==
  ASSUME page \in Pages
  PROVE  /\ Reads("TaskGet") => page \in Following
         /\ Reads("RangePlans") => page \in ReadingPlans
         /\ Reads("RangeTasks") => page \in ReadingTasks
         /\ Reads("TaskGetActivities") => page \in ReadingActivities
         /\ Reads("TaskGetPlans") => page \in ReadingTaskPlans
         /\ Reads("export") => page \in Exporting
<1>1. /\ NoPage.pc = "none"
      /\ \A x \in ReadingPlans : x.pc = "RangePlans"
      /\ \A x \in ReadingTasks : x.pc = "RangeTasks"
      /\ \A x \in DayPage : x.pc = "day"
      /\ \A x \in Following : x.pc = "TaskGet"
      /\ \A x \in Refused : x.pc \in {"not found", "too many plans"}
  BY DEF NoPage, ReadingPlans, ReadingTasks, DayPage, Following, Refused
<1>2. /\ \A x \in ReadingActivities : x.pc = "TaskGetActivities"
      /\ \A x \in ReadingTaskPlans : x.pc = "TaskGetPlans"
      /\ \A x \in TaskPage : x.pc = "task"
      /\ \A x \in UndonePage : x.pc = "undone"
      /\ \A x \in Exporting : x.pc \in {"export", "exported"}
  BY DEF ReadingActivities, ReadingTaskPlans, TaskPage, UndonePage, Exporting
<1> QED
  BY <1>1, <1>2 DEF Pages, Reads

LEMMA NoPageSound == page = NoPage => PageSound
BY DEF NoPage, PageSound, Reads, DayPlansKnown, TaskPageBehind

(* Rows are numbered and typed.                                            *)
LEMMA RowsTyped ==
  ASSUME TypeOK
  PROVE  /\ DOMAIN tasks \subseteq RowId
         /\ \A a \in DOMAIN acts : a \in RowId /\ acts[a].task \in RowId
         /\ \A p \in DOMAIN plans :
              p \in RowId /\ plans[p].task \in RowId /\ plans[p].activity \in Nat
<1>1. /\ \A t \in DOMAIN tasks : t \in RowId
      /\ \A a \in DOMAIN acts : a \in RowId /\ acts[a] \in ActivityRow
      /\ \A p \in DOMAIN plans : p \in RowId /\ plans[p] \in PlanRow
  BY RowIds DEF TypeOK
<1> QED
  BY <1>1 DEF ActivityRow, PlanRow

LEMMA PageOfRows ==
  ASSUME NEW rows, NEW limit, NEW offset
  PROVE  PageOf(rows, limit, offset) \subseteq rows
BY DEF PageOf

LEMMA WindowRows ==
  ASSUME TypeOK, NEW name, NEW now
  PROVE  Window(name, acts, plans, now) \subseteq RowId
BY RowsTyped DEF Window, RangeActivities, RangePlans

LEMMA FoundFinite ==
  ASSUME TypeOK, NEW now
  PROVE  /\ IsFiniteSet(TaskSearch(tasks, acts, now))
         /\ Cardinality(TaskSearch(tasks, acts, now)) \in Nat
<1> DEFINE S == (DOMAIN tasks) \X (DOMAIN acts)
           T == (DOMAIN tasks) \X {0}
<1>1. DOMAIN tasks = 1..Len(tasks) /\ DOMAIN acts = 1..Len(acts)
  BY DEF TypeOK
<1>2. Len(tasks) \in Nat /\ Len(acts) \in Nat
  BY DEF TypeOK
<1>3. IsFiniteSet(DOMAIN tasks) /\ IsFiniteSet(DOMAIN acts) /\ IsFiniteSet({0})
  <2>1. IsFiniteSet(1..Len(tasks)) /\ IsFiniteSet(1..Len(acts))
    BY <1>2, FS_Interval
  <2>2. IsFiniteSet({0})
    BY FS_Singleton
  <2> QED
    BY <1>1, <2>1, <2>2
<1>4. IsFiniteSet(S \cup T)
  <2>1. IsFiniteSet(S) /\ IsFiniteSet(T)
    BY <1>3, FS_Product
  <2> QED
    BY <2>1, FS_Union
<1>5. TaskSearch(tasks, acts, now) \subseteq S \cup T
  <2>1. NotDoneJoin(tasks, acts) \subseteq S
    BY DEF NotDoneJoin
  <2>2. NoLogs(tasks, acts) \subseteq T
    BY DEF NoLogs
  <2> QED
    BY <2>1, <2>2 DEF TaskSearch
<1> QED
  BY <1>4, <1>5, FS_Subset, FS_CardinalityType

-----------------------------------------------------------------------------
(* Each SELECT, and each page that is begun or left.                       *)

LEMMA InitViews == ViewsInit => ViewsInv
<1> SUFFICES ASSUME ViewsInit PROVE ViewsInv
  OBVIOUS
<1>1. Consistent
  BY InitConsistent DEF ViewsInit
<1>2. TimesFresh
  BY DEF ViewsInit, Init, TimesFresh, At, Idle
<1>3. page = NoPage
  BY DEF ViewsInit
<1> QED
  BY <1>1, <1>2, <1>3, NoPageSound DEF ViewsInv, Pages

LEMMA ReadDay ==
  ASSUME ViewsInv, UNCHANGED vars, dayView \/ SelectPlans \/ SelectTasks
  PROVE  page' \in Pages /\ PageSound'
<1>a. TypeOK
  BY DEF ViewsInv, Consistent
<1>1. CASE dayView
  <2>1. PICK lo \in Time, hi \in Time :
          page' = [pc |-> "RangePlans", lo |-> lo, hi |-> hi,
                   activities |-> {acts[a].task : a \in RangeActivities(acts, lo, hi)}]
    BY <1>1 DEF dayView
  <2>2. {acts[a].task : a \in RangeActivities(acts, lo, hi)} \subseteq RowId
    BY <1>a, RowsTyped DEF RangeActivities
  <2>3. page' \in ReadingPlans
    BY <2>1, <2>2 DEF ReadingPlans
  <2>4. page'.pc = "RangePlans"
    BY <2>1
  <2> QED
    BY <2>3, <2>4 DEF Pages, PageSound, Reads, DayPlansKnown, TaskPageBehind
<1>2. CASE SelectPlans
  <2> DEFINE ps == {plans[p].task : p \in RangePlans(plans, page.lo, page.hi)}
  <2>1. page \in ReadingPlans
    BY <1>2, PageShape DEF SelectPlans, ViewsInv
  <2>2. page' = [pc |-> "RangeTasks", lo |-> page.lo, hi |-> page.hi,
                 activities |-> page.activities, plans |-> ps]
    BY <1>2 DEF SelectPlans
  <2>3. \A t \in ps :
          /\ t \in DOMAIN tasks
          /\ \E p \in RangePlans(plans, page.lo, page.hi) : plans[p].task = t
    BY DEF ViewsInv, Consistent, References, RangePlans
  <2>4. ps \subseteq RowId
    BY <1>a, <2>3, RowsTyped
  <2> HIDE DEF ps
  <2>5. page' \in ReadingTasks
    BY <2>1, <2>2, <2>4 DEF ReadingPlans, ReadingTasks
  <2>6. /\ page'.pc = "RangeTasks" /\ page'.plans = ps
        /\ page'.lo = page.lo /\ page'.hi = page.hi
    BY <2>2
  <2>7. tasks' = tasks /\ plans' = plans
    BY DEF vars
  <2> QED
    BY <2>3, <2>5, <2>6, <2>7
       DEF Pages, PageSound, Reads, DayPlansKnown, TaskPageBehind
<1>3. CASE SelectTasks
  <2> DEFINE ts == RangeTasks(tasks, acts, plans, page.lo, page.hi)
  <2>1. page \in ReadingTasks
    BY <1>3, PageShape DEF SelectTasks, ViewsInv
  <2>2. page' = [pc |-> "day", activities |-> page.activities,
                 plans |-> page.plans, tasks |-> ts]
    BY <1>3 DEF SelectTasks
  <2>3. ts \subseteq RowId
    BY <1>a, RowsTyped DEF RangeTasks
  <2>4. page.plans \subseteq ts
    BY <1>3 DEF SelectTasks, ViewsInv, PageSound, RangeTasks
  <2> HIDE DEF ts
  <2>5. page' \in DayPage
    BY <2>1, <2>2, <2>3 DEF ReadingTasks, DayPage
  <2>6. page'.pc = "day" /\ page'.plans = page.plans /\ page'.tasks = ts
    BY <2>2
  <2> QED
    BY <2>4, <2>5, <2>6 DEF Pages, PageSound, Reads, DayPlansKnown, TaskPageBehind
<1> QED
  BY <1>1, <1>2, <1>3

LEMMA ReadActivity ==
  ASSUME ViewsInv, UNCHANGED vars, activityView \/ activityLatest \/ TaskGet
  PROVE  page' \in Pages /\ PageSound'
<1>a. TypeOK /\ \A a \in DOMAIN acts : acts[a].task \in DOMAIN tasks
  BY DEF ViewsInv, Consistent, References
<1>b. DOMAIN tasks \subseteq RowId /\ tasks' = tasks
  BY <1>a, RowsTyped DEF vars
<1>1. SUFFICES \E ts \in SUBSET (DOMAIN tasks) :
                 page' = [pc |-> "TaskGet", follow |-> ts]
  <2>1. PICK ts \in SUBSET (DOMAIN tasks) : page' = [pc |-> "TaskGet", follow |-> ts]
    BY <1>1
  <2>2. page' \in Following
    BY <1>b, <2>1 DEF Following
  <2>3. page'.pc = "TaskGet" /\ page'.follow \subseteq DOMAIN tasks'
    BY <1>b, <2>1
  <2> QED
    BY <2>2, <2>3 DEF Pages, PageSound, Reads, DayPlansKnown, TaskPageBehind
<1>2. CASE activityView
  <2>1. PICK a \in DOMAIN acts : page' = [pc |-> "TaskGet", follow |-> {acts[a].task}]
    BY <1>2 DEF activityView
  <2>2. {acts[a].task} \in SUBSET (DOMAIN tasks)
    BY <1>a
  <2> QED
    BY <2>1, <2>2
<1>3. CASE activityLatest
  <2>1. PICK as \in Latest : page' = [pc |-> "TaskGet", follow |-> {acts[a].task : a \in as}]
    BY <1>3 DEF activityLatest
  <2>2. as \subseteq DOMAIN acts
    BY DEF Latest
  <2>3. {acts[a].task : a \in as} \in SUBSET (DOMAIN tasks)
    BY <1>a, <2>2
  <2> QED
    BY <2>1, <2>3
<1>4. CASE TaskGet
  <2>1. page.follow \subseteq DOMAIN tasks
    BY <1>4 DEF TaskGet, ViewsInv, PageSound
  <2>2. PICK t \in page.follow :
          page' = [pc |-> "TaskGet", follow |-> page.follow \ {t}]
    BY <1>4, <2>1 DEF TaskGet
  <2>3. page.follow \ {t} \in SUBSET (DOMAIN tasks)
    BY <2>1
  <2> QED
    BY <2>2, <2>3
<1> QED
  BY <1>2, <1>3, <1>4

LEMMA ReadTask ==
  ASSUME ViewsInv, UNCHANGED vars, taskView \/ TaskGetActivities \/ TaskGetPlans
  PROVE  page' \in Pages /\ PageSound'
<1>a. TypeOK
  BY DEF ViewsInv, Consistent
<1>b. acts' = acts
  BY DEF vars
<1>1. CASE taskView
  <2>1. PICK id \in DOMAIN tasks : page' = [pc |-> "TaskGetActivities", task |-> id]
    BY <1>1 DEF taskView
  <2>2. page' \in ReadingActivities
    BY <1>a, <2>1, RowsTyped DEF ReadingActivities
  <2>3. page'.pc = "TaskGetActivities"
    BY <2>1
  <2> QED
    BY <2>2, <2>3 DEF Pages, PageSound, Reads, DayPlansKnown, TaskPageBehind
<1>2. CASE TaskGetActivities
  <2> DEFINE as == ActivitiesOf(acts, page.task)
  <2>1. page \in ReadingActivities
    BY <1>2, PageShape DEF TaskGetActivities, ViewsInv
  <2>2. page' = [pc |-> "TaskGetPlans", task |-> page.task, activities |-> as]
    BY <1>2 DEF TaskGetActivities
  <2>3. as \subseteq DOMAIN acts /\ as \subseteq RowId
    BY <1>a, RowsTyped DEF ActivitiesOf
  <2>4. page' \in ReadingTaskPlans
    BY <2>1, <2>2, <2>3 DEF ReadingActivities, ReadingTaskPlans
  <2>5. /\ page'.pc = "TaskGetPlans" /\ page'.activities \subseteq DOMAIN acts'
        /\ ActivitiesOf(acts', page'.task) = page'.activities
    BY <2>2, <2>3, <1>b
  <2> QED
    BY <2>4, <2>5 DEF Pages, PageSound, Reads, DayPlansKnown, TaskPageBehind
<1>3. CASE TaskGetPlans
  <2> DEFINE ps == PageOf(PlansOf(page.task), PlansLimit, 0)
             links == {plans[p].activity : p \in ps}
  <2>1. /\ page \in ReadingTaskPlans
        /\ \A a \in ActivitiesOf(acts, page.task) :
             a \in page.activities \/ \A b \in page.activities : a > b
    BY <1>3, PageShape DEF TaskGetPlans, ViewsInv, PageSound
  <2>2. \/ page' = [pc |-> "too many plans"]
        \/ page' = [pc |-> "task", task |-> page.task,
                    activities |-> page.activities, plans |-> ps, links |-> links]
    BY <1>3 DEF TaskGetPlans
  <2>3. \A p \in ps : p \in DOMAIN plans /\ plans[p].task = page.task
    BY PageOfRows DEF PlansOf
  <2>4. ps \subseteq RowId /\ links \subseteq Nat
    BY <1>a, <2>3, RowsTyped
  <2>5. ASSUME NEW link \in links
        PROVE  link \in {0} \cup page.activities \/ \A a \in page.activities : link > a
    <3>1. PICK p \in ps : plans[p].activity = link
      OBVIOUS
    <3>2. CASE link = 0
      BY <3>2
    <3>3. CASE link # 0
      <4>1. link \in DOMAIN acts /\ acts[link].task = page.task
        BY <3>1, <3>3, <2>3
           DEF ViewsInv, Consistent, References, PlanFulfilledByOwnTask
      <4> QED
        BY <4>1, <2>1 DEF ActivitiesOf
    <3> QED
      BY <3>2, <3>3
  <2> HIDE DEF ps, links
  <2>6. CASE page' = [pc |-> "too many plans"]
    <3>1. page' \in Refused /\ page'.pc = "too many plans"
      BY <2>6 DEF Refused
    <3> QED
      BY <3>1 DEF Pages, PageSound, Reads, DayPlansKnown, TaskPageBehind
  <2>7. CASE page' = [pc |-> "task", task |-> page.task,
                      activities |-> page.activities, plans |-> ps, links |-> links]
    <3>1. page' \in TaskPage
      BY <2>1, <2>4, <2>7 DEF ReadingTaskPlans, TaskPage
    <3>2. page'.pc = "task" /\ page'.activities = page.activities /\ page'.links = links
      BY <2>7
    <3> QED
      BY <3>1, <3>2, <2>5 DEF Pages, PageSound, Reads, DayPlansKnown, TaskPageBehind
  <2> QED
    BY <2>2, <2>6, <2>7
<1> QED
  BY <1>1, <1>2, <1>3

LEMMA ReadUndone ==
  ASSUME ViewsInv, undoneTasks
  PROVE  page' \in Pages /\ PageSound'
<1>1. PICK now \in Time : \E rows \in Undone(now) :
        page' = [pc |-> "undone", now |-> now, listed |-> {row[1] : row \in rows},
                 tooMany |-> Cardinality(rows) = UndoneLimit]
  BY DEF undoneTasks
<1>2. PICK rows \in Undone(now) :
        page' = [pc |-> "undone", now |-> now, listed |-> {row[1] : row \in rows},
                 tooMany |-> Cardinality(rows) = UndoneLimit]
  BY <1>1
<1> DEFINE listed == {row[1] : row \in rows}
<1>3. listed \subseteq RowId
  <2>1. \A row \in TaskSearch(tasks, acts, now) : row[1] \in DOMAIN tasks
    BY DEF TaskSearch, NotDoneJoin, NoLogs
  <2> QED
    BY <2>1, RowsTyped DEF Undone, ViewsInv, Consistent
<1>4. (Cardinality(rows) = UndoneLimit) \in BOOLEAN
  OBVIOUS
<1> HIDE DEF listed
<1>5. page' \in UndonePage /\ page'.pc = "undone"
  BY <1>2, <1>3, <1>4 DEF UndonePage, listed
<1> QED
  BY <1>5 DEF Pages, PageSound, Reads, DayPlansKnown, TaskPageBehind

LEMMA ReadExport ==
  ASSUME ViewsInv, getRDF \/ mergeWindowToGraph
  PROVE  page' \in Pages /\ PageSound'
<1>a. TypeOK
  BY DEF ViewsInv, Consistent
<1>1. SUFFICES page' \in Exporting
  <2>1. \A x \in Exporting : x.pc \in {"export", "exported"}
    BY DEF Exporting
  <2> QED
    BY <1>1, <2>1 DEF Pages, PageSound, Reads, DayPlansKnown, TaskPageBehind
<1>2. CASE getRDF
  <2>1. PICK name \in {"activities", "plans"}, now \in Time :
          page' = [pc |-> "export", name |-> name, now |-> now, offset |-> 0,
                   got |-> {}, twice |-> {}, had |-> Window(name, acts, plans, now),
                   still |-> TRUE]
    BY <1>2 DEF getRDF
  <2> DEFINE had == Window(name, acts, plans, now)
  <2>2. had \in SUBSET RowId
    BY <1>a, WindowRows
  <2> HIDE DEF had
  <2>3. page' = [pc |-> "export", name |-> name, now |-> now, offset |-> 0,
                 got |-> {}, twice |-> {}, had |-> had, still |-> TRUE]
    BY <2>1 DEF had
  <2> QED
    BY <2>2, <2>3 DEF Exporting
<1>3. CASE mergeWindowToGraph
  <2> DEFINE rows == PageOf(Window(page.name, acts, plans, page.now),
                            WindowLength, page.offset)
             next == IF Cardinality(rows) < WindowLength THEN "exported" ELSE "export"
  <2>1. page \in Exporting
    BY <1>3, PageShape DEF mergeWindowToGraph, ViewsInv
  <2>2. page' = [page EXCEPT !.pc = next,
                   !.offset = page.offset + WindowLength,
                   !.got = page.got \cup rows,
                   !.twice = page.twice \cup (page.got \cap rows)]
    BY <1>3 DEF mergeWindowToGraph
  <2>3. next \in {"export", "exported"}
    OBVIOUS
  <2>4. rows \in SUBSET RowId
    BY <1>a, WindowRows, PageOfRows
  <2> HIDE DEF rows, next
  <2>5. /\ page.offset + WindowLength \in Nat
        /\ page.got \cup rows \in SUBSET RowId
        /\ page.twice \cup (page.got \cap rows) \in SUBSET RowId
    BY <2>1, <2>4, LimitsAssumption DEF Exporting
  <2> QED
    BY <2>1, <2>2, <2>3, <2>5 DEF Exporting
<1> QED
  BY <1>2, <1>3

LEMMA ReadStep ==
  ASSUME ViewsInv, Read, UNCHANGED vars
  PROVE  ViewsInv'
<1>1. page' \in Pages /\ PageSound'
  <2>1. CASE Leave
    BY <2>1 DEF Leave, NoPage, Pages, PageSound, Reads, DayPlansKnown, TaskPageBehind
  <2> QED
    BY <2>1, ReadDay, ReadActivity, ReadTask, ReadUndone, ReadExport DEF Read
<1>2. Consistent' /\ TimesFresh'
  BY StepConsistent, StepTimes DEF ViewsInv
<1> QED
  BY <1>1, <1>2 DEF ViewsInv

-----------------------------------------------------------------------------
(* Each write while a page is built.                                       *)

LEMMA WriteStep ==
  ASSUME ViewsInv, Write
  PROVE  ViewsInv'
<1>a. Consistent' /\ TimesFresh' /\ RowsStay
  BY StepConsistent, StepTimes, StepRows DEF ViewsInv, Write
<1>1. CASE Reads("export")
  <2>1. page \in Exporting
    BY <1>1, PageShape DEF ViewsInv
  <2>2. page' = [page EXCEPT !.still = page.still /\ WindowStill]
    BY <1>1 DEF Write
  <2>3. (page.still /\ WindowStill) \in BOOLEAN
    OBVIOUS
  <2>4. page' \in Exporting /\ page'.pc = "export"
    BY <1>1, <2>1, <2>2, <2>3 DEF Exporting, Reads
  <2> QED
    BY <1>a, <2>4
       DEF ViewsInv, Pages, PageSound, Reads, DayPlansKnown, TaskPageBehind
<1>2. CASE ~Reads("export")
  <2>1. page' = page
    BY <1>2 DEF Write
  <2>2. Reads("TaskGet") => page.follow \subseteq DOMAIN tasks'
    BY <1>a DEF ViewsInv, PageSound, RowsStay
  <2>3. ASSUME Reads("RangeTasks"), NEW t \in page.plans
        PROVE  /\ t \in DOMAIN tasks'
               /\ \E p \in RangePlans(plans', page.lo, page.hi) : plans'[p].task = t
    <3>1. /\ t \in DOMAIN tasks
          /\ \E p \in RangePlans(plans, page.lo, page.hi) : plans[p].task = t
      BY <2>3 DEF ViewsInv, PageSound
    <3>2. PICK p \in RangePlans(plans, page.lo, page.hi) : plans[p].task = t
      BY <3>1
    <3>3. p \in RangePlans(plans', page.lo, page.hi) /\ plans'[p].task = t
      BY <3>2, <1>a DEF RangePlans, RowsStay
    <3> QED
      BY <3>1, <3>3, <1>a DEF RowsStay
  <2>4. ASSUME Reads("TaskGetPlans")
        PROVE  /\ page.activities \subseteq DOMAIN acts'
               /\ \A a \in ActivitiesOf(acts', page.task) :
                    a \in page.activities \/ \A b \in page.activities : a > b
    <3>1. /\ page.activities \subseteq DOMAIN acts
          /\ \A a \in ActivitiesOf(acts, page.task) :
               a \in page.activities \/ \A b \in page.activities : a > b
      BY <2>4 DEF ViewsInv, PageSound
    <3>2. ASSUME NEW a \in ActivitiesOf(acts', page.task)
          PROVE  a \in page.activities \/ \A b \in page.activities : a > b
      <4>1. CASE a \in DOMAIN acts
        BY <3>1, <3>2, <4>1, <1>a DEF ActivitiesOf, RowsStay
      <4>2. CASE a \notin DOMAIN acts
        BY <3>1, <3>2, <4>2, <1>a DEF ActivitiesOf, RowsStay
      <4> QED
        BY <4>1, <4>2
    <3> QED
      BY <3>1, <3>2, <1>a DEF RowsStay
  <2>5. PageSound'
    BY <2>1, <2>2, <2>3, <2>4
       DEF ViewsInv, PageSound, Reads, DayPlansKnown, TaskPageBehind
  <2> QED
    BY <1>a, <2>1, <2>5 DEF ViewsInv
<1> QED
  BY <1>1, <1>2

LEMMA StepViews == ViewsInv /\ [ViewsNext]_<<vars, page>> => ViewsInv'
<1> SUFFICES ASSUME ViewsInv, [ViewsNext]_<<vars, page>> PROVE ViewsInv'
  OBVIOUS
<1>1. CASE UNCHANGED <<vars, page>>
  <2>1. Consistent' /\ TimesFresh'
    BY <1>1, StepConsistent, StepTimes DEF ViewsInv
  <2>2. page' \in Pages /\ PageSound'
    BY <1>1 DEF ViewsInv, vars, PageSound, Reads, DayPlansKnown, TaskPageBehind
  <2> QED
    BY <2>1, <2>2 DEF ViewsInv
<1> QED
  BY <1>1, ReadStep, WriteStep DEF ViewsNext

-----------------------------------------------------------------------------
(* Theorems.                                                               *)

(* The inductive invariant holds whatever is read and written, in any      *)
(* order.                                                                  *)
LEMMA ViewsInvariance == ViewsSpec => []ViewsInv
BY InitViews, StepViews, PTL DEF ViewsSpec

(* What a page has read always fits its next SELECT and its template.      *)
THEOREM PagesTyped == ViewsSpec => []PageOK
<1>1. ViewsInv => PageOK
  BY DEF ViewsInv, Consistent, PageOK
<1> QED
  BY <1>1, ViewsInvariance, PTL

(* The task of an activity that was read is found, however long afterwards *)
(* it is looked up.                                                        *)
THEOREM TasksFound == ViewsSpec => []TaskFound
<1>1. ViewsInv => TaskFound
  BY DEF ViewsInv, PageSound, TaskFound, Reads
<1> QED
  BY <1>1, ViewsInvariance, PTL

(* Every plan on the page of a day has its task there, although the two    *)
(* are read by different SELECTs.                                          *)
THEOREM PlansOfDay == ViewsSpec => []DayPlansKnown
<1>1. ViewsInv => DayPlansKnown
  BY DEF ViewsInv, PageSound
<1> QED
  BY <1>1, ViewsInvariance, PTL

(* A task's page lacks no activity that one of its plans is linked to,     *)
(* except activities newer than all it lists.                              *)
THEOREM TaskPageCurrent == ViewsSpec => []TaskPageBehind
<1>1. ViewsInv => TaskPageBehind
  BY DEF ViewsInv, PageSound
<1> QED
  BY <1>1, ViewsInvariance, PTL

-----------------------------------------------------------------------------
(* What a limit cuts off.                                                  *)

(* No two rows have as many rows before them, so that no more than limit   *)
(* rows have less than limit before them.                                  *)
LEMMA PageFits ==
  ASSUME NEW rows \in SUBSET Nat, IsFiniteSet(rows), NEW limit \in Nat
  PROVE  Cardinality(PageOf(rows, limit, 0)) <= limit
<1> DEFINE earlier(x) == {y \in rows : y < x}
           rank(x) == Cardinality(earlier(x))
           ps == PageOf(rows, limit, 0)
           f == [x \in ps |-> rank(x)]
<1>a. \A x \in rows : x \in Int
  OBVIOUS
<1>1. \A x \in rows : IsFiniteSet(earlier(x)) /\ rank(x) \in Nat
  BY FS_Subset, FS_CardinalityType
<1>2. ASSUME NEW x \in rows, NEW y \in rows, x < y PROVE rank(x) # rank(y)
  <2>1. \A z \in rows : z < x => z < y
    BY <1>a, <1>2
  <2>2. x < y /\ x \in Int /\ y \in Int
    BY <1>a, <1>2
  <2>3. earlier(x) \subseteq earlier(y)
    BY <2>1
  <2>4. x \in earlier(y)
    BY <2>2
  <2>5. x \notin earlier(x)
    BY <2>2
  <2> QED
    BY <1>1, <2>3, <2>4, <2>5, FS_Subset
<1>3. ps = {x \in rows : rank(x) \in 0..0 + limit - 1}
  BY DEF PageOf
<1>4. f \in Injection(ps, 0..limit - 1)
  <2> HIDE DEF rank
  <2>1. f \in [ps -> 0..limit - 1]
    BY <1>3
  <2>2. ASSUME NEW x \in ps, NEW y \in ps, x # y PROVE f[x] # f[y]
    <3>1. x \in rows /\ y \in rows
      BY <1>3
    <3>2. x \in Int /\ y \in Int
      BY <1>a, <3>1
    <3>3. x < y \/ y < x
      BY <2>2, <3>2
    <3> QED
      BY <1>2, <3>1, <3>3
  <2> HIDE DEF f, ps
  <2> QED
    BY <2>1, <2>2 DEF Injection, IsInjective
<1>5. IsFiniteSet(0..limit - 1) /\ Cardinality(0..limit - 1) = limit
  BY FS_Interval
<1> HIDE DEF f, ps
<1> QED
  BY <1>4, <1>5, FS_Injection DEF ps

(* A page that is not full has all the rows: else the first row that is    *)
(* not on it would have a full page of rows before it.                     *)
LEMMA ShortPage ==
  ASSUME NEW rows \in SUBSET Nat, IsFiniteSet(rows), NEW limit \in Nat,
         Cardinality(PageOf(rows, limit, 0)) # limit
  PROVE  PageOf(rows, limit, 0) = rows
<1> DEFINE ps == PageOf(rows, limit, 0)
           earlier(x) == {y \in rows : y < x}
<1>1. ps \subseteq rows /\ IsFiniteSet(ps) /\ Cardinality(ps) \in Nat
  BY PageOfRows, FS_Subset, FS_CardinalityType
<1>2. Cardinality(ps) < limit
  BY <1>1, PageFits
<1>3. ASSUME rows \ ps # {} PROVE FALSE
  <2>1. PICK x \in rows \ ps : \A y \in rows \ ps : x <= y
    <3>1. rows \ ps \in SUBSET Nat
      OBVIOUS
    <3> HIDE DEF ps
    <3> QED
      BY <1>3, <3>1, LeastNumber
  <2>2. earlier(x) \subseteq ps
    <3>1. \A y \in rows : y \in Int
      OBVIOUS
    <3>2. x \in rows /\ \A y \in rows : y \notin ps => x <= y
      BY <2>1
    <3>3. x \in Int
      BY <3>1, <3>2
    <3>4. \A y \in rows : y < x => y \in ps
      BY <3>1, <3>2, <3>3
    <3> HIDE DEF ps
    <3> QED
      BY <3>4
  <2>3. Cardinality(earlier(x)) \in Nat /\ Cardinality(earlier(x)) < limit
    BY <1>1, <1>2, <2>2, FS_Subset, FS_CardinalityType
  <2>4. x \in ps
    BY <2>3 DEF PageOf
  <2> QED
    BY <2>1, <2>4
<1> QED
  BY <1>1, <1>3

(* The pages that the action properties are about are made by one step     *)
(* each.                                                                   *)
LEMMA PageMade ==
  ASSUME ViewsInv, [ViewsNext]_<<vars, page>>
  PROVE  /\ page'.pc = "task" => page.pc = "task" \/ TaskGetPlans
         /\ page'.pc = "undone" => page.pc = "undone" \/ undoneTasks
         /\ page'.pc = "RangePlans" => page' = page \/ dayView
         /\ page'.pc = "RangeTasks" => page' = page \/ SelectPlans
         /\ page'.pc = "day" => page' = page \/ SelectTasks
<1>1. CASE UNCHANGED page
  BY <1>1
<1>2. CASE Write
  <2>1. CASE Reads("export")
    <3>1. page \in Exporting
      BY <2>1, PageShape DEF ViewsInv
    <3> QED
      BY <1>2, <2>1, <3>1 DEF Write, Exporting, Reads
  <2> QED
    BY <1>2, <2>1 DEF Write
<1>3. CASE dayView \/ SelectPlans \/ SelectTasks
  BY <1>3 DEF dayView, SelectPlans, SelectTasks
<1>4. CASE activityView \/ activityLatest
  BY <1>4 DEF activityView, activityLatest
<1>5. CASE TaskGet \/ taskView \/ TaskGetActivities \/ Leave
  <2>1. page'.pc \in {"TaskGet", "not found", "TaskGetActivities", "TaskGetPlans", "none"}
    <3>1. TaskGet => page'.pc \in {"TaskGet", "not found"}
      <4> SUFFICES ASSUME TaskGet PROVE page'.pc \in {"TaskGet", "not found"}
        OBVIOUS
      <4>1. PICK t \in page.follow :
              page' = IF t \in DOMAIN tasks
                        THEN [pc |-> "TaskGet", follow |-> page.follow \ {t}]
                        ELSE [pc |-> "not found"]
        BY DEF TaskGet
      <4> QED
        BY <4>1
    <3>2. taskView \/ TaskGetActivities =>
            page'.pc \in {"TaskGetActivities", "TaskGetPlans"}
      BY DEF taskView, TaskGetActivities
    <3>3. Leave => page'.pc = "none"
      BY DEF Leave, NoPage
    <3> QED
      BY <1>5, <3>1, <3>2, <3>3
  <2> QED
    BY <2>1
<1>6. CASE getRDF
  <2>1. page'.pc = "export"
    BY <1>6 DEF getRDF
  <2> QED
    BY <2>1
<1>7. CASE mergeWindowToGraph
  <2>1. page \in Exporting
    BY <1>7, PageShape DEF ViewsInv, mergeWindowToGraph
  <2> QED
    BY <1>7, <2>1 DEF mergeWindowToGraph, Exporting
<1>8. CASE TaskGetPlans
  <2>1. page'.pc \in {"task", "too many plans"}
    BY <1>8 DEF TaskGetPlans
  <2> QED
    BY <1>8, <2>1
<1>9. CASE undoneTasks
  <2>1. page'.pc = "undone"
    BY <1>9 DEF undoneTasks
  <2> QED
    BY <1>9, <2>1
<1> QED
  BY <1>1, <1>2, <1>3, <1>4, <1>5, <1>6, <1>7, <1>8, <1>9 DEF ViewsNext, Read

-----------------------------------------------------------------------------
(* What an edit may do to the page of a day.                               *)

(* Only an edit changes a row of activity_log.                             *)
LEMMA EditChanges ==
  ASSUME Consistent, Next, NEW a \in DOMAIN acts, acts'[a] # acts[a]
  PROVE  \E r \in Req : ActivityEditUpdate(r) /\ req[r].a.id = a
<1>1. PICK r \in Req : Start(r) \/ Continue(r)
  BY DEF Next
<1>2. Continue(r)
  BY <1>1, StartRows DEF Start, taskNewPost, taskEditPost, taskNewActivityNewPost,
     taskActivityNewPost, activityResume, taskPlanNewPost, activityEditPost,
     activityExtend, tables
<1>3. CASE ActivityAdd(r)
  <2> DEFINE row == RowOf(req[r].a, AddStatus(req[r].a.done))
  <2>1. acts' = Append(acts, row)
    BY <1>3 DEF ActivityAdd
  <2> HIDE DEF row
  <2>2. acts'[a] = acts[a]
    BY <2>1 DEF Consistent, TypeOK
  <2> QED
    BY <2>2
<1>4. CASE ActivityEditUpdate(r)
  <2>1. acts' = [acts EXCEPT ![req[r].a.id] = RowOf(req[r].a, req[r].status)]
    BY <1>4 DEF ActivityEditUpdate
  <2>2. req[r].a.id = a
    BY <2>1
  <2> QED
    BY <1>4, <2>2
<1>5. CASE acts' = acts
  BY <1>5
<1> QED
  BY <1>2, <1>3, <1>4, <1>5
     DEF Continue, PlanGet, PlanEdit, PlanAdd, ActivityEditSelect, StorageError, tables

LEMMA WriteLoses ==
  ASSUME ViewsInv, Write, DayCovered, ~DayCovered'
  PROVE  \E r \in Req :
           /\ ActivityEditUpdate(r)
           /\ req[r].a.id \in RangeActivities(acts, page.lo, page.hi)
           /\ req[r].a.id \notin RangeActivities(acts', page.lo, page.hi)
<1>a. Consistent /\ Next /\ RowsStay
  BY StepRows DEF ViewsInv, Write
<1>1. page' = page
  <2>1. CASE Reads("export")
    <3>1. page \in Exporting
      BY <2>1, PageShape DEF ViewsInv
    <3>2. page'.pc = "export"
      BY <2>1, <3>1 DEF Write, Exporting, Reads
    <3> QED
      BY <3>2 DEF DayCovered
  <2> QED
    BY <2>1 DEF Write
<1>2. PICK t \in page.activities :
        /\ t \in RangeTasks(tasks, acts, plans, page.lo, page.hi)
        /\ t \notin RangeTasks(tasks', acts', plans', page.lo, page.hi)
  BY <1>1 DEF DayCovered
<1>3. t \in DOMAIN tasks'
  BY <1>2, <1>a DEF RangeTasks, RowsStay
<1>4. ~\E p \in RangePlans(plans, page.lo, page.hi) : plans[p].task = t
  BY <1>2, <1>3, <1>a DEF RangeTasks, RangePlans, RowsStay
<1>5. PICK a \in RangeActivities(acts, page.lo, page.hi) : acts[a].task = t
  BY <1>2, <1>4 DEF RangeTasks
<1>6. a \in DOMAIN acts /\ acts'[a].task = t
  BY <1>5, <1>a DEF RangeActivities, RowsStay
<1>7. a \notin RangeActivities(acts', page.lo, page.hi)
  BY <1>2, <1>3, <1>6 DEF RangeTasks
<1>8. acts'[a] # acts[a]
  BY <1>5, <1>6, <1>7, <1>a DEF RangeActivities, RowsStay
<1> QED
  BY <1>5, <1>6, <1>7, <1>8, <1>a, EditChanges

(* The SELECTs themselves lose nothing.                                    *)
LEMMA ReadCovers ==
  ASSUME ViewsInv, UNCHANGED vars, DayCovered, ViewsNext
  PROVE  DayCovered'
<1>a. /\ References
      /\ tasks' = tasks /\ acts' = acts /\ plans' = plans
  BY DEF ViewsInv, Consistent, vars
<1>1. CASE page' = page
  BY <1>1, <1>a DEF DayCovered
<1>2. CASE page'.pc = "RangePlans" /\ page' # page
  <2>1. PICK lo \in Time, hi \in Time :
          page' = [pc |-> "RangePlans", lo |-> lo, hi |-> hi,
                   activities |-> {acts[a].task : a \in RangeActivities(acts, lo, hi)}]
    BY <1>2, PageMade DEF dayView
  <2>2. /\ page'.lo = lo /\ page'.hi = hi
        /\ page'.activities = {acts[a].task : a \in RangeActivities(acts, lo, hi)}
    BY <2>1
  <2>3. page'.activities \subseteq RangeTasks(tasks, acts, plans, lo, hi)
    BY <2>2, <1>a DEF References, RangeTasks, RangeActivities
  <2> QED
    BY <1>2, <1>a, <2>2, <2>3 DEF DayCovered
<1>3. CASE page'.pc = "RangeTasks" /\ page' # page
  <2>1. SelectPlans
    BY <1>3, PageMade
  <2>2. /\ page.pc = "RangePlans"
        /\ page'.lo = page.lo /\ page'.hi = page.hi
        /\ page'.activities = page.activities
    BY <2>1 DEF SelectPlans, Reads
  <2> QED
    BY <1>3, <1>a, <2>2 DEF DayCovered
<1>4. CASE page'.pc = "day" /\ page' # page
  <2>1. SelectTasks
    BY <1>4, PageMade
  <2>2. /\ page.pc = "RangeTasks"
        /\ page'.activities = page.activities
        /\ page'.tasks = RangeTasks(tasks, acts, plans, page.lo, page.hi)
    BY <2>1 DEF SelectTasks, Reads
  <2> QED
    BY <1>4, <2>2 DEF DayCovered
<1> QED
  BY <1>1, <1>2, <1>3, <1>4 DEF DayCovered

(* The page of a day shows an activity without its task's title only if an *)
(* edit or an extension moved it out of the day between the two SELECTs.   *)
THEOREM DayLostOnlyByMove == ViewsSpec => DayLostByMove
<1>1. ViewsInv /\ [ViewsNext]_<<vars, page>> =>
        [DayCovered /\ ~DayCovered' =>
           \E r \in Req :
             /\ ActivityEditUpdate(r)
             /\ req[r].a.id \in RangeActivities(acts, page.lo, page.hi)
             /\ req[r].a.id \notin RangeActivities(acts', page.lo, page.hi)]_<<vars, page>>
  <2> SUFFICES ASSUME ViewsInv, ViewsNext, DayCovered, ~DayCovered'
               PROVE  \E r \in Req :
                        /\ ActivityEditUpdate(r)
                        /\ req[r].a.id \in RangeActivities(acts, page.lo, page.hi)
                        /\ req[r].a.id \notin RangeActivities(acts', page.lo, page.hi)
    OBVIOUS
  <2>1. Write
    BY ReadCovers DEF ViewsNext
  <2> QED
    BY <2>1, WriteLoses
<1> QED
  BY <1>1, ViewsInvariance, PTL DEF ViewsSpec, DayLostByMove

-----------------------------------------------------------------------------
(* The pages that a limit may cut off.                                     *)

(* A task's page that is not refused has all the plans of the task.        *)
THEOREM PlansNeverCut == ViewsSpec => PlansNotCut
<1>1. ViewsInv /\ [ViewsNext]_<<vars, page>> =>
        [page'.pc = "task" /\ page.pc # "task" =>
           page'.plans = PlansOf(page'.task)]_<<vars, page>>
  <2> SUFFICES ASSUME ViewsInv, [ViewsNext]_<<vars, page>>,
                      page'.pc = "task", page.pc # "task"
               PROVE  page'.plans = PlansOf(page'.task)
    OBVIOUS
  <2> DEFINE ps == PageOf(PlansOf(page.task), PlansLimit, 0)
  <2>1. /\ Cardinality(ps) # PlansLimit
        /\ page'.plans = ps /\ page'.task = page.task
    <3>1. TaskGetPlans
      BY PageMade
    <3> QED
      BY <3>1 DEF TaskGetPlans
  <2>2. PlansOf(page.task) \in SUBSET Nat /\ IsFiniteSet(PlansOf(page.task))
    <3>1. DOMAIN plans = 1..Len(plans) /\ Len(plans) \in Nat
      BY DEF ViewsInv, Consistent, TypeOK
    <3>2. IsFiniteSet(DOMAIN plans) /\ DOMAIN plans \subseteq Nat
      BY <3>1, FS_Interval
    <3> QED
      BY <3>2, FS_Subset DEF PlansOf
  <2>3. ps = PlansOf(page.task)
    BY <2>1, <2>2, ShortPage, LimitsAssumption
  <2> QED
    BY <2>1, <2>3
<1> QED
  BY <1>1, ViewsInvariance, PTL DEF ViewsSpec, PlansNotCut

(* An undone page without the warning has every unfinished task.           *)
THEOREM UndoneAllListed == ViewsSpec => UndoneComplete
<1>1. ViewsInv /\ [ViewsNext]_<<vars, page>> =>
        [page'.pc = "undone" /\ page.pc # "undone" /\ ~page'.tooMany =>
           \A t \in DOMAIN tasks :
             DeadlineAhead(tasks[t], page'.now) /\ ~Finished(t)
               => t \in page'.listed]_<<vars, page>>
  <2> SUFFICES ASSUME ViewsInv, [ViewsNext]_<<vars, page>>,
                      page'.pc = "undone", page.pc # "undone", ~page'.tooMany,
                      NEW t \in DOMAIN tasks,
                      DeadlineAhead(tasks[t], page'.now), ~Finished(t)
               PROVE  t \in page'.listed
    OBVIOUS
  <2>1. PICK now \in Time : \E rows \in Undone(now) :
          page' = [pc |-> "undone", now |-> now, listed |-> {row[1] : row \in rows},
                   tooMany |-> Cardinality(rows) = UndoneLimit]
    BY PageMade DEF undoneTasks
  <2>2. PICK rows \in Undone(now) :
          page' = [pc |-> "undone", now |-> now, listed |-> {row[1] : row \in rows},
                   tooMany |-> Cardinality(rows) = UndoneLimit]
    BY <2>1
  <2>3. /\ page'.now = now /\ page'.listed = {row[1] : row \in rows}
        /\ Cardinality(rows) # UndoneLimit
    BY <2>2
  <2> DEFINE found == TaskSearch(tasks, acts, now)
  <2>4. rows \subseteq found /\ Cardinality(rows) = Cardinality(found)
    BY <2>3 DEF Undone
  <2>5. IsFiniteSet(found)
    BY FoundFinite DEF ViewsInv, Consistent
  <2>6. \E row \in found : row[1] = t
    BY <2>3, ListedExactly DEF ViewsInv, Consistent
  <2> HIDE DEF found
  <2>7. rows = found
    BY <2>4, <2>5, FS_Subset
  <2> QED
    BY <2>3, <2>6, <2>7
<1> QED
  BY <1>1, ViewsInvariance, PTL DEF ViewsSpec, UndoneComplete

=============================================================================
