-------------------------- MODULE FormTimesProofs ---------------------------
(***************************************************************************)
(* Proofs about the times of forms and pages, for all zones, instants and  *)
(* days, and any number of requests.                                       *)
(***************************************************************************)
EXTENDS FormTimes, TLAPS

-----------------------------------------------------------------------------
(* Whole days and minutes.                                                 *)

LEMMA DayParts ==
  ASSUME NEW c \in Int
  PROVE  /\ c \div Day \in Int /\ c % Day \in Int
         /\ 0 <= c % Day /\ c % Day < Day
         /\ c = (c \div Day) * Day + (c % Day)
BY DEF Day

LEMMA MinuteParts ==
  ASSUME NEW c \in Int
  PROVE  /\ c % Minute \in Int /\ 0 <= c % Minute /\ c % Minute < Minute
         /\ (c - (c % Minute)) \in Int
BY DEF Minute

LEMMA DayOf ==
  ASSUME NEW c \in Int, NEW d \in Int, d * Day <= c, c < d * Day + Day
  PROVE  c \div Day = d
BY DEF Day

LEMMA SameDay ==
  ASSUME NEW c \in Int
  PROVE  (c - (c % Minute)) % Day = c - (c % Minute) - (c \div Day) * Day
BY DEF Day, Minute

LEMMA SameMinute ==
  ASSUME NEW c \in Int
  PROVE  ((c - (c % Minute)) % Day) \div Minute = (c - (c \div Day) * Day) \div Minute
BY DEF Day, Minute

-----------------------------------------------------------------------------
(* Instants and civil times.                                               *)

LEMMA Civil ==
  ASSUME NEW z \in Zone, NEW t \in Int
  PROVE  /\ z.at \in Int /\ z.before \in Int /\ z.after \in Int
         /\ Offset(z, t) \in {z.before, z.after}
         /\ Offset(z, t) \in Int /\ In(z, t) \in Int
         /\ In(z, t) = t + Offset(z, t)
         /\ t < z.at => Offset(z, t) = z.before
         /\ z.at <= t => Offset(z, t) = z.after
BY DEF Zone, Offset, In

LEMMA DateTypes ==
  ASSUME NEW z \in Zone, NEW c \in Int
  PROVE  Date(z, c) \subseteq Int
<1>1. c - z.before \in Int /\ c - z.after \in Int
  BY DEF Zone
<1> QED
  BY <1>1 DEF Date

(* A civil time that the zone does not repeat or skip is that of one       *)
(* instant, the one that Date returns.                                     *)
LEMMA DateUnique ==
  ASSUME NEW z \in Zone, NEW c \in Int, Unique(z, c), NEW t \in Date(z, c)
  PROVE  /\ t \in Int /\ In(z, t) = c
         /\ \A u \in Int : In(z, u) = c => u = t
<1> DEFINE either == {c - z.before, c - z.after}
           exact == {u \in either : In(z, u) = c}
<1>1. Date(z, c) = IF exact = {} THEN either ELSE exact
  BY DEF Date
<1>2. either \subseteq Int
  BY DEF Zone
<1>3. exact # {}
  <2>1. CASE z.before = z.after
    <3>1. In(z, c - z.before) = c
      BY <1>2, <2>1, Civil
    <3> QED
      BY <3>1
  <2>2. CASE z.before # z.after
    <3>1. c - z.before # c - z.after
      BY <2>2 DEF Zone
    <3>2. ~ (exact = {})
      BY <1>1, <3>1 DEF Unique
    <3> QED
      BY <3>2
  <2> QED
    BY <2>1, <2>2
<1>4. t \in exact
  BY <1>1, <1>3
<1>5. ASSUME NEW u \in Int, In(z, u) = c PROVE u = t
  <2>1. u \in either
    BY <1>5, Civil
  <2>2. u \in Date(z, c)
    BY <1>1, <1>3, <1>5, <2>1
  <2> QED
    BY <2>2 DEF Unique
<1> QED
  BY <1>2, <1>4, <1>5

(* Such civil times come in the order of their instants.                   *)
LEMMA DateOrder ==
  ASSUME NEW z \in Zone, NEW c \in Int, NEW d \in Int,
         Unique(z, c), Unique(z, d), NEW t \in Date(z, c), NEW u \in Date(z, d)
  PROVE  t <= u <=> c <= d
<1>1. /\ t \in Int /\ In(z, t) = c /\ \A v \in Int : In(z, v) = c => v = t
      /\ u \in Int /\ In(z, u) = d /\ \A v \in Int : In(z, v) = d => v = u
  BY DateUnique
<1>2. ASSUME NEW x \in Int, NEW y \in Int, x < y, In(z, x) >= In(z, y),
             \A v \in Int : In(z, v) = In(z, y) => v = y
      PROVE  FALSE
  <2>1. x < z.at /\ z.at <= y /\ z.after < z.before
    BY <1>2, Civil
  <2>2. In(z, y) - z.before \in Int /\ In(z, y) - z.before < z.at
    BY <1>2, <2>1, Civil
  <2>3. In(z, In(z, y) - z.before) = In(z, y)
    BY <1>2, <2>2, Civil
  <2>4. In(z, y) - z.before = y
    BY <1>2, <2>2, <2>3
  <2> QED
    BY <1>2, <2>1, <2>2, <2>4, Civil
<1>3. CASE t = u
  BY <1>1, <1>3
<1>4. CASE t < u
  BY <1>1, <1>2, <1>4
<1>5. CASE t > u
  BY <1>1, <1>2, <1>5
<1> QED
  BY <1>1, <1>3, <1>4, <1>5

-----------------------------------------------------------------------------
(* The day's page.                                                         *)

LEMMA Midnight ==
  ASSUME NEW z \in Zone, NEW d \in Int, Unique(z, d * Day), NEW m \in dayView(z, d)
  PROVE  /\ d * Day \in Int
         /\ m \in Int /\ In(z, m) = d * Day
         /\ \A u \in Int : In(z, u) = d * Day => u = m
<1>1. d * Day \in Int
  BY DEF Day
<1> QED
  BY <1>1, DateUnique DEF dayView

(* After midnight by the clock is after midnight in time.                  *)
LEMMA SinceMidnight ==
  ASSUME NEW z \in Zone, NEW d \in Int, Unique(z, d * Day), NEW m \in dayView(z, d),
         NEW t \in Int
  PROVE  m <= t <=> d * Day <= In(z, t)
<1>1. /\ d * Day \in Int /\ m \in Int /\ In(z, m) = d * Day
      /\ \A u \in Int : In(z, u) = d * Day => u = m
  BY Midnight
<1>2. CASE m <= t /\ In(z, t) < d * Day
  <2>1. m < z.at /\ z.at <= t /\ z.after < z.before
    BY <1>1, <1>2, Civil
  <2>2. d * Day - z.after \in Int /\ d * Day - z.after > t
    BY <1>1, <1>2, <2>1, Civil
  <2>3. In(z, d * Day - z.after) = d * Day
    BY <1>1, <2>1, <2>2, Civil
  <2> QED
    BY <1>1, <1>2, <2>2, <2>3
<1>3. CASE t < m /\ d * Day <= In(z, t)
  <2>1. t < z.at /\ z.at <= m /\ z.after < z.before
    BY <1>1, <1>3, Civil
  <2>2. d * Day - z.before \in Int /\ d * Day - z.before <= t
    BY <1>1, <1>3, <2>1, Civil
  <2>3. In(z, d * Day - z.before) = d * Day
    BY <1>1, <2>1, <2>2, Civil
  <2> QED
    BY <1>1, <1>3, <2>2, <2>3
<1> QED
  BY <1>1, <1>2, <1>3, Civil

LEMMA DayOfPage ==
  ASSUME NEW z \in Zone, NEW d \in Int, NEW t \in Int
  PROVE  formatDay(z, t) = d <=> d * Day <= In(z, t) /\ In(z, t) < d * Day + Day
BY Civil DEF formatDay, Day

LEMMA ActivityShown ==
  ASSUME NEW z \in Zone, NEW d \in Int, Unique(z, d * Day), NEW m \in dayView(z, d),
         NEW a \in Activity, a.start <= a.end
  PROVE  LET ofDay == formatDay(z, a.start) = d /\ formatDay(z, a.end) = d
             earlier == Offset(z, m)
             later == Offset(z, a.end)
         IN  /\ OnPage(a, m) /\ later <= earlier => ofDay
             /\ ofDay /\ later >= earlier => OnPage(a, m)
<1>1. /\ d * Day \in Int /\ m \in Int /\ In(z, m) = d * Day /\ Day \in Int
      /\ a.start \in Int /\ a.end \in Int
  BY Midnight DEF Activity, Day
<1>2. /\ m <= a.start <=> d * Day <= In(z, a.start)
      /\ m <= a.end <=> d * Day <= In(z, a.end)
  BY <1>1, SinceMidnight
<1>3. ASSUME OnPage(a, m), Offset(z, a.end) <= Offset(z, m)
      PROVE  formatDay(z, a.start) = d /\ formatDay(z, a.end) = d
  <2>1. m <= a.start /\ a.end < m + Day /\ m <= a.end
    BY <1>1, <1>3 DEF OnPage
  <2>2. In(z, a.end) < d * Day + Day
    BY <1>1, <1>3, <2>1, Civil
  <2>3. In(z, a.start) < d * Day + Day
    <3>1. CASE a.end < z.at
      BY <1>1, <2>1, <2>2, <3>1, Civil
    <3>2. CASE z.at <= a.start
      BY <1>1, <2>1, <2>2, <3>2, Civil
    <3>3. CASE a.start < z.at /\ z.at <= a.end
      BY <1>1, <2>1, <3>3, Civil
    <3> QED
      BY <1>1, <3>1, <3>2, <3>3, Civil
  <2> QED
    BY <1>1, <1>2, <2>1, <2>2, <2>3, DayOfPage
<1>4. ASSUME formatDay(z, a.start) = d, formatDay(z, a.end) = d,
             Offset(z, a.end) >= Offset(z, m)
      PROVE  OnPage(a, m)
  <2>1. d * Day <= In(z, a.start) /\ In(z, a.end) < d * Day + Day
    BY <1>1, <1>4, DayOfPage
  <2>2. a.end < m + Day
    BY <1>1, <1>4, <2>1, Civil
  <2> QED
    BY <1>1, <1>2, <2>1, <2>2 DEF OnPage
<1> QED
  BY <1>3, <1>4

LEMMA ActivityDrawn ==
  ASSUME NEW z \in Zone, NEW d \in Int, Unique(z, d * Day), NEW m \in dayView(z, d),
         NEW a \in Activity, formatDay(z, a.start) = d,
         Offset(z, a.start) = Offset(z, m)
  PROVE  Top(a, m) = formatHM(z, a.start) \div Minute
<1>1. d * Day \in Int /\ m \in Int /\ In(z, m) = d * Day /\ a.start \in Int
  BY Midnight DEF Activity
<1>2. In(z, a.start) \in Int /\ a.start - m = In(z, a.start) - d * Day
  BY <1>1, Civil
<1>3. In(z, a.start) \div Day = d
  BY DEF formatDay
<1> QED
  BY <1>2, <1>3, SameMinute DEF Top, formatHM, formatDatetimeLocalHTML

-----------------------------------------------------------------------------
(* Types.                                                                  *)

Clock == 0..(Day - 1)

(* The three kinds of page, each with what it holds.                       *)
Edit ==
  /\ page \in Forms /\ page.pc = "edit"
  /\ page.start = formatDatetimeLocalHTML(page.loc, page.was.start)
  /\ page.end # Unparsable =>
       page.end = formatDatetimeLocalHTML(page.loc, page.was.end)

ClockForm ==
  /\ page \in Forms /\ page.pc \in {"extend", "resume"}
  /\ page.start \in Clock /\ page.end \in Clock
  /\ ~page.typed => page.end = formatHM(page.loc, page.at)

Resumed ==
  /\ page \in Resuming
  /\ page.start \in Clock /\ page.end \in Clock
  /\ page.parsed \in parseFormTime(page.loc, page.end, page.at)

Typed ==
  /\ now \in Int /\ loc \in Zones /\ row \in Activity
  /\ page = NoPage \/ ((Edit \/ ClockForm \/ Resumed) /\ writes < MaxWrites)
  /\ writes \in 0..MaxWrites

LEMMA ClockTypes ==
  /\ \A c \in Clock : c \in Int /\ 0 <= c /\ c < Day
  /\ \A c \in Int : 0 <= c /\ c < Day => c \in Clock
<1>1. Day \in Int
  BY DEF Day
<1> QED
  BY <1>1 DEF Clock

LEMMA NoPagePc == NoPage.pc = "none"
BY DEF NoPage

LEMMA TypedImplies == Typed => TypeOK
<1> SUFFICES ASSUME Typed PROVE TypeOK
  OBVIOUS
<1>1. CASE page = NoPage
  BY <1>1, NoPagePc DEF Typed, TypeOK
<1>2. CASE Edit
  BY <1>2 DEF Edit, Typed, TypeOK
<1>3. CASE ClockForm
  BY <1>3 DEF ClockForm, Clock, Typed, TypeOK
<1>4. CASE Resumed
  BY <1>4 DEF Resumed, Resuming, Clock, Typed, TypeOK
<1> QED
  BY <1>1, <1>2, <1>3, <1>4 DEF Typed

LEMMA ZoneTypes == \A z \in Zones : z \in Zone
BY FormTimesAssumption

LEMMA Formats ==
  ASSUME NEW z \in Zone, NEW t \in Int
  PROVE  /\ formatDatetimeLocalHTML(z, t) \in Int
         /\ formatHM(z, t) \in Clock
<1>1. formatDatetimeLocalHTML(z, t) \in Int
  BY Civil, MinuteParts DEF formatDatetimeLocalHTML
<1> QED
  BY <1>1, ClockTypes, DayParts DEF formatHM

LEMMA ParsedTypes ==
  ASSUME NEW z \in Zone, NEW c \in Clock, NEW t \in Int
  PROVE  parseFormTime(z, c, t) \subseteq Int
<1>1. formatDay(z, t) * Day + c \in Int
  <2>1. formatDay(z, t) \in Int
    BY Civil, DayParts DEF formatDay
  <2>2. c \in Int
    BY ClockTypes
  <2> QED
    BY <2>1, <2>2 DEF Day
<1> QED
  BY <1>1, DateTypes DEF parseFormTime

LEMMA FormFields ==
  ASSUME Typed, NEW pc \in {"edit", "extend", "resume"},
         NEW s \in Int, NEW e \in Int, page' = Form(pc, s, e)
  PROVE  /\ page' \in Forms /\ page'.pc = pc
         /\ page'.start = s /\ page'.end = e
         /\ page'.loc = loc /\ page'.at = now
         /\ page'.was = row /\ page'.typed = FALSE
BY DEF Typed, Form, Forms, Field

LEMMA TypedIn ==
  ASSUME page \in Forms, NEW e \in Field
  PROVE  LET p == [page EXCEPT !.end = e, !.typed = TRUE] IN
         /\ p \in Forms /\ p.pc = page.pc /\ p.start = page.start /\ p.end = e
         /\ p.at = page.at /\ p.loc = page.loc /\ p.was = page.was
         /\ p.typed = TRUE
BY DEF Forms

LEMMA StepTypes == Typed /\ [Next]_vars => Typed'
<1> SUFFICES ASSUME Typed, [Next]_vars PROVE Typed'
  OBVIOUS
<1>a. MaxWrites \in Nat /\ Readings \subseteq Int
  BY FormTimesAssumption
<1>b. loc \in Zone /\ now \in Int /\ row.start \in Int /\ row.end \in Int
  BY ZoneTypes DEF Typed, Activity
<1>1. CASE UNCHANGED vars
  BY <1>1 DEF vars, Typed, Edit, ClockForm, Resumed
<1>2. CASE Tick
  BY <1>2, <1>a DEF Tick, Typed, Edit, ClockForm, Resumed
<1>3. CASE loginSettings
  BY <1>3 DEF loginSettings, Typed, Edit, ClockForm, Resumed
<1>4. CASE activityEdit
  <2> DEFINE s == formatDatetimeLocalHTML(loc, row.start)
             e == formatDatetimeLocalHTML(loc, row.end)
  <2>1. s \in Int /\ e \in Int
    BY <1>b, Formats
  <2>2. /\ page' = Form("edit", s, e) /\ writes < MaxWrites
        /\ UNCHANGED <<now, loc, row, writes>>
    BY <1>4 DEF activityEdit, Show
  <2> HIDE DEF s, e
  <2>3. /\ page' \in Forms /\ page'.pc = "edit" /\ page'.start = s /\ page'.end = e
        /\ page'.loc = loc /\ page'.was = row
    BY <2>1, <2>2, FormFields
  <2>4. Edit'
    BY <2>3 DEF Edit, s, e
  <2> QED
    BY <2>2, <2>4 DEF Typed
<1>5. CASE activityView \/ activityLatest
  <2> DEFINE hm == formatHM(loc, now)
  <2>1. hm \in Clock /\ hm \in Int
    BY <1>b, Formats, ClockTypes
  <2>2. PICK pc \in {"extend", "resume"} :
          /\ page' = Form(pc, hm, hm) /\ writes < MaxWrites
          /\ UNCHANGED <<now, loc, row, writes>>
    BY <1>5 DEF activityView, activityLatest, Show
  <2> HIDE DEF hm
  <2>3. /\ page' \in Forms /\ page'.pc = pc /\ page'.start = hm /\ page'.end = hm
        /\ page'.loc = loc /\ page'.at = now /\ page'.typed = FALSE
    BY <2>1, <2>2, FormFields
  <2>4. ClockForm'
    BY <2>1, <2>3 DEF ClockForm, hm
  <2> QED
    BY <2>2, <2>4 DEF Typed
<1>6. ASSUME NEW a \in Activity, Store(a), writes < MaxWrites PROVE Typed'
  BY <1>6, <1>a DEF Store, Typed
<1>7. CASE activityEditPost
  <2>1. Edit /\ writes < MaxWrites
    BY <1>7, NoPagePc DEF activityEditPost, Typed, ClockForm, Resumed, Resuming
  <2>2. page.start \in Int /\ page.end \in Field
    BY <2>1 DEF Edit, Forms
  <2>3. Decoded(loc, page.start, now) \subseteq Int
        /\ Decoded(loc, page.end, now) \subseteq Int
    BY <1>b, <2>2, DateTypes DEF Decoded, Field
  <2>4. PICK s \in Int, e \in Int : Store([start |-> s, end |-> e])
    BY <1>7, <2>3 DEF activityEditPost
  <2> QED
    BY <1>6, <2>1, <2>4 DEF Activity
<1>8. CASE activityExtend
  <2>1. ClockForm /\ writes < MaxWrites
    BY <1>8, NoPagePc DEF activityExtend, Typed, Edit, Resumed, Resuming
  <2>2. PICK e \in parseFormTime(loc, page.end, now) : Store([row EXCEPT !.end = e])
    BY <1>8 DEF activityExtend
  <2>3. e \in Int
    BY <1>b, <2>1, <2>2, ParsedTypes DEF ClockForm
  <2>4. [row EXCEPT !.end = e] \in Activity
    BY <2>3 DEF Typed, Activity
  <2> QED
    BY <1>6, <2>1, <2>2, <2>4
<1>9. CASE activityResume
  <2>1. ClockForm /\ writes < MaxWrites
    BY <1>9, NoPagePc DEF activityResume, Typed, Edit, Resumed, Resuming
  <2>2. PICK e \in parseFormTime(loc, page.end, now) :
          page' = [pc |-> "resuming", start |-> page.start, end |-> page.end,
                   parsed |-> e, at |-> now, loc |-> loc]
    BY <1>9 DEF activityResume
  <2>3. e \in Int /\ page.start \in Int /\ page.end \in Int
    BY <1>b, <2>1, <2>2, ParsedTypes, ClockTypes DEF ClockForm
  <2>4. page' \in Resuming
    BY <2>2, <2>3 DEF Typed, Resuming
  <2>5. Resumed'
    BY <2>1, <2>2, <2>4 DEF Resumed, ClockForm
  <2> QED
    BY <1>9, <2>1, <2>5 DEF activityResume, Typed
<1>10. CASE ActivityAdd
  <2>1. Resumed /\ writes < MaxWrites
    BY <1>10, NoPagePc DEF ActivityAdd, Typed, Edit, ClockForm
  <2>2. PICK s \in parseFormTime(page.loc, page.start, now) :
          Store([start |-> s, end |-> page.parsed])
    BY <1>10 DEF ActivityAdd
  <2>3. page.loc \in Zone /\ page.parsed \in Int
    BY <2>1, ZoneTypes DEF Resumed, Resuming
  <2>4. s \in Int
    BY <1>b, <2>1, <2>2, <2>3, ParsedTypes DEF Resumed
  <2> QED
    BY <1>6, <2>1, <2>2, <2>3, <2>4 DEF Activity
<1>11. CASE Type
  <2>1. (Edit \/ ClockForm) /\ writes < MaxWrites
    BY <1>11, NoPagePc DEF Type, Typed, Resumed, Resuming
  <2>2. UNCHANGED <<now, loc, row, writes>>
    BY <1>11 DEF Type
  <2>3. CASE ClockForm
    <3>1. PICK c \in Clocks : page' = [page EXCEPT !.end = c, !.typed = TRUE]
      BY <1>11, <2>3 DEF Type, ClockForm
    <3>2. c \in Clock /\ c \in Field
      BY <3>1, FormTimesAssumption, ClockTypes DEF Clock, Field
    <3>3. ClockForm'
      BY <2>3, <3>1, <3>2, TypedIn DEF ClockForm
    <3> QED
      BY <2>1, <2>2, <3>3 DEF Typed
  <2>4. CASE Edit
    <3>1. page' = [page EXCEPT !.end = Unparsable, !.typed = TRUE]
      BY <1>11, <2>4 DEF Type, Edit
    <3>2. Edit'
      BY <2>4, <3>1, TypedIn DEF Edit, Field
    <3> QED
      BY <2>1, <2>2, <3>2 DEF Typed
  <2> QED
    BY <2>1, <2>3, <2>4
<1>12. CASE Leave
  BY <1>12 DEF Leave, Typed
<1> QED
  BY <1>1, <1>2, <1>3, <1>4, <1>5, <1>7, <1>8, <1>9, <1>10, <1>11, <1>12 DEF Next

LEMMA TypedHolds == Spec => []Typed
<1>1. Init => Typed
  BY FormTimesAssumption DEF Init, Typed
<1> QED
  BY <1>1, StepTypes, PTL DEF Spec

(* No field of any form makes anything but a time of a time.               *)
THEOREM TypesHold == Spec => []TypeOK
BY TypedHolds, TypedImplies, PTL

(* The page of a day shows that day, as far as its clock goes on evenly.   *)
THEOREM DaysShown == Spec => []ShownOnItsDay
<1>1. Typed => ShownOnItsDay
  <2> SUFFICES ASSUME Typed, NEW d \in Days, NEW m \in dayView(loc, d),
                      Unique(loc, d * Day), row.start <= row.end
               PROVE  LET ofDay == formatDay(loc, row.start) = d
                                     /\ formatDay(loc, row.end) = d
                          earlier == Offset(loc, m)
                          later == Offset(loc, row.end)
                      IN  /\ OnPage(row, m) /\ later <= earlier => ofDay
                          /\ ofDay /\ later >= earlier => OnPage(row, m)
    BY DEF ShownOnItsDay
  <2>1. d \in Int /\ loc \in Zone /\ row \in Activity
    BY FormTimesAssumption, ZoneTypes DEF Typed
  <2> QED
    BY <2>1, ActivityShown
<1> QED
  BY <1>1, TypedHolds, PTL

(* What it shows stands beside its hour.                                   *)
THEOREM HoursDrawn == Spec => []DrawnAtItsHour
<1>1. Typed => DrawnAtItsHour
  <2> SUFFICES ASSUME Typed, NEW d \in Days, NEW m \in dayView(loc, d),
                      Unique(loc, d * Day), formatDay(loc, row.start) = d,
                      Offset(loc, row.start) = Offset(loc, m)
               PROVE  Top(row, m) = formatHM(loc, row.start) \div Minute
    BY DEF DrawnAtItsHour
  <2>1. d \in Int /\ loc \in Zone /\ row \in Activity
    BY FormTimesAssumption, ZoneTypes DEF Typed
  <2> QED
    BY <2>1, ActivityDrawn
<1> QED
  BY <1>1, TypedHolds, PTL

-----------------------------------------------------------------------------
(* What is stored of a form.                                               *)

(* What a form shows of an instant stands for its minute.                  *)
LEMMA ShownMinute ==
  ASSUME NEW z \in Zones, NEW t \in Int,
         Unique(z, formatDatetimeLocalHTML(z, t)),
         NEW u \in Date(z, formatDatetimeLocalHTML(z, t))
  PROVE  t - Minute < u /\ u <= t
<1>1. z \in Zone
  BY ZoneTypes
<1>2. /\ z.at \in Int /\ z.before \in Int /\ z.after \in Int
      /\ z.at % Minute = 0 /\ z.before % Minute = 0 /\ z.after % Minute = 0
  BY <1>1, WholeMinutes, Civil
<1> DEFINE m == t - (t % Minute)
<1>3. m \in Int /\ t - Minute < m /\ m <= t
  BY DEF Minute
<1>4. Offset(z, m) = Offset(z, t)
  <2>1. m < z.at <=> t < z.at
    BY <1>2 DEF Minute
  <2> QED
    BY <2>1 DEF Offset
<1>5. In(z, t) % Minute = t % Minute
  <2>1. \A n \in Int : n % Minute = 0 => (t + n) % Minute = t % Minute
    BY DEF Minute
  <2> QED
    BY <1>1, <1>2, <2>1, Civil
<1> HIDE DEF m
<1>6. In(z, m) = formatDatetimeLocalHTML(z, t)
  <2>1. In(z, m) = m + Offset(z, t)
    BY <1>1, <1>3, <1>4, Civil
  <2>2. In(z, t) = t + Offset(z, t) /\ Offset(z, t) \in Int
    BY <1>1, Civil
  <2>3. t % Minute \in Int
    BY DEF Minute
  <2>4. m = t - (t % Minute)
    BY DEF m
  <2>5. formatDatetimeLocalHTML(z, t) = In(z, t) - (In(z, t) % Minute)
    BY DEF formatDatetimeLocalHTML
  <2> QED
    BY <1>3, <1>5, <2>1, <2>2, <2>3, <2>4, <2>5
<1>7. u = m
  BY <1>1, <1>3, <1>6, Formats, DateUnique
<1> QED
  BY <1>3, <1>7

(* An edit form that is posted as it was shown changes no minute.          *)
THEOREM EditsKeepTimes == Spec => EditKeepsTimes
<1>1. ASSUME Typed, [Next]_vars,
             activityEditPost, loc = page.loc, NEW f \in {"start", "end"},
             page[f] # Unparsable, Unique(loc, page[f])
      PROVE  page.was[f] - Minute < row'[f] /\ row'[f] <= page.was[f]
  <2>1. Edit
    BY <1>1, NoPagePc DEF activityEditPost, Typed, ClockForm, Resumed, Resuming
  <2>2. page.was.start \in Int /\ page.was.end \in Int /\ page.start # Unparsable
    BY <2>1, FormTimesAssumption DEF Edit, Forms, Activity
  <2>3. PICK s \in Decoded(loc, page.start, now), e \in Decoded(loc, page.end, now) :
          row' = [start |-> s, end |-> e]
    BY <1>1 DEF activityEditPost, Store
  <2>4. CASE f = "start"
    <3>1. s \in Date(loc, formatDatetimeLocalHTML(loc, page.was.start))
      BY <1>1, <2>1, <2>2, <2>3 DEF Decoded, Edit
    <3>2. Unique(loc, formatDatetimeLocalHTML(loc, page.was.start))
      BY <1>1, <2>1, <2>4 DEF Edit
    <3>3. page.was.start - Minute < s /\ s <= page.was.start
      BY <1>1, <2>2, <3>1, <3>2, ShownMinute DEF Typed
    <3> QED
      BY <2>3, <2>4, <3>3
  <2>5. CASE f = "end"
    <3>1. e \in Date(loc, formatDatetimeLocalHTML(loc, page.was.end))
      BY <1>1, <2>1, <2>3, <2>5 DEF Decoded, Edit
    <3>2. Unique(loc, formatDatetimeLocalHTML(loc, page.was.end))
      BY <1>1, <2>1, <2>5 DEF Edit
    <3>3. page.was.end - Minute < e /\ e <= page.was.end
      BY <1>1, <2>2, <3>1, <3>2, ShownMinute DEF Typed
    <3> QED
      BY <2>3, <2>5, <3>3
  <2> QED
    BY <2>4, <2>5
<1>2. Typed /\ [Next]_vars =>
        [activityEditPost /\ loc = page.loc =>
           \A f \in {"start", "end"} :
             page[f] # Unparsable /\ Unique(loc, page[f]) =>
               page.was[f] - Minute < row'[f] /\ row'[f] <= page.was[f]]_vars
  BY <1>1
<1> QED
  BY <1>2, TypedHolds, PTL DEF Spec, EditKeepsTimes

(* An end that is posted as it was offered is that time, on the day of the *)
(* request.                                                                *)
THEOREM ExtendsAsShown == Spec => ExtendAsShown
<1> DEFINE passed == formatDay(loc, now) - formatDay(loc, page.at)
           offered == formatDatetimeLocalHTML(loc, page.at) + passed * Day
<1>1. ASSUME Typed, activityExtend, ~page.typed, loc = page.loc, Unique(loc, offered)
      PROVE  In(loc, row'.end) = offered
  <2>1. ClockForm
    BY <1>1, NoPagePc DEF activityExtend, Typed, Edit, Resumed, Resuming
  <2>2. page.at \in Int /\ now \in Int /\ loc \in Zone /\ row \in Activity
    BY <1>1, <2>1, ZoneTypes DEF ClockForm, Forms, Typed
  <2>3. PICK e \in parseFormTime(loc, page.end, now) : row' = [row EXCEPT !.end = e]
    BY <1>1 DEF activityExtend, Store
  <2>4. row'.end = e
    BY <2>2, <2>3 DEF Activity
  <2>5. /\ In(loc, page.at) \in Int /\ formatDay(loc, now) \in Int
        /\ formatDay(loc, page.at) \in Int
    BY <2>2, Civil, DayParts DEF formatDay
  <2>6. offered = formatDay(loc, now) * Day + page.end /\ offered \in Int
    <3>1. page.end = formatDatetimeLocalHTML(loc, page.at)
                       - formatDay(loc, page.at) * Day
      BY <1>1, <2>1, <2>5, SameDay
         DEF ClockForm, formatHM, formatDatetimeLocalHTML, formatDay
    <3>2. formatDatetimeLocalHTML(loc, page.at) \in Int
      BY <2>2, Formats
    <3> QED
      BY <2>5, <3>1, <3>2 DEF Day
  <2> HIDE DEF offered
  <2> QED
    BY <1>1, <2>2, <2>3, <2>4, <2>6, DateUnique DEF parseFormTime
<1>2. Typed /\ [Next]_vars =>
        [activityExtend /\ ~page.typed /\ loc = page.loc =>
           LET days == formatDay(loc, now) - formatDay(loc, page.at)
               civil == formatDatetimeLocalHTML(loc, page.at) + days * Day
           IN  Unique(loc, civil) => In(loc, row'.end) = civil]_vars
  BY <1>1
<1> QED
  BY <1>2, TypedHolds, PTL DEF Spec, ExtendAsShown

(* Start and end of a resumed activity are in order, but for midnight.     *)
THEOREM ResumesOrdered == Spec => ResumeOrdered
<1> DEFINE endDay == formatDay(page.loc, page.at)
           startDay == formatDay(page.loc, now)
<1>1. ASSUME Typed, ActivityAdd, page.start <= page.end,
             Unique(page.loc, startDay * Day + page.start),
             Unique(page.loc, endDay * Day + page.end)
      PROVE  row'.start <= row'.end <=> startDay <= endDay
  <2>1. Resumed
    BY <1>1, NoPagePc DEF ActivityAdd, Typed, Edit, ClockForm
  <2>2. PICK s \in parseFormTime(page.loc, page.start, now) :
          row' = [start |-> s, end |-> page.parsed]
    BY <1>1 DEF ActivityAdd, Store
  <2>3. page.loc \in Zone /\ page.at \in Int /\ now \in Int
    BY <1>1, <2>1, ZoneTypes DEF Resumed, Resuming, Typed
  <2>4. endDay \in Int /\ startDay \in Int
    BY <2>3, Civil, DayParts DEF formatDay
  <2>5. /\ page.start \in Int /\ 0 <= page.start /\ page.start < Day
        /\ page.end \in Int /\ 0 <= page.end /\ page.end < Day
    BY <2>1, ClockTypes DEF Resumed
  <2>6. /\ s \in Date(page.loc, startDay * Day + page.start)
        /\ page.parsed \in Date(page.loc, endDay * Day + page.end)
    BY <2>1, <2>2 DEF Resumed, parseFormTime
  <2> HIDE DEF endDay, startDay
  <2>7. startDay * Day + page.start \in Int /\ endDay * Day + page.end \in Int
    BY <2>4, <2>5 DEF Day
  <2>8. s <= page.parsed <=> startDay * Day + page.start <= endDay * Day + page.end
    BY <1>1, <2>3, <2>6, <2>7, DateOrder
  <2>9. startDay * Day + page.start <= endDay * Day + page.end <=> startDay <= endDay
    BY <1>1, <2>4, <2>5 DEF Day
  <2> QED
    BY <2>2, <2>8, <2>9
<1>2. Typed /\ [Next]_vars =>
        [LET first == formatDay(page.loc, page.at)
             second == formatDay(page.loc, now)
         IN  /\ ActivityAdd
             /\ page.start <= page.end
             /\ Unique(page.loc, second * Day + page.start)
             /\ Unique(page.loc, first * Day + page.end)
             => (row'.start <= row'.end <=> second <= first)]_vars
  BY <1>1
<1> QED
  BY <1>2, TypedHolds, PTL DEF Spec, ResumeOrdered
=============================================================================
