----------------------------- MODULE FormTimes ------------------------------
(***************************************************************************)
(* Times between a form and the database (server/util.go, newDecoder, the  *)
(* format functions of template.go).  A page shows instants as civil times *)
(* of the session's zone; a later request, maybe on another day or in      *)
(* another zone, makes instants of them again.                             *)
(*                                                                         *)
(* Instants and civil times are counted in seconds.  External: the time    *)
(* package of Go, of which time.Date says that a civil time which the      *)
(* zone skips or repeats is one or the other of the two instants.          *)
(***************************************************************************)
EXTENDS Integers

CONSTANTS Readings,    \* what time.Now() can return
          Start,       \* its first reading
          Zones,       \* zones the user may choose
          Rows,        \* the activity as it was stored at first
          Clocks,      \* clock times the user may type
          Days,        \* civil days whose pages are looked at
          Unparsable,  \* the value of a field that does not parse
          MaxWrites    \* bound: forms posted

Minute == 60
Day == 86400

\* A zone with one change of its offset, at an instant.
Zone == [at : Int, before : Int, after : Int]
Activity == [start : Int, end : Int]

ASSUME FormTimesAssumption ==
  /\ Readings \subseteq Int /\ Start \in Readings
  /\ Zones \subseteq Zone /\ Rows \subseteq Activity
  /\ Clocks \subseteq 0..(Day - 1) /\ Days \subseteq Int
  /\ Unparsable \notin Int /\ MaxWrites \in Nat

\* Clocks change, and differ from UTC, by whole minutes.
ASSUME WholeMinutes ==
  \A z \in Zones : \A n \in {z.at, z.before, z.after} : n % Minute = 0

(***************************************************************************)
(* Conversions.                                                            *)
(***************************************************************************)
Offset(z, t) == IF t < z.at THEN z.before ELSE z.after
In(z, t) == t + Offset(z, t)

\* time.Date and time.ParseInLocation
Date(z, civil) ==
  LET either == {civil - z.before, civil - z.after}
      exact == {t \in either : In(z, t) = civil}
  IN  IF exact = {} THEN either ELSE exact

formatDay(z, t) == In(z, t) \div Day
formatDatetimeLocalHTML(z, t) == In(z, t) - (In(z, t) % Minute)

formatHM(z, t) == formatDatetimeLocalHTML(z, t) % Day

\* Mutants: a field that does not parse is passed on; the zone is not used.
MutDecoded(z, field, t) ==
  IF field = Unparsable THEN {field} ELSE Date(z, field)
MutDecodedUTC(z, field, t) == IF field = Unparsable THEN {t} ELSE {field}

\* The decoder's converter: what does not parse becomes the time of the request.
Decoded(z, field, t) == IF field = Unparsable THEN {t} ELSE Date(z, field)

\* Mutant: today is the day in UTC.
MutParseFormTime(z, clock, t) == Date(z, (t \div Day) * Day + clock)

\* A clock time is put on the day of the request.
parseFormTime(z, clock, t) == Date(z, formatDay(z, t) * Day + clock)

(***************************************************************************)
(* The day's page: the activities that Range finds from midnight on, each  *)
(* drawn as many pixels down as there are minutes since then.              *)
(***************************************************************************)
\* Mutant: the end is included.
MutOnPage(row, date) == row.start >= date /\ row.end <= date + Day

OnPage(row, date) == row.start >= date /\ row.end < date + Day

\* Mutant: midnight in UTC.
MutDayView(z, day) == {day * Day}

dayView(z, day) == Date(z, day * Day)
Top(row, date) == (row.start - date) \div Minute

(***************************************************************************)
(* One activity, and one form about it.                                    *)
(***************************************************************************)
VARIABLES now, loc, row,
          page,    \* the form that the browser shows
          writes   \* forms posted so far

vars == <<now, loc, row, page, writes>>

\* A form also records, for the properties, when and in which zone it was
\* shown, and whether the user has typed in it.
NoPage == [pc |-> "none"]
Form(pc, start, end) ==
  [pc |-> pc, start |-> start, end |-> end,
   at |-> now, loc |-> loc, was |-> row, typed |-> FALSE]

Init ==
  /\ now = Start /\ loc \in Zones /\ row \in Rows
  /\ page = NoPage /\ writes = 0

Tick ==
  /\ \E t \in Readings : t > now /\ now' = t
  /\ UNCHANGED <<loc, row, page, writes>>

loginSettings ==
  /\ loc' \in Zones
  /\ UNCHANGED <<now, row, page, writes>>

Show(form) ==
  /\ page = NoPage /\ writes < MaxWrites
  /\ page' = form
  /\ UNCHANGED <<now, loc, row, writes>>

Store(activity) ==
  /\ row' = activity
  /\ page' = NoPage
  /\ writes' = writes + 1
  /\ UNCHANGED <<now, loc>>

\* GET and POST /activity/{id}/edit
activityEdit ==
  Show(Form("edit", formatDatetimeLocalHTML(loc, row.start),
                    formatDatetimeLocalHTML(loc, row.end)))

activityEditPost ==
  /\ page.pc = "edit"
  /\ \E s \in Decoded(loc, page.start, now), e \in Decoded(loc, page.end, now) :
       Store([start |-> s, end |-> e])

\* The form "New End" is there for a day after the end.
Recent == row.end >= now - Day

activityView ==
  /\ Recent
  /\ Show(Form("extend", formatHM(loc, now), formatHM(loc, now)))

activityExtend ==
  /\ page.pc = "extend"
  /\ \E e \in parseFormTime(loc, page.end, now) :
       Store([row EXCEPT !.end = e])

\* The page of the latest activities has a form to do one again, now.
activityLatest ==
  /\ Recent
  /\ Show(Form("resume", formatHM(loc, now), formatHM(loc, now)))

\* activityResume parses the end, then the start, each with its own reading
\* of the clock, all in the zone that the request began with.
activityResume ==
  /\ page.pc = "resume"
  /\ \E e \in parseFormTime(loc, page.end, now) :
       page' = [pc |-> "resuming", start |-> page.start, end |-> page.end,
                parsed |-> e, at |-> now, loc |-> loc]
  /\ UNCHANGED <<now, loc, row, writes>>

\* Mutant: start and end are swapped.
MutActivityAdd ==
  /\ page.pc = "resuming"
  /\ \E s \in parseFormTime(page.loc, page.start, now) :
       Store([start |-> page.parsed, end |-> s])

ActivityAdd ==
  /\ page.pc = "resuming"
  /\ \E s \in parseFormTime(page.loc, page.start, now) :
       Store([start |-> s, end |-> page.parsed])

\* The user types a clock time, or leaves a date and time incomplete.
Type ==
  /\ \/ /\ page.pc \in {"extend", "resume"}
        /\ \E c \in Clocks : page' = [page EXCEPT !.end = c, !.typed = TRUE]
     \/ /\ page.pc = "edit"
        /\ page' = [page EXCEPT !.end = Unparsable, !.typed = TRUE]
  /\ UNCHANGED <<now, loc, row, writes>>

Leave ==
  /\ page.pc \in {"edit", "extend", "resume"}
  /\ page' = NoPage
  /\ UNCHANGED <<now, loc, row, writes>>

Next ==
  \/ Tick \/ loginSettings
  \/ activityEdit \/ activityEditPost
  \/ activityView \/ activityExtend
  \/ activityLatest \/ activityResume \/ ActivityAdd
  \/ Type \/ Leave

Spec == Init /\ [][Next]_vars

(***************************************************************************)
(* Properties                                                              *)
(***************************************************************************)
Field == Int \cup {Unparsable}
Forms == [pc : {"edit", "extend", "resume"}, start : Int, end : Field,
          at : Int, loc : Zones, was : Activity, typed : BOOLEAN]
Resuming == [pc : {"resuming"}, start : Int, end : Int, parsed : Int,
             at : Int, loc : Zones]

\* What is stored is a time, whatever a form holds; only the edit form may
\* hold something that does not parse.
TypeOK ==
  /\ now \in Int /\ loc \in Zones /\ row \in Activity
  /\ page \in {NoPage} \cup Forms \cup Resuming
  /\ page.pc \in {"extend", "resume"} => page.end \in 0..(Day - 1)
  /\ page.pc \in {"extend", "resume", "resuming"} => page.start \in 0..(Day - 1)
  /\ writes \in 0..MaxWrites

\* The zone neither skips nor repeats the civil time.
Unique(z, civil) == \A t, u \in Date(z, civil) : t = u

\* Posting the edit form as it was shown moves no time by a minute or more
\* (it drops the seconds), unless the zone was changed in between, or the
\* clock shows that time twice that day.
EditKeepsTimes ==
  [][activityEditPost /\ loc = page.loc =>
       \A f \in {"start", "end"} :
         page[f] # Unparsable /\ Unique(loc, page[f]) =>
           page.was[f] - Minute < row'[f] /\ row'[f] <= page.was[f]]_vars

\* The extend form offers the time at which the page was shown.  That is the
\* end that is stored, if the form is posted on the same day; else it is off
\* by the days that passed, and lies in the future.
ExtendAsShown ==
  [][activityExtend /\ ~page.typed /\ loc = page.loc =>
       LET days == formatDay(loc, now) - formatDay(loc, page.at)
           civil == formatDatetimeLocalHTML(loc, page.at) + days * Day
       IN  Unique(loc, civil) => In(loc, row'.end) = civil]_vars

\* An activity that is done again starts before it ends, as typed, unless
\* midnight passes between the two readings of the clock: then it does not.
ResumeOrdered ==
  [][LET first == formatDay(page.loc, page.at)
         second == formatDay(page.loc, now)
     IN  /\ ActivityAdd
         /\ page.start <= page.end
         /\ Unique(page.loc, second * Day + page.start)
         /\ Unique(page.loc, first * Day + page.end)
         => (row'.start <= row'.end <=> second <= first)]_vars

\* A day's page (midnight and 24 hours) shows the activities of that civil day
\* and no others.  When clocks are set back in the day it may miss some of its
\* last hour, and when they are put forward show some of the next day.
ShownOnItsDay ==
  \A d \in Days : \A midnight \in dayView(loc, d) :
    Unique(loc, d * Day) /\ row.start <= row.end =>
      LET ofDay == formatDay(loc, row.start) = d /\ formatDay(loc, row.end) = d
          earlier == Offset(loc, midnight)
          later == Offset(loc, row.end)
      IN  /\ OnPage(row, midnight) /\ later <= earlier => ofDay
          /\ ofDay /\ later >= earlier => OnPage(row, midnight)

\* It is drawn beside its hour of the page's ruler (day.html:107), if clocks
\* have not changed since midnight.
DrawnAtItsHour ==
  \A d \in Days : \A midnight \in dayView(loc, d) :
    /\ Unique(loc, d * Day) /\ formatDay(loc, row.start) = d
    /\ Offset(loc, row.start) = Offset(loc, midnight)
    => Top(row, midnight) = formatHM(loc, row.start) \div Minute
=============================================================================
