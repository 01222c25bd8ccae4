---------------------------- MODULE MCFormTimes -----------------------------
EXTENDS FormTimes

Hour == 60 * Minute

\* Midnight in UTC at the end of day 1.
Midnight == 2 * Day

East == [at |-> 0, before |-> 0, after |-> 9 * Hour]
\* Clocks are put forward at 1 o'clock UTC on day 1.
Forward == [at |-> Day + Hour, before |-> 0, after |-> Hour]
\* They are set back from midnight at the end of day 1.
BackAtMidnight == [at |-> Midnight - Hour, before |-> Hour, after |-> 0]
\* There is no midnight at the start of day 2.
NoMidnight == [at |-> Midnight, before |-> 0, after |-> Hour]

MCZones == {East, Forward, BackAtMidnight, NoMidnight}
MCReadings ==
  {Day - 30, Day + Hour + 90, Day + 15 * Hour - 10, Midnight - Hour - 10,
   Midnight - 45, Midnight + 20}
MCStart == Day - 30
MCRows ==
  {[start |-> Day + 90, end |-> Midnight - 600],
   [start |-> Midnight - Hour + 30, end |-> Midnight]}
MCClocks == {30 * Minute, 23 * Hour + 59 * Minute}
MCDays == 0..2
=============================================================================
