\* What forms and pages make of times, around midnight and clock changes.
SPECIFICATION Spec
CONSTANTS
  Readings <- MCReadings
  Start <- MCStart
  Zones <- MCZones
  Rows <- MCRows
  Clocks <- MCClocks
  Days <- MCDays
  Unparsable = Unparsable
  MaxWrites = 2
INVARIANTS TypeOK ShownOnItsDay DrawnAtItsHour
PROPERTIES EditKeepsTimes ExtendAsShown ResumeOrdered
