\* Runs that stop anywhere, a cache file left half written or deleted, a changing interval.
SPECIFICATION Spec
CONSTANTS
  daily = daily
  weekly = weekly
  Empty = Empty
  Corrupt = Corrupt
  Readings <- AnyTime
  Start = 1
  Rules <- TwoRules
  Occurs <- AnyDates
  Intervals = {1, 3}
  Faults = {"stop", "partial write", "removed"}
  MaxCopies = 2
INVARIANTS
  NothingMissed
  NothingTwice
PROPERTY
  CaughtUp
