------------------------------ MODULE RRuleGen -------------------------------
(***************************************************************************)
(* cmd/jks-rrule/main.go: run from time to time, it stores one task for    *)
(* each occurrence of each recurrence rule, up to GenerateInterval ahead,  *)
(* and remembers in a cache file how far it got.  The cache is rewritten   *)
(* in place after the tasks are stored, and the two are not one            *)
(* transaction: a run can stop between any two of its steps.               *)
(*                                                                         *)
(* Rules whose DryRun is set, which store nothing, are left out.           *)
(***************************************************************************)
EXTENDS Integers, FiniteSets

CONSTANTS
  Readings,     \* what time.Now() can return
  Start,        \* its first reading
  Rules,        \* the names in cfg.Tasks
  Occurs,       \* Occurs[n]: the occurrences of rule n
  Intervals,    \* values GenerateInterval is given, run by run
  Faults,       \* what can go wrong: "stop", "partial write", "removed"
  Empty,        \* a cache file without contents
  Corrupt,      \* a cache file that does not decode
  MaxCopies     \* bound: tasks counted for one occurrence

ASSUME RRuleAssumption ==
  /\ Readings \subseteq Int /\ Start \in Readings
  /\ IsFiniteSet(Rules)
  /\ Occurs \in [Rules -> SUBSET Int]
  /\ Intervals \subseteq Nat
  /\ Empty \notin Int /\ Corrupt \notin Int /\ Empty # Corrupt
  /\ MaxCopies \in Nat \ {0, 1}

(* An occurrence: a rule and a time.                                       *)
Occurrences == UNION {{n} \X Occurs[n] : n \in Rules}

VARIABLES
  clock,   \* the time
  cache,   \* the cache file: Empty, Corrupt, or GenerateFrom
  copies,  \* copies[n, t]: tasks stored for the occurrence of rule n at t
  pc,      \* the statement a run is at; "idle" when none runs
  from,    \* cache.GenerateFrom, in memory
  to,      \* generateTo
  rules,   \* rules the loop has not reached
  times,   \* occurrences of the rule it is at that remain to be stored
  (* history *)
  reached, \* the latest end of a window whose loop has completed
  lost,    \* the file was never written, or what was written has been lost
  skipped, \* the times between reached and a start without a cache
  smooth   \* nothing went wrong, and each window was left behind for good

progress == <<reached, lost, skipped>>

vars == <<clock, cache, copies, pc, from, to, rules, times, progress, smooth>>

Init ==
  /\ clock = Start
  /\ cache = Empty
  /\ copies = [o \in Occurrences |-> 0]
  /\ pc = "idle"
  /\ from = Start /\ to = Start
  /\ rules = {} /\ times = {}
  /\ reached = Start - 1 /\ lost = TRUE /\ skipped = {}
  /\ smooth = TRUE

Tick ==
  /\ \E now \in Readings : now > clock /\ clock' = now
  /\ UNCHANGED <<cache, copies, pc, from, to, rules, times, progress, smooth>>

(* A run that starts with a file it can read.  If what the file said was   *)
(* lost, the times up to now go down as skipped.                           *)
StartFrom(time) ==
  /\ pc = "idle"
  /\ cache # Corrupt
  /\ from' = time
  /\ skipped' = skipped \cup (IF lost THEN (reached + 1) .. (clock - 1) ELSE {})
  /\ pc' = "opened"
  /\ UNCHANGED <<clock, cache, copies, to, rules, times, reached, lost, smooth>>

MutOpen == StartFrom(clock)

(* Decode the cache; a run that finds it corrupt panics, changing nothing. *)
Open == StartFrom(IF cache = Empty THEN clock ELSE cache)

(* generateTo is computed from a reading of its own.  The window does not  *)
(* pass smoothly into the next one if it ends before it begins, after the  *)
(* interval was made shorter, or at an occurrence, which lies in both.     *)
GenerateTo ==
  /\ pc = "opened"
  /\ \E interval \in Intervals : to' = clock + interval
  /\ smooth' = (smooth /\ from <= to' /\ \A o \in Occurrences : o[2] # to')
  /\ rules' = Rules
  /\ pc' = "rules"
  /\ UNCHANGED <<clock, cache, copies, from, times, progress>>

MutBetween(n) == {o \in {n} \X Occurs[n] : clock <= o[2] /\ o[2] <= to}

(* set.Between(generateFrom, generateTo, true)                             *)
Between(n) == {o \in {n} \X Occurs[n] : from <= o[2] /\ o[2] <= to}

(* Go ranges over the map of rules in any order.                           *)
createForTask ==
  /\ pc = "rules"
  /\ \E n \in rules :
       /\ rules' = rules \ {n}
       /\ times' = Between(n)
  /\ pc' = "times"
  /\ UNCHANGED <<clock, cache, copies, from, to, progress, smooth>>

OneMore(n) == IF n < MaxCopies THEN n + 1 ELSE n

(* The earliest occurrence left is stored.                                 *)
TaskAdd ==
  /\ pc = "times"
  /\ \E o \in times :
       /\ \A u \in times : o[2] <= u[2]
       /\ copies' = [copies EXCEPT ![o] = OneMore(copies[o])]
       /\ times' = times \ {o}
  /\ UNCHANGED <<clock, cache, pc, from, to, rules, progress, smooth>>

RuleDone ==
  /\ pc = "times" /\ times = {}
  /\ pc' = "rules"
  /\ UNCHANGED <<clock, cache, copies, from, to, rules, times, progress, smooth>>

(* Every task of the window is stored.                                     *)
Truncate ==
  /\ pc = "rules" /\ rules = {}
  /\ cache' = Empty
  /\ pc' = "truncated"
  /\ reached' = IF reached < to THEN to ELSE reached
  /\ UNCHANGED <<clock, copies, from, to, rules, times, lost, skipped, smooth>>

Written(time) ==
  /\ pc = "truncated"
  /\ cache' = time
  /\ pc' = "idle"
  /\ lost' = FALSE
  /\ UNCHANGED <<clock, copies, from, to, rules, times, reached, skipped, smooth>>

MutEncode == Written(clock)

Encode == Written(to)

(* The disk fills up, or the machine stops, in the middle of the write.    *)
PartialWrite ==
  /\ "partial write" \in Faults
  /\ pc = "truncated"
  /\ cache' = Corrupt
  /\ pc' = "idle"
  /\ lost' = TRUE
  /\ smooth' = FALSE
  /\ UNCHANGED <<clock, copies, from, to, rules, times, reached, skipped>>

(* A statement fails and the run panics, or the process is killed.         *)
Stop ==
  /\ "stop" \in Faults
  /\ pc # "idle"
  /\ pc' = "idle"
  /\ lost' = (lost \/ pc = "truncated")
  /\ smooth' = FALSE
  /\ UNCHANGED <<clock, cache, copies, from, to, rules, times, reached, skipped>>

(* Someone deletes the file, the only way out when it is corrupt; OpenFile *)
(* creates it again.                                                       *)
Removed ==
  /\ "removed" \in Faults
  /\ pc = "idle" /\ cache # Empty
  /\ cache' = Empty
  /\ lost' = TRUE
  /\ smooth' = FALSE
  /\ UNCHANGED <<clock, copies, pc, from, to, rules, times, reached, skipped>>

Next ==
  \/ Tick
  \/ Open
  \/ GenerateTo
  \/ createForTask
  \/ TaskAdd
  \/ RuleDone
  \/ Truncate
  \/ Encode
  \/ PartialWrite
  \/ Stop
  \/ Removed

(* A run that has begun goes on; nothing makes anyone begin one.           *)
Run == GenerateTo \/ createForTask \/ TaskAdd \/ RuleDone \/ Truncate \/ Encode

Spec == Init /\ [][Next]_vars /\ WF_vars(Run)

-----------------------------------------------------------------------------
(* Properties.                                                             *)

(* What a completed loop has passed has its task, and the cache never says *)
(* more.  The times that were skipped are the exception, and there are     *)
(* none unless the program starts without knowing how far it got: the      *)
(* first time, or after the file was lost between Truncate and the end of  *)
(* Encode, or deleted.  A run that stops in its loop skips nothing.        *)
NothingMissed ==
  /\ cache \in Int => cache <= reached
  /\ \A o \in Occurrences :
       Start <= o[2] /\ o[2] <= reached => copies[o] > 0 \/ o[2] \in skipped

(* An occurrence gets one task, as long as every run completes and every   *)
(* window begins where the one before has ended, with nothing on the       *)
(* border: the program that never looks for a task it has stored depends   *)
(* on it.                                                                  *)
NothingTwice == smooth => \A o \in Occurrences : copies[o] <= 1

(* If someone always runs the program again, and runs stop no more from    *)
(* some time on, then an occurrence gets its task when it is no further    *)
(* ahead than any interval, unless it was skipped.                         *)
CaughtUp ==
  /\ pc = "idle" ~> pc # "idle"
  /\ <>[][~Stop /\ ~PartialWrite]_vars
  => \A o \in Occurrences :
       (Start <= o[2] /\ \A d \in Intervals : o[2] <= clock + d)
         ~> (copies[o] > 0 \/ o[2] \in skipped)

=============================================================================
