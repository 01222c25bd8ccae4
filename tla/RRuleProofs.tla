----------------------------- MODULE RRuleProofs -----------------------------
(***************************************************************************)
(* Proofs that the generator of recurring tasks misses no occurrence but   *)
(* those skipped by a start without a cache, wherever its runs stop; and   *)
(* that runs which complete store none twice.                              *)
(***************************************************************************)
EXTENDS RRuleGen, FiniteSetTheorems, TLAPS

TypeOK ==
  /\ clock \in Int
  /\ cache \in Int \cup {Empty, Corrupt}
  /\ copies \in [Occurrences -> Nat]
  /\ pc \in {"idle", "opened", "rules", "times", "truncated"}
  /\ from \in Int /\ to \in Int
  /\ reached \in Int /\ lost \in BOOLEAN /\ skipped \subseteq Int
  /\ rules \subseteq Rules
  /\ times \subseteq Occurrences
  /\ smooth \in BOOLEAN

(* A run begins no later than where the tasks have reached, up to times    *)
(* that were skipped; while it stores, everything it is to store and has   *)
(* passed has its task.  An empty file stands for one that was lost,       *)
(* except in the run that has emptied it.                                  *)
Covered ==
  /\ NothingMissed
  /\ pc # "idle" =>
       \A t \in Int : reached < t /\ t < from => t \in skipped
  /\ pc \in {"rules", "times", "truncated"} =>
       \A o \in Occurrences :
         from <= o[2] /\ o[2] <= to =>
           \/ copies[o] > 0
           \/ pc # "truncated" /\ o[1] \in rules
           \/ pc = "times" /\ o \in times
  /\ pc = "truncated" => cache = Empty /\ to <= reached
  /\ pc # "truncated" /\ cache = Empty => lost

LEMMA OccurrenceTypes ==
  ASSUME NEW o \in Occurrences
  PROVE  o[1] \in Rules /\ o[2] \in Int
<1>1. PICK n \in Rules : o \in {n} \X Occurs[n]
  BY DEF Occurrences
<1> QED
  BY <1>1, RRuleAssumption

LEMMA BetweenOccurrences ==
  ASSUME NEW n \in Rules
  PROVE  /\ Between(n) \subseteq Occurrences
         /\ \A o \in Occurrences :
              o[1] = n /\ from <= o[2] /\ o[2] <= to => o \in Between(n)
         /\ \A o \in Between(n) : o[1] = n /\ from <= o[2] /\ o[2] <= to
<1>1. Between(n) \subseteq Occurrences
  BY DEF Between, Occurrences
<1>2. ASSUME NEW o \in Occurrences, o[1] = n, from <= o[2], o[2] <= to
      PROVE  o \in Between(n)
  <2>1. PICK m \in Rules : o \in {m} \X Occurs[m]
    BY DEF Occurrences
  <2>2. m = n
    BY <1>2, <2>1
  <2> QED
    BY <1>2, <2>1, <2>2 DEF Between
<1>3. \A o \in Between(n) : o[1] = n /\ from <= o[2] /\ o[2] <= to
  BY DEF Between
<1> QED
  BY <1>1, <1>2, <1>3

LEMMA OneMoreCopy ==
  ASSUME NEW n \in Nat
  PROVE  OneMore(n) \in Nat /\ OneMore(n) > 0 /\ (n = 0 => OneMore(n) = 1)
BY RRuleAssumption DEF OneMore

LEMMA StepTypes == TypeOK /\ [Next]_vars => TypeOK'
<1> SUFFICES ASSUME TypeOK, [Next]_vars PROVE TypeOK'
  OBVIOUS
<1>1. CASE UNCHANGED vars
  BY <1>1 DEF progress, vars, TypeOK
<1>2. CASE Tick
  BY <1>2, RRuleAssumption DEF progress, Tick, TypeOK
<1>3. CASE Open
  BY <1>3, RRuleAssumption DEF Open, StartFrom, TypeOK
<1>4. CASE GenerateTo
  BY <1>4, RRuleAssumption DEF progress, GenerateTo, TypeOK
<1>5. CASE createForTask
  BY <1>5, BetweenOccurrences DEF progress, createForTask, TypeOK
<1>6. CASE TaskAdd
  <2>1. PICK o \in times :
          /\ copies' = [copies EXCEPT ![o] = OneMore(copies[o])]
          /\ times' = times \ {o}
    BY <1>6 DEF TaskAdd
  <2>2. OneMore(copies[o]) \in Nat
    BY <2>1, OneMoreCopy DEF TypeOK
  <2> QED
    BY <1>6, <2>1, <2>2 DEF progress, TaskAdd, TypeOK
<1>7. CASE RuleDone
  BY <1>7 DEF progress, RuleDone, TypeOK
<1>8. CASE Truncate \/ Encode \/ PartialWrite \/ Removed
  BY <1>8 DEF Truncate, Encode, Written, PartialWrite, Removed, TypeOK
<1>9. CASE Stop
  BY <1>9 DEF Stop, TypeOK
<1> QED
  BY <1>1, <1>2, <1>3, <1>4, <1>5, <1>6, <1>7, <1>8, <1>9 DEF Next

LEMMA TypesHold == Spec => []TypeOK
<1>1. Init => TypeOK
  BY RRuleAssumption DEF Init, TypeOK
<1> QED
  BY <1>1, StepTypes, PTL DEF Spec

LEMMA StepCovered == TypeOK /\ Covered /\ [Next]_vars => Covered'
<1> SUFFICES ASSUME TypeOK, Covered, [Next]_vars PROVE Covered'
  OBVIOUS
<1>a. \A o \in Occurrences : o[2] \in Int
  BY OccurrenceTypes
<1>1. CASE UNCHANGED vars \/ Tick
  <2>1. UNCHANGED <<cache, copies, pc, from, to, rules, times,
                    reached, lost, skipped>>
    BY <1>1 DEF vars, progress, Tick
  <2> QED
    BY <2>1 DEF Covered, NothingMissed
<1>2. CASE Open
  <2>1. /\ pc = "idle" /\ pc' = "opened" /\ skipped \subseteq skipped'
        /\ UNCHANGED <<cache, copies, reached, lost>>
    BY <1>2 DEF Open, StartFrom
  <2>2. ASSUME NEW t \in Int, reached < t, t < from' PROVE t \in skipped'
    <3>1. CASE cache = Empty
      <4>1. lost /\ from' = clock
        BY <1>2, <2>1, <3>1 DEF Open, StartFrom, Covered
      <4>2. skipped' = skipped \cup ((reached + 1) .. (clock - 1))
        BY <1>2, <4>1 DEF Open, StartFrom
      <4>3. t \in (reached + 1) .. (clock - 1)
        BY <2>2, <4>1 DEF TypeOK
      <4> QED
        BY <4>2, <4>3
    <3>2. CASE cache # Empty
      <4>1. cache \in Int /\ from' = cache
        BY <1>2, <3>2 DEF Open, StartFrom, TypeOK
      <4>2. cache <= reached
        BY <4>1 DEF Covered, NothingMissed
      <4> QED
        BY <2>2, <4>1, <4>2 DEF TypeOK
    <3> QED
      BY <3>1, <3>2
  <2> QED
    BY <2>1, <2>2 DEF Covered, NothingMissed
<1>3. CASE GenerateTo
  BY <1>3, OccurrenceTypes DEF progress, GenerateTo, Covered, NothingMissed
<1>4. CASE createForTask
  <2>1. PICK n \in rules : rules' = rules \ {n} /\ times' = Between(n)
    BY <1>4 DEF createForTask
  <2>2. n \in Rules
    BY <2>1 DEF TypeOK
  <2>3. ASSUME NEW o \in Occurrences, from <= o[2], o[2] <= to
        PROVE  copies[o] > 0 \/ o[1] \in rules' \/ o \in times'
    BY <1>4, <2>1, <2>2, <2>3, BetweenOccurrences DEF createForTask, Covered
  <2> QED
    BY <1>4, <2>3 DEF progress, createForTask, Covered, NothingMissed
<1>5. CASE TaskAdd
  <2>1. PICK o \in times :
          /\ copies' = [copies EXCEPT ![o] = OneMore(copies[o])]
          /\ times' = times \ {o}
    BY <1>5 DEF TaskAdd
  <2>3. OneMore(copies[o]) > 0
    BY <2>1, OneMoreCopy DEF TypeOK
  <2>2. \A p \in Occurrences :
          /\ copies[p] > 0 => copies'[p] > 0
          /\ p = o => copies'[p] > 0
    BY <2>1, <2>3 DEF TypeOK
  <2> QED
    BY <1>5, <2>1, <2>2 DEF progress, TaskAdd, Covered, NothingMissed
<1>6. CASE RuleDone
  BY <1>6 DEF progress, RuleDone, Covered, NothingMissed
<1>7. CASE Truncate
  <2>1. /\ pc = "rules" /\ rules = {} /\ pc' = "truncated" /\ cache' = Empty
        /\ reached' = IF reached < to THEN to ELSE reached
        /\ UNCHANGED <<copies, from, to, skipped>>
    BY <1>7 DEF Truncate
  <2>2. reached' \in Int /\ reached <= reached' /\ to <= reached'
    BY <2>1 DEF TypeOK
  <2>3. \A o \in Occurrences : from <= o[2] /\ o[2] <= to => copies[o] > 0
    BY <2>1 DEF Covered
  <2>4. ASSUME NEW o \in Occurrences, Start <= o[2], o[2] <= reached'
        PROVE  copies[o] > 0 \/ o[2] \in skipped
    <3>1. CASE o[2] <= reached
      BY <2>4, <3>1 DEF Covered, NothingMissed
    <3>2. CASE ~(o[2] <= reached)
      <4>1. reached < o[2] /\ o[2] <= to
        BY <1>a, <2>1, <2>4, <3>2 DEF TypeOK
      <4>2. CASE o[2] < from
        BY <1>a, <2>1, <4>1, <4>2 DEF Covered
      <4>3. CASE from <= o[2]
        BY <2>3, <4>1, <4>3
      <4> QED
        BY <1>a, <4>2, <4>3 DEF TypeOK
    <3> QED
      BY <3>1, <3>2
  <2>5. \A t \in Int : reached' < t /\ t < from' => t \in skipped'
    BY <2>1, <2>2 DEF Covered, TypeOK
  <2>6. Empty \notin Int
    BY RRuleAssumption
  <2> QED
    BY <2>1, <2>2, <2>3, <2>4, <2>5, <2>6 DEF Covered, NothingMissed
<1>8. CASE Encode
  <2>1. to # Empty
    BY RRuleAssumption DEF TypeOK
  <2> QED
    BY <1>8, <2>1 DEF Encode, Written, Covered, NothingMissed
<1>9. CASE PartialWrite
  BY <1>9, RRuleAssumption DEF PartialWrite, Covered, NothingMissed
<1>10. CASE Stop
  BY <1>10 DEF Stop, Covered, NothingMissed
<1>11. CASE Removed
  BY <1>11, RRuleAssumption DEF Removed, Covered, NothingMissed
<1> QED
  BY <1>1, <1>2, <1>3, <1>4, <1>5, <1>6, <1>7, <1>8, <1>9, <1>10, <1>11 DEF Next

(* Whatever stops a run and whatever the interval is set to, the tasks are *)
(* never behind what the cache says of them, nor behind any window that    *)
(* was completed, but for the times skipped by a start without a cache.    *)
THEOREM MissedOnlyIfSkipped == Spec => []NothingMissed
<1>1. Init => Covered
  <2> SUFFICES ASSUME Init PROVE Covered
    OBVIOUS
  <2>1. /\ cache = Empty /\ pc = "idle" /\ lost /\ reached = Start - 1
        /\ Start \in Int /\ Empty \notin Int
    BY RRuleAssumption DEF Init
  <2>2. \A o \in Occurrences : ~(Start <= o[2] /\ o[2] <= reached)
    BY <2>1, OccurrenceTypes
  <2> QED
    BY <2>1, <2>2 DEF Covered, NothingMissed
<1>2. Covered => NothingMissed
  BY DEF Covered
<1> QED
  BY <1>1, <1>2, TypesHold, StepCovered, PTL DEF Spec

-----------------------------------------------------------------------------
(* Runs that complete.                                                     *)

(* Tasks are stored for occurrences before time h only.                    *)
StoredBefore(h) == \A o \in Occurrences : copies[o] > 0 => o[2] < h

(* The occurrences that the run has stored are those it has passed.        *)
StoredPassed ==
  /\ \A o \in Occurrences :
       copies[o] > 0 =>
         \/ o[2] < from
         \/ o[2] <= to /\ o[1] \notin rules /\ (pc = "times" => o \notin times)
  /\ pc = "times" => \A o \in times : from <= o[2] /\ o[2] <= to /\ o[1] \notin rules
  /\ from <= to
  /\ \A o \in Occurrences : o[2] # to

(* What a file without contents stands for is nothing at all, as long as   *)
(* no run has stopped after it emptied the file.                           *)
SmoothState ==
  /\ \A o \in Occurrences : copies[o] <= 1
  /\ pc = "idle" /\ cache = Empty => \A o \in Occurrences : copies[o] = 0
  /\ pc = "idle" /\ cache \in Int => StoredBefore(cache)
  /\ pc = "opened" => StoredBefore(from)
  /\ pc \in {"rules", "times"} => StoredPassed
  /\ pc = "truncated" => StoredBefore(to)

Once == smooth => SmoothState

LEMMA StepOnce == TypeOK /\ Once /\ [Next]_vars => Once'
<1> SUFFICES ASSUME TypeOK, Once, [Next]_vars, smooth' PROVE SmoothState'
  BY DEF Once
<1>a. \A o \in Occurrences : o[1] \in Rules /\ o[2] \in Int
  BY OccurrenceTypes
<1>b. smooth
  BY DEF Next, vars, Tick, Open, GenerateTo, createForTask, TaskAdd, RuleDone,
         Truncate, Encode, PartialWrite, Stop, Removed, StartFrom, Written
<1>c. SmoothState
  BY <1>b DEF Once
<1>1. CASE UNCHANGED vars \/ Tick
  <2>1. UNCHANGED <<cache, copies, pc, from, to, rules, times>>
    BY <1>1 DEF vars, Tick
  <2> QED
    BY <1>c, <2>1 DEF SmoothState, StoredBefore, StoredPassed
<1>3. CASE Open
  <2>1. CASE cache = Empty
    <3>1. \A o \in Occurrences : copies[o] = 0
      BY <1>3, <1>c, <2>1 DEF Open, StartFrom, SmoothState
    <3> QED
      BY <1>3, <2>1, <3>1 DEF Open, StartFrom, SmoothState, StoredBefore
  <2>2. CASE cache # Empty
    <3>1. cache \in Int /\ from' = cache
      BY <1>3, <2>2 DEF Open, StartFrom, TypeOK
    <3> QED
      BY <1>3, <1>c, <3>1 DEF Open, StartFrom, SmoothState, StoredBefore
  <2> QED
    BY <2>1, <2>2
<1>4. CASE GenerateTo
  <2>1. /\ from <= to'
        /\ \A o \in Occurrences : o[2] # to'
    BY <1>4 DEF GenerateTo
  <2>2. \A o \in Occurrences : copies[o] > 0 => o[2] < from
    BY <1>4, <1>c DEF GenerateTo, SmoothState, StoredBefore
  <2> QED
    BY <1>4, <1>c, <2>1, <2>2 DEF GenerateTo, SmoothState, StoredPassed
<1>5. CASE createForTask
  <2>1. PICK n \in rules : rules' = rules \ {n} /\ times' = Between(n)
    BY <1>5 DEF createForTask
  <2>2. n \in Rules /\ StoredPassed
    BY <1>5, <1>c, <2>1 DEF createForTask, SmoothState, TypeOK
  <2>3. \A o \in times' : from <= o[2] /\ o[2] <= to /\ o[1] = n /\ o[1] \notin rules'
    BY <2>1, <2>2, BetweenOccurrences
  <2>4. ASSUME NEW o \in Occurrences, copies[o] > 0
        PROVE  o[2] < from \/ (o[2] <= to /\ o[1] \notin rules' /\ o \notin times')
    <3>1. CASE o[2] < from
      BY <3>1
    <3>2. CASE ~(o[2] < from)
      <4>1. o[2] <= to /\ o[1] \notin rules
        BY <2>2, <2>4, <3>2 DEF StoredPassed
      <4> QED
        BY <2>1, <2>3, <4>1
    <3> QED
      BY <3>1, <3>2
  <2> QED
    BY <1>5, <1>c, <2>2, <2>3, <2>4 DEF createForTask, SmoothState, StoredPassed
<1>6. CASE TaskAdd
  <2>1. PICK o \in times :
          /\ copies' = [copies EXCEPT ![o] = OneMore(copies[o])]
          /\ times' = times \ {o}
    BY <1>6 DEF TaskAdd
  <2>2. StoredPassed /\ pc = "times" /\ o \in Occurrences
    BY <1>6, <1>c, <2>1 DEF TaskAdd, SmoothState, TypeOK
  <2>3. copies[o] = 0
    <3>1. ~(o[2] < from)
      BY <1>a, <2>1, <2>2 DEF StoredPassed, TypeOK
    <3> QED
      BY <2>1, <2>2, <3>1 DEF StoredPassed, TypeOK
  <2>4. \A p \in Occurrences : copies'[p] = IF p = o THEN 1 ELSE copies[p]
    BY <2>1, <2>2, <2>3, OneMoreCopy DEF TypeOK
  <2>5. \A p \in Occurrences : copies'[p] <= 1
    BY <1>c, <2>4 DEF SmoothState
  <2>6. UNCHANGED <<cache, pc, from, to, rules>>
    BY <1>6 DEF TaskAdd
  <2>7. o[2] <= to /\ o[1] \notin rules /\ o \notin times'
    BY <2>1, <2>2 DEF StoredPassed
  <2>8. StoredPassed'
    <3>1. ASSUME NEW p \in Occurrences, copies'[p] > 0
          PROVE  p[2] < from \/ (p[2] <= to /\ p[1] \notin rules /\ p \notin times')
      <4>1. CASE p = o
        BY <2>7, <4>1
      <4>2. CASE p # o
        BY <2>1, <2>2, <2>4, <3>1, <4>2 DEF StoredPassed
      <4> QED
        BY <4>1, <4>2
    <3> QED
      BY <2>1, <2>2, <2>6, <3>1 DEF StoredPassed
  <2> QED
    BY <2>2, <2>5, <2>6, <2>8 DEF SmoothState
<1>7. CASE RuleDone
  BY <1>7, <1>c DEF RuleDone, SmoothState, StoredPassed
<1>8. CASE Truncate
  <2>1. StoredPassed
    BY <1>8, <1>c DEF Truncate, SmoothState
  <2>2. \A o \in Occurrences : copies[o] > 0 => o[2] < to
    BY <1>a, <2>1 DEF StoredPassed, TypeOK
  <2> QED
    BY <1>8, <1>c, <2>2 DEF Truncate, SmoothState, StoredBefore
<1>9. CASE Encode
  <2>1. to # Empty
    BY RRuleAssumption DEF TypeOK
  <2> QED
    BY <1>9, <1>c, <2>1 DEF Encode, Written, SmoothState, StoredBefore
<1>10. CASE PartialWrite \/ Stop \/ Removed
  BY <1>10 DEF PartialWrite, Stop, Removed
<1> QED
  BY <1>1, <1>3, <1>4, <1>5, <1>6, <1>7, <1>8, <1>9, <1>10 DEF Next

(* As long as no run stops and every window is left behind for good, an    *)
(* occurrence gets one task, however irregularly the program is started.   *)
THEOREM NeverTwice == Spec => []NothingTwice
<1>1. Init => Once
  BY RRuleAssumption DEF Init, Once, SmoothState
<1>2. Once => NothingTwice
  BY DEF Once, SmoothState, NothingTwice
<1> QED
  BY <1>1, <1>2, TypesHold, StepOnce, PTL DEF Spec

-----------------------------------------------------------------------------
(* A run ends: that it takes its steps is fairness, and is left to TLC;    *)
(* that it cannot take them for ever is proved here.                       *)

(* What the run has still to store.                                        *)
ToCome ==
  {o \in Occurrences : o[1] \in rules /\ from <= o[2] /\ o[2] <= to}

Unstored == ToCome \cup (IF pc = "times" THEN times ELSE {})

(* The steps to the end of a run that has its window: one for each         *)
(* occurrence, two for each rule, and those after the loop.                *)
StepsLeft ==
  Cardinality(Unstored) + 2 * Cardinality(rules)
  + CASE pc = "times" -> 3
      [] pc = "rules" -> 2
      [] pc = "truncated" -> 1
      [] OTHER -> 0

(* The rule the loop is at is not met again in the run.                    *)
RuleMetOnce ==
  pc = "times" =>
    \A o \in times : from <= o[2] /\ o[2] <= to /\ o[1] \notin rules

LEMMA StepMetOnce ==
  TypeOK /\ RuleMetOnce /\ [Next]_vars => RuleMetOnce'
<1> SUFFICES ASSUME TypeOK, RuleMetOnce, [Next]_vars, pc' = "times"
             PROVE  \A o \in times' :
                      from' <= o[2] /\ o[2] <= to' /\ o[1] \notin rules'
  BY DEF RuleMetOnce
<1>1. CASE UNCHANGED vars \/ Tick
  <2>1. UNCHANGED <<pc, from, to, rules, times>>
    BY <1>1 DEF vars, Tick
  <2> QED
    BY <2>1 DEF RuleMetOnce
<1>2. CASE createForTask
  <2>1. PICK n \in rules : rules' = rules \ {n} /\ times' = Between(n)
    BY <1>2 DEF createForTask
  <2>2. n \in Rules
    BY <2>1 DEF TypeOK
  <2>3. UNCHANGED <<from, to>>
    BY <1>2 DEF createForTask
  <2> QED
    BY <2>1, <2>2, <2>3, BetweenOccurrences
<1>3. CASE TaskAdd
  <2>1. times' \subseteq times /\ UNCHANGED <<pc, from, to, rules>>
    BY <1>3 DEF TaskAdd
  <2> QED
    BY <2>1 DEF RuleMetOnce
<1>4. CASE \/ Open \/ GenerateTo \/ RuleDone \/ Truncate \/ Encode
           \/ PartialWrite \/ Stop \/ Removed
  BY <1>4 DEF Open, StartFrom, GenerateTo, RuleDone, Truncate, Encode, Written,
              PartialWrite, Stop, Removed
<1> QED
  BY <1>1, <1>2, <1>3, <1>4 DEF Next

(* A window holds finitely many occurrences.                               *)
LEMMA FiniteWork ==
  ASSUME TypeOK, RuleMetOnce
  PROVE  /\ IsFiniteSet(Unstored) /\ Cardinality(Unstored) \in Nat
         /\ IsFiniteSet(rules) /\ Cardinality(rules) \in Nat
         /\ StepsLeft \in Nat
<1>1. IsFiniteSet(rules) /\ Cardinality(rules) \in Nat
  BY RRuleAssumption, FS_Subset, FS_CardinalityType DEF TypeOK
<1>2. IsFiniteSet(Rules \X (from..to))
  <2>1. IsFiniteSet(from..to)
    BY FS_Interval DEF TypeOK
  <2> QED
    BY <2>1, RRuleAssumption, FS_Product
<1>3. Unstored \subseteq Rules \X (from..to)
  <2> SUFFICES ASSUME NEW o \in Unstored PROVE o \in Rules \X (from..to)
    OBVIOUS
  <2>1. o \in Occurrences /\ from <= o[2] /\ o[2] <= to
    BY DEF Unstored, ToCome, RuleMetOnce, TypeOK
  <2>2. PICK n \in Rules : o \in {n} \X Occurs[n]
    BY <2>1 DEF Occurrences
  <2>3. o[2] \in Int
    BY <2>1, OccurrenceTypes
  <2>4. o[2] \in from..to
    BY <2>1, <2>3 DEF TypeOK
  <2> QED
    BY <2>2, <2>4
<1>4. IsFiniteSet(Unstored) /\ Cardinality(Unstored) \in Nat
  BY <1>2, <1>3, FS_Subset, FS_CardinalityType
<1> QED
  BY <1>1, <1>4 DEF StepsLeft

(* Storing one leaves one less.                                            *)
LEMMA OneLess ==
  ASSUME NEW S, NEW T, IsFiniteSet(S), T \subseteq S
  PROVE  /\ Cardinality(T) \in Nat /\ Cardinality(T) <= Cardinality(S)
         /\ T # S => Cardinality(T) < Cardinality(S)
BY FS_Subset, FS_CardinalityType

LEMMA StepShortens ==
  TypeOK /\ RuleMetOnce /\ Next /\ ~Tick /\ pc \in {"rules", "times", "truncated"}
    => StepsLeft' < StepsLeft
<1> SUFFICES ASSUME TypeOK, RuleMetOnce, Next, ~Tick,
                    pc \in {"rules", "times", "truncated"}
             PROVE  StepsLeft' < StepsLeft
  OBVIOUS
<1>1. /\ IsFiniteSet(Unstored) /\ Cardinality(Unstored) \in Nat
      /\ IsFiniteSet(rules) /\ Cardinality(rules) \in Nat
  BY FiniteWork
<1>2. CASE createForTask
  <2>1. PICK n \in rules : rules' = rules \ {n} /\ times' = Between(n)
    BY <1>2 DEF createForTask
  <2>2. n \in Rules
    BY <2>1 DEF TypeOK
  <2>3. pc = "rules" /\ pc' = "times" /\ UNCHANGED <<from, to>>
    BY <1>2 DEF createForTask
  <2>4. Unstored' \subseteq Unstored
    BY <2>1, <2>2, <2>3, BetweenOccurrences DEF Unstored, ToCome
  <2>5. /\ Cardinality(Unstored') \in Nat
        /\ Cardinality(Unstored') <= Cardinality(Unstored)
    BY <1>1, <2>4, OneLess
  <2>6. Cardinality(rules') = Cardinality(rules) - 1
    BY <1>1, <2>1, FS_RemoveElement
  <2> QED
    BY <1>1, <2>3, <2>5, <2>6 DEF StepsLeft
<1>3. CASE TaskAdd
  <2>1. PICK o \in times : times' = times \ {o}
    BY <1>3 DEF TaskAdd
  <2>2. pc = "times" /\ UNCHANGED <<pc, from, to, rules>>
    BY <1>3 DEF TaskAdd
  <2>3. o \notin ToCome
    BY <2>1, <2>2 DEF RuleMetOnce, ToCome
  <2>4. Unstored' = Unstored \ {o} /\ o \in Unstored
    BY <2>1, <2>2, <2>3 DEF Unstored, ToCome
  <2>5. Cardinality(Unstored') = Cardinality(Unstored) - 1
    BY <1>1, <2>4, FS_RemoveElement
  <2> QED
    BY <1>1, <2>2, <2>5 DEF StepsLeft
<1>4. CASE RuleDone \/ Truncate \/ Encode \/ PartialWrite \/ Stop
  <2>1. /\ UNCHANGED <<from, to, rules, times>>
        /\ \/ pc = "times" /\ pc' \in {"rules", "idle"}
           \/ pc = "rules" /\ pc' \in {"truncated", "idle"}
           \/ pc = "truncated" /\ pc' = "idle"
    BY <1>4 DEF RuleDone, Truncate, Encode, Written, PartialWrite, Stop
  <2>2. Unstored' \subseteq Unstored
    BY <2>1 DEF Unstored, ToCome
  <2>3. /\ Cardinality(Unstored') \in Nat
        /\ Cardinality(Unstored') <= Cardinality(Unstored)
    BY <1>1, <2>2, OneLess
  <2> QED
    BY <1>1, <2>1, <2>3 DEF StepsLeft
<1> QED
  BY <1>2, <1>3, <1>4 DEF Next, Open, StartFrom, GenerateTo, Removed

(* Every step of a run that has its window leaves fewer to take: no rules  *)
(* and no window keep it in its loop for ever.                             *)
THEOREM RunEnds ==
  Spec => [][~Tick /\ pc \in {"rules", "times", "truncated"} =>
               StepsLeft \in Nat /\ StepsLeft' < StepsLeft]_vars
<1>1. Init => RuleMetOnce
  BY DEF Init, RuleMetOnce
<1>2. TypeOK /\ RuleMetOnce /\ [Next]_vars =>
        [~Tick /\ pc \in {"rules", "times", "truncated"} =>
           StepsLeft \in Nat /\ StepsLeft' < StepsLeft]_vars
  BY FiniteWork, StepShortens
<1> QED
  BY <1>1, <1>2, TypesHold, StepMetOnce, PTL DEF Spec

=============================================================================
