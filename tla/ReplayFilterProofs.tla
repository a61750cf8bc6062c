------------------------- MODULE ReplayFilterProofs -------------------------
(***************************************************************************)
(* Proofs about ReplayFilter, for any messages and timestamps, any length  *)
(* of the hour and any even number of buckets.                             *)
(***************************************************************************)
EXTENDS ReplayFilter, TLAPS

----------------------------------------------------------------------------
\* The clock

\* Every time lies in its hour.
LEMMA HourBounds ==
    ASSUME NEW u \in Nat
    PROVE  /\ hours(u) \in Nat
           /\ Hour * hours(u) <= u
           /\ u < Hour * hours(u) + Hour
BY ConstantTypes DEF hours

\* Hours do not run backwards.
LEMMA HourMonotone ==
    ASSUME NEW u \in Nat PROVE hours(u) <= hours(u + 1)
BY ConstantTypes DEF hours

LEMMA TimesMonotone ==
    ASSUME NEW x \in Int, NEW y \in Int, x <= y PROVE Hour * x <= Hour * y
BY ConstantTypes

LEMMA BucketCount ==
    /\ half = COMMIT_TIME_WINDOW
    /\ numBuckets \in Nat /\ half \in Nat
    /\ Indices = 0 .. (2 * half - 1)
BY ConstantTypes DEF half, Indices

----------------------------------------------------------------------------
\* The invariant.  The filter forgets, so "it knows all that passed" is not
\* invariant; it knows those that passed whose hour is in the window, and the
\* hour of no message that passed is yet to enter the window.

Slot(m) == hours(Stamp[m]) - lasttime + half

Steady == Undisturbed /\ lasttime <= hours(now)

Remembered ==
    \A m \in Msgs : passed[m] > 0 =>
        Slot(m) < numBuckets /\ (Slot(m) >= 0 => m \in buckets[Slot(m)])

Counted ==
    \A m \in Msgs : /\ passed[m] <= 1
                    /\ served[m] <= passed[m]
                    /\ held = m => served[m] < passed[m]

\* What is held is not stamped too far ahead for InTime.
NotEarly ==
    held # None => Stamp[held] < now + COMMIT_TIME_WINDOW * Hour

FilterInv ==
    /\ TypeOK /\ Steady /\ Aligned /\ Remembered /\ Counted /\ NotEarly
    /\ LockedOutStale

LEMMA FilterInit ==
    ASSUME Init PROVE FilterInv
<1>1. TypeOK
  BY ConstantTypes DEF Init, TypeOK, NoBuckets
<1>2. Steady
  BY ConstantTypes, HourBounds DEF Init, Steady, Undisturbed
<1>3. Aligned
  BY DEF Init, Aligned, NoBuckets
<1>4. Remembered /\ Counted
  BY ConstantTypes DEF Init, Remembered, Counted
<1>5. NotEarly
  BY DEF Init, NotEarly
<1>6. LockedOutStale
  BY ConstantTypes DEF Init, LockedOutStale
<1> QED BY <1>1, <1>2, <1>3, <1>4, <1>5, <1>6 DEF FilterInv

\* After the shift every hash is under the hour of its timestamp again.
LEMMA ShiftAligned ==
    ASSUME FilterInv
    PROVE  LET n == hours(now) IN
           /\ n \in Nat /\ LastTime(n) = n
           /\ Shifted(n) \in [Indices -> SUBSET Msgs]
           /\ \A i \in Indices : \A m \in Shifted(n)[i] :
                 hours(Stamp[m]) = n + i - half
           /\ \A m \in Msgs : passed[m] > 0 =>
                 LET i == hours(Stamp[m]) - n + half IN
                 i < numBuckets /\ (i >= 0 => m \in Shifted(n)[i])
<1> DEFINE n == hours(now)
<1>1. n \in Nat /\ lasttime \in Nat /\ lasttime <= n
  BY HourBounds DEF FilterInv, TypeOK, Steady, Undisturbed
<1>2. LastTime(n) = n
  BY <1>1 DEF LastTime
<1>3. \A i \in Indices : Shifted(n)[i] =
         IF i + (n - lasttime) \in Indices THEN buckets[i + (n - lasttime)]
                                           ELSE {}
  BY <1>1, BucketCount DEF Shifted
<1>4. Shifted(n) \in [Indices -> SUBSET Msgs]
  BY DEF Shifted, FilterInv, TypeOK
<1>5. ASSUME NEW i \in Indices, NEW m \in Shifted(n)[i]
      PROVE  hours(Stamp[m]) = n + i - half
  <2>1. i + (n - lasttime) \in Indices /\ m \in buckets[i + (n - lasttime)]
    BY <1>3, <1>5
  <2>2. hours(Stamp[m]) = lasttime + (i + (n - lasttime)) - half
    BY <2>1 DEF FilterInv, Aligned
  <2> QED BY <1>1, <2>2, BucketCount
<1>6. ASSUME NEW m \in Msgs, passed[m] > 0
      PROVE  LET i == hours(Stamp[m]) - n + half IN
             i < numBuckets /\ (i >= 0 => m \in Shifted(n)[i])
  <2> DEFINE i == hours(Stamp[m]) - n + half
  <2>1. hours(Stamp[m]) \in Nat
    BY HourBounds, ConstantTypes
  <2>2. /\ Slot(m) < numBuckets
        /\ Slot(m) >= 0 => m \in buckets[Slot(m)]
    BY <1>6 DEF FilterInv, Remembered
  <2>3. Slot(m) = i + (n - lasttime) /\ i <= Slot(m) /\ i \in Int /\ Slot(m) \in Int
    BY <1>1, <2>1, BucketCount DEF Slot
  <2>4. i < numBuckets
    BY <2>2, <2>3, BucketCount
  <2>5. ASSUME i >= 0 PROVE m \in Shifted(n)[i]
    <3>1. i \in Indices /\ Slot(m) \in Indices
      BY <2>2, <2>3, <2>4, <2>5, BucketCount DEF Indices
    <3> QED BY <1>3, <2>2, <2>3, <2>5, <3>1
  <2> QED BY <2>4, <2>5
<1> QED BY <1>1, <1>2, <1>4, <1>5, <1>6

LEMMA PassStep ==
    ASSUME FilterInv, NEW m \in Msgs, IsTSValid(m) PROVE FilterInv'
<1> DEFINE n == hours(now)
           S == Shifted(n)
           x == Index(m, n)
<1>0. /\ n \in Nat /\ lasttime' = n /\ now' = now /\ held = None
      /\ UNCHANGED <<now, served, boots, setBacks>>
  BY ShiftAligned DEF IsTSValid
<1>1. S \in [Indices -> SUBSET Msgs]
  BY ShiftAligned
<1>2. \A i \in Indices : \A y \in S[i] : hours(Stamp[y]) = n + i - half
  BY ShiftAligned
<1>3. \A y \in Msgs : passed[y] > 0 =>
         LET i == hours(Stamp[y]) - n + half IN
         i < numBuckets /\ (i >= 0 => y \in S[i])
  BY ShiftAligned
<1>4. \A y \in Msgs : hours(Stamp[y]) \in Nat
  BY HourBounds, ConstantTypes
<1>5. Steady'
  BY <1>0 DEF FilterInv, Steady, Undisturbed
<1>6. CASE Accepts(m)
  <2>1. /\ x \in Indices /\ m \notin S[x]
        /\ buckets' = [S EXCEPT ![x] = @ \cup {m}]
        /\ held' = m /\ passed' = [passed EXCEPT ![m] = @ + 1]
    BY <1>6 DEF IsTSValid, Accepts, Record
  <2>2. x = hours(Stamp[m]) - n + half
    BY DEF Index
  <2> HIDE DEF n, S, x
  <2>3. TypeOK'
    BY <1>0, <1>1, <2>1 DEF FilterInv, TypeOK
  <2>4. passed[m] = 0
    <3>1. ~(passed[m] > 0)
      BY <1>3, <2>1, <2>2, BucketCount DEF Indices
    <3> QED BY <3>1 DEF FilterInv, TypeOK
  <2>5. Aligned'
    <3> SUFFICES ASSUME NEW i \in Indices, NEW y \in buckets'[i]
                 PROVE  hours(Stamp[y]) = n + i - half
      BY <1>0 DEF Aligned
    <3>1. CASE y \in S[i]
      BY <1>2, <3>1
    <3>2. CASE y \notin S[i]
      <4>1. y = m /\ i = x
        BY <1>1, <2>1, <3>2
      <4> QED BY <1>0, <1>4, <2>2, <4>1, BucketCount DEF Indices
    <3> QED BY <3>1, <3>2
  <2>6. Remembered'
    <3> SUFFICES ASSUME NEW y \in Msgs, passed'[y] > 0
                 PROVE  LET i == hours(Stamp[y]) - n + half IN
                        i < numBuckets /\ (i >= 0 => y \in buckets'[i])
      BY <1>0 DEF Remembered, Slot
    <3> DEFINE i == hours(Stamp[y]) - n + half
    <3>1. CASE y = m
      <4>1. i = x /\ x < numBuckets /\ m \in buckets'[x]
        BY <1>1, <2>1, <2>2, <3>1, BucketCount DEF Indices
      <4> QED BY <3>1, <4>1
    <3>2. CASE y # m
      <4>1. passed[y] > 0
        BY <2>1, <3>2 DEF FilterInv, TypeOK
      <4>2. i < numBuckets /\ (i >= 0 => y \in S[i])
        BY <1>3, <4>1
      <4>3. i >= 0 => i \in Indices
        BY <1>0, <1>4, <4>2, BucketCount DEF Indices
      <4>4. \A j \in Indices : S[j] \subseteq buckets'[j]
        BY <1>1, <2>1
      <4> QED BY <4>2, <4>3, <4>4
    <3> QED BY <3>1, <3>2
  <2>7. Counted'
    BY <1>0, <2>1, <2>4 DEF FilterInv, TypeOK, Counted
  <2>8. Stamp[m] < now + COMMIT_TIME_WINDOW * Hour
    <3> DEFINE t == hours(Stamp[m])
    <3>1. /\ t \in Nat /\ Stamp[m] \in Nat /\ Stamp[m] < Hour * t + Hour
      BY HourBounds, ConstantTypes
    <3>2. Hour * n <= now /\ now \in Nat
      BY HourBounds DEF FilterInv, TypeOK, n
    <3>3. t + 1 <= n + COMMIT_TIME_WINDOW
      BY <1>0, <2>1, <2>2, <3>1, BucketCount DEF Indices
    <3>4. Hour * (t + 1) <= Hour * (n + COMMIT_TIME_WINDOW)
      BY <1>0, <3>1, <3>3, TimesMonotone, ConstantTypes
    <3>5. /\ Hour * (t + 1) = Hour * t + Hour
          /\ Hour * (n + COMMIT_TIME_WINDOW) =
                Hour * n + COMMIT_TIME_WINDOW * Hour
      BY <1>0, <3>1, ConstantTypes
    <3> HIDE DEF t
    <3> QED BY <1>0, <3>1, <3>2, <3>4, <3>5, ConstantTypes
  <2>9. NotEarly'
    BY <1>0, <2>1, <2>8 DEF NotEarly
  <2>10. LockedOutStale'
    BY <1>0, <2>1, ConstantTypes DEF FilterInv, TypeOK, LockedOutStale
  <2> QED BY <1>5, <2>3, <2>5, <2>6, <2>7, <2>9, <2>10 DEF FilterInv
<1>7. CASE ~Accepts(m)
  <2>1. buckets' = S /\ UNCHANGED <<held, passed>>
    BY <1>7 DEF IsTSValid
  <2> HIDE DEF n, S
  <2>2. TypeOK'
    BY <1>0, <1>1, <2>1 DEF FilterInv, TypeOK
  <2>3. Aligned'
    BY <1>0, <1>2, <2>1 DEF Aligned
  <2>4. Remembered'
    BY <1>0, <1>3, <2>1 DEF Remembered, Slot
  <2>5. Counted' /\ NotEarly' /\ LockedOutStale'
    BY <1>0, <2>1 DEF FilterInv, Counted, NotEarly, LockedOutStale
  <2> QED BY <1>5, <2>2, <2>3, <2>4, <2>5 DEF FilterInv
<1> QED BY <1>6, <1>7

LEMMA ServeStep ==
    ASSUME FilterInv, Serve PROVE FilterInv'
<1>1. /\ held \in Msgs /\ held' = None /\ None \notin Msgs
      /\ UNCHANGED <<now, lasttime, buckets, passed, boots, setBacks>>
  BY ConstantTypes DEF Serve, filter, FilterInv, TypeOK
<1>2. served' \in {served, [served EXCEPT ![held] = @ + 1]}
  BY DEF Serve
<1>3. TypeOK'
  BY <1>1, <1>2 DEF FilterInv, TypeOK
<1>4. Steady' /\ Aligned' /\ Remembered' /\ NotEarly'
  BY <1>1 DEF FilterInv, Steady, Undisturbed, Aligned, Remembered, Slot, NotEarly
<1>5. Counted'
  BY <1>1, <1>2 DEF FilterInv, TypeOK, Counted
<1>6. LockedOutStale'
  <2> SUFFICES ASSUME NEW m \in Commits, passed[m] > 0, served'[m] = 0
               PROVE  now - Stamp[m] >= COMMIT_TIME_WINDOW * Hour
    BY <1>1 DEF LockedOutStale
  <2>0. m \in Msgs /\ Stamp[m] \in Nat /\ now \in Nat
    BY ConstantTypes DEF FilterInv, TypeOK
  <2>1. CASE held # m
    BY <1>1, <1>2, <2>0, <2>1 DEF FilterInv, TypeOK, LockedOutStale
  <2>2. CASE held = m
    <3>1. served' # [served EXCEPT ![m] = @ + 1]
      BY <2>0 DEF FilterInv, TypeOK
    <3>2. ~InTime(m)
      BY <2>2, <3>1 DEF Serve
    <3>3. Stamp[m] < now + COMMIT_TIME_WINDOW * Hour
      BY <1>1, <2>2 DEF FilterInv, NotEarly
    <3>4. COMMIT_TIME_WINDOW * Hour \in Nat
      BY ConstantTypes
    <3> QED BY <2>0, <3>2, <3>3, <3>4 DEF InTime
  <2> QED BY <2>1, <2>2
<1> QED BY <1>3, <1>4, <1>5, <1>6 DEF FilterInv

LEMMA TickStep ==
    ASSUME FilterInv, Tick PROVE FilterInv'
<1>1. /\ now \in Nat /\ now' = now + 1
      /\ UNCHANGED <<lasttime, buckets, held, passed, served, boots, setBacks>>
  BY DEF Tick, filter, FilterInv, TypeOK
<1>2. TypeOK' /\ Aligned' /\ Remembered' /\ Counted'
  BY <1>1 DEF FilterInv, TypeOK, Aligned, Remembered, Slot, Counted
<1>3. Steady'
  <2>1. hours(now) <= hours(now + 1) /\ hours(now) \in Nat /\ hours(now + 1) \in Nat
    BY <1>1, HourMonotone, HourBounds
  <2> QED BY <1>1, <2>1 DEF FilterInv, TypeOK, Steady, Undisturbed
<1>4. COMMIT_TIME_WINDOW * Hour \in Nat /\ \A m \in Msgs : Stamp[m] \in Nat
  BY ConstantTypes
<1>5. NotEarly'
  BY <1>1, <1>4 DEF FilterInv, TypeOK, NotEarly
<1>6. LockedOutStale'
  BY <1>1, <1>4, ConstantTypes DEF FilterInv, LockedOutStale
<1> QED BY <1>2, <1>3, <1>5, <1>6 DEF FilterInv

LEMMA FilterStep ==
    ASSUME FilterInv, [Next]_vars, ~Restart, ~SetBack PROVE FilterInv'
<1>1. CASE UNCHANGED vars
  BY <1>1 DEF vars, filter, FilterInv, TypeOK, Steady, Undisturbed, Aligned,
     Remembered, Slot, Counted, NotEarly, LockedOutStale
<1> QED BY <1>1, PassStep, ServeStep, TickStep DEF Next

\* A disturbance is never undone: what is proved of the steps of an undisturbed
\* process holds as long as it stays one.
FilterIndInv ==
    /\ boots \in Nat \ {0} /\ setBacks \in Nat
    /\ Undisturbed => FilterInv

LEMMA FilterInductive ==
    Spec => []FilterIndInv
<1>1. Init => FilterIndInv
  BY FilterInit DEF FilterIndInv, Init
<1>2. ASSUME FilterIndInv, [Next]_vars PROVE FilterIndInv'
  <2>1. CASE Restart
    BY <1>2, <2>1 DEF Restart, FilterIndInv, Undisturbed
  <2>2. CASE SetBack
    BY <1>2, <2>2 DEF SetBack, FilterIndInv, Undisturbed
  <2>3. CASE ~Restart /\ ~SetBack
    <3>1. UNCHANGED <<boots, setBacks>>
      BY <1>2, <2>3 DEF Next, IsTSValid, Serve, Tick, vars
    <3>2. Undisturbed' => FilterInv'
      BY <1>2, <2>3, <3>1, FilterStep DEF FilterIndInv, Undisturbed
    <3> QED BY <1>2, <3>1, <3>2 DEF FilterIndInv
  <2> QED BY <2>1, <2>2, <2>3
<1> QED BY <1>1, <1>2, PTL DEF Spec

\* As long as the process runs and its clock does not go back, no message is
\* served twice.
THEOREM FilterServesOnce ==
    Spec => []ServedOnceByProcess
<1>1. FilterInv => ServedOnce
  <2> SUFFICES ASSUME FilterInv, NEW m \in Msgs PROVE served[m] <= 1
    BY DEF ServedOnce
  <2>1. served[m] \in Nat /\ passed[m] \in Nat
    BY DEF FilterInv, TypeOK
  <2> QED BY <2>1 DEF FilterInv, Counted
<1>2. FilterIndInv => ServedOnceByProcess
  BY <1>1 DEF FilterIndInv, ServedOnceByProcess
<1> QED BY <1>2, FilterInductive, PTL

\* Under the same conditions every hash is under the hour of its timestamp, so
\* that the filter forgets exactly what has left its window.
THEOREM FilterForgets ==
    Spec => []BucketsAligned
<1>1. FilterIndInv => BucketsAligned
  BY DEF FilterIndInv, FilterInv, BucketsAligned
<1> QED BY <1>1, FilterInductive, PTL

\* Under the same conditions the filter locks out no commit that InTime would
\* still take: the two windows fit together at every hour boundary.
THEOREM FilterLocksNobodyOut ==
    Spec => []LockedOutOnlyWhenStale
<1>1. FilterIndInv => LockedOutOnlyWhenStale
  BY DEF FilterIndInv, FilterInv, LockedOutOnlyWhenStale
<1> QED BY <1>1, FilterInductive, PTL

----------------------------------------------------------------------------
\* What holds of every process, after any restart and with any clock

\* The filter has seen what it keeps.
KeptPassed == \A i \in Indices : \A m \in buckets[i] : passed[m] > 0

AnyInv == TypeOK /\ KeptPassed

\* A shift moves hashes to other buckets and invents none, wherever the clock is.
LEMMA ShiftType ==
    ASSUME TypeOK, NEW n \in Nat
    PROVE  /\ Shifted(n) \in [Indices -> SUBSET Msgs]
           /\ \A i \in Indices : \A m \in Shifted(n)[i] :
                \E j \in Indices : m \in buckets[j]
           /\ LastTime(n) \in Nat
<1>1. Shifted(n) \in [Indices -> SUBSET Msgs]
  BY DEF TypeOK, Shifted
<1>2. \A i \in Indices : \A m \in Shifted(n)[i] : \E j \in Indices : m \in buckets[j]
  BY DEF Shifted
<1>3. LastTime(n) \in Nat
  BY DEF TypeOK, LastTime
<1> QED BY <1>1, <1>2, <1>3

LEMMA AnyStep ==
    ASSUME AnyInv, [Next]_vars PROVE AnyInv'
<1> USE DEF AnyInv
<1>1. ASSUME NEW m \in Msgs, IsTSValid(m) PROVE AnyInv'
  <2> DEFINE n == hours(now)
             S == Shifted(n)
             x == Index(m, n)
  <2>1. n \in Nat
    BY HourBounds DEF TypeOK
  <2>2. /\ S \in [Indices -> SUBSET Msgs] /\ LastTime(n) \in Nat
        /\ \A i \in Indices : \A y \in S[i] : \E j \in Indices : y \in buckets[j]
    BY <2>1, ShiftType
  <2>3. \A i \in Indices : \A y \in S[i] : passed[y] > 0
    BY <2>2 DEF KeptPassed
  <2>4. lasttime' = LastTime(n) /\ UNCHANGED <<now, served, boots, setBacks>>
    BY <1>1 DEF IsTSValid
  <2>5. CASE Accepts(m)
    <3>1. /\ x \in Indices /\ buckets' = [S EXCEPT ![x] = @ \cup {m}]
          /\ held' = m /\ passed' = [passed EXCEPT ![m] = @ + 1]
      BY <1>1, <2>5 DEF IsTSValid, Accepts, Record
    <3> HIDE DEF n, S, x
    <3>2. TypeOK'
      BY <2>2, <2>4, <3>1 DEF TypeOK
    <3>3. passed'[m] > 0 /\ \A y \in Msgs : passed[y] > 0 => passed'[y] > 0
      BY <3>1 DEF TypeOK
    <3>4. \A i \in Indices : buckets'[i] \subseteq S[i] \cup {m}
      BY <2>2, <3>1
    <3>5. KeptPassed'
      BY <2>2, <2>3, <3>3, <3>4 DEF KeptPassed
    <3> QED BY <3>2, <3>5
  <2>6. CASE ~Accepts(m)
    <3>1. buckets' = S /\ UNCHANGED <<held, passed>>
      BY <1>1, <2>6 DEF IsTSValid
    <3> HIDE DEF n, S, x
    <3>2. TypeOK'
      BY <2>2, <2>4, <3>1 DEF TypeOK
    <3> QED BY <2>3, <3>1, <3>2 DEF KeptPassed
  <2> QED BY <2>5, <2>6
<1>2. CASE Serve
  <2>1. /\ held \in Msgs /\ held' = None
        /\ UNCHANGED <<now, lasttime, buckets, passed, boots, setBacks>>
    BY <1>2 DEF Serve, filter, TypeOK
  <2>2. served' \in {served, [served EXCEPT ![held] = @ + 1]}
    BY <1>2 DEF Serve
  <2>3. TypeOK'
    BY <2>1, <2>2 DEF TypeOK
  <2> QED BY <2>1, <2>3 DEF KeptPassed
<1>3. CASE Tick
  BY <1>3 DEF Tick, filter, TypeOK, KeptPassed
<1>4. CASE Restart
  BY <1>4 DEF Restart, NoBuckets, TypeOK, KeptPassed
<1>5. CASE SetBack
  BY <1>5, ConstantTypes DEF SetBack, filter, TypeOK, KeptPassed
<1>6. CASE UNCHANGED vars
  BY <1>6 DEF vars, filter, TypeOK, KeptPassed
<1> QED BY <1>1, <1>2, <1>3, <1>4, <1>5, <1>6 DEF Next

LEMMA AnyInductive == Spec => []AnyInv
<1>1. Init => AnyInv
  BY FilterInit DEF FilterInv, AnyInv, KeptPassed, Init, NoBuckets
<1>2. AnyInv /\ [Next]_vars => AnyInv'
  BY AnyStep
<1> QED BY <1>1, <1>2, PTL DEF Spec

\* Type correctness of replay.go for every sequence of messages, ticks,
\* restarts and clocks set back.
THEOREM FilterTypes == Spec => []TypeOK
BY AnyInductive, PTL DEF AnyInv

\* The window of the filter covers what InTime takes, but for the last hour
\* ahead: IsTSValid_ rounds both times down to the hour.
LEMMA WindowCovers ==
    ASSUME now \in Nat, NEW m \in Msgs, InTime(m),
           Stamp[m] < now + (COMMIT_TIME_WINDOW - 1) * Hour
    PROVE  Index(m, hours(now)) \in Indices
<1> DEFINE n == hours(now)
           t == hours(Stamp[m])
           W == COMMIT_TIME_WINDOW
<1>1. n \in Nat /\ Hour * n <= now /\ now < Hour * n + Hour
  BY HourBounds
<1>2. t \in Nat /\ Stamp[m] \in Nat /\ Hour * t <= Stamp[m] /\ Stamp[m] < Hour * t + Hour
  BY HourBounds, ConstantTypes
<1>3. W \in Nat /\ Hour \in Nat
  BY ConstantTypes
<1>4. Stamp[m] > now - W * Hour /\ Stamp[m] < now + (W - 1) * Hour
  BY DEF InTime
<1>5. Index(m, n) = t - n + W
  BY BucketCount DEF Index
<1> HIDE DEF n, t, W
<1>6. t >= n - W
  <2> SUFFICES ASSUME t + 1 <= n - W PROVE FALSE
    BY <1>1, <1>2, <1>3
  <2>1. Hour * (t + 1) <= Hour * (n - W)
    BY <1>1, <1>2, <1>3, TimesMonotone
  <2>2. Hour * (t + 1) = Hour * t + Hour /\ Hour * (n - W) = Hour * n - W * Hour
    BY <1>1, <1>2, <1>3
  <2>3. W * Hour \in Nat /\ Hour * n \in Nat /\ Hour * t \in Nat
    BY <1>1, <1>2, <1>3
  <2> QED BY <1>1, <1>2, <1>3, <1>4, <2>1, <2>2, <2>3
<1>7. t <= n + W - 1
  <2> SUFFICES ASSUME n + W <= t PROVE FALSE
    BY <1>1, <1>2, <1>3
  <2>1. Hour * (n + W) <= Hour * t
    BY <1>1, <1>2, <1>3, TimesMonotone
  <2>2. Hour * (n + W) = Hour * n + W * Hour /\ (W - 1) * Hour = W * Hour - Hour
    BY <1>1, <1>2, <1>3
  <2>3. W * Hour \in Nat /\ Hour * n \in Nat /\ Hour * t \in Nat
    BY <1>1, <1>2, <1>3
  <2> QED BY <1>1, <1>2, <1>3, <1>4, <2>1, <2>2, <2>3
<1> QED BY <1>1, <1>2, <1>3, <1>5, <1>6, <1>7, BucketCount DEF Indices, W, n

\* A first submission that InTime would take, stamped at most an hour short of
\* the window ahead, gets through IsTSValid_, wherever the hour boundaries fall
\* and whatever the filter went through before.
THEOREM FilterLetsFreshCommitsPass == Spec => []FreshPasses
<1>1. AnyInv => FreshPasses
  <2> SUFFICES ASSUME AnyInv, NEW m \in Commits, passed[m] = 0, InTime(m),
                      Stamp[m] < now + (COMMIT_TIME_WINDOW - 1) * Hour
               PROVE  Accepts(m)
    BY DEF FreshPasses
  <2>1. m \in Msgs /\ now \in Nat /\ hours(now) \in Nat
    BY ConstantTypes, HourBounds DEF AnyInv, TypeOK
  <2>2. Index(m, hours(now)) \in Indices
    BY <2>1, WindowCovers
  <2>3. ASSUME NEW i \in Indices PROVE m \notin Shifted(hours(now))[i]
    <3>1. \A j \in Indices : m \notin buckets[j]
      BY DEF AnyInv, KeptPassed
    <3> QED BY <2>1, <3>1, ShiftType DEF AnyInv
  <2> QED BY <2>2, <2>3 DEF Accepts
<1> QED BY <1>1, AnyInductive, PTL

=============================================================================
