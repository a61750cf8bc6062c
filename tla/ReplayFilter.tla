---------------------------- MODULE ReplayFilter ----------------------------
(***************************************************************************)
(* The replay filter (process/replay.go) and the freshness check of the    *)
(* commits (CommitEntry.InTime) that follows it.  Hashes that passed are   *)
(* kept in numBuckets buckets, one for each hour around the current one.   *)
(* The two checks read the wall clock one after the other, so it may       *)
(* advance between them.                                                   *)
(***************************************************************************)
EXTENDS Integers

CONSTANTS
    Msgs,       \* commits and factoid transactions; a message stands for its hash
    Commits,    \* the messages that InTime checks
    None,       \* no message
    Stamp,      \* Stamp[m]: the timestamp in m
    numBuckets, \* 24
    COMMIT_TIME_WINDOW, \* 12, in hours
    Hour,       \* clock units in an hour (3600)
    StartTime   \* when the process starts for the first time

\* Bounds of a model: when the clock stops, how often the process starts and
\* how often somebody sets the clock back.
CONSTANTS MaxTime, MaxBoots, MaxSetBacks

half == numBuckets \div 2

hours(unix) == unix \div Hour

\* The clock is far from 1970, so that the first call makes all the buckets,
\* and the two windows agree.
ASSUME ConstantTypes ==
    /\ Commits \subseteq Msgs
    /\ None \notin Msgs
    /\ Stamp \in [Msgs -> Nat]
    /\ COMMIT_TIME_WINDOW \in Nat \ {0}
    /\ numBuckets = 2 * COMMIT_TIME_WINDOW
    /\ Hour \in Nat \ {0}
    /\ StartTime \in Nat
    /\ hours(StartTime) > numBuckets
    /\ MaxTime \in Nat /\ MaxBoots \in Nat /\ MaxSetBacks \in Nat

VARIABLES
    now,      \* time.Now().Unix()
    lasttime, \* the hour of the last bucket shift
    buckets,  \* buckets[i]: the hashes stamped half - i hours before lasttime
    held,     \* the message between the two checks
    passed,   \* how often each message has passed IsTSValid
    served,   \* how often each message has passed both checks
    boots, setBacks

filter == <<lasttime, buckets>>
vars   == <<now, filter, held, passed, served, boots, setBacks>>

Indices == 0 .. (numBuckets - 1)

\* Faulty variant: one bucket too many.
NoBuckets_TooMany == [i \in 0 .. numBuckets |-> {}]

NoBuckets == [i \in Indices |-> {}]

Init ==
    /\ now = StartTime
    /\ lasttime = 0
    /\ buckets = NoBuckets
    /\ held = None
    /\ passed = [m \in Msgs |-> 0]
    /\ served = [m \in Msgs |-> 0]
    /\ boots = 1
    /\ setBacks = 0

----------------------------------------------------------------------------
\* IsTSValid_

\* The buckets after those of the hours that have passed are tossed.  (After
\* numBuckets hours none is left; the code then skips the rest of the shifts.)
Shifted(n) ==
    [i \in Indices |->
        IF n <= lasttime THEN buckets[i]
        ELSE IF i + (n - lasttime) \in Indices THEN buckets[i + (n - lasttime)]
        ELSE {}]

LastTime(n) == IF n <= lasttime THEN lasttime ELSE n

\* Faulty variants: the window is not centred.
Index_Early(m, n) == hours(Stamp[m]) - n + half - 1

Index_Late(m, n) == hours(Stamp[m]) - n + half + 1

Index(m, n) == hours(Stamp[m]) - n + half

\* Faulty variant: the bucket is not looked up.
Accepts_Unseen(m) == Index(m, hours(now)) \in Indices

Accepts(m) ==
    LET i == Index(m, hours(now)) IN
    i \in Indices /\ m \notin Shifted(hours(now))[i]

\* Faulty variant: the hash is kept under the hour of its arrival.
Record_ByArrival(m) == [Shifted(hours(now)) EXCEPT ![half] = @ \cup {m}]

Record(m) ==
    [Shifted(hours(now)) EXCEPT ![Index(m, hours(now))] = @ \cup {m}]

IsTSValid(m) ==
    /\ held = None
    /\ lasttime' = LastTime(hours(now))
    /\ IF Accepts(m)
       THEN /\ buckets' = Record(m)
            /\ held' = m
            /\ passed' = [passed EXCEPT ![m] = @ + 1]
       ELSE /\ buckets' = Shifted(hours(now))
            /\ UNCHANGED <<held, passed>>
    /\ UNCHANGED <<now, served, boots, setBacks>>

----------------------------------------------------------------------------
InTime(m) ==
    /\ Stamp[m] > now - COMMIT_TIME_WINDOW * Hour
    /\ Stamp[m] < now + COMMIT_TIME_WINDOW * Hour

\* The rest of the handler.  A factoid transaction is not checked again.
Serve ==
    /\ held # None
    /\ held' = None
    /\ served' = IF held \in Commits => InTime(held)
                 THEN [served EXCEPT ![held] = @ + 1] ELSE served
    /\ UNCHANGED <<now, filter, passed, boots, setBacks>>

Tick ==
    /\ now < MaxTime
    /\ now' = now + 1
    /\ UNCHANGED <<filter, held, passed, served, boots, setBacks>>

\* The variables of the package are initialised again.
Restart ==
    /\ boots < MaxBoots
    /\ boots' = boots + 1
    /\ lasttime' = 0
    /\ buckets' = NoBuckets
    /\ held' = None
    /\ UNCHANGED <<now, passed, served, setBacks>>

SetBack ==
    /\ setBacks < MaxSetBacks
    /\ setBacks' = setBacks + 1
    /\ \E t \in StartTime .. (now - 1) : now' = t
    /\ UNCHANGED <<filter, held, passed, served, boots>>

Next == (\E m \in Msgs : IsTSValid(m)) \/ Serve \/ Tick \/ Restart \/ SetBack

Spec == Init /\ [][Next]_vars

----------------------------------------------------------------------------
\* Properties

\* Type invariant: the buckets and the counters keep their types.
TypeOK ==
    /\ now \in Nat
    /\ lasttime \in Nat
    /\ buckets \in [Indices -> SUBSET Msgs]
    /\ held \in Msgs \cup {None}
    /\ passed \in [Msgs -> Nat]
    /\ served \in [Msgs -> Nat]
    /\ boots \in Nat /\ setBacks \in Nat

\* One process, whose clock has not gone back.
Undisturbed == boots = 1 /\ setBacks = 0

\* No message is served twice, however often and whenever it is delivered.
ServedOnce == \A m \in Msgs : served[m] <= 1

\* A process whose clock does not go back serves no message twice, also when the
\* bucket of the message has been shifted or tossed in between.
ServedOnceByProcess == Undisturbed => ServedOnce

Aligned ==
    \A i \in Indices : \A m \in buckets[i] :
        hours(Stamp[m]) = lasttime + i - half

\* In such a process a bucket holds only hashes stamped in its own hour: what has
\* left the window is forgotten, so the filter's memory is bounded by the traffic
\* of one window.
BucketsAligned == Undisturbed => Aligned

LockedOutStale ==
    \A m \in Commits :
        passed[m] > 0 /\ served[m] = 0 /\ held # m => now - Stamp[m] >=
                                               COMMIT_TIME_WINDOW * Hour

\* In such a process the filter locks nobody out: a commit that it has recorded
\* and that InTime then refused is too old for InTime, now and for ever.
LockedOutOnlyWhenStale == Undisturbed => LockedOutStale

\* A first submission that InTime would take, stamped less than 11 hours
\* ahead, gets through the filter: the hour boundaries cost at most one hour.
FreshPasses ==
    \A m \in Commits :
        (/\ passed[m] = 0
         /\ InTime(m)
         /\ Stamp[m] < now + (COMMIT_TIME_WINDOW - 1) * Hour) => Accepts(m)

=============================================================================
