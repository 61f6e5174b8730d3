------------------------- MODULE RateLimiterProofs -------------------------
(* The rate limiter keeps every budget, forgets nothing that matters and     *)
(* keeps its map small, for any rate, burst and TTL a bucket refills within. *)
EXTENDS RateLimiter, TLAPS

---------------------------------------------------------------------------
(* The inductive invariant *)

\* A call that holds the mutex has collected if that was due, and its own
\* bucket was seen when it read the clock.
HolderOK ==
    holder # NoKey =>
        /\ holder \in buckets
        /\ bucket[holder].seen + stall = now
        /\ now - stall < lastGC + TTL

\* A bucket pays at most MaxStall after it is seen, and survived the last
\* collection or came after it.
BucketsOK ==
    \A k \in buckets :
        /\ bucket[k].seen <= now /\ bucket[k].last <= now
        /\ bucket[k].last <= bucket[k].seen + MaxStall
        /\ bucket[k].level <= Full
        /\ lastGC <= bucket[k].seen + TTL

\* What was used in the window and what is left never exceed what was there
\* and what was earned.
WindowOK ==
    window.key # NoKey =>
        /\ window.since <= now
        /\ window.used + Level(window.key) <= Full + (now - window.since)

Inv == TypeOK /\ HolderOK /\ BucketsOK /\ WindowOK

\* Credit is a natural number.
LEMMA FullNat == Full \in Nat
<1>1. \A m, n \in Nat : m * n \in Nat
  OBVIOUS
<1> QED
  BY <1>1, RateAssumption DEF Full

\* A bucket never holds more than a burst, nor less than nothing.
LEMMA LevelRange ==
    ASSUME Inv, NEW k \in Keys
    PROVE  Level(k) \in 0 .. Full
<1>1. k \in buckets => /\ bucket[k].level \in Nat /\ bucket[k].last \in Nat
                       /\ now \in Nat /\ bucket[k].last <= now
  BY DEF Inv, TypeOK, Bucket, BucketsOK
<1> QED
  BY <1>1, FullNat DEF Level, Capped

\* A bucket that is collected would have been full.
LEMMA CollectedIsFull ==
    ASSUME Inv, NEW k \in buckets \ Kept
    PROVE  Level(k) = Full
<1>1. /\ bucket[k].level \in Nat /\ bucket[k].last \in Nat /\ now \in Nat
      /\ bucket[k].seen \in Nat /\ bucket[k].last <= bucket[k].seen + MaxStall
  BY DEF Inv, TypeOK, Bucket, BucketsOK
<1>2. now - bucket[k].seen > TTL
  BY <1>1, RateAssumption DEF Kept
<1>3. now - bucket[k].last > Full
  BY <1>1, <1>2, FullNat, RateAssumption
<1> QED
  BY <1>1, <1>3, FullNat DEF Level, Capped

\* So entering, collection included, changes no client's credit.
LEMMA EnterKeepsLevels ==
    ASSUME Inv, NEW k \in Keys, Enter(k), NEW j \in Keys
    PROVE  Level(j)' = Level(j)
<1>0. /\ now' = now /\ buckets' = Kept \cup {k} /\ Kept \subseteq buckets /\ now \in Nat
      /\ bucket' = [i \in Keys |->
                    IF i = k /\ i \in Kept THEN [bucket[i] EXCEPT !.seen = now]
                    ELSE IF i = k THEN NewBucket
                    ELSE IF i \in Kept THEN bucket[i] ELSE NoBucket]
  BY DEF Enter, Kept, Inv, TypeOK
<1>1. CASE j \in Kept
  <2>1. bucket'[j].level = bucket[j].level /\ bucket'[j].last = bucket[j].last
    BY <1>0, <1>1 DEF Inv, TypeOK, Bucket
  <2> QED
    BY <1>0, <1>1, <2>1 DEF Level, Capped
<1>2. CASE j \notin Kept
  <2>1. Level(j) = Full
    BY <1>2, CollectedIsFull DEF Level
  <2>2. CASE j = k
    <3>1. bucket'[j] = NewBucket /\ j \in buckets'
      BY <1>0, <1>2, <2>2
    <3>2. bucket'[j].level = Full /\ bucket'[j].last = now
      BY <3>1 DEF NewBucket
    <3> QED
      BY <1>0, <2>1, <3>1, <3>2, FullNat DEF Level, Capped
  <2>3. CASE j # k
    BY <1>0, <1>2, <2>1, <2>3 DEF Level, Capped
  <2> QED
    BY <2>2, <2>3
<1> QED
  BY <1>1, <1>2

\* Paying takes the cost from the client that asked and from nobody else.
LEMMA GrantLevels ==
    ASSUME Inv, NEW k \in Keys, Grant(k), NEW j \in Keys
    PROVE  Level(j)' = IF j = k THEN Level(j) - Cost ELSE Level(j)
<1>0. /\ now' = now /\ buckets' = buckets /\ k \in buckets /\ Level(k) >= Cost
      /\ bucket' = [bucket EXCEPT ![k].level = Level(k) - Cost, ![k].last = now]
      /\ now \in Nat /\ bucket[k] \in Bucket
  BY RateAssumption DEF Grant, Inv, HolderOK, TypeOK
<1>1. CASE j = k
  <2>1. bucket'[k].level = Level(k) - Cost /\ bucket'[k].last = now
    BY <1>0 DEF Inv, TypeOK, Bucket
  <2>2. Level(k)' = Capped(Level(k) - Cost)
    BY <1>0, <2>1, LevelRange, FullNat, RateAssumption DEF Level, Capped
  <2> QED
    BY <1>0, <1>1, <2>2, LevelRange, FullNat, RateAssumption DEF Capped
<1>2. CASE j # k
  BY <1>0, <1>2 DEF Level, Capped, Inv, TypeOK
<1> QED
  BY <1>1, <1>2

\* With time every client earns one unit, up to the burst.
LEMMA TickLevels ==
    ASSUME Inv, Tick, NEW j \in Keys
    PROVE  Level(j)' = Capped(Level(j) + 1)
<1>0. now' = now + 1 /\ buckets' = buckets /\ bucket' = bucket /\ now \in Nat
  BY DEF Tick, Inv, TypeOK
<1>1. CASE j \in buckets
  <2>1. bucket[j].level \in Nat /\ bucket[j].last \in Nat /\ bucket[j].last <= now
    BY <1>1 DEF Inv, TypeOK, Bucket, BucketsOK
  <2> QED
    BY <1>0, <1>1, <2>1, FullNat DEF Level, Capped
<1>2. CASE j \notin buckets
  BY <1>0, <1>2, FullNat DEF Level, Capped
<1> QED
  BY <1>1, <1>2

---------------------------------------------------------------------------
(* The invariant is inductive *)

\* A new limiter has no buckets and nobody holds it.
LEMMA InitInv == Init => Inv
<1> SUFFICES ASSUME Init PROVE Inv
  OBVIOUS
<1>1. TypeOK
  BY RateAssumption DEF Init, TypeOK, NoBucket, Bucket
<1>2. HolderOK /\ BucketsOK /\ WindowOK
  BY DEF Init, HolderOK, BucketsOK, WindowOK
<1> QED
  BY <1>1, <1>2 DEF Inv

\* Entering collects only what nobody has seen for a TTL.
LEMMA EnterInv ==
    ASSUME Inv, NEW k \in Keys, Enter(k)
    PROVE  Inv'
<1>0. /\ now' = now /\ holder' = k /\ stall' = 0 /\ buckets' = Kept \cup {k}
      /\ answer' = answer /\ window' = window /\ Kept \subseteq buckets
      /\ lastGC' = IF CollectDue THEN now ELSE lastGC
      /\ bucket' = [i \in Keys |->
                    IF i = k /\ i \in Kept THEN [bucket[i] EXCEPT !.seen = now]
                    ELSE IF i = k THEN NewBucket
                    ELSE IF i \in Kept THEN bucket[i] ELSE NoBucket]
  BY DEF Enter, Kept
<1>1. /\ now \in Nat /\ lastGC \in 0 .. now /\ buckets \subseteq Keys
      /\ bucket \in [Keys -> Bucket] /\ BucketsOK /\ TypeOK
  BY DEF Inv, TypeOK
<1>2. bucket'[k].seen = now /\ k \in buckets'
  <2>1. CASE k \in Kept
    BY <1>0, <1>1, <2>1 DEF Bucket
  <2>2. CASE k \notin Kept
    BY <1>0, <2>2 DEF NewBucket
  <2> QED
    BY <1>0, <2>1, <2>2
<1>3. TypeOK'
  <2>1. bucket' \in [Keys -> Bucket]
    <3>1. NewBucket \in Bucket /\ NoBucket \in Bucket
      BY <1>1, FullNat DEF NewBucket, NoBucket, Bucket
    <3>2. \A i \in Keys : [bucket[i] EXCEPT !.seen = now] \in Bucket
      BY <1>1 DEF Bucket
    <3> QED
      BY <1>0, <1>1, <3>1, <3>2
  <2>2. lastGC' \in 0 .. now' /\ stall' \in 0 .. MaxStall
    BY <1>0, <1>1, RateAssumption
  <2> QED
    BY <1>0, <1>1, <2>1, <2>2 DEF TypeOK
<1>4. HolderOK'
  <2>1. now - 0 < lastGC' + TTL
    BY <1>0, <1>1, RateAssumption DEF CollectDue
  <2> QED
    BY <1>0, <1>1, <1>2, <2>1 DEF HolderOK
<1>5. BucketsOK'
  <2> SUFFICES ASSUME NEW j \in buckets'
               PROVE  /\ bucket'[j].seen <= now /\ bucket'[j].last <= now
                      /\ bucket'[j].last <= bucket'[j].seen + MaxStall
                      /\ bucket'[j].level <= Full
                      /\ lastGC' <= bucket'[j].seen + TTL
    BY <1>0 DEF BucketsOK
  <2>1. CASE j = k /\ j \notin Kept
    <3>1. bucket'[j] = NewBucket
      BY <1>0, <2>1
    <3> QED
      BY <1>0, <1>1, <3>1, FullNat, RateAssumption DEF NewBucket
  <2>2. CASE j \in Kept
    <3>1. /\ bucket[j].seen \in Nat /\ bucket[j].last \in Nat /\ bucket[j].level \in Nat
          /\ bucket[j].seen <= now /\ bucket[j].last <= now
          /\ bucket[j].last <= bucket[j].seen + MaxStall /\ bucket[j].level <= Full
          /\ lastGC <= bucket[j].seen + TTL
      BY <1>0, <1>1, <2>2 DEF BucketsOK, Bucket
    <3>2. /\ bucket'[j].level = bucket[j].level /\ bucket'[j].last = bucket[j].last
          /\ bucket'[j].seen = IF j = k THEN now ELSE bucket[j].seen
      BY <1>0, <1>1, <2>2 DEF Bucket
    <3>3. CollectDue => now <= bucket[j].seen + TTL
      BY <1>1, <2>2, <3>1, RateAssumption DEF Kept
    <3> QED
      BY <1>0, <1>1, <3>1, <3>2, <3>3, RateAssumption
  <2> QED
    BY <1>0, <2>1, <2>2
<1>6. WindowOK'
  BY <1>0, EnterKeepsLevels DEF Inv, TypeOK, WindowOK
<1> QED
  BY <1>3, <1>4, <1>5, <1>6 DEF Inv

\* A request that is let through moves credit from the bucket to the window.
LEMMA GrantInv ==
    ASSUME Inv, NEW k \in Keys, Grant(k)
    PROVE  Inv'
<1>0. /\ now' = now /\ buckets' = buckets /\ lastGC' = lastGC /\ holder' = NoKey
      /\ stall' = 0 /\ holder = k /\ Level(k) >= Cost
      /\ bucket' = [bucket EXCEPT ![k].level = Level(k) - Cost, ![k].last = now]
      /\ answer' = [key |-> k, ok |-> TRUE]
  BY DEF Grant
<1>1. /\ now \in Nat /\ TypeOK /\ BucketsOK /\ k \in buckets /\ bucket[k] \in Bucket
      /\ bucket[k].seen + stall = now /\ stall \in 0 .. MaxStall
  BY <1>0, RateAssumption DEF Inv, TypeOK, HolderOK
<1>2. Level(k) \in 0 .. Full /\ Level(k) - Cost \in 0 .. Full
  BY <1>0, LevelRange, FullNat, RateAssumption
<1>3. /\ bucket'[k].level = Level(k) - Cost /\ bucket'[k].last = now
      /\ bucket'[k].seen = bucket[k].seen /\ \A j \in Keys : j # k => bucket'[j] = bucket[j]
  BY <1>0, <1>1 DEF TypeOK, Bucket
<1>4. /\ window' \in [key : Keys \cup {NoKey}, since : Nat, used : Nat]
      /\ \/ window.key = k /\ window' = [window EXCEPT !.used = @ + Cost]
         \/ window.key = NoKey /\ window' = [key |-> k, since |-> now, used |-> Cost]
         \/ window.key # k /\ window' = window
  BY <1>1, RateAssumption DEF Grant, TypeOK
<1>5. TypeOK'
  <2>1. bucket' \in [Keys -> Bucket]
    <3>1. Level(k) - Cost \in Nat
      BY <1>2, FullNat
    <3>2. [bucket[k] EXCEPT !.level = Level(k) - Cost, !.last = now] \in Bucket
      BY <1>1, <3>1 DEF Bucket
    <3> QED
      BY <1>0, <1>1, <3>2 DEF TypeOK
  <2> QED
    BY <1>0, <1>1, <1>4, <2>1, RateAssumption DEF TypeOK
<1>6. HolderOK'
  BY <1>0 DEF HolderOK
<1>7. BucketsOK'
  <2>1. bucket[k].seen \in Nat /\ bucket[k].seen <= now /\ lastGC <= bucket[k].seen + TTL
    BY <1>1 DEF Bucket, BucketsOK
  <2>2. /\ bucket'[k].seen <= now /\ bucket'[k].last <= now
        /\ bucket'[k].last <= bucket'[k].seen + MaxStall
        /\ bucket'[k].level <= Full /\ lastGC <= bucket'[k].seen + TTL
    BY <1>1, <1>2, <1>3, <2>1, FullNat, RateAssumption
  <2>3. \A j \in buckets : j # k => bucket'[j] = bucket[j]
    BY <1>1, <1>3 DEF TypeOK
  <2> QED
    BY <1>0, <1>1, <2>2, <2>3 DEF BucketsOK
<1>8. WindowOK'
  <2>1. CASE window.key = k
    <3>1. /\ window'.key = k /\ window'.since = window.since
          /\ window'.used = window.used + Cost /\ window.used \in Nat /\ window.since \in Nat
      BY <1>1, <1>4, <2>1, RateAssumption DEF TypeOK
    <3>2. window.since <= now /\ window.used + Level(k) <= Full + (now - window.since)
      BY <2>1, RateAssumption DEF Inv, WindowOK
    <3>3. Level(k)' = Level(k) - Cost
      BY GrantLevels
    <3> QED
      BY <1>0, <1>1, <1>2, <3>1, <3>2, <3>3, FullNat, RateAssumption DEF WindowOK
  <2>2. CASE window.key = NoKey /\ window' = [key |-> k, since |-> now, used |-> Cost]
    <3>1. window'.key = k /\ window'.since = now /\ window'.used = Cost
      BY <2>2
    <3>2. Level(k)' = Level(k) - Cost
      BY GrantLevels
    <3> QED
      BY <1>0, <1>1, <1>2, <3>1, <3>2, FullNat, RateAssumption DEF WindowOK
  <2>3. CASE window.key # k /\ window' = window
    <3>1. window.key # NoKey => Level(window.key)' = Level(window.key)
      BY <1>1, <2>3, GrantLevels DEF TypeOK
    <3> QED
      BY <1>0, <2>3, <3>1 DEF Inv, WindowOK
  <2> QED
    BY <1>4, <2>1, <2>2, <2>3
<1> QED
  BY <1>5, <1>6, <1>7, <1>8 DEF Inv

\* A refused request leaves the buckets alone.
LEMMA RefuseInv ==
    ASSUME Inv, NEW k \in Keys, Refuse(k)
    PROVE  Inv'
<1>0. /\ UNCHANGED <<now, lastGC, buckets, bucket, window>>
      /\ holder' = NoKey /\ stall' = 0 /\ answer' = [key |-> k, ok |-> FALSE]
  BY DEF Refuse
<1>1. TypeOK'
  BY <1>0, RateAssumption DEF Inv, TypeOK
<1>2. HolderOK' /\ BucketsOK'
  BY <1>0 DEF Inv, HolderOK, BucketsOK
<1>3. WindowOK'
  BY <1>0 DEF Inv, WindowOK, Level, Capped
<1> QED
  BY <1>1, <1>2, <1>3 DEF Inv

\* Time earns credit no faster than it passes.
LEMMA TickInv ==
    ASSUME Inv, Tick
    PROVE  Inv'
<1>0. /\ now' = now + 1 /\ UNCHANGED <<lastGC, buckets, bucket, holder, answer, window>>
      /\ \/ holder = NoKey /\ stall' = stall
         \/ holder # NoKey /\ stall < MaxStall /\ stall' = stall + 1
      /\ now \in Nat /\ stall \in 0 .. MaxStall /\ TypeOK
  BY DEF Tick, Inv, TypeOK
<1>1. TypeOK'
  BY <1>0, RateAssumption DEF TypeOK
<1>2. HolderOK'
  <2>1. holder # NoKey => bucket[holder].seen \in Nat /\ lastGC \in Nat
    BY <1>0 DEF TypeOK, Bucket
  <2> QED
    BY <1>0, <2>1, RateAssumption DEF Inv, HolderOK
<1>3. BucketsOK'
  <2>1. \A k \in buckets : bucket[k].seen \in Nat /\ bucket[k].last \in Nat
    BY <1>0 DEF TypeOK, Bucket
  <2> QED
    BY <1>0, <2>1 DEF Inv, BucketsOK
<1>4. WindowOK'
  <2> SUFFICES ASSUME window.key # NoKey
               PROVE  /\ window.since <= now + 1
                      /\ window.used + Level(window.key)'
                            <= Full + ((now + 1) - window.since)
    BY <1>0 DEF WindowOK
  <2>1. /\ window.key \in Keys /\ window.since \in Nat /\ window.used \in Nat
        /\ window.since <= now
        /\ window.used + Level(window.key) <= Full + (now - window.since)
    BY <1>0 DEF Inv, WindowOK, TypeOK
  <2>2. Level(window.key)' = Capped(Level(window.key) + 1) /\ Level(window.key) \in 0 .. Full
    <3>1. \A j \in Keys : Level(j)' = Capped(Level(j) + 1) /\ Level(j) \in 0 .. Full
      BY TickLevels, LevelRange
    <3>2. window' = window
      BY <1>0
    <3> QED
      BY <2>1, <3>1, <3>2
  <2> QED
    BY <1>0, <2>1, <2>2, FullNat DEF Capped
<1> QED
  BY <1>1, <1>2, <1>3, <1>4 DEF Inv

\* Inv holds in every reachable state.
LEMMA Invariance == Spec => []Inv
<1>1. Inv /\ [Next]_vars => Inv'
  <2> SUFFICES ASSUME Inv, [Next]_vars PROVE Inv'
    OBVIOUS
  <2>1. CASE Next
    BY <2>1, EnterInv, GrantInv, RefuseInv, TickInv DEF Next
  <2>2. CASE UNCHANGED vars
    BY <2>2 DEF vars, Inv, TypeOK, HolderOK, BucketsOK, WindowOK, Level, Capped
  <2> QED
    BY <2>1, <2>2
<1> QED
  BY <1>1, InitInv, PTL DEF Spec

---------------------------------------------------------------------------
(* The theorems *)

\* Every reachable state is well typed, whatever the rate, the burst and the
\* TTL: no bucket is overdrawn, the last collection lies in the past and the
\* map is held by one call at most (rate_limit.go 35-94).
THEOREM TypeCorrect == Spec => []TypeOK
<1>1. Inv => TypeOK
  BY DEF Inv
<1> QED
  BY <1>1, Invariance, PTL

\* Whatever the rate, the burst and the TTL, as long as a bucket refills within
\* the TTL: no client gets more than a burst and what it earned, in any window
\* and across any number of collections of its bucket (rate_limit.go 65-94).
THEOREM WithinBudget == Spec => []Budget
<1>1. Inv => Budget
  <2> SUFFICES ASSUME Inv, window.key # NoKey
               PROVE  window.used <= Full + (now - window.since)
    BY DEF Budget
  <2>1. /\ window.key \in Keys /\ window.used \in Nat /\ window.since \in Nat /\ now \in Nat
        /\ window.used + Level(window.key) <= Full + (now - window.since)
    BY DEF Inv, TypeOK, WindowOK
  <2>2. Level(window.key) \in 0 .. Full
    BY <2>1, LevelRange
  <2> QED
    BY <2>1, <2>2, FullNat
<1> QED
  BY <1>1, Invariance, PTL

\* The map holds only clients of the last two TTLs (rate_limit.go 82-94).
THEOREM BoundedMap == Spec => []OnlyRecentBuckets
<1>1. Inv => OnlyRecentBuckets
  <2> SUFFICES ASSUME Inv, holder # NoKey, NEW k \in buckets
               PROVE  (now - stall) - bucket[k].seen < 2 * TTL
    BY DEF OnlyRecentBuckets
  <2>1. /\ now \in Nat /\ stall \in Nat /\ bucket[k].seen \in Nat /\ lastGC \in Nat
        /\ now - stall < lastGC + TTL /\ lastGC <= bucket[k].seen + TTL
    BY RateAssumption DEF Inv, TypeOK, Bucket, HolderOK, BucketsOK
  <2> QED
    BY <2>1, RateAssumption
<1> QED
  BY <1>1, Invariance, PTL

\* The limiter implements one that never forgets a client: it decides every
\* request as if no bucket had ever been collected (rate_limit.go 21-28, 82-94).
THEOREM CollectionIsInvisible == Spec => ForgetsNothing
<1>1. Init => Ideal!Init
  BY DEF Init, Ideal!Init, Level, Full, Ideal!Full
<1>2. Inv /\ [Next]_vars => [Ideal!Next]_(Ideal!bucketVars)
  <2> SUFFICES ASSUME Inv, [Next]_vars PROVE [Ideal!Next]_(Ideal!bucketVars)
    OBVIOUS
  <2> DEFINE L == [k \in Keys |-> Level(k)]
  <2>1. ASSUME NEW k \in Keys, Enter(k) PROVE UNCHANGED Ideal!bucketVars
    <3>1. L' = L
      BY <2>1, EnterKeepsLevels
    <3> QED
      BY <2>1, <3>1 DEF Enter, Ideal!bucketVars
  <2>2. ASSUME NEW k \in Keys, Grant(k) PROVE Ideal!Allow(k)
    <3>1. L' = [L EXCEPT ![k] = @ - Cost]
      BY <2>2, GrantLevels
    <3> QED
      BY <2>2, <3>1 DEF Grant, Ideal!Allow
  <2>3. ASSUME NEW k \in Keys, Refuse(k) PROVE Ideal!Refuse(k)
    <3>1. L' = L
      BY <2>3 DEF Refuse, Level, Capped
    <3> QED
      BY <2>3, <3>1 DEF Refuse, Ideal!Refuse
  <2>4. ASSUME Tick PROVE Ideal!Tick
    <3>1. L' = [k \in Keys |-> Capped(L[k] + 1)]
      BY <2>4, TickLevels
    <3>2. answer' = answer
      BY <2>4 DEF Tick
    <3> QED
      BY <3>1, <3>2 DEF Ideal!Tick, Ideal!Capped, Ideal!Full, Capped, Full
  <2>5. CASE UNCHANGED vars
    BY <2>5 DEF vars, Ideal!bucketVars, Level, Capped
  <2> QED
    BY <2>1, <2>2, <2>3, <2>4, <2>5 DEF Next, Ideal!Next
<1> QED
  BY <1>1, <1>2, Invariance, PTL DEF Spec, ForgetsNothing, Ideal!Spec
============================================================================
