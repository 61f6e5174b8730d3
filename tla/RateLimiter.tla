---------------------------- MODULE RateLimiter ----------------------------
(***************************************************************************)
(* IPRateLimiter (internal/api/middleware/rate_limit.go): one token bucket *)
(* per client behind one mutex; buckets of quiet clients are collected, at *)
(* most once per TTL, by whichever call comes next.                        *)
(*                                                                         *)
(* One tick is the time in which a client earns one unit of credit, so RPS *)
(* is 1 / Cost requests per tick.  A call reads the clock twice, on entry  *)
(* and again inside the bucket (x/time/rate), and may be descheduled in    *)
(* between while it holds the mutex.                                       *)
(***************************************************************************)
EXTENDS Integers

CONSTANTS
    Keys,       \* clients, by address
    NoKey,      \* no client
    Cost,       \* ticks of credit one request costs
    Burst,      \* requests a full bucket pays for
    TTL,        \* ticks an idle bucket is kept
    MaxStall,   \* bound: ticks between the two clock readings of one call
    MaxTime     \* bound: how long the clock runs

Full == Burst * Cost

\* The configured rates refill a bucket well within the TTL (2 s and 25 s
\* of 10 minutes by default, config.go 159-162).
ASSUME RateAssumption ==
    /\ Cost \in Nat \ {0} /\ Burst \in Nat /\ TTL \in Nat \ {0}
    /\ MaxStall \in Nat /\ MaxTime \in Nat
    /\ Full + MaxStall <= TTL
    /\ NoKey \notin Keys

VARIABLES
    now,        \* time.Now, monotonic
    lastGC,     \* when buckets were last collected
    buckets,    \* the clients that have a bucket
    bucket,     \* when it was last asked for (seen), its credit (level) at
                \*   the time it last paid (last)
    holder,     \* the client whose call holds the mutex
    stall,      \* ticks since that call read the clock
    answer,     \* the last decision
    window      \* history: a window that opens at some request of some client
                \*   (key, since), and the credit its requests used up in it

vars == <<now, lastGC, buckets, bucket, holder, stall, answer, window>>

---------------------------------------------------------------------------
(* x/time/rate: credit grows with time up to the burst *)

Capped(x) == IF x > Full THEN Full ELSE x

NoBucket == [seen |-> 0, level |-> 0, last |-> 0]

\* rate.NewLimiter starts full.
NewBucket == [seen |-> now, level |-> Full, last |-> now]

\* What the bucket of k holds when it is asked now; a client without one
\* would get a new one.
Level(k) ==
    IF k \in buckets THEN Capped(bucket[k].level + (now - bucket[k].last))
    ELSE Full

---------------------------------------------------------------------------
(* gcLocked *)

CollectDue == now - lastGC >= TTL

\* Variant: the sweep compares the wrong way round.
KeepStale == {k \in buckets : CollectDue => now - bucket[k].seen > TTL}

Kept == {k \in buckets : CollectDue => now - bucket[k].seen <= TTL}

---------------------------------------------------------------------------
(* Allow *)

\* Variant: seen is set when the bucket is made, and never again.
EnterUnseen(k) ==
    /\ holder = NoKey
    /\ holder' = k /\ stall' = 0
    /\ lastGC' = IF CollectDue THEN now ELSE lastGC
    /\ buckets' = Kept \cup {k}
    /\ bucket' = [j \in Keys |-> IF j \in Kept THEN bucket[j]
                                 ELSE IF j = k THEN NewBucket ELSE NoBucket]
    /\ UNCHANGED <<now, answer, window>>

\* The first half: lock, read the clock, collect, find or make the bucket.
Enter(k) ==
    /\ holder = NoKey
    /\ holder' = k /\ stall' = 0
    /\ lastGC' = IF CollectDue THEN now ELSE lastGC
    /\ buckets' = Kept \cup {k}
    /\ bucket' = [j \in Keys |->
                    IF j = k /\ j \in Kept THEN [bucket[j] EXCEPT !.seen = now]
                    ELSE IF j = k THEN NewBucket
                    ELSE IF j \in Kept THEN bucket[j] ELSE NoBucket]
    /\ UNCHANGED <<now, answer, window>>

\* Variant: a request that is refused pays as well.
RefuseAndPay(k) ==
    /\ holder = k /\ Level(k) < Cost
    /\ bucket' = [bucket EXCEPT ![k].level = 0, ![k].last = now]
    /\ holder' = NoKey /\ stall' = 0
    /\ answer' = [key |-> k, ok |-> FALSE]
    /\ UNCHANGED <<now, lastGC, buckets, window>>

\* Variant: the answer of the bucket is not looked at.
GrantAlways(k) ==
    /\ holder = k
    /\ bucket' = [bucket EXCEPT ![k].level = Level(k) - Cost, ![k].last = now]
    /\ holder' = NoKey /\ stall' = 0
    /\ answer' = [key |-> k, ok |-> TRUE]
    /\ UNCHANGED <<now, lastGC, buckets, window>>

\* The second half: b.limiter.Allow(), then unlock.
Grant(k) ==
    /\ holder = k /\ Level(k) >= Cost
    /\ bucket' = [bucket EXCEPT ![k].level = Level(k) - Cost, ![k].last = now]
    /\ \/ window.key = k /\ window' = [window EXCEPT !.used = @ + Cost]
       \/ window.key = NoKey /\ window' = [key |-> k, since |-> now, used |-> Cost]
       \/ window.key # k /\ UNCHANGED window
    /\ holder' = NoKey /\ stall' = 0
    /\ answer' = [key |-> k, ok |-> TRUE]
    /\ UNCHANGED <<now, lastGC, buckets>>

\* 429, and the bucket keeps what it has.
Refuse(k) ==
    /\ holder = k /\ Level(k) < Cost
    /\ holder' = NoKey /\ stall' = 0
    /\ answer' = [key |-> k, ok |-> FALSE]
    /\ UNCHANGED <<now, lastGC, buckets, bucket, window>>

\* Time also passes for the call that holds the mutex.
Tick ==
    /\ now < MaxTime
    /\ now' = now + 1
    /\ \/ holder = NoKey /\ UNCHANGED stall
       \/ holder # NoKey /\ stall < MaxStall /\ stall' = stall + 1
    /\ UNCHANGED <<lastGC, buckets, bucket, holder, answer, window>>

---------------------------------------------------------------------------
\* NewIPRateLimiter; lastGC is Go's zero time, long ago.
Init ==
    /\ now = TTL /\ lastGC = 0
    /\ buckets = {} /\ bucket = [k \in Keys |-> NoBucket]
    /\ holder = NoKey /\ stall = 0
    /\ answer = [key |-> NoKey, ok |-> FALSE]
    /\ window = [key |-> NoKey, since |-> 0, used |-> 0]

Next == Tick \/ \E k \in Keys : Enter(k) \/ Grant(k) \/ Refuse(k)

Spec == Init /\ [][Next]_vars

---------------------------------------------------------------------------
(* Properties *)

Bucket == [seen : Nat, level : Nat, last : Nat]

TypeOK ==
    /\ now \in Nat /\ lastGC \in 0 .. now
    /\ buckets \subseteq Keys /\ bucket \in [Keys -> Bucket]
    /\ holder \in Keys \cup {NoKey} /\ stall \in 0 .. MaxStall
    /\ answer \in [key : Keys \cup {NoKey}, ok : BOOLEAN]
    /\ window \in [key : Keys \cup {NoKey}, since : Nat, used : Nat]

\* In no window does a client get more than a burst and what it earned since
\* the window opened, however often its bucket was collected and made anew in
\* between (rate_limit.go 65-94).
Budget ==
    window.key # NoKey => window.used <= Full + (now - window.since)

\* The map cannot grow without bound: when a call holds it, every bucket was
\* asked for less than two TTLs ago (rate_limit.go 82-94).
OnlyRecentBuckets ==
    holder # NoKey =>
        \A k \in buckets : (now - stall) - bucket[k].seen < 2 * TTL

\* Collected buckets are not missed: the limiter decides as one that never
\* forgets a client (rate_limit.go 21-28), so it neither lets through more nor
\* refuses a client that has budget left.
Ideal == INSTANCE TokenBucket WITH level <- [k \in Keys |-> Level(k)]

ForgetsNothing == Ideal!Spec
============================================================================
