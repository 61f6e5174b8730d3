---------------------------- MODULE TokenBucket ----------------------------
(* What a rate limiter promises each client: a bucket that fills with time, *)
(* is never forgotten, and pays for every request that is let through.      *)
EXTENDS Integers

CONSTANTS
    Keys,   \* clients, by address
    NoKey,  \* no client
    Cost,   \* ticks of credit one request costs (one tick earns one)
    Burst   \* requests a full bucket pays for

VARIABLES
    level,  \* credit of each client
    answer  \* the last decision: which client, and whether it was let through

bucketVars == <<level, answer>>

Full == Burst * Cost

Capped(x) == IF x > Full THEN Full ELSE x

Init ==
    /\ level = [k \in Keys |-> Full]
    /\ answer = [key |-> NoKey, ok |-> FALSE]

Allow(k) ==
    /\ level[k] >= Cost
    /\ level' = [level EXCEPT ![k] = @ - Cost]
    /\ answer' = [key |-> k, ok |-> TRUE]

Refuse(k) ==
    /\ level[k] < Cost
    /\ answer' = [key |-> k, ok |-> FALSE]
    /\ UNCHANGED level

Tick ==
    /\ level' = [k \in Keys |-> Capped(level[k] + 1)]
    /\ UNCHANGED answer

Next == Tick \/ \E k \in Keys : Allow(k) \/ Refuse(k)

Spec == Init /\ [][Next]_bucketVars
============================================================================
