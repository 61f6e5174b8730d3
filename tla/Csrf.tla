-------------------------------- MODULE Csrf --------------------------------
(***************************************************************************)
(* CSRF tokens across replicas (internal/service/csrf): nothing is stored, *)
(* a replica recomputes the MAC and compares the issue time in the token   *)
(* with its own clock. The clocks of replicas differ and are adjusted, and *)
(* a rolling deployment may change the secret.                             *)
(***************************************************************************)
EXTENDS Integers, Sequences

CONSTANTS
    Replicas, Secrets,
    TTL,            \* CSRF_TOKEN_TTL, in ticks
    clockSkew,      \* in ticks; a minute in the code
    Second,         \* ticks in a second
    Spread,         \* how far two clocks may be apart, in ticks
    Base,           \* of the digits that stand for bytes
    MaxTokens, MaxTime      \* bounds

ASSUME CsrfAssumption ==
    /\ TTL \in Nat \ {0} /\ clockSkew \in Nat /\ Second \in Nat \ {0}
    /\ Spread \in Nat /\ MaxTokens \in Nat /\ MaxTime \in Nat
    /\ Base \in Nat /\ Base * Base * Second > MaxTime + Spread

\* The replicas' clocks are together to within the allowance of the code.
ASSUME SkewAssumption == Spread <= clockSkew

VARIABLES
    now,        \* real time
    ahead,      \* how far the clock of a replica is ahead of the slowest
    secret,     \* the secret a replica runs with
    issued      \* tokens, with the real time of their making

vars == <<now, ahead, secret, issued>>

---------------------------------------------------------------------------
(* Tokens: nonce, issue time and signature *)

nonceLength == 1

Clock(r) == now + ahead[r]

\* binary.BigEndian.PutUint64 and Uint64: a fixed number of bytes. Uint64 reads
\* the first ones and ignores the others.
PutUint64(n) == <<n \div Base, n % Base>>

Uint64(bytes) == bytes[1] * Base + bytes[2]

\* The MAC of nonce and issue time, written one after the other.
Sign(r, nonce, issuedAt) == [key |-> secret[r], data |-> nonce \o issuedAt]

\* The nonce is new, and the issue time is in whole seconds.
GenerateToken(r) ==
    /\ Len(issued) < MaxTokens
    /\ LET nonce == <<Len(issued)>>
           issuedAt == PutUint64(Clock(r) \div Second)
       IN issued' = Append(issued,
              [nonce |-> nonce, issuedAt |-> issuedAt, made |-> now,
               signature |-> Sign(r, nonce, issuedAt)])
    /\ UNCHANGED <<now, ahead, secret>>

---------------------------------------------------------------------------
(* Validation *)

\* Variant: the lengths of the parts are not checked.
AnyLength(t) == Len(t.issuedAt) >= Len(PutUint64(0))

WellFormed(t) ==
    Len(t.nonce) = nonceLength /\ Len(t.issuedAt) = Len(PutUint64(0))

Age(r, t) == Clock(r) - Uint64(t.issuedAt) * Second

\* Variant: a token from the future is refused, however near.
NotFromTheFuture(r, t) == Age(r, t) >= 0 /\ Age(r, t) <= TTL

InTime(r, t) == Age(r, t) >= -clockSkew /\ Age(r, t) <= TTL

\* ValidateToken changes nothing, so it is an operator: the answer of replica r
\* at this moment. The signature is checked before the issue time is read.
ValidateToken(r, t) ==
    /\ WellFormed(t)
    /\ t.signature = Sign(r, t.nonce, t.issuedAt)
    /\ InTime(r, t)

\* What a client may send: the parts of tokens it holds, put together in any
\* way, or a token cut at another place.
Sent ==
    LET data(i) == issued[i].signature.data
    IN {[nonce |-> SubSeq(data(i), 1, cut), issuedAt |-> SubSeq(data(j), cut + 1, 3),
         signature |-> issued[k].signature] :
            i, j, k \in DOMAIN issued, cut \in 0 .. 3}

---------------------------------------------------------------------------
(* The environment *)

Tick ==
    /\ now < MaxTime
    /\ now' = now + 1
    /\ UNCHANGED <<ahead, secret, issued>>

\* A clock is adjusted; the clocks stay together.
Adjust(r) ==
    /\ \E a \in 0 .. Spread : ahead' = [ahead EXCEPT ![r] = a]
    /\ UNCHANGED <<now, secret, issued>>

\* NewCSRFService: a replica starts again with another secret.
NewCSRFService(r) ==
    /\ \E s \in Secrets : secret' = [secret EXCEPT ![r] = s]
    /\ UNCHANGED <<now, ahead, issued>>

---------------------------------------------------------------------------
Init ==
    /\ now = 0 /\ issued = <<>>
    /\ ahead \in [Replicas -> 0 .. Spread]
    /\ secret \in [Replicas -> Secrets]

Next ==
    \/ Tick
    \/ \E r \in Replicas :
           GenerateToken(r) \/ Adjust(r) \/ NewCSRFService(r)

Spec == Init /\ [][Next]_vars

---------------------------------------------------------------------------
(* Properties *)

\* Type correctness; an issue time fits its bytes.
TypeOK ==
    /\ now \in 0 .. MaxTime
    /\ ahead \in [Replicas -> 0 .. Spread] /\ secret \in [Replicas -> Secrets]
    /\ \A i \in DOMAIN issued :
        /\ issued[i].made \in 0 .. now
        /\ Uint64(issued[i].issuedAt) * Second \in 0 .. issued[i].made + Spread
        /\ issued[i].signature.key \in Secrets

\* Whether t is the i-th token, and of the secret replica r runs with.
IsToken(r, t, i) ==
    /\ issued[i].nonce = t.nonce /\ issued[i].issuedAt = t.issuedAt
    /\ issued[i].signature = t.signature /\ t.signature.key = secret[r]

\* A token that is accepted was issued whole, with the secret of the replica
\* that accepts it, and not longer ago than the TTL and the difference of the
\* clocks: no recombination of parts verifies, although the MAC does not mark
\* where the nonce ends (validate.service.go 14-45).
AcceptedWasIssued ==
    \A r \in Replicas, t \in Sent :
        ValidateToken(r, t) =>
            \E i \in DOMAIN issued :
                IsToken(r, t, i) /\ now - issued[i].made <= TTL + Spread

\* Replicas with the same secret accept each other's tokens from the moment
\* they are made, up to the TTL less what the clocks differ and less the part
\* of a second the issue time drops (csrf.service.go 5-8, generate 25-26).
FreshIsAccepted ==
    \A r \in Replicas : \A i \in DOMAIN issued :
        /\ IsToken(r, issued[i], i)
        /\ now + Spread + Second - 1 <= issued[i].made + TTL
        => ValidateToken(r, issued[i])
============================================================================
