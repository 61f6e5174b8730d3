----------------------------- MODULE CsrfProofs -----------------------------
(***************************************************************************)
(* CSRF tokens for any number of replicas, secrets and tokens, any TTL,    *)
(* any clocks that are together to within the allowance of the code and    *)
(* any precision of the issue time.                                        *)
(***************************************************************************)
EXTENDS Csrf, SequenceTheorems, TLAPS

Token ==
    [nonce : Seq(Nat), issuedAt : Seq(Nat), made : Nat,
     signature : [key : Secrets, data : Seq(Nat)]]

\* What TypeOK leaves open: the set of which the tokens are a sequence.
Typed ==
    /\ now \in 0 .. MaxTime
    /\ ahead \in [Replicas -> 0 .. Spread] /\ secret \in [Replicas -> Secrets]
    /\ issued \in Seq(Token)

\* A token is signed over its own parts, and its nonce is its alone.
PartsAreSigned ==
    \A i \in 1 .. Len(issued) :
        /\ Len(issued[i].nonce) = 1 /\ issued[i].nonce[1] = i - 1
        /\ Len(issued[i].issuedAt) = 2
        /\ issued[i].signature.data = issued[i].nonce \o issued[i].issuedAt

\* The issue time is the time of the making by the clock of some replica, less
\* a part of a second, and its bytes are bytes.
TimesAreClose ==
    \A i \in 1 .. Len(issued) :
        /\ issued[i].made <= now
        /\ Uint64(issued[i].issuedAt) * Second <= issued[i].made + Spread
        /\ issued[i].made < Uint64(issued[i].issuedAt) * Second + Second
        /\ issued[i].issuedAt[1] < Base /\ issued[i].issuedAt[2] < Base

Inv == Typed /\ PartsAreSigned /\ TimesAreClose

---------------------------------------------------------------------------
(* Arithmetic and sequences *)

\* Euclidean division, with names for quotient and remainder.
LEMMA Division ==
    ASSUME NEW n \in Nat, NEW d \in Nat \ {0}
    PROVE  \E q \in Nat, m \in 0 .. d - 1 :
               /\ q = n \div d /\ m = n % d
               /\ n = q * d + m /\ q * d <= n /\ n < q * d + d
<1>1. n \div d \in Nat /\ n % d \in 0 .. d - 1
    OBVIOUS
<1> DEFINE q == n \div d
           m == n % d
<1>2. q \in Nat /\ m \in 0 .. d - 1 /\ q = n \div d /\ m = n % d
    BY <1>1
<1> HIDE DEF q, m
<1>3. n = q * d + m
    BY <1>2
<1>4. q * d <= n /\ n < q * d + d
    BY <1>2, <1>3
<1> WITNESS q \in Nat, m \in 0 .. d - 1
<1> QED BY <1>2, <1>3, <1>4

LEMMA BaseIsPositive == Base \in Nat \ {0}
BY CsrfAssumption

\* Uint64 reads what PutUint64 wrote, and it wrote bytes if the time fits.
LEMMA RoundTrip ==
    ASSUME NEW n \in Nat, n * Second <= MaxTime + Spread
    PROVE  /\ PutUint64(n) \in Seq(Nat) /\ Len(PutUint64(n)) = 2
           /\ Uint64(PutUint64(n)) = n
           /\ PutUint64(n)[1] < Base /\ PutUint64(n)[2] < Base
<1>1. PICK q \in Nat, m \in 0 .. Base - 1 :
          q = n \div Base /\ m = n % Base /\ n = q * Base + m
    BY BaseIsPositive, Division
<1>2. PutUint64(n) = <<q, m>>
    BY <1>1 DEF PutUint64
<1>3. Uint64(PutUint64(n)) = n
    BY <1>1, <1>2 DEF Uint64
<1>4. n < Base * Base
    <2>1. SUFFICES ASSUME n >= Base * Base PROVE FALSE
        BY BaseIsPositive
    <2>2. n * Second >= (Base * Base) * Second
        BY <2>1, BaseIsPositive, CsrfAssumption
    <2> QED BY <2>2, CsrfAssumption
<1>5. q < Base
    <2>1. SUFFICES ASSUME q >= Base PROVE FALSE
        BY BaseIsPositive
    <2>2. q * Base >= Base * Base
        BY <2>1, BaseIsPositive
    <2> QED BY <1>1, <1>4, <2>2, BaseIsPositive
<1>6. <<q, m>> \in Seq(Nat) /\ Len(<<q, m>>) = 2 /\ <<q, m>>[1] = q /\ <<q, m>>[2] = m
    OBVIOUS
<1>7. m < Base
    BY BaseIsPositive
<1> QED BY <1>2, <1>3, <1>5, <1>6, <1>7

---------------------------------------------------------------------------
(* The invariant *)

LEMMA InitInv == Init => Inv
<1> SUFFICES ASSUME Init PROVE Inv
    OBVIOUS
<1>1. Typed
    BY CsrfAssumption, EmptySeq DEF Init, Typed
<1>2. PartsAreSigned /\ TimesAreClose
    BY EmptySeq DEF Init, PartsAreSigned, TimesAreClose
<1> QED BY <1>1, <1>2 DEF Inv

\* A step that issues nothing.
LEMMA OthersInv ==
    ASSUME Inv, Typed', now <= now', UNCHANGED issued
    PROVE  Inv'
<1>1. PartsAreSigned'
    BY DEF Inv, PartsAreSigned
<1>2. TimesAreClose'
    <2> SUFFICES ASSUME NEW i \in 1 .. Len(issued)
                 PROVE  issued[i].made <= now'
        BY DEF Inv, TimesAreClose
    <2>1. issued[i] \in Token
        BY ElementOfSeq DEF Inv, Typed
    <2>2. issued[i].made \in Nat /\ issued[i].made <= now
        BY <2>1 DEF Inv, TimesAreClose, Token
    <2>3. now \in Nat /\ now' \in Nat
        BY CsrfAssumption DEF Inv, Typed
    <2> QED BY <2>2, <2>3
<1> QED BY <1>1, <1>2 DEF Inv

\* What GenerateToken appends.
LEMMA GenerateInv ==
    ASSUME Inv, NEW r \in Replicas, GenerateToken(r)
    PROVE  Inv'
<1> DEFINE n == Clock(r) \div Second
           nonce == <<Len(issued)>>
           t == [nonce |-> nonce, issuedAt |-> PutUint64(n), made |-> now,
                 signature |-> Sign(r, nonce, PutUint64(n))]
<1>1. issued' = Append(issued, t) /\ UNCHANGED <<now, ahead, secret>>
    BY DEF GenerateToken
<1>2. Clock(r) \in Nat /\ now <= Clock(r) /\ Clock(r) <= now + Spread
      /\ Clock(r) <= MaxTime + Spread /\ now \in Nat /\ Len(issued) \in Nat
      /\ secret[r] \in Secrets
    BY CsrfAssumption, LenProperties DEF Clock, Inv, Typed
<1>3. n \in Nat /\ n * Second <= Clock(r) /\ Clock(r) < n * Second + Second
    BY <1>2, Division, CsrfAssumption
<1> HIDE DEF n
<1>4. n * Second <= MaxTime + Spread
    BY <1>2, <1>3, CsrfAssumption
<1>5. /\ PutUint64(n) \in Seq(Nat) /\ Len(PutUint64(n)) = 2
      /\ Uint64(PutUint64(n)) = n
      /\ PutUint64(n)[1] < Base /\ PutUint64(n)[2] < Base
    BY <1>3, <1>4, RoundTrip
<1>6. nonce \in Seq(Nat) /\ Len(nonce) = 1 /\ nonce[1] = Len(issued)
    BY <1>2
<1>7. nonce \o PutUint64(n) \in Seq(Nat)
    BY <1>5, <1>6, ConcatProperties
<1>8. t \in Token
    BY <1>2, <1>5, <1>6, <1>7 DEF Token, Sign
<1> HIDE DEF nonce
<1>9. /\ t.nonce = nonce /\ t.issuedAt = PutUint64(n) /\ t.made = now
      /\ t.signature.data = nonce \o PutUint64(n)
    BY DEF Sign
<1> HIDE DEF t
<1>10. /\ issued' \in Seq(Token) /\ Len(issued') = Len(issued) + 1
       /\ \A i \in 1 .. Len(issued) : issued'[i] = issued[i]
       /\ issued'[Len(issued) + 1] = t
    BY <1>1, <1>8, AppendProperties DEF Inv, Typed
<1>11. Typed'
    BY <1>1, <1>10 DEF Inv, Typed
<1>12. PartsAreSigned'
    <2> SUFFICES ASSUME NEW i \in 1 .. Len(issued')
                 PROVE  /\ Len(issued'[i].nonce) = 1 /\ issued'[i].nonce[1] = i - 1
                        /\ Len(issued'[i].issuedAt) = 2
                        /\ issued'[i].signature.data = issued'[i].nonce \o issued'[i].issuedAt
        BY DEF PartsAreSigned
    <2>1. CASE i \in 1 .. Len(issued)
        BY <2>1, <1>10 DEF Inv, PartsAreSigned
    <2>2. CASE i = Len(issued) + 1
        <3>1. issued'[i] = t
            BY <2>2, <1>10
        <3>2. nonce[1] = i - 1
            BY <2>2, <1>2, <1>6
        <3>3. Len(t.nonce) = 1 /\ t.nonce[1] = i - 1 /\ Len(t.issuedAt) = 2
            BY <3>2, <1>5, <1>6, <1>9
        <3> QED BY <3>1, <3>3, <1>9
    <2>3. i \in 1 .. Len(issued) \/ i = Len(issued) + 1
        BY <1>2, <1>10
    <2> QED BY <2>1, <2>2, <2>3
<1>13. TimesAreClose'
    <2> SUFFICES ASSUME NEW i \in 1 .. Len(issued')
                 PROVE  /\ issued'[i].made <= now
                        /\ Uint64(issued'[i].issuedAt) * Second <= issued'[i].made + Spread
                        /\ issued'[i].made < Uint64(issued'[i].issuedAt) * Second + Second
                        /\ issued'[i].issuedAt[1] < Base /\ issued'[i].issuedAt[2] < Base
        BY <1>1 DEF TimesAreClose, Uint64
    <2>1. CASE i \in 1 .. Len(issued)
        BY <2>1, <1>10 DEF Inv, TimesAreClose
    <2>2. CASE i = Len(issued) + 1
        <3>1. n * Second <= now + Spread /\ now < n * Second + Second
            BY <1>2, <1>3, CsrfAssumption
        <3>2. issued'[i] = t
            BY <2>2, <1>10
        <3> QED BY <3>1, <3>2, <1>2, <1>5, <1>9
    <2> QED BY <2>1, <2>2, <1>2, <1>10
<1> QED BY <1>11, <1>12, <1>13 DEF Inv

LEMMA Invariance == Spec => []Inv
<1>1. ASSUME Inv, [Next]_vars PROVE Inv'
    <2>1. CASE Tick
        <3>1. Typed' /\ now <= now'
            BY <1>1, <2>1, CsrfAssumption DEF Tick, Inv, Typed
        <3> QED BY <1>1, <2>1, <3>1, OthersInv DEF Tick
    <2>2. CASE \E r \in Replicas : GenerateToken(r)
        BY <1>1, <2>2, GenerateInv
    <2>3. CASE \E r \in Replicas : Adjust(r)
        <3>1. Typed' /\ now <= now'
            BY <1>1, <2>3, CsrfAssumption DEF Adjust, Inv, Typed
        <3> QED BY <1>1, <2>3, <3>1, OthersInv DEF Adjust
    <2>4. CASE \E r \in Replicas : NewCSRFService(r)
        <3>1. Typed' /\ now <= now'
            BY <1>1, <2>4, CsrfAssumption DEF NewCSRFService, Inv, Typed
        <3> QED BY <1>1, <2>4, <3>1, OthersInv DEF NewCSRFService
    <2>5. CASE UNCHANGED vars
        <3>1. Typed' /\ now <= now'
            BY <1>1, <2>5, CsrfAssumption DEF vars, Inv, Typed
        <3> QED BY <1>1, <2>5, <3>1, OthersInv DEF vars
    <2> QED BY <1>1, <2>1, <2>2, <2>3, <2>4, <2>5 DEF Next
<1> QED BY InitInv, <1>1, PTL DEF Spec

---------------------------------------------------------------------------
(* Tokens that were issued *)

LEMMA IssuedTypes ==
    ASSUME Inv
    PROVE  /\ Len(issued) \in Nat /\ DOMAIN issued = 1 .. Len(issued)
           /\ \A i \in 1 .. Len(issued) : issued[i] \in Token
<1>1. issued \in Seq(Token)
    BY DEF Inv, Typed
<1> QED BY <1>1, LenProperties, ElementOfSeq

\* What is written one after the other for the MAC can be told apart.
LEMMA Joined ==
    ASSUME NEW x \in Seq(Nat), NEW y \in Seq(Nat), Len(x) = 1, Len(y) = 2
    PROVE  /\ x \o y \in Seq(Nat) /\ Len(x \o y) = 3
           /\ (x \o y)[1] = x[1] /\ (x \o y)[2] = y[1] /\ (x \o y)[3] = y[2]
<1>1. /\ x \o y \in Seq(Nat) /\ Len(x \o y) = Len(x) + Len(y)
      /\ \A i \in 1 .. Len(x) + Len(y) :
             (x \o y)[i] = IF i <= Len(x) THEN x[i] ELSE y[i - Len(x)]
    BY ConcatProperties
<1> QED BY <1>1

LEMMA JoinedOnce ==
    ASSUME NEW x \in Seq(Nat), NEW y \in Seq(Nat), Len(x) = 1, Len(y) = 2,
           NEW u \in Seq(Nat), NEW v \in Seq(Nat), Len(u) = 1, Len(v) = 2,
           x \o y = u \o v
    PROVE  x = u /\ y = v
<1>1. x[1] = u[1] /\ y[1] = v[1] /\ y[2] = v[2]
    BY Joined
<1>2. \A i \in 1 .. Len(x) : x[i] = u[i]
    BY <1>1
<1>3. \A i \in 1 .. Len(y) : y[i] = v[i]
    BY <1>1
<1> QED BY <1>2, <1>3, SeqEqual

LEMMA Cut ==
    ASSUME NEW s \in Seq(Nat), Len(s) = 3, NEW m \in 1 .. 4, NEW n \in 0 .. 3
    PROVE  /\ SubSeq(s, m, n) \in Seq(Nat)
           /\ Len(SubSeq(s, m, n)) = IF m <= n THEN n - m + 1 ELSE 0
           /\ \A i \in 1 .. n - m + 1 : SubSeq(s, m, n)[i] = s[m + i - 1]
<1>1. m \in Int /\ n \in Int
    OBVIOUS
<1>2. \A i \in m .. n : s[i] \in Nat
    <2> TAKE i \in m .. n
    <2>1. i \in 1 .. Len(s)
        OBVIOUS
    <2> QED BY <2>1, ElementOfSeq
<1>3. SubSeq(s, m, n) \in Seq(Nat)
    BY <1>1, <1>2, SubSeqProperties
<1>4. Len(SubSeq(s, m, n)) = IF m <= n THEN n - m + 1 ELSE 0
    BY <1>1, <1>2, SubSeqProperties
<1>5. \A i \in 1 .. n - m + 1 : SubSeq(s, m, n)[i] = s[m + i - 1]
    BY <1>1, <1>2, SubSeqProperties
<1> QED BY <1>3, <1>4, <1>5

\* A front part of the right length was cut where it had been joined.
LEMMA CutFront ==
    ASSUME NEW x \in Seq(Nat), NEW y \in Seq(Nat), Len(x) = 1, Len(y) = 2,
           NEW cut \in 0 .. 3, Len(SubSeq(x \o y, 1, cut)) = 1
    PROVE  cut = 1 /\ SubSeq(x \o y, 1, cut) = x
<1> DEFINE s == x \o y
<1>1. s \in Seq(Nat) /\ Len(s) = 3 /\ s[1] = x[1]
    BY Joined
<1> HIDE DEF s
<1> DEFINE a == SubSeq(s, 1, cut)
<1>2. /\ a \in Seq(Nat) /\ Len(a) = IF 1 <= cut THEN cut - 1 + 1 ELSE 0
      /\ \A i \in 1 .. cut - 1 + 1 : a[i] = s[1 + i - 1]
    <2>1. 1 \in 1 .. 4 /\ cut \in 0 .. 3
        OBVIOUS
    <2> QED BY <1>1, <2>1, Cut, Zenon
<1>3. Len(a) = 1
    BY DEF s
<1> HIDE DEF a
<1>4. cut = 1
    BY <1>2, <1>3
<1>5. \A i \in 1 .. Len(a) : a[i] = x[i]
    BY <1>1, <1>2, <1>3, <1>4
<1>6. a = x
    BY <1>2, <1>3, <1>5, SeqEqual
<1> QED BY <1>4, <1>6 DEF a, s

LEMMA CutBack ==
    ASSUME NEW u \in Seq(Nat), NEW v \in Seq(Nat), Len(u) = 1, Len(v) = 2
    PROVE  SubSeq(u \o v, 2, 3) = v
<1> DEFINE t == u \o v
<1>1. t \in Seq(Nat) /\ Len(t) = 3 /\ t[2] = v[1] /\ t[3] = v[2]
    BY Joined
<1> HIDE DEF t
<1> DEFINE b == SubSeq(t, 2, 3)
<1>2. /\ b \in Seq(Nat) /\ Len(b) = IF 2 <= 3 THEN 3 - 2 + 1 ELSE 0
      /\ \A i \in 1 .. 3 - 2 + 1 : b[i] = t[2 + i - 1]
    <2>1. 2 \in 1 .. 4 /\ 3 \in 0 .. 3
        OBVIOUS
    <2> QED BY <1>1, <2>1, Cut, Zenon
<1> HIDE DEF b
<1>3. Len(b) = 2 /\ \A i \in 1 .. Len(b) : b[i] = v[i]
    BY <1>1, <1>2
<1>4. b = v
    BY <1>2, <1>3, SeqEqual
<1> QED BY <1>4 DEF b, t

LEMMA TokenFacts ==
    ASSUME Inv, NEW i \in 1 .. Len(issued)
    PROVE  /\ issued[i].nonce \in Seq(Nat) /\ Len(issued[i].nonce) = 1
           /\ issued[i].nonce[1] = i - 1
           /\ issued[i].issuedAt \in Seq(Nat) /\ Len(issued[i].issuedAt) = 2
           /\ issued[i].signature \in [key : Secrets, data : Seq(Nat)]
           /\ issued[i].signature.data = issued[i].nonce \o issued[i].issuedAt
           /\ issued[i].made \in Nat
           /\ Uint64(issued[i].issuedAt) \in Nat
<1>1. issued[i] \in Token
    BY IssuedTypes
<1>2. issued[i].issuedAt \in Seq(Nat) /\ Len(issued[i].issuedAt) = 2
    BY <1>1 DEF Token, Inv, PartsAreSigned
<1>3. issued[i].issuedAt[1] \in Nat /\ issued[i].issuedAt[2] \in Nat
    BY <1>2, ElementOfSeq
<1>4. Uint64(issued[i].issuedAt) \in Nat
    <2>1. \A a, b \in Nat : a * Base + b \in Nat
        BY BaseIsPositive
    <2> QED BY <1>3, <2>1 DEF Uint64
<1> QED BY <1>1, <1>2, <1>4 DEF Token, Inv, PartsAreSigned

LEMMA TokenTimes ==
    ASSUME Inv, NEW i \in 1 .. Len(issued)
    PROVE  /\ now \in Nat /\ issued[i].made \in Nat /\ issued[i].made <= now
           /\ Uint64(issued[i].issuedAt) * Second \in Nat
           /\ Uint64(issued[i].issuedAt) * Second <= issued[i].made + Spread
           /\ issued[i].made < Uint64(issued[i].issuedAt) * Second + Second
<1>1. issued[i].made \in Nat /\ Uint64(issued[i].issuedAt) \in Nat
    BY TokenFacts
<1>2. \A n \in Nat : n * Second \in Nat
    BY CsrfAssumption
<1>3. Uint64(issued[i].issuedAt) * Second \in Nat
    BY <1>1, <1>2
<1>4. now \in Nat
    BY CsrfAssumption DEF Inv, Typed
<1> QED BY <1>1, <1>3, <1>4 DEF Inv, TimesAreClose

---------------------------------------------------------------------------
(* The theorems *)

\* Type correctness: an issue time is a time of the past or of a clock that is
\* ahead, and PutUint64 never drops a part of it (generate.service.go 14-31).
THEOREM TypeCorrect == Spec => []TypeOK
<1>1. ASSUME Inv PROVE TypeOK
    <2>1. ASSUME NEW i \in DOMAIN issued
          PROVE  /\ issued[i].made \in 0 .. now
                 /\ Uint64(issued[i].issuedAt) * Second \in 0 .. issued[i].made + Spread
                 /\ issued[i].signature.key \in Secrets
        <3>1. i \in 1 .. Len(issued)
            BY <1>1, IssuedTypes
        <3>2. issued[i].signature.key \in Secrets
            BY <1>1, <3>1, TokenFacts
        <3> QED BY <1>1, <3>1, <3>2, TokenTimes, CsrfAssumption
    <2> QED BY <1>1, <2>1 DEF Inv, Typed, TypeOK
<1> QED BY Invariance, <1>1, PTL

\* Whatever parts of tokens a client puts together, cut at whatever place, a
\* replica accepts only what was issued whole, with the replica's own secret
\* and no longer ago than the TTL and the difference of the clocks: checking
\* the lengths makes up for a MAC that does not mark where the nonce ends, and
\* no nonce is used twice (validate.service.go 14-45, generate.service.go
\* 14-31).
THEOREM OnlyIssuedAccepted == Spec => []AcceptedWasIssued
<1>1. ASSUME Inv, NEW r \in Replicas, NEW t \in Sent, ValidateToken(r, t)
      PROVE  \E i \in DOMAIN issued : IsToken(r, t, i) /\ now - issued[i].made <= TTL + Spread
    <2>1. PICK i, j, k \in DOMAIN issued, cut \in 0 .. 3 :
              t = [nonce |-> SubSeq(issued[i].signature.data, 1, cut),
                   issuedAt |-> SubSeq(issued[j].signature.data, cut + 1, 3),
                   signature |-> issued[k].signature]
        BY DEF Sent
    <2>2. i \in 1 .. Len(issued) /\ j \in 1 .. Len(issued) /\ k \in 1 .. Len(issued)
        BY <1>1, IssuedTypes
    <2>3. Len(t.nonce) = 1 /\ Len(t.issuedAt) = 2
        BY <1>1 DEF ValidateToken, WellFormed, nonceLength, PutUint64
    <2> DEFINE x == issued[i].nonce
               y == issued[i].issuedAt
               u == issued[j].nonce
               v == issued[j].issuedAt
               p == issued[k].nonce
               q == issued[k].issuedAt
               a == t.nonce
               b == t.issuedAt
    <2>4. /\ x \in Seq(Nat) /\ Len(x) = 1 /\ y \in Seq(Nat) /\ Len(y) = 2
          /\ u \in Seq(Nat) /\ Len(u) = 1 /\ v \in Seq(Nat) /\ Len(v) = 2
          /\ p \in Seq(Nat) /\ Len(p) = 1 /\ q \in Seq(Nat) /\ Len(q) = 2
        BY <1>1, <2>2, TokenFacts
    <2>5. a = SubSeq(x \o y, 1, cut) /\ b = SubSeq(u \o v, cut + 1, 3)
        BY <1>1, <2>1, <2>2, TokenFacts
    <2>6. t.signature = issued[k].signature /\ issued[k].signature.data = p \o q
        BY <1>1, <2>1, <2>2, TokenFacts
    <2>7. t.signature.key = secret[r] /\ t.signature.data = a \o b
        <3>1. t.signature = [key |-> secret[r], data |-> a \o b]
            BY <1>1 DEF ValidateToken, Sign
        <3> HIDE DEF a, b
        <3> QED BY <3>1
    <2>8. a = p /\ b = q
        <3>1. cut \in 0 .. 3 /\ Len(a) = 1 /\ p \o q = a \o b
            BY <2>1, <2>3, <2>6, <2>7
        <3> HIDE DEF x, y, u, v, p, q, a, b
        <3>2. cut = 1 /\ a = x
            BY <2>4, <2>5, <3>1, CutFront, ZenonT(30)
        <3>3. cut + 1 = 2
            BY <3>2
        <3>4. b = v
            BY <2>4, <2>5, <3>3, CutBack, Zenon
        <3>5. p \o q = x \o v
            BY <3>1, <3>2, <3>4, Zenon
        <3>6. p = x /\ q = v
            <4>1. \A a1, a2, b1, b2 \in Seq(Nat) :
                      Len(a1) = 1 /\ Len(a2) = 2 /\ Len(b1) = 1 /\ Len(b2) = 2 =>
                          (a1 \o a2 = b1 \o b2 => a1 = b1 /\ a2 = b2)
                BY JoinedOnce, Zenon
            <4> QED BY <2>4, <3>5, <4>1, Zenon
        <3> QED BY <3>2, <3>4, <3>6
    <2>9. IsToken(r, t, k)
        BY <2>6, <2>7, <2>8 DEF IsToken
    <2>10. now - issued[k].made <= TTL + Spread
        <3> DEFINE e == Uint64(issued[k].issuedAt) * Second
        <3>1. Uint64(t.issuedAt) * Second = e
            BY <2>8, Zenon
        <3>2. (now + ahead[r]) - Uint64(t.issuedAt) * Second <= TTL
            BY <1>1 DEF ValidateToken, InTime, Age, Clock
        <3>3. /\ now \in Nat /\ issued[k].made \in Nat /\ e \in Nat
              /\ e <= issued[k].made + Spread
            BY <1>1, <2>2, TokenTimes
        <3>4. ahead[r] \in Nat
            BY <1>1, CsrfAssumption DEF Inv, Typed
        <3>5. (now + ahead[r]) - e <= TTL
            BY <3>1, <3>2, Zenon
        <3> HIDE DEF e
        <3> QED BY <3>3, <3>4, <3>5, CsrfAssumption
    <2> QED BY <2>9, <2>10
<1>2. Inv => AcceptedWasIssued
    BY <1>1 DEF AcceptedWasIssued
<1> QED BY Invariance, <1>2, PTL

\* A token is accepted by every replica with its secret, at once and for the
\* TTL less the difference of the clocks and a part of a second, as long as
\* the clocks differ by no more than clockSkew (csrf.service.go 5-8,
\* generate.service.go 25-26, validate.service.go 35-43).
THEOREM FreshAccepted == Spec => []FreshIsAccepted
<1>1. ASSUME Inv, NEW r \in Replicas, NEW i \in DOMAIN issued,
             IsToken(r, issued[i], i),
             now + Spread + Second - 1 <= issued[i].made + TTL
      PROVE  ValidateToken(r, issued[i])
    <2>1. i \in 1 .. Len(issued)
        BY <1>1, IssuedTypes
    <2>2. WellFormed(issued[i])
        BY <1>1, <2>1, TokenFacts DEF WellFormed, nonceLength, PutUint64
    <2>3. issued[i].signature = Sign(r, issued[i].nonce, issued[i].issuedAt)
        BY <1>1, <2>1, TokenFacts DEF Sign, IsToken
    <2>4. InTime(r, issued[i])
        <3> DEFINE e == Uint64(issued[i].issuedAt) * Second
        <3>1. /\ now \in Nat /\ issued[i].made \in Nat /\ issued[i].made <= now
              /\ e \in Nat /\ e <= issued[i].made + Spread
              /\ issued[i].made < e + Second
            BY <1>1, <2>1, TokenTimes
        <3>2. ahead[r] \in 0 .. Spread
            BY <1>1 DEF Inv, Typed
        <3>3. Age(r, issued[i]) = (now + ahead[r]) - e
            BY DEF Age, Clock
        <3> HIDE DEF e
        <3> QED BY <1>1, <3>1, <3>2, <3>3, CsrfAssumption, SkewAssumption DEF InTime
    <2> QED BY <2>2, <2>3, <2>4 DEF ValidateToken
<1>2. Inv => FreshIsAccepted
    BY <1>1 DEF FreshIsAccepted
<1> QED BY Invariance, <1>2, PTL
============================================================================
