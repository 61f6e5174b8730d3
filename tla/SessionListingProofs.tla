------------------------ MODULE SessionListingProofs ------------------------
(***************************************************************************)
(* What paging by offset guarantees while the list changes: a page fits    *)
(* the total, and a walk misses at most as many sessions as went away and  *)
(* repeats at most as many as came.  For any page size, any number of      *)
(* sessions, any lifetime and any delay of commits.                        *)
(*                                                                         *)
(* The argument is about ranks: the rank of a row is the number of newer   *)
(* ones.  A page is the rows of an interval of ranks; a row that goes      *)
(* lowers ranks, a row that comes raises some by one.                      *)
(***************************************************************************)
EXTENDS SessionListing, SequenceTheorems, FiniteSetTheorems, TLAPS

Before(R, r) == {q \in R : Newer(q, r)}

Rank(R, r) == Cardinality(Before(R, r))

\* Rows that were shown and would be shown again from rank m on.
Again(R, S, m) == {r \in R : r.id \in S /\ Rank(R, r) >= m}

\* Rows of the beginning that were not shown and are not ahead any more.
Behind(R, S, b, m) == {r \in R : r.id \in b \ S /\ Rank(R, r) < m}

\* The rows that the walk reads and the rank it has come to.
Listed == Active(walk.time)

Position ==
    IF walk.phase = "counted" THEN (walk.page - 1) * walk.limit ELSE walk.page * walk.limit

---------------------------------------------------------------------------
(* The inductive invariant *)

\* Types, with the sets of which shown and page are sequences.
Typed ==
    /\ now \in Nat /\ now >= Lag /\ rows \subseteq Row /\ used \subseteq Ids
    /\ walk \in [phase : {"idle", "counted", "listed"}, page : Nat \ {0},
                 limit : 1 .. MaxLimit, time : Nat, total : Nat, first : Nat \ {0}]
    /\ shown \in Seq(Ids) /\ page \in Seq(Row)
    /\ start \subseteq used /\ added \subseteq used /\ changed \in BOOLEAN
    /\ ToSet(shown) \subseteq used /\ walk.time <= now

\* A primary key: no two rows share an id, and none is used again.
Keyed ==
    /\ IdsOf(rows) \subseteq used
    /\ \A r, q \in rows : r.id = q.id => r = q

\* Before a walk, and before the only page of one that begins later.
NothingShown ==
    /\ walk.phase = "idle" => shown = <<>> /\ added = {} /\ start = {}
    /\ walk.phase = "counted" /\ walk.first > 1 => shown = <<>>
    /\ walk.phase = "listed" /\ walk.first > 1 => Len(shown) = Cardinality(ToSet(shown))

\* A walk goes on only where there are rows, so its offset fits an int; it
\* ends behind the last row.
InBounds ==
    walk.phase # "idle" /\ walk.first = 1 =>
        IF walk.phase = "listed" /\ Len(page) < walk.limit
        THEN \A r \in Listed : Rank(Listed, r) < Position
        ELSE Position <= Cardinality(Ids)

\* A walk that has come to rank m and shown sh owes nothing: its rows were
\* there when it began or came later, those that came cover the rows that were
\* or will be shown again, those that went the rows that are missed.
Paid(R, A, b, sh, m) ==
    /\ IdsOf(R) \subseteq b \cup A
    /\ Len(sh) + Cardinality(Again(R, ToSet(sh), m)) <= Cardinality(A) + Cardinality(ToSet(sh))
    /\ Cardinality(Behind(R, ToSet(sh), b, m)) <= Cardinality((b \cup A) \ IdsOf(R))

AllPaid ==
    walk.phase # "idle" /\ walk.first = 1 => Paid(Listed, added, start, shown, Position)

\* The total is that of the rows, until something changes.
Counted == walk.phase = "counted" /\ ~changed => walk.total = Cardinality(Listed)

Inv ==
    /\ Typed /\ Keyed /\ NothingShown /\ InBounds /\ AllPaid /\ Counted
    /\ TotalFitsPage

---------------------------------------------------------------------------
(* Ranks *)

\* A set of rows that a query may return.
Rows(R) ==
    R \subseteq Row /\ IsFiniteSet(R) /\ \A r, q \in R : r.id = q.id => r = q

\* ORDER BY created_at DESC, id DESC is a total order of such rows.
LEMMA NewerIsOrder ==
    ASSUME NEW R, Rows(R)
    PROVE  /\ \A a \in R : ~Newer(a, a)
           /\ \A a, b \in R : a = b \/ Newer(a, b) \/ Newer(b, a)
           /\ \A a, b, c \in R : Newer(a, b) /\ Newer(b, c) => Newer(a, c)
<1>1. \A a \in R : a.created \in Nat /\ a.id \in Nat
    BY ListingAssumption DEF Rows, Row
<1>2. \A a \in R : ~Newer(a, a)
    BY <1>1 DEF Newer
<1>3. \A a, b \in R : a = b \/ Newer(a, b) \/ Newer(b, a)
    BY <1>1 DEF Newer, Rows
<1>4. \A a, b, c \in R : Newer(a, b) /\ Newer(b, c) => Newer(a, c)
    BY <1>1 DEF Newer
<1> QED BY <1>2, <1>3, <1>4

\* What is part of such a set is one.
LEMMA PartOfRows ==
    ASSUME NEW R, Rows(R), NEW T \in SUBSET R
    PROVE  Rows(T) /\ Cardinality(T) \in Nat /\ Cardinality(T) <= Cardinality(R)
<1>1. IsFiniteSet(T) /\ Cardinality(T) <= Cardinality(R)
    BY FS_Subset DEF Rows
<1> QED BY <1>1, FS_CardinalityType DEF Rows

\* A rank is less than the number of rows ...
LEMMA RankBound ==
    ASSUME NEW R, Rows(R), NEW r \in R
    PROVE  Rank(R, r) \in Nat /\ Rank(R, r) < Cardinality(R)
<1>1. Before(R, r) \in SUBSET R /\ r \notin Before(R, r)
    BY NewerIsOrder DEF Before
<1>2. Cardinality(Before(R, r)) \in Nat /\ Cardinality(Before(R, r)) <= Cardinality(R)
    BY <1>1, PartOfRows
<1>3. Cardinality(R) # Cardinality(Before(R, r))
    BY <1>1, FS_Subset DEF Rows
<1>4. Cardinality(R) \in Nat
    BY FS_CardinalityType DEF Rows
<1> QED BY <1>2, <1>3, <1>4 DEF Rank

\* ... and a newer row has a lower one.
LEMMA RankOrder ==
    ASSUME NEW R, Rows(R), NEW q \in R, NEW r \in R, Newer(q, r)
    PROVE  Rank(R, q) < Rank(R, r)
<1>1. Before(R, q) \in SUBSET Before(R, r) /\ q \in Before(R, r) /\ q \notin Before(R, q)
    BY NewerIsOrder DEF Before
<1>2. IsFiniteSet(Before(R, r))
    <2>1. Before(R, r) \in SUBSET R
        BY DEF Before
    <2> QED BY <2>1, FS_Subset DEF Rows
<1>3. /\ Cardinality(Before(R, q)) <= Cardinality(Before(R, r))
      /\ Cardinality(Before(R, r)) # Cardinality(Before(R, q))
    BY <1>1, <1>2, FS_Subset
<1>4. Cardinality(Before(R, q)) \in Nat /\ Cardinality(Before(R, r)) \in Nat
    BY RankBound DEF Rank
<1> QED BY <1>3, <1>4 DEF Rank

LEMMA RankInjective ==
    ASSUME NEW R, Rows(R), NEW q \in R, NEW r \in R, Rank(R, q) = Rank(R, r)
    PROVE  q = r
<1>1. Rank(R, q) \in Nat
    BY RankBound
<1> QED BY <1>1, RankOrder, NewerIsOrder

\* Rows that go lower the rank of another by at most their number.
LEMMA RankWithout ==
    ASSUME NEW R, Rows(R), NEW Z \in SUBSET R, NEW r \in R \ Z
    PROVE  /\ Rank(R \ Z, r) <= Rank(R, r)
           /\ Rank(R, r) <= Rank(R \ Z, r) + Cardinality(Z)
           /\ Rank(R, r) \in Nat /\ Rank(R \ Z, r) \in Nat /\ Cardinality(Z) \in Nat
<1> DEFINE B == Before(R, r)
           C == Before(R \ Z, r)
<1>1. C \in SUBSET B /\ B \in SUBSET R /\ B \subseteq C \cup Z
    BY DEF Before
<1>2. IsFiniteSet(B) /\ IsFiniteSet(C) /\ IsFiniteSet(Z)
    BY <1>1, FS_Subset DEF Rows
<1>3. Cardinality(C) <= Cardinality(B)
    BY <1>1, <1>2, FS_Subset
<1>4. /\ IsFiniteSet(C \cup Z)
      /\ Cardinality(C \cup Z) = Cardinality(C) + Cardinality(Z) - Cardinality(C \cap Z)
    BY <1>2, FS_Union
<1>5. Cardinality(B) <= Cardinality(C \cup Z)
    BY <1>1, <1>4, FS_Subset
<1>6. IsFiniteSet(C \cap Z)
    BY <1>2, FS_Intersection
<1>7. /\ Cardinality(B) \in Nat /\ Cardinality(C) \in Nat /\ Cardinality(Z) \in Nat
      /\ Cardinality(C \cap Z) \in Nat
    BY <1>2, <1>6, FS_CardinalityType
<1> HIDE DEF B, C
<1>8. /\ Cardinality(C) <= Cardinality(B)
      /\ Cardinality(B) <= Cardinality(C) + Cardinality(Z)
    BY <1>3, <1>4, <1>5, <1>7
<1> USE DEF B, C
<1> QED BY <1>7, <1>8 DEF Rank

\* A row that comes raises the rank of another by at most one.
LEMMA RankWith ==
    ASSUME NEW R, NEW x, Rows(R \cup {x}), x \notin R, NEW r \in R
    PROVE  /\ Rank(R, r) <= Rank(R \cup {x}, r)
           /\ Rank(R \cup {x}, r) <= Rank(R, r) + 1
           /\ Rank(R, r) \in Nat /\ Rank(R \cup {x}, r) \in Nat
<1> DEFINE T == R \cup {x}
<1>1. /\ {x} \in SUBSET T /\ r \in T \ {x} /\ T \ {x} = R
      /\ Cardinality({x}) = 1 /\ Rows(T)
    BY FS_Singleton
<1> HIDE DEF T
<1>2. /\ Rank(T \ {x}, r) <= Rank(T, r)
      /\ Rank(T, r) <= Rank(T \ {x}, r) + Cardinality({x})
      /\ Rank(T, r) \in Nat /\ Rank(T \ {x}, r) \in Nat
    BY <1>1, RankWithout
<1> USE DEF T
<1> QED BY <1>1, <1>2

---------------------------------------------------------------------------
(* Counting rows *)

\* A set of naturals has a least element.
LEMMA LeastNatural ==
    ASSUME NEW T, T \subseteq Nat, T # {}
    PROVE  \E n \in T : \A k \in T : n <= k
<1> DEFINE Less == OpToRel(<, Nat)
<1>1. PICK n \in T : \A k \in T : ~(<<k, n>> \in Less)
    BY NatLessThanWellFounded, WFMin
<1>2. \A k \in T : ~(k < n)
    BY <1>1 DEF OpToRel
<1> QED BY <1>2

\* Of some rows one is the newest and one the oldest.
LEMMA NewestAndOldest ==
    ASSUME NEW R, Rows(R), NEW E \in SUBSET R, E # {}
    PROVE  /\ \E a \in E : \A e \in E : e = a \/ Newer(a, e)
           /\ \E b \in E : \A e \in E : e = b \/ Newer(e, b)
<1>1. Cardinality(R) \in Nat
    BY FS_CardinalityType DEF Rows
<1>2. \A e \in E : Rank(R, e) \in Nat /\ Rank(R, e) < Cardinality(R)
    BY RankBound
<1>3. \E a \in E : \A e \in E : e = a \/ Newer(a, e)
    <2> DEFINE T == {Rank(R, e) : e \in E}
    <2>1. T \subseteq Nat /\ T # {}
        BY <1>2
    <2>2. PICK n \in T : \A k \in T : n <= k
        BY <2>1, LeastNatural
    <2>3. PICK a \in E : n = Rank(R, a)
        BY <2>2
    <2>4. ASSUME NEW e \in E PROVE Rank(R, a) <= Rank(R, e)
        BY <2>2, <2>3
    <2>5. ASSUME NEW e \in E PROVE e = a \/ Newer(a, e)
        <3>1. ~Newer(e, a)
            BY <1>2, <2>4, RankOrder
        <3> QED BY <3>1, NewerIsOrder
    <2> QED BY <2>5
<1>4. \E b \in E : \A e \in E : e = b \/ Newer(e, b)
    <2> DEFINE T == {Cardinality(R) - Rank(R, e) : e \in E}
    <2>1. T \subseteq Nat /\ T # {}
        BY <1>1, <1>2
    <2>2. PICK n \in T : \A k \in T : n <= k
        BY <2>1, LeastNatural
    <2>3. PICK b \in E : n = Cardinality(R) - Rank(R, b)
        BY <2>2
    <2>4. ASSUME NEW e \in E PROVE Rank(R, e) <= Rank(R, b)
        <3>1. n <= Cardinality(R) - Rank(R, e)
            BY <2>2
        <3> QED BY <1>1, <1>2, <2>3, <3>1
    <2>5. ASSUME NEW e \in E PROVE e = b \/ Newer(e, b)
        <3>1. ~Newer(b, e)
            BY <1>2, <2>4, RankOrder
        <3> QED BY <3>1, NewerIsOrder
    <2> QED BY <2>5
<1> QED BY <1>3, <1>4

\* Rows that go repeat nothing.
LEMMA AgainWithout ==
    ASSUME NEW R, Rows(R), NEW Z \in SUBSET R, NEW S, NEW m \in Int
    PROVE  Cardinality(Again(R \ Z, S, m)) <= Cardinality(Again(R, S, m))
<1>1. Again(R \ Z, S, m) \in SUBSET Again(R, S, m)
    <2> SUFFICES ASSUME NEW r \in Again(R \ Z, S, m) PROVE r \in Again(R, S, m)
        OBVIOUS
    <2>1. r \in R \ Z /\ r.id \in S /\ Rank(R \ Z, r) >= m
        BY DEF Again
    <2>2. /\ Rank(R \ Z, r) <= Rank(R, r)
          /\ Rank(R, r) \in Nat /\ Rank(R \ Z, r) \in Nat
        BY <2>1, RankWithout
    <2> QED BY <2>1, <2>2 DEF Again
<1>2. Rows(Again(R, S, m))
    <2>1. Again(R, S, m) \in SUBSET R
        BY DEF Again
    <2> QED BY <2>1, PartOfRows
<1> QED BY <1>1, <1>2, PartOfRows

\* A row that comes pushes at most one past rank m.
LEMMA AgainWith ==
    ASSUME NEW R, NEW x, Rows(R \cup {x}), x \notin R, NEW S, x.id \notin S, NEW m \in Int
    PROVE  Cardinality(Again(R \cup {x}, S, m)) <= Cardinality(Again(R, S, m)) + 1
<1> DEFINE A == Again(R, S, m)
           B == Again(R \cup {x}, S, m)
<1>0. Rows(R)
    <2>1. R \in SUBSET (R \cup {x})
        OBVIOUS
    <2> QED BY <2>1, PartOfRows
<1>1. Rows(A)
    <2>1. A \in SUBSET R
        BY DEF Again
    <2> QED BY <1>0, <2>1, PartOfRows
<1>2. ASSUME NEW r \in B PROVE r \in A \/ (r \in R /\ Rank(R, r) = m - 1)
    <2>1. r \in R /\ r.id \in S /\ Rank(R \cup {x}, r) >= m
        BY DEF Again
    <2>2. /\ Rank(R \cup {x}, r) <= Rank(R, r) + 1
          /\ Rank(R, r) \in Nat /\ Rank(R \cup {x}, r) \in Nat
        BY <2>1, RankWith
    <2> QED BY <2>1, <2>2 DEF Again
<1>3. \E e : B \subseteq A \cup {e}
    <2>1. CASE B \subseteq A
        BY <2>1
    <2>2. CASE ~(B \subseteq A)
        <3>1. PICK e \in B : e \notin A
            BY <2>2
        <3>2. ASSUME NEW r \in B PROVE r \in A \/ r = e
            <4>1. e \in R /\ Rank(R, e) = m - 1
                BY <1>2, <3>1
            <4>2. r \in A \/ (r \in R /\ Rank(R, r) = m - 1)
                BY <1>2
            <4> QED BY <1>0, <4>1, <4>2, RankInjective
        <3> QED BY <3>2
    <2> QED BY <2>1, <2>2
<1> HIDE DEF A, B
<1>4. PICK e : B \in SUBSET (A \cup {e})
    BY <1>3
<1>5. /\ IsFiniteSet(A \cup {e}) /\ Cardinality(A) \in Nat
      /\ Cardinality(A \cup {e}) \in {Cardinality(A), Cardinality(A) + 1}
    BY <1>1, FS_AddElement, FS_CardinalityType DEF Rows
<1>6. IsFiniteSet(B) /\ Cardinality(B) <= Cardinality(A \cup {e})
    BY <1>4, <1>5, FS_Subset
<1>7. Cardinality(B) \in Nat
    BY <1>6, FS_CardinalityType
<1>8. Cardinality(B) <= Cardinality(A) + 1
    BY <1>5, <1>6, <1>7
<1> QED BY <1>8 DEF A, B

\* A row that comes hides nothing.
LEMMA BehindWith ==
    ASSUME NEW R, NEW x, Rows(R \cup {x}), x \notin R, NEW S, NEW b, x.id \notin b,
           NEW m \in Int
    PROVE  Cardinality(Behind(R \cup {x}, S, b, m)) <= Cardinality(Behind(R, S, b, m))
<1>1. Behind(R \cup {x}, S, b, m) \in SUBSET Behind(R, S, b, m)
    <2> SUFFICES ASSUME NEW r \in Behind(R \cup {x}, S, b, m) PROVE r \in Behind(R, S, b, m)
        OBVIOUS
    <2>1. r \in R /\ r.id \in b \ S /\ Rank(R \cup {x}, r) < m
        BY DEF Behind
    <2>2. /\ Rank(R, r) <= Rank(R \cup {x}, r)
          /\ Rank(R, r) \in Nat /\ Rank(R \cup {x}, r) \in Nat
        BY <2>1, RankWith
    <2> QED BY <2>1, <2>2 DEF Behind
<1>2. Rows(Behind(R, S, b, m))
    <2>1. Behind(R, S, b, m) \in SUBSET (R \cup {x})
        BY DEF Behind
    <2> QED BY <2>1, PartOfRows
<1> QED BY <1>1, <1>2, PartOfRows

\* As many rows slip below rank m as go.
LEMMA SlippedBound ==
    ASSUME NEW R, Rows(R), NEW Z \in SUBSET R, NEW m \in Int, NEW E \in SUBSET (R \ Z),
           \A r \in E : Rank(R, r) >= m /\ Rank(R \ Z, r) < m
    PROVE  Cardinality(E) <= Cardinality(Z) /\ Cardinality(E) \in Nat /\ Cardinality(Z) \in Nat
<1> DEFINE U == R \ Z
<1>1. Rows(U) /\ Rows(E) /\ Cardinality(Z) \in Nat /\ Cardinality(E) \in Nat
    BY PartOfRows
<1>2. CASE E = {}
    BY <1>1, <1>2, FS_EmptySet
<1>3. CASE E # {}
    <2>1. E \in SUBSET U
        OBVIOUS
    <2>2. PICK a \in E : \A e \in E : e = a \/ Newer(a, e)
        BY <1>1, <1>3, <2>1, NewestAndOldest
    <2>3. PICK z \in E : \A e \in E : e = z \/ Newer(e, z)
        BY <1>1, <1>3, <2>1, NewestAndOldest
    <2> DEFINE A == Before(U, a)
               B == Before(U, z)
               C == E \ {z}
    <2>4. A \cup C \subseteq B
        <3>1. C \subseteq B
            BY <2>3 DEF Before
        <3>2. ASSUME NEW e \in A PROVE e \in B
            <4>1. e \in U /\ Newer(e, a) /\ a \in U /\ z \in U
                BY <2>1 DEF Before
            <4>2. a = z \/ Newer(a, z)
                BY <2>3
            <4> QED BY <1>1, <4>1, <4>2, NewerIsOrder DEF Before
        <3> QED BY <3>1, <3>2
    <2>5. A \cap C = {}
        <3> SUFFICES ASSUME NEW e \in E, Newer(e, a) PROVE FALSE
            BY DEF Before
        <3>1. e = a \/ Newer(a, e)
            BY <2>2
        <3> QED BY <1>1, <3>1, NewerIsOrder
    <2>6. A \in SUBSET U /\ B \in SUBSET U /\ C \in SUBSET E
        BY DEF Before
    <2>7. /\ IsFiniteSet(A) /\ IsFiniteSet(B) /\ IsFiniteSet(C)
          /\ Cardinality(C) = Cardinality(E) - 1
        BY <1>1, <2>6, FS_Subset, FS_RemoveElement DEF Rows
    <2> HIDE DEF A, B, C
    <2>8. /\ IsFiniteSet(A \cup C)
          /\ Cardinality(A \cup C) = Cardinality(A) + Cardinality(C) - 0
        BY <2>5, <2>7, FS_Union, FS_EmptySet
    <2>9. Cardinality(A \cup C) <= Cardinality(B)
        BY <2>4, <2>7, FS_Subset
    <2>10. Cardinality(B) < m /\ Cardinality(A) + Cardinality(Z) >= m
        <3>1. /\ Rank(R, a) <= Rank(R \ Z, a) + Cardinality(Z)
              /\ Rank(R, a) \in Nat /\ Rank(R \ Z, a) \in Nat
            BY RankWithout
        <3> QED BY <1>1, <3>1 DEF Rank, A, B
    <2>11. Cardinality(A) \in Nat /\ Cardinality(B) \in Nat /\ Cardinality(C) \in Nat
        BY <2>7, FS_CardinalityType
    <2> QED BY <1>1, <2>7, <2>8, <2>9, <2>10, <2>11
<1> QED BY <1>2, <1>3

LEMMA BehindWithout ==
    ASSUME NEW R, Rows(R), NEW Z \in SUBSET R, NEW S, NEW b, NEW m \in Int
    PROVE  Cardinality(Behind(R \ Z, S, b, m)) <= Cardinality(Behind(R, S, b, m)) + Cardinality(Z)
<1> DEFINE A == Behind(R, S, b, m)
           B == Behind(R \ Z, S, b, m)
           E == {r \in B : Rank(R, r) >= m}
<1>1. A \in SUBSET R /\ B \in SUBSET R /\ E \in SUBSET (R \ Z)
    BY DEF Behind
<1>2. \A r \in E : Rank(R, r) >= m /\ Rank(R \ Z, r) < m
    BY DEF Behind
<1>3. B \in SUBSET (A \cup E)
    <2> SUFFICES ASSUME NEW r \in B, Rank(R, r) >= m => FALSE PROVE r \in A
        OBVIOUS
    <2>1. r \in R /\ r.id \in b \ S
        BY DEF Behind
    <2>2. Rank(R, r) \in Nat
        BY <2>1, RankBound
    <2> QED BY <2>1, <2>2 DEF Behind
<1> HIDE DEF A, B, E
<1>4. Cardinality(E) <= Cardinality(Z) /\ Cardinality(E) \in Nat /\ Cardinality(Z) \in Nat
    BY <1>1, <1>2, SlippedBound
<1>5. IsFiniteSet(A) /\ IsFiniteSet(B) /\ IsFiniteSet(E)
    <2>1. E \in SUBSET R
        BY <1>1
    <2> QED BY <1>1, <2>1, FS_Subset DEF Rows
<1>6. /\ IsFiniteSet(A \cup E)
      /\ Cardinality(A \cup E) = Cardinality(A) + Cardinality(E) - Cardinality(A \cap E)
    BY <1>5, FS_Union
<1>7. Cardinality(B) <= Cardinality(A \cup E)
    BY <1>3, <1>6, FS_Subset
<1>8. IsFiniteSet(A \cap E)
    BY <1>5, FS_Intersection
<1>9. Cardinality(A) \in Nat /\ Cardinality(B) \in Nat /\ Cardinality(A \cap E) \in Nat
    BY <1>5, <1>8, FS_CardinalityType
<1>10. Cardinality(B) <= Cardinality(A) + Cardinality(Z)
    BY <1>4, <1>6, <1>7, <1>9
<1> QED BY <1>10 DEF A, B

---------------------------------------------------------------------------
(* Pages *)

Sorted(s) == \A i, j \in DOMAIN s : i < j => Newer(s[i], s[j])

\* What a sorted query returns are the rows in the order of their ranks.
LEMMA SortedRanks ==
    ASSUME NEW R, Rows(R), NEW s \in SetToSeqs(R), Sorted(s)
    PROVE  /\ Cardinality(R) \in Nat /\ s \in Seq(R) /\ Len(s) = Cardinality(R)
           /\ \A i \in 1 .. Cardinality(R) : s[i] \in R /\ Rank(R, s[i]) = i - 1
           /\ \A i, j \in 1 .. Cardinality(R) : s[i] = s[j] => i = j
           /\ \A r \in R : \E i \in 1 .. Cardinality(R) : s[i] = r
<1>1. PICK n \in Nat : n = Cardinality(R)
    BY FS_CardinalityType DEF Rows
<1>2. s \in [1 .. n -> R] /\ \A i, j \in 1 .. n : i # j => s[i] # s[j]
    BY <1>1 DEF SetToSeqs
<1>3. s \in Seq(R) /\ Len(s) = n
    BY <1>2
<1>4. \A r \in R : \E i \in 1 .. n : s[i] = r
    <2>1. s \in Injection(1 .. n, R)
        BY <1>2 DEF Injection, IsInjective
    <2>2. IsFiniteSet(1 .. n) /\ Cardinality(1 .. n) = n
        BY FS_Interval
    <2>3. s \in Surjection(1 .. n, R)
        BY <1>1, <2>1, <2>2, FS_Injection DEF Rows
    <2> QED BY <2>3 DEF Surjection
<1>5. ASSUME NEW i \in 1 .. n PROVE Rank(R, s[i]) = i - 1
    <2> DEFINE B == Before(R, s[i])
               g == [j \in 1 .. i - 1 |-> s[j]]
    <2>1. ASSUME NEW j \in 1 .. i - 1 PROVE s[j] \in B
        <3>1. j \in DOMAIN s /\ i \in DOMAIN s /\ j < i
            BY <1>2
        <3> QED BY <1>2, <3>1 DEF Before, Sorted
    <2>2. ASSUME NEW r \in B PROVE \E j \in 1 .. i - 1 : s[j] = r
        <3>1. r \in R /\ Newer(r, s[i])
            BY DEF Before
        <3>2. PICK j \in 1 .. n : s[j] = r
            BY <1>4, <3>1
        <3>3. ~(i < j)
            <4>1. SUFFICES ASSUME i < j PROVE FALSE
                OBVIOUS
            <4>2. Newer(s[i], s[j]) /\ s[i] \in R
                BY <1>2, <4>1 DEF Sorted
            <4> QED BY <3>1, <3>2, <4>2, NewerIsOrder
        <3>4. i # j
            BY <1>2, <3>1, <3>2, NewerIsOrder
        <3>5. j \in 1 .. i - 1
            BY <3>3, <3>4
        <3> QED BY <3>2, <3>5
    <2> HIDE DEF B
    <2>3. g \in [1 .. i - 1 -> B]
        BY <2>1
    <2>4. \A j, k \in 1 .. i - 1 : g[j] = g[k] => j = k
        BY <1>2
    <2>5. \A r \in B : \E j \in 1 .. i - 1 : g[j] = r
        BY <2>2
    <2> HIDE DEF g
    <2>6. g \in Bijection(1 .. i - 1, B)
        BY <2>3, <2>4, <2>5 DEF Bijection, Injection, Surjection, IsInjective
    <2>7. i - 1 \in Nat /\ ExistsBijection(1 .. i - 1, B)
        BY <2>6 DEF ExistsBijection
    <2>8. Cardinality(B) = i - 1
        BY <2>7, FS_CountingElements
    <2> QED BY <2>8 DEF B, Rank
<1> QED BY <1>1, <1>2, <1>3, <1>4, <1>5

From(o) == IF o > 0 THEN o ELSE 0

\* The rows of l ranks from f on, each once, or as many as there are.
IsPage(p, R, l, f) ==
    /\ p \in Seq(R) /\ \A i, j \in DOMAIN p : p[i] = p[j] => i = j
    /\ Len(p) = IF Cardinality(R) <= f THEN 0
                ELSE IF Cardinality(R) - f < l THEN Cardinality(R) - f ELSE l
    /\ ToSet(p) = {r \in R : f <= Rank(R, r) /\ Rank(R, r) < f + l}

\* LIMIT and OFFSET cut an interval of ranks out.
LEMMA PageRanks ==
    ASSUME NEW R, Rows(R), NEW s \in SetToSeqs(R), Sorted(s), NEW l \in Nat, NEW o \in Int
    PROVE  IsPage(Window(s, l, o), R, l, From(o))
<1>1. PICK n \in Nat : n = Cardinality(R)
    BY FS_CardinalityType DEF Rows
<1>2. /\ s \in Seq(R) /\ Len(s) = n
      /\ \A i \in 1 .. n : s[i] \in R /\ Rank(R, s[i]) = i - 1
      /\ \A i, j \in 1 .. n : s[i] = s[j] => i = j
      /\ \A r \in R : \E i \in 1 .. n : s[i] = r
    BY <1>1, SortedRanks
<1>3. PICK f \in Nat : f = From(o)
    BY DEF From
<1>4. PICK e \in Nat : e = IF f + l < n THEN f + l ELSE n
    OBVIOUS
<1> DEFINE p == SubSeq(s, f + 1, e)
<1>5. Window(s, l, o) = p
    BY <1>2, <1>3, <1>4 DEF Window, From
<1>6. \A i \in f + 1 .. e : s[i] \in R
    BY <1>2, <1>4
<1>7. /\ p \in Seq(R)
      /\ Len(p) = IF f + 1 <= e THEN e - (f + 1) + 1 ELSE 0
      /\ \A i \in 1 .. e - (f + 1) + 1 : p[i] = s[(f + 1) + i - 1]
    BY <1>6, SubSeqProperties
<1> HIDE DEF p
<1>8. PICK m \in Nat : m = Len(p)
    BY <1>7, LenProperties
<1>9. /\ m = IF n <= f THEN 0 ELSE IF n - f < l THEN n - f ELSE l
      /\ \A i \in 1 .. m : f + i \in 1 .. n /\ f + i <= f + l /\ p[i] = s[f + i]
      /\ \A i \in 1 .. n : f < i /\ i <= f + l => i - f \in 1 .. m /\ p[i - f] = s[i]
      /\ DOMAIN p = 1 .. m
    BY <1>4, <1>7, <1>8
<1>10. ASSUME NEW i \in DOMAIN p, NEW j \in DOMAIN p, p[i] = p[j]
       PROVE  i = j
    <2>1. i \in 1 .. m /\ j \in 1 .. m
        BY <1>9
    <2>2. f + i \in 1 .. n /\ f + j \in 1 .. n /\ s[f + i] = s[f + j]
        BY <1>9, <1>10, <2>1
    <2>3. f + i = f + j
        BY <1>2, <2>2
    <2> QED BY <2>1, <2>3
<1>11. ToSet(p) = {r \in R : f <= Rank(R, r) /\ Rank(R, r) < f + l}
    <2> DEFINE P == {r \in R : f <= Rank(R, r) /\ Rank(R, r) < f + l}
    <2>1. ASSUME NEW i \in 1 .. m PROVE p[i] \in P
        <3>1. p[i] \in R /\ Rank(R, p[i]) = (f + i) - 1
            BY <1>2, <1>9
        <3> QED BY <1>9, <3>1
    <2>2. ASSUME NEW r \in P PROVE \E i \in 1 .. m : p[i] = r
        <3>1. r \in R /\ f <= Rank(R, r) /\ Rank(R, r) < f + l
            OBVIOUS
        <3>2. PICK i \in 1 .. n : s[i] = r
            BY <1>2, <3>1
        <3>3. Rank(R, r) = i - 1
            BY <1>2, <3>2
        <3>4. f < i /\ i <= f + l
            BY <3>1, <3>3
        <3> QED BY <1>9, <3>2, <3>4
    <2> HIDE DEF P
    <2>3. ToSet(p) = P
        BY <1>9, <2>1, <2>2 DEF ToSet
    <2> QED BY <2>3 DEF P
<1> QED BY <1>1, <1>3, <1>5, <1>7, <1>8, <1>9, <1>10, <1>11 DEF IsPage

\* An int that is not too large does not wrap.
LEMMA SmallIntsFit ==
    ASSUME NEW x \in Nat, x <= MaxInt
    PROVE  Wrapped(x) = x
<1>1. PICK h \in Nat \ {0} : h = MaxInt + 1
    BY ListingAssumption
<1>2. x + h \in Nat /\ 2 * h \in Nat \ {0} /\ x + h < 2 * h
    BY <1>1, ListingAssumption
<1>3. ASSUME NEW a \in Nat, NEW d \in Nat \ {0}, a < d PROVE a % d = a
    <2>1. a \div d \in Nat /\ a % d \in 0 .. d - 1
        OBVIOUS
    <2>2. PICK q \in Nat, m \in 0 .. d - 1 : q = a \div d /\ m = a % d
        BY <2>1
    <2>3. a = d * q + m
        BY <2>2
    <2>4. q = 0
        <3>1. SUFFICES ASSUME q >= 1 PROVE FALSE
            OBVIOUS
        <3>2. d * q >= d
            BY <3>1
        <3> QED BY <1>3, <2>3, <3>2
    <2> QED BY <2>2, <2>3, <2>4
<1>4. (x + h) % (2 * h) = x + h
    BY <1>2, <1>3
<1> QED BY <1>1, <1>4 DEF Wrapped

---------------------------------------------------------------------------
(* Ids *)

\* Rows of a table have as many ids, and there are enough.
LEMMA KeyedRows ==
    ASSUME NEW R, R \subseteq Row, \A r, q \in R : r.id = q.id => r = q
    PROVE  Rows(R) /\ Cardinality(R) <= Cardinality(Ids)
<1> DEFINE g == [r \in R |-> r.id]
<1>1. g \in [R -> Ids] /\ \A r, q \in R : g[r] = g[q] => r = q
    BY DEF Row
<1> HIDE DEF g
<1>2. g \in Injection(R, Ids)
    BY <1>1 DEF Injection, IsInjective
<1>3. IsFiniteSet(R) /\ Cardinality(R) <= Cardinality(Ids)
    BY <1>2, FS_Injection, CountableAssumption
<1> QED BY <1>3 DEF Rows

LEMMA IdsOfRows ==
    ASSUME NEW R, Rows(R)
    PROVE  /\ IsFiniteSet(IdsOf(R)) /\ IdsOf(R) \subseteq Ids
           /\ Cardinality(IdsOf(R)) = Cardinality(R) /\ Cardinality(R) \in Nat
<1> DEFINE g == [r \in R |-> r.id]
<1>1. g \in [R -> IdsOf(R)] /\ \A r, q \in R : g[r] = g[q] => r = q
    BY DEF Rows, IdsOf
<1>2. \A i \in IdsOf(R) : \E r \in R : g[r] = i
    BY DEF IdsOf
<1> HIDE DEF g
<1>3. g \in Bijection(R, IdsOf(R))
    BY <1>1, <1>2 DEF Bijection, Injection, Surjection, IsInjective
<1>4. IsFiniteSet(IdsOf(R)) /\ Cardinality(IdsOf(R)) = Cardinality(R)
    BY <1>3, FS_Bijection DEF ExistsBijection, Rows
<1>5. IdsOf(R) \subseteq Ids
    BY DEF IdsOf, Rows, Row
<1> QED BY <1>4, <1>5, FS_CardinalityType DEF Rows

\* A finite set and two parts of it that share nothing.
LEMMA SplitCount ==
    ASSUME NEW T, IsFiniteSet(T), NEW A, NEW B, T = A \cup B, A \cap B = {}
    PROVE  /\ Cardinality(T) = Cardinality(A) + Cardinality(B)
           /\ Cardinality(T) \in Nat /\ Cardinality(A) \in Nat /\ Cardinality(B) \in Nat
<1>1. A \in SUBSET T /\ B \in SUBSET T
    OBVIOUS
<1>2. IsFiniteSet(A) /\ IsFiniteSet(B)
    BY <1>1, FS_Subset
<1>3. Cardinality(A) \in Nat /\ Cardinality(B) \in Nat /\ Cardinality(T) \in Nat
    BY <1>2, FS_CardinalityType
<1>4. Cardinality(A \cup B) = Cardinality(A) + Cardinality(B) - Cardinality(A \cap B)
    BY <1>2, FS_Union
<1>5. Cardinality(A \cap B) = 0
    BY FS_EmptySet
<1> QED BY <1>3, <1>4, <1>5

\* As many ids of a known set are gone as rows go.
LEMMA GoneWithout ==
    ASSUME NEW R, Rows(R), NEW Z \in SUBSET R, NEW D, IsFiniteSet(D), IdsOf(R) \subseteq D
    PROVE  /\ Cardinality(D \ IdsOf(R \ Z)) = Cardinality(D \ IdsOf(R)) + Cardinality(Z)
           /\ Cardinality(D \ IdsOf(R)) \in Nat /\ Cardinality(Z) \in Nat
<1>1. Rows(Z)
    BY PartOfRows
<1>2. IdsOf(R \ Z) = IdsOf(R) \ IdsOf(Z) /\ IdsOf(Z) \subseteq IdsOf(R)
    BY DEF IdsOf, Rows
<1>3. /\ D \ IdsOf(R \ Z) = (D \ IdsOf(R)) \cup IdsOf(Z)
      /\ (D \ IdsOf(R)) \cap IdsOf(Z) = {}
    BY <1>2
<1>4. D \ IdsOf(R \ Z) \in SUBSET D
    OBVIOUS
<1>5. IsFiniteSet(D \ IdsOf(R \ Z))
    BY <1>4, FS_Subset
<1>6. /\ Cardinality(D \ IdsOf(R \ Z)) = Cardinality(D \ IdsOf(R)) + Cardinality(IdsOf(Z))
      /\ Cardinality(D \ IdsOf(R)) \in Nat
    <2> DEFINE T == D \ IdsOf(R \ Z)
               G == D \ IdsOf(R)
               I == IdsOf(Z)
    <2>1. T = G \cup I /\ G \cap I = {} /\ IsFiniteSet(T)
        BY <1>3, <1>5
    <2> HIDE DEF T, G, I
    <2>2. Cardinality(T) = Cardinality(G) + Cardinality(I) /\ Cardinality(G) \in Nat
        BY <2>1, SplitCount
    <2> QED BY <2>2 DEF T, G, I
<1>7. Cardinality(IdsOf(Z)) = Cardinality(Z) /\ Cardinality(Z) \in Nat
    BY <1>1, IdsOfRows
<1> QED BY <1>6, <1>7

---------------------------------------------------------------------------
(* What a walk owes *)

LEMMA CountsAreNaturals ==
    ASSUME NEW R, Rows(R), NEW S, NEW b, NEW m \in Int
    PROVE  /\ Cardinality(Again(R, S, m)) \in Nat /\ IsFiniteSet(Again(R, S, m))
           /\ Cardinality(Behind(R, S, b, m)) \in Nat /\ IsFiniteSet(Behind(R, S, b, m))
<1>1. Again(R, S, m) \in SUBSET R /\ Behind(R, S, b, m) \in SUBSET R
    BY DEF Again, Behind
<1> QED BY <1>1, PartOfRows DEF Rows

LEMMA ShownIsFinite ==
    ASSUME NEW sh \in Seq(Ids)
    PROVE  IsFiniteSet(ToSet(sh)) /\ ToSet(sh) \subseteq Ids
<1>1. ToSet(sh) \in SUBSET Ids
    BY LenProperties DEF ToSet
<1> QED BY <1>1, FS_Subset, CountableAssumption

\* Nothing is owed before the first page.
LEMMA NothingOwed ==
    ASSUME NEW R, Rows(R), NEW A, IsFiniteSet(A)
    PROVE  Paid(R, A, IdsOf(R), <<>>, 0)
<1>1. PICK sh : sh = <<>> /\ ToSet(sh) = {} /\ Len(sh) = 0
    BY DEF ToSet
<1>2. Again(R, {}, 0) = {}
    BY DEF Again
<1>3. Behind(R, {}, IdsOf(R), 0) = {}
    <2> SUFFICES ASSUME NEW r \in R, Rank(R, r) < 0 PROVE FALSE
        BY DEF Behind
    <2> QED BY RankBound
<1>4. Cardinality({}) = 0
    BY FS_EmptySet
<1>5. IsFiniteSet(IdsOf(R))
    BY IdsOfRows
<1>6. IsFiniteSet(IdsOf(R) \cup A)
    BY <1>5, FS_Union
<1>7. (IdsOf(R) \cup A) \ IdsOf(R) \in SUBSET (IdsOf(R) \cup A)
    OBVIOUS
<1>8. IsFiniteSet((IdsOf(R) \cup A) \ IdsOf(R))
    BY <1>6, <1>7, FS_Subset
<1>9. Cardinality(A) \in Nat /\ Cardinality((IdsOf(R) \cup A) \ IdsOf(R)) \in Nat
    BY <1>8, FS_CardinalityType
<1>10. /\ Cardinality(Again(R, ToSet(sh), 0)) = 0 /\ Cardinality(ToSet(sh)) = 0
       /\ Cardinality(Behind(R, ToSet(sh), IdsOf(R), 0)) = 0
    BY <1>1, <1>2, <1>3, <1>4, Zenon
<1>11. Len(sh) + Cardinality(Again(R, ToSet(sh), 0)) <= Cardinality(A) + Cardinality(ToSet(sh))
    BY <1>1, <1>9, <1>10
<1>12. Cardinality(Behind(R, ToSet(sh), IdsOf(R), 0)) <= Cardinality((IdsOf(R) \cup A) \ IdsOf(R))
    BY <1>9, <1>10
<1> QED BY <1>1, <1>11, <1>12 DEF Paid

\* Rows that go pay for the rows they hide.
LEMMA PaidWithout ==
    ASSUME NEW R, Rows(R), NEW Z \in SUBSET R, NEW A, IsFiniteSet(A), NEW b, IsFiniteSet(b),
           NEW sh \in Seq(Ids), NEW m \in Int, Paid(R, A, b, sh, m)
    PROVE  Paid(R \ Z, A, b, sh, m)
<1>1. IsFiniteSet(b \cup A)
    BY FS_Union
<1>2. IdsOf(R) \subseteq b \cup A
    BY DEF Paid
<1>3. IdsOf(R \ Z) \subseteq b \cup A
    BY <1>2 DEF IdsOf
<1>4. Cardinality(Again(R \ Z, ToSet(sh), m)) <= Cardinality(Again(R, ToSet(sh), m))
    BY AgainWithout
<1>5. Cardinality(Behind(R \ Z, ToSet(sh), b, m))
          <= Cardinality(Behind(R, ToSet(sh), b, m)) + Cardinality(Z)
    BY BehindWithout
<1>6. /\ Cardinality((b \cup A) \ IdsOf(R \ Z)) = Cardinality((b \cup A) \ IdsOf(R)) + Cardinality(Z)
      /\ Cardinality((b \cup A) \ IdsOf(R)) \in Nat /\ Cardinality(Z) \in Nat
    BY <1>1, <1>2, GoneWithout
<1>7. Rows(R \ Z)
    BY PartOfRows
<1>8. /\ Cardinality(Again(R \ Z, ToSet(sh), m)) \in Nat
      /\ Cardinality(Again(R, ToSet(sh), m)) \in Nat
      /\ Cardinality(Behind(R \ Z, ToSet(sh), b, m)) \in Nat
      /\ Cardinality(Behind(R, ToSet(sh), b, m)) \in Nat
    BY <1>7, CountsAreNaturals
<1>9. Len(sh) \in Nat /\ Cardinality(A) \in Nat /\ Cardinality(ToSet(sh)) \in Nat
    BY LenProperties, ShownIsFinite, FS_CardinalityType
<1>10. Len(sh) + Cardinality(Again(R \ Z, ToSet(sh), m)) <= Cardinality(A) + Cardinality(ToSet(sh))
    BY <1>4, <1>8, <1>9 DEF Paid
<1>11. Cardinality(Behind(R \ Z, ToSet(sh), b, m)) <= Cardinality((b \cup A) \ IdsOf(R \ Z))
    BY <1>5, <1>6, <1>8 DEF Paid
<1> QED BY <1>3, <1>10, <1>11 DEF Paid

\* A row that comes pays for the one it repeats.
LEMMA PaidWith ==
    ASSUME NEW R, NEW x, Rows(R \cup {x}), x \notin R, NEW A, IsFiniteSet(A), NEW b,
           IsFiniteSet(b), NEW sh \in Seq(Ids), NEW m \in Int, Paid(R, A, b, sh, m),
           x.id \notin A \cup b \cup ToSet(sh)
    PROVE  Paid(R \cup {x}, A \cup {x.id}, b, sh, m)
<1>1. IdsOf(R \cup {x}) = IdsOf(R) \cup {x.id}
    BY DEF IdsOf
<1>2. /\ IdsOf(R \cup {x}) \subseteq b \cup (A \cup {x.id})
      /\ (b \cup (A \cup {x.id})) \ IdsOf(R \cup {x}) = (b \cup A) \ IdsOf(R)
    BY <1>1 DEF Paid
<1>3. Cardinality(Again(R \cup {x}, ToSet(sh), m)) <= Cardinality(Again(R, ToSet(sh), m)) + 1
    BY AgainWith
<1>4. Cardinality(Behind(R \cup {x}, ToSet(sh), b, m)) <= Cardinality(Behind(R, ToSet(sh), b, m))
    BY BehindWith
<1>5. Cardinality(A \cup {x.id}) = Cardinality(A) + 1
    BY FS_AddElement
<1>6. Rows(R)
    <2>1. R \in SUBSET (R \cup {x})
        OBVIOUS
    <2> QED BY <2>1, PartOfRows
<1>7. /\ Cardinality(Again(R \cup {x}, ToSet(sh), m)) \in Nat
      /\ Cardinality(Again(R, ToSet(sh), m)) \in Nat
      /\ Cardinality(Behind(R \cup {x}, ToSet(sh), b, m)) \in Nat
      /\ Cardinality(Behind(R, ToSet(sh), b, m)) \in Nat
    BY <1>6, CountsAreNaturals
<1>8. Len(sh) \in Nat /\ Cardinality(A) \in Nat /\ Cardinality(ToSet(sh)) \in Nat
    BY LenProperties, ShownIsFinite, FS_CardinalityType
<1>9. Len(sh) + Cardinality(Again(R \cup {x}, ToSet(sh), m))
          <= Cardinality(A \cup {x.id}) + Cardinality(ToSet(sh))
    BY <1>3, <1>5, <1>7, <1>8 DEF Paid
<1>10. Cardinality(Behind(R \cup {x}, ToSet(sh), b, m)) <= Cardinality((b \cup A) \ IdsOf(R))
    <2> DEFINE g == Cardinality((b \cup A) \ IdsOf(R))
    <2>1. Cardinality(Behind(R, ToSet(sh), b, m)) <= g
        BY DEF Paid
    <2>2. g \in Nat
        <3>1. IsFiniteSet(b \cup A)
            BY FS_Union
        <3>2. (b \cup A) \ IdsOf(R) \in SUBSET (b \cup A)
            OBVIOUS
        <3> QED BY <3>1, <3>2, FS_Subset, FS_CardinalityType
    <2> HIDE DEF g
    <2>3. Cardinality(Behind(R \cup {x}, ToSet(sh), b, m)) <= g
        BY <1>4, <1>7, <2>1, <2>2
    <2> QED BY <2>3 DEF g
<1> QED BY <1>2, <1>9, <1>10 DEF Paid

\* So does one that has expired when it comes.
LEMMA PaidExpired ==
    ASSUME NEW R, Rows(R), NEW A, IsFiniteSet(A), NEW b, IsFiniteSet(b), NEW i, i \notin A,
           NEW sh \in Seq(Ids), NEW m \in Int, Paid(R, A, b, sh, m)
    PROVE  Paid(R, A \cup {i}, b, sh, m)
<1>1. IsFiniteSet(A \cup {i}) /\ Cardinality(A \cup {i}) = Cardinality(A) + 1
    BY FS_AddElement
<1>2. IsFiniteSet(b \cup (A \cup {i}))
    BY <1>1, FS_Union
<1> DEFINE G == (b \cup A) \ IdsOf(R)
           H == (b \cup (A \cup {i})) \ IdsOf(R)
<1>3. G \in SUBSET H /\ H \in SUBSET (b \cup (A \cup {i}))
    OBVIOUS
<1>4. IsFiniteSet(H)
    BY <1>2, <1>3, FS_Subset
<1>5. IsFiniteSet(G) /\ Cardinality(G) <= Cardinality(H)
    BY <1>3, <1>4, FS_Subset
<1>6. Cardinality(G) \in Nat /\ Cardinality(H) \in Nat /\ Cardinality(A) \in Nat
    BY <1>4, <1>5, FS_CardinalityType
<1>7. /\ Cardinality(Again(R, ToSet(sh), m)) \in Nat
      /\ Cardinality(Behind(R, ToSet(sh), b, m)) \in Nat
    BY CountsAreNaturals
<1>8. Len(sh) \in Nat /\ Cardinality(ToSet(sh)) \in Nat
    BY LenProperties, ShownIsFinite, FS_CardinalityType
<1>9. Cardinality(Behind(R, ToSet(sh), b, m)) <= Cardinality(G)
    BY DEF Paid
<1> HIDE DEF G, H
<1>10. Cardinality(Behind(R, ToSet(sh), b, m)) <= Cardinality(H)
    BY <1>5, <1>6, <1>7, <1>9
<1>11. Len(sh) + Cardinality(Again(R, ToSet(sh), m)) <= Cardinality(A \cup {i}) + Cardinality(ToSet(sh))
    BY <1>1, <1>6, <1>7, <1>8 DEF Paid
<1> QED BY <1>10, <1>11 DEF Paid, H

\* The ids of a page, in its order: as many as rows, each once.
LEMMA PageIds ==
    ASSUME NEW R, Rows(R), NEW p \in Seq(R), \A i, j \in DOMAIN p : p[i] = p[j] => i = j
    PROVE  LET q == [k \in DOMAIN p |-> p[k].id]
           IN  /\ q \in Seq(Ids) /\ Len(q) = Cardinality(ToSet(p))
               /\ ToSet(q) = IdsOf(ToSet(p))
<1>1. PICK n \in Nat : n = Len(p) /\ p \in [1 .. n -> R] /\ DOMAIN p = 1 .. n
    BY LenProperties
<1> DEFINE q == [k \in DOMAIN p |-> p[k].id]
<1>2. q \in [1 .. n -> Ids]
    BY <1>1 DEF Rows, Row
<1>3. q \in Seq(Ids) /\ Len(q) = n
    BY <1>2
<1>4. ToSet(q) = IdsOf(ToSet(p))
    BY <1>1 DEF ToSet, IdsOf
<1>5. Cardinality(ToSet(p)) = n
    <2>1. p \in [1 .. n -> ToSet(p)] /\ \A t \in ToSet(p) : \E k \in 1 .. n : p[k] = t
        BY <1>1 DEF ToSet
    <2>2. p \in Bijection(1 .. n, ToSet(p))
        BY <1>1, <2>1 DEF Bijection, Injection, Surjection, IsInjective
    <2>3. ExistsBijection(1 .. n, ToSet(p))
        BY <2>2 DEF ExistsBijection
    <2> QED BY <2>3, FS_CountingElements
<1> QED BY <1>3, <1>4, <1>5

LEMMA ConcatIds ==
    ASSUME NEW sh \in Seq(Ids), NEW q \in Seq(Ids)
    PROVE  /\ sh \o q \in Seq(Ids) /\ Len(sh \o q) = Len(sh) + Len(q)
           /\ ToSet(sh \o q) = ToSet(sh) \cup ToSet(q)
<1>1. PICK m \in Nat, n \in Nat : m = Len(sh) /\ n = Len(q)
    BY LenProperties
<1>2. DOMAIN sh = 1 .. m /\ DOMAIN q = 1 .. n
    BY <1>1, LenProperties
<1>3. /\ sh \o q \in Seq(Ids) /\ Len(sh \o q) = m + n
      /\ \A i \in 1 .. m + n : (sh \o q)[i] = IF i <= m THEN sh[i] ELSE q[i - m]
    BY <1>1, ConcatProperties
<1>4. DOMAIN (sh \o q) = 1 .. m + n
    BY <1>3, LenProperties
<1>5. PICK c : c = sh \o q
    OBVIOUS
<1>6. ASSUME NEW i \in 1 .. m PROVE i \in 1 .. m + n /\ c[i] = sh[i]
    <2>1. i \in 1 .. m + n /\ i <= m
        OBVIOUS
    <2> QED BY <1>3, <1>5, <2>1
<1>7. ASSUME NEW i \in 1 .. n PROVE m + i \in 1 .. m + n /\ c[m + i] = q[i]
    <2>1. m + i \in 1 .. m + n /\ ~(m + i <= m) /\ (m + i) - m = i
        OBVIOUS
    <2>2. c[m + i] = q[(m + i) - m]
        BY <1>3, <1>5, <2>1
    <2> QED BY <2>1, <2>2
<1>8. \A i \in 1 .. m + n : (i \in 1 .. m /\ c[i] = sh[i]) \/ (i - m \in 1 .. n /\ c[i] = q[i - m])
    BY <1>3, <1>5
<1>9. ToSet(c) = ToSet(sh) \cup ToSet(q)
    <2>1. ASSUME NEW e \in ToSet(c) PROVE e \in ToSet(sh) \cup ToSet(q)
        BY <1>2, <1>4, <1>5, <1>8 DEF ToSet
    <2>2. ASSUME NEW e \in ToSet(sh) PROVE e \in ToSet(c)
        BY <1>2, <1>4, <1>5, <1>6 DEF ToSet
    <2>3. ASSUME NEW e \in ToSet(q) PROVE e \in ToSet(c)
        BY <1>2, <1>4, <1>5, <1>7 DEF ToSet
    <2> QED BY <2>1, <2>2, <2>3
<1> QED BY <1>1, <1>3, <1>5, <1>9

\* A page repeats only what it was known to repeat, and misses nothing.
LEMMA PaidPage ==
    ASSUME NEW R, Rows(R), NEW A, IsFiniteSet(A), NEW b, IsFiniteSet(b),
           NEW sh \in Seq(Ids), NEW m \in Nat, NEW l \in Nat, Paid(R, A, b, sh, m),
           NEW q \in Seq(Ids), NEW P, P = {r \in R : m <= Rank(R, r) /\ Rank(R, r) < m + l},
           Len(q) = Cardinality(P), ToSet(q) = IdsOf(P)
    PROVE  Paid(R, A, b, sh \o q, m + l)
<1> DEFINE S == ToSet(sh)
           N == ToSet(sh \o q)
           O == {r \in P : r.id \in S}
<1>1. Len(sh \o q) = Len(sh) + Len(q) /\ N = S \cup IdsOf(P)
    BY ConcatIds
<1>2. \A r \in R : r.id \in IdsOf(P) => r \in P
    BY DEF IdsOf, Rows
<1>3. \A r \in R : Rank(R, r) \in Nat
    BY RankBound
<1>4. /\ Again(R, S, m) = Again(R, N, m + l) \cup O
      /\ Again(R, N, m + l) \cap O = {}
    <2>1. ASSUME NEW r \in Again(R, S, m) PROVE r \in Again(R, N, m + l) \cup O
        BY <1>1, <1>3 DEF Again
    <2>2. ASSUME NEW r \in Again(R, N, m + l) PROVE r \in Again(R, S, m) /\ r \notin O
        BY <1>1, <1>2, <1>3 DEF Again
    <2>3. ASSUME NEW r \in O PROVE r \in Again(R, S, m)
        BY <1>3 DEF Again
    <2> QED BY <2>1, <2>2, <2>3
<1>5. S \cap IdsOf(P) = IdsOf(O)
    BY DEF IdsOf
<1>6. Behind(R, N, b, m + l) \in SUBSET Behind(R, S, b, m)
    <2> SUFFICES ASSUME NEW r \in Behind(R, N, b, m + l) PROVE r \in Behind(R, S, b, m)
        OBVIOUS
    <2>1. r \in R /\ r.id \in b \ N /\ Rank(R, r) < m + l
        BY DEF Behind
    <2>2. r.id \notin IdsOf(P) /\ r.id \notin S
        BY <1>1, <2>1
    <2>3. r \notin P
        BY <2>2 DEF IdsOf
    <2>4. Rank(R, r) < m
        BY <1>3, <2>1, <2>3
    <2> QED BY <2>1, <2>2, <2>4 DEF Behind
<1>7. P \in SUBSET R /\ O \in SUBSET R
    OBVIOUS
<1>8. /\ IsFiniteSet(IdsOf(P)) /\ Cardinality(IdsOf(P)) = Cardinality(P)
      /\ Cardinality(IdsOf(O)) = Cardinality(O)
      /\ Cardinality(P) \in Nat /\ Cardinality(O) \in Nat
    <2>1. Rows(P) /\ Rows(O)
        BY <1>7, PartOfRows
    <2> QED BY <2>1, IdsOfRows
<1>9. IsFiniteSet(S) /\ Cardinality(S) \in Nat /\ Len(sh) \in Nat /\ Cardinality(A) \in Nat
    BY ShownIsFinite, FS_CardinalityType, LenProperties
<1>10. /\ Cardinality(Again(R, S, m)) \in Nat /\ IsFiniteSet(Again(R, S, m))
       /\ Cardinality(Again(R, N, m + l)) \in Nat
       /\ Cardinality(Behind(R, S, b, m)) \in Nat /\ IsFiniteSet(Behind(R, S, b, m))
       /\ Cardinality(Behind(R, N, b, m + l)) \in Nat
    BY CountsAreNaturals
<1>11. Cardinality(N) = Cardinality(S) + Cardinality(P) - Cardinality(O)
    <2> HIDE DEF S, N, O
    <2>1. Cardinality(S \cup IdsOf(P)) =
              Cardinality(S) + Cardinality(IdsOf(P)) - Cardinality(S \cap IdsOf(P))
        BY <1>8, <1>9, FS_Union
    <2> QED BY <1>1, <1>5, <1>8, <2>1
<1>12. Cardinality(Again(R, S, m)) = Cardinality(Again(R, N, m + l)) + Cardinality(O)
    <2> DEFINE T == Again(R, S, m)
               B == Again(R, N, m + l)
    <2>1. IsFiniteSet(T) /\ T = B \cup O /\ B \cap O = {}
        BY <1>4, <1>10
    <2> HIDE DEF T, B, O
    <2>2. Cardinality(T) = Cardinality(B) + Cardinality(O)
        BY <2>1, SplitCount
    <2> QED BY <2>2 DEF T, B
<1>13. Cardinality(Behind(R, N, b, m + l)) <= Cardinality(Behind(R, S, b, m))
    BY <1>6, <1>10, FS_Subset
<1>14. /\ Len(sh) + Cardinality(Again(R, S, m)) <= Cardinality(A) + Cardinality(S)
       /\ IdsOf(R) \subseteq b \cup A
       /\ Cardinality(Behind(R, S, b, m)) <= Cardinality((b \cup A) \ IdsOf(R))
    BY DEF Paid
<1>15. Cardinality((b \cup A) \ IdsOf(R)) \in Nat
    <2>1. IsFiniteSet(b \cup A)
        BY FS_Union
    <2>2. (b \cup A) \ IdsOf(R) \in SUBSET (b \cup A)
        OBVIOUS
    <2> QED BY <2>1, <2>2, FS_Subset, FS_CardinalityType
<1> HIDE DEF S, N, O
<1>16. Len(sh \o q) + Cardinality(Again(R, N, m + l)) <= Cardinality(A) + Cardinality(N)
    <2>1. Len(sh \o q) = Len(sh) + Cardinality(P)
        BY <1>1
    <2>2. PICK u \in Nat, v \in Nat : u = Cardinality(Again(R, S, m)) /\ v = Cardinality(Again(R, N, m + l))
        BY <1>10
    <2>3. u = v + Cardinality(O) /\ Len(sh) + u <= Cardinality(A) + Cardinality(S)
        BY <1>12, <1>14, <2>2
    <2>4. (Len(sh) + Cardinality(P)) + v <= Cardinality(A) + (Cardinality(S) + Cardinality(P) - Cardinality(O))
        BY <1>8, <1>9, <2>3, SMTT(30)
    <2> QED BY <1>11, <2>1, <2>2, <2>4
<1>17. Cardinality(Behind(R, N, b, m + l)) <= Cardinality((b \cup A) \ IdsOf(R))
    BY <1>10, <1>13, <1>14, <1>15
<1> QED BY <1>14, <1>16, <1>17 DEF Paid, N

---------------------------------------------------------------------------
(* States *)

LEMMA TableRows ==
    ASSUME Typed, Keyed, NEW t
    PROVE  Rows(Active(t)) /\ Cardinality(Active(t)) <= Cardinality(Ids)
<1>1. Active(t) \subseteq Row /\ \A r, q \in Active(t) : r.id = q.id => r = q
    BY DEF Typed, Keyed, Active
<1> QED BY <1>1, KeyedRows

LEMMA IdSetsAreFinite ==
    ASSUME Typed
    PROVE  /\ IsFiniteSet(start) /\ IsFiniteSet(added) /\ Cardinality(Ids) \in Nat
           /\ Cardinality(added) \in Nat
<1>1. start \in SUBSET Ids /\ added \in SUBSET Ids
    BY DEF Typed
<1>2. IsFiniteSet(start) /\ IsFiniteSet(added)
    BY <1>1, FS_Subset, CountableAssumption
<1> QED BY <1>2, FS_CardinalityType, CountableAssumption

LEMMA Positions ==
    ASSUME Typed
    PROVE  /\ (walk.page - 1) * walk.limit \in Nat /\ walk.page * walk.limit \in Nat
           /\ (walk.page - 1) * walk.limit + walk.limit = walk.page * walk.limit
           /\ Position \in Nat /\ walk.limit \in Nat /\ walk.limit >= 1
<1>1. PICK p \in Nat \ {0}, l \in Nat : p = walk.page /\ l = walk.limit /\ l >= 1
    BY ListingAssumption DEF Typed
<1>2. p - 1 \in Nat
    OBVIOUS
<1>3. (p - 1) * l \in Nat /\ p * l \in Nat
    BY <1>2
<1>4. (p - 1) * l + l = p * l
    OBVIOUS
<1> QED BY <1>1, <1>3, <1>4 DEF Position

LEMMA InitInv ==
    ASSUME Init
    PROVE  Inv
<1> USE DEF Init
<1>1. Typed
    <2>1. shown \in Seq(Ids) /\ page \in Seq(Row) /\ ToSet(shown) = {}
        BY DEF ToSet
    <2>2. walk \in [phase : {"idle", "counted", "listed"}, page : Nat \ {0},
                    limit : 1 .. MaxLimit, time : Nat, total : Nat, first : Nat \ {0}]
        BY ListingAssumption
    <2>3. now \in Nat /\ now >= Lag /\ walk.time <= now
        BY ListingAssumption
    <2> QED BY <2>1, <2>2, <2>3 DEF Typed
<1>2. Keyed
    BY DEF Keyed, IdsOf
<1>3. NothingShown /\ InBounds /\ AllPaid /\ Counted /\ TotalFitsPage
    BY DEF NothingShown, InBounds, AllPaid, Counted, TotalFitsPage
<1> QED BY <1>1, <1>2, <1>3 DEF Inv

---------------------------------------------------------------------------
(* What the others do *)

\* A request or the janitor changes the table during the walk.
LEMMA TableStep ==
    ASSUME Inv, Touch, UNCHANGED <<now, walk, shown, page, start>>, Typed', Keyed',
           walk.phase = "idle" => added' = added,
           walk.phase # "idle" /\ walk.first = 1 =>
               Paid(Active(walk.time)', added', start, shown, Position)
    PROVE  Inv'
<1>1. Typed /\ NothingShown /\ InBounds /\ TotalFitsPage
    BY DEF Inv
<1>2. /\ walk' = walk /\ shown' = shown /\ page' = page /\ start' = start
      /\ ~WalkEnds /\ changed' = (changed \/ walk.phase = "counted")
    BY DEF Touch
<1>3. Position' = Position
    BY <1>2 DEF Position
<1>4. NothingShown'
    BY <1>1, <1>2 DEF NothingShown
<1>5. InBounds'
    <2>1. SUFFICES ASSUME walk.phase # "idle", walk.first = 1
                   PROVE  ~(walk.phase = "listed" /\ Len(page) < walk.limit) /\ Position <= Cardinality(Ids)
        BY <1>2, <1>3 DEF InBounds
    <2>2. ~(walk.phase = "listed" /\ Len(page) < walk.limit)
        BY <1>2 DEF WalkEnds
    <2> QED BY <1>1, <2>1, <2>2 DEF InBounds
<1>6. AllPaid'
    <2>1. SUFFICES ASSUME walk.phase # "idle", walk.first = 1
                   PROVE  Paid(Listed', added', start, shown, Position)
        BY <1>2, <1>3 DEF AllPaid
    <2>2. Listed' = Active(walk.time)'
        BY <1>2 DEF Listed
    <2> QED BY <2>1, <2>2
<1>7. Counted'
    BY <1>2 DEF Counted
<1>8. TotalFitsPage'
    <2>1. SUFFICES ASSUME walk.phase = "listed", ~changed'
                   PROVE  ~changed
        BY <1>1, <1>2 DEF TotalFitsPage
    <2> QED BY <1>2, <2>1
<1> QED BY <1>4, <1>5, <1>6, <1>7, <1>8 DEF Inv

\* Rows that go from the table are paid for ...
LEMMA PaidRemoval ==
    ASSUME Inv, walk.phase # "idle", walk.first = 1, NEW D
    PROVE  Paid(Listed \ D, added, start, shown, Position)
<1>1. Typed /\ Keyed /\ Paid(Listed, added, start, shown, Position)
    BY DEF Inv, AllPaid
<1>2. Rows(Listed)
    BY <1>1, TableRows DEF Listed
<1>3. shown \in Seq(Ids) /\ Position \in Int
    BY <1>1, Positions DEF Typed
<1>4. IsFiniteSet(start) /\ IsFiniteSet(added)
    BY <1>1, IdSetsAreFinite
<1>5. PICK Z \in SUBSET Listed : Z = Listed \cap D
    OBVIOUS
<1>6. Paid(Listed \ Z, added, start, shown, Position)
    BY <1>1, <1>2, <1>3, <1>4, PaidWithout
<1>7. Listed \ Z = Listed \ D
    BY <1>5
<1> QED BY <1>6, <1>7

LEMMA NewRowsAreRows ==
    ASSUME Typed, NEW r \in NewRows
    PROVE  r \in Row /\ r.id \in Ids \ used
<1>1. PICK i \in Ids \ used, c \in now - Lag .. now, m \in now - Lag .. now :
          r = [id |-> i, created |-> c, expires |-> m + TTL]
    BY DEF NewRows
<1>2. c \in Nat /\ m + TTL \in Nat
    BY ListingAssumption DEF Typed
<1> QED BY <1>1, <1>2 DEF Row

\* ... and a row that comes as well.
LEMMA PaidInsertion ==
    ASSUME Inv, walk.phase # "idle", walk.first = 1, NEW D, NEW r \in NewRows
    PROVE  Paid({q \in (rows \ D) \cup {r} : q.expires > walk.time}, added \cup {r.id}, start,
                shown, Position)
<1> DEFINE L == Listed \ D
<1>1. Typed /\ Keyed /\ Paid(L, added, start, shown, Position)
    BY PaidRemoval DEF Inv
<1>2. r \in Row /\ r.id \in Ids \ used
    BY <1>1, NewRowsAreRows
<1>3. shown \in Seq(Ids) /\ Position \in Int
    BY <1>1, Positions DEF Typed
<1>4. IsFiniteSet(start) /\ IsFiniteSet(added)
    BY <1>1, IdSetsAreFinite
<1>5. r.id \notin added \cup start \cup ToSet(shown)
    BY <1>1, <1>2 DEF Typed
<1>6. L \subseteq rows
    BY DEF Listed, Active
<1>7. Rows(L \cup {r}) /\ r \notin L
    <2>1. \A q \in L : q.id \in used /\ q \in Row
        BY <1>1, <1>6 DEF Keyed, IdsOf, Typed
    <2>2. L \cup {r} \subseteq Row
        BY <1>2, <2>1
    <2>3. \A a, q \in L \cup {r} : a.id = q.id => a = q
        BY <1>1, <1>2, <1>6, <2>1 DEF Keyed
    <2>4. r \notin L
        BY <1>2, <2>1
    <2> QED BY <2>2, <2>3, <2>4, KeyedRows
<1>8. Rows(L)
    <2>1. L \in SUBSET (L \cup {r})
        OBVIOUS
    <2> QED BY <1>7, <2>1, PartOfRows
<1>9. CASE r.expires > walk.time
    <2>1. {q \in (rows \ D) \cup {r} : q.expires > walk.time} = L \cup {r}
        BY <1>9 DEF Listed, Active
    <2> HIDE DEF L
    <2>2. Paid(L \cup {r}, added \cup {r.id}, start, shown, Position)
        BY <1>1, <1>3, <1>4, <1>5, <1>7, PaidWith
    <2> QED BY <2>1, <2>2
<1>10. CASE ~(r.expires > walk.time)
    <2>1. {q \in (rows \ D) \cup {r} : q.expires > walk.time} = L
        BY <1>10 DEF Listed, Active
    <2> HIDE DEF L
    <2>2. Paid(L, added \cup {r.id}, start, shown, Position)
        BY <1>1, <1>3, <1>4, <1>5, <1>8, PaidExpired
    <2> QED BY <2>1, <2>2
<1> QED BY <1>9, <1>10

\* A new row keeps the table a table.
LEMMA KeyedInsertion ==
    ASSUME Typed, Keyed, NEW r \in NewRows, NEW D, rows' = (rows \ D) \cup {r},
           used' = used \cup {r.id},
           added' = IF walk.phase = "idle" THEN added ELSE added \cup {r.id},
           UNCHANGED <<now, walk, shown, page, start>>, changed' \in BOOLEAN
    PROVE  Typed' /\ Keyed'
<1>1. r \in Row /\ r.id \in Ids \ used
    BY NewRowsAreRows
<1>2. Typed'
    BY <1>1 DEF Typed
<1>3. IdsOf(rows)' \subseteq used'
    BY DEF Keyed, IdsOf
<1>4. ASSUME NEW a \in rows', NEW q \in rows', a.id = q.id PROVE a = q
    <2>1. \A e \in rows : e.id \in used
        BY DEF Keyed, IdsOf
    <2> QED BY <1>1, <1>4, <2>1 DEF Keyed
<1> QED BY <1>2, <1>3, <1>4 DEF Keyed

LEMMA TouchIsBoolean ==
    ASSUME Typed, Touch
    PROVE  changed' \in BOOLEAN
BY Zenon DEF Touch, Typed

LEMMA InsertionInv ==
    ASSUME Inv, Touch, NEW r \in NewRows, NEW D, rows' = (rows \ D) \cup {r},
           used' = used \cup {r.id},
           added' = IF walk.phase = "idle" THEN added ELSE added \cup {r.id},
           UNCHANGED <<now, walk, shown, page, start>>
    PROVE  Inv'
<1>1. Typed /\ Keyed
    BY DEF Inv
<1>2. Typed' /\ Keyed'
    BY <1>1, TouchIsBoolean, KeyedInsertion
<1>3. walk.phase = "idle" => added' = added
    OBVIOUS
<1>4. ASSUME walk.phase # "idle", walk.first = 1
      PROVE  Paid(Active(walk.time)', added', start, shown, Position)
    <2>1. added' = added \cup {r.id}
        BY <1>4
    <2>2. Active(walk.time)' = {q \in (rows \ D) \cup {r} : q.expires > walk.time}
        BY DEF Active
    <2>3. Paid({q \in (rows \ D) \cup {r} : q.expires > walk.time}, added \cup {r.id}, start,
               shown, Position)
        BY <1>4, PaidInsertion, Zenon
    <2> QED BY <2>1, <2>2, <2>3, Zenon
<1> QED BY <1>2, <1>3, <1>4, TableStep

LEMMA CreateInv ==
    ASSUME Inv, Create
    PROVE  Inv'
<1>1. PICK r \in NewRows :
          /\ rows' = rows \cup {r} /\ used' = used \cup {r.id}
          /\ added' = IF walk.phase = "idle" THEN added ELSE added \cup {r.id}
    BY DEF Create
<1>2. rows' = (rows \ {}) \cup {r}
    BY <1>1
<1> QED BY <1>1, <1>2, InsertionInv DEF Create

LEMMA RotateInv ==
    ASSUME Inv, Rotate
    PROVE  Inv'
<1>1. PICK old \in rows, r \in NewRows :
          /\ rows' = (rows \ {old}) \cup {r} /\ used' = used \cup {r.id}
          /\ added' = IF walk.phase = "idle" THEN added ELSE added \cup {r.id}
    BY DEF Rotate
<1> QED BY <1>1, InsertionInv DEF Rotate

LEMMA RevokeInv ==
    ASSUME Inv, Revoke
    PROVE  Inv'
<1>1. PICK S \in SUBSET rows : rows' = rows \ S
    BY DEF Revoke
<1>2. Touch /\ UNCHANGED <<now, used, walk, shown, page, start, added>>
    BY DEF Revoke
<1>3. Typed /\ Keyed
    BY DEF Inv
<1>4. changed' \in BOOLEAN
    BY <1>2, <1>3, TouchIsBoolean
<1>5. Typed' /\ Keyed'
    BY <1>1, <1>2, <1>3, <1>4 DEF Typed, Keyed, IdsOf
<1>6. ASSUME walk.phase # "idle", walk.first = 1
      PROVE  Paid(Active(walk.time)', added', start, shown, Position)
    <2>1. Active(walk.time)' = Listed \ S
        BY <1>1, <1>2 DEF Listed, Active
    <2> QED BY <1>2, <1>6, <2>1, PaidRemoval
<1> QED BY <1>2, <1>5, <1>6, TableStep

LEMMA TickInv ==
    ASSUME Inv, Tick
    PROVE  Inv'
<1>1. now \in Nat /\ now' = now + 1 /\ UNCHANGED <<rows, used, walk, shown, page, start, added, changed>>
    BY DEF Tick, Inv, Typed
<1>2. Typed'
    BY <1>1, ListingAssumption DEF Inv, Typed
<1>3. Listed' = Listed /\ Position' = Position
    BY <1>1 DEF Listed, Active, Position
<1>4. Keyed' /\ NothingShown' /\ Counted' /\ TotalFitsPage'
    BY <1>1, <1>3 DEF Inv, Keyed, NothingShown, Counted, TotalFitsPage, IdsOf
<1>5. InBounds' /\ AllPaid'
    BY <1>1, <1>3 DEF Inv, InBounds, AllPaid
<1> QED BY <1>2, <1>4, <1>5 DEF Inv

---------------------------------------------------------------------------
(* What the walk does *)

LEMMA NormalizedParameters ==
    /\ \A p \in Nat : NormalizedPage(p) \in Nat \ {0}
    /\ \A l \in Nat : NormalizedLimit(l) \in 1 .. MaxLimit
    /\ \A l \in 1 .. MaxLimit : NormalizedLimit(l) = l
    /\ \A p \in Nat \ {0} : NormalizedPage(p) = p
BY ListingAssumption DEF NormalizedPage, NormalizedLimit

\* The parts of the invariant that counting restores, whatever the page.
LEMMA CountStep ==
    ASSUME Typed, Keyed, NEW p \in Nat, NEW l \in Nat, NEW first \in Nat \ {0},
           Count(p, l, first), shown' = shown, start' \subseteq used
    PROVE  /\ Typed' /\ Keyed' /\ Counted' /\ TotalFitsPage'
           /\ walk'.phase = "counted" /\ walk'.first = first /\ Listed' = Active(now)
           /\ walk'.page = NormalizedPage(p) /\ walk'.limit = NormalizedLimit(l)
<1>1. /\ walk' = [phase |-> "counted", page |-> NormalizedPage(p),
                  limit |-> NormalizedLimit(l), time |-> now,
                  total |-> CountActiveByUserID(now), first |-> first]
      /\ changed' = FALSE /\ UNCHANGED <<now, rows, used, page, added>>
    BY DEF Count
<1>2. CountActiveByUserID(now) \in Nat
    BY TableRows, FS_CardinalityType DEF CountActiveByUserID, Rows
<1>3. Listed' = Active(now)
    BY <1>1 DEF Listed, Active
<1>4. Typed'
    <2>1. walk' \in [phase : {"idle", "counted", "listed"}, page : Nat \ {0},
                     limit : 1 .. MaxLimit, time : Nat, total : Nat, first : Nat \ {0}]
        BY <1>1, <1>2, NormalizedParameters DEF Typed
    <2>2. walk'.time = now
        BY <1>1
    <2>3. now' \in Nat /\ now' >= Lag /\ walk'.time <= now'
        BY <1>1, <2>2 DEF Typed
    <2>4. /\ rows' \subseteq Row /\ used' \subseteq Ids /\ start' \subseteq used'
          /\ added' \subseteq used' /\ changed' \in BOOLEAN
        BY <1>1 DEF Typed
    <2>5. shown' \in Seq(Ids) /\ page' \in Seq(Row) /\ ToSet(shown') \subseteq used'
        BY <1>1 DEF Typed
    <2> QED BY <2>1, <2>3, <2>4, <2>5 DEF Typed
<1>5. Keyed'
    BY <1>1 DEF Keyed, IdsOf
<1>6. Counted'
    BY <1>1, <1>3 DEF Counted, CountActiveByUserID
<1>7. TotalFitsPage'
    BY <1>1 DEF TotalFitsPage
<1> QED BY <1>1, <1>3, <1>4, <1>5, <1>6, <1>7

LEMMA BeginInv ==
    ASSUME Inv, NEW p \in FirstPages, NEW l \in Limits, Begin(p, l)
    PROVE  Inv'
<1>1. Typed /\ Keyed /\ NothingShown /\ p \in Nat /\ l \in Nat
    BY ListingAssumption DEF Inv
<1>2. /\ walk.phase = "idle" /\ Count(p, l, NormalizedPage(p))
      /\ start' = IdsOf(Active(now)) /\ shown' = shown
    BY DEF Begin
<1>3. NormalizedPage(p) \in Nat \ {0}
    BY <1>1, NormalizedParameters
<1>4. start' \subseteq used
    BY <1>1, <1>2 DEF Keyed, IdsOf, Active
<1>5. /\ Typed' /\ Keyed' /\ Counted' /\ TotalFitsPage'
      /\ walk'.phase = "counted" /\ walk'.first = NormalizedPage(p)
      /\ walk'.page = NormalizedPage(p) /\ Listed' = Active(now)
    BY <1>1, <1>2, <1>3, <1>4, CountStep
<1>6. shown = <<>> /\ added' = added
    BY <1>1, <1>2 DEF NothingShown, Count
<1>7. NothingShown'
    BY <1>2, <1>5, <1>6 DEF NothingShown
<1>8. ASSUME walk'.first = 1 PROVE Position' = 0
    <2>1. walk'.page = 1 /\ walk'.limit \in Nat
        BY <1>5, <1>8, ListingAssumption DEF Typed
    <2>2. (walk'.page - 1) * walk'.limit = 0
        BY <2>1
    <2> QED BY <1>5, <2>2 DEF Position
<1>9. Rows(Active(now)) /\ IsFiniteSet(added) /\ Cardinality(Ids) \in Nat
    BY <1>1, TableRows, IdSetsAreFinite
<1>10. Paid(Active(now), added, IdsOf(Active(now)), <<>>, 0)
    BY <1>9, NothingOwed
<1>11. InBounds'
    BY <1>5, <1>8, <1>9 DEF InBounds
<1>12. AllPaid'
    <2>1. SUFFICES ASSUME walk'.first = 1 PROVE Paid(Listed, added, start, shown, Position)'
        BY DEF AllPaid
    <2> QED BY <1>2, <1>5, <1>6, <1>8, <1>10, <2>1 DEF Paid
<1> QED BY <1>5, <1>7, <1>11, <1>12 DEF Inv

LEMMA ContinueInv ==
    ASSUME Inv, Continue
    PROVE  Inv'
<1>1. Typed /\ Keyed /\ InBounds
    BY DEF Inv
<1>2. /\ walk.phase = "listed" /\ Len(page) = walk.limit /\ walk.first = 1
      /\ Count(walk.page + 1, walk.limit, 1) /\ start' = start /\ shown' = shown
    BY DEF Continue
<1>3. walk.page + 1 \in Nat \ {0} /\ walk.limit \in Nat /\ walk.limit \in 1 .. MaxLimit
    BY <1>1, ListingAssumption DEF Typed
<1>4. start' \subseteq used
    BY <1>1, <1>2 DEF Typed
<1>5. /\ Typed' /\ Keyed' /\ Counted' /\ TotalFitsPage'
      /\ walk'.phase = "counted" /\ walk'.first = 1 /\ Listed' = Active(now)
      /\ walk'.page = NormalizedPage(walk.page + 1) /\ walk'.limit = NormalizedLimit(walk.limit)
    BY <1>1, <1>2, <1>3, <1>4, CountStep
<1>6. walk'.page = walk.page + 1 /\ walk'.limit = walk.limit /\ added' = added
    BY <1>2, <1>3, <1>5, NormalizedParameters DEF Count
<1>7. Position' = Position
    <2>1. (walk.page + 1) - 1 = walk.page
        BY <1>1 DEF Typed
    <2>2. Position' = ((walk.page + 1) - 1) * walk.limit
        BY <1>5, <1>6 DEF Position
    <2> QED BY <1>2, <2>1, <2>2 DEF Position
<1>8. NothingShown'
    BY <1>5 DEF NothingShown
<1>9. InBounds'
    <2>1. ~(Len(page) < walk.limit)
        BY <1>2, <1>3
    <2>2. Position <= Cardinality(Ids)
        BY <1>1, <1>2, <2>1 DEF InBounds
    <2> QED BY <1>5, <1>7, <2>2 DEF InBounds
<1>10. AllPaid'
    <2> DEFINE D == {r \in rows : ~(r.expires > now)}
    <2>1. Active(now) = Listed \ D
        BY <1>1 DEF Listed, Active, Typed, Row
    <2>2. Paid(Listed \ D, added, start, shown, Position)
        BY <1>2, PaidRemoval
    <2> HIDE DEF D
    <2>3. Paid(Listed', added', start', shown', Position')
        BY <1>2, <1>5, <1>6, <1>7, <2>1, <2>2
    <2> QED BY <2>3 DEF AllPaid
<1> QED BY <1>5, <1>8, <1>9, <1>10 DEF Inv

LEMMA ListInv ==
    ASSUME Inv, ListActiveByUserID
    PROVE  Inv'
<1>1. Typed /\ Keyed /\ NothingShown /\ InBounds /\ AllPaid /\ Counted
    BY DEF Inv
<1>2. /\ walk.phase = "counted" /\ walk' = [walk EXCEPT !.phase = "listed"]
      /\ UNCHANGED <<now, rows, used, start, added, changed>>
    BY DEF ListActiveByUserID
<1>3. PICK l \in Nat, o \in Int, f \in Nat :
          l = walk.limit /\ o = Offset(walk.page, walk.limit) /\ f = From(o) /\ l >= 1
    <2>1. walk.limit \in Nat /\ walk.limit >= 1 /\ (walk.page - 1) * walk.limit \in Nat
        BY <1>1, Positions
    <2>2. ASSUME NEW x \in Nat PROVE Wrapped(x) \in Int
        BY ListingAssumption DEF Wrapped
    <2>3. Offset(walk.page, walk.limit) \in Int
        BY <2>1, <2>2 DEF Offset
    <2>4. From(Offset(walk.page, walk.limit)) \in Nat
        BY <2>3 DEF From
    <2> QED BY <2>1, <2>3, <2>4
<1>4. PICK s \in SetToSeqs(Listed) : Sorted(s) /\ page' = Window(s, l, o)
    BY <1>3 DEF ListActiveByUserID, Orders, Sorted, Listed
<1>5. PICK n \in Nat : n = Cardinality(Listed) /\ n <= Cardinality(Ids) /\ Rows(Listed)
    BY <1>1, TableRows, FS_CardinalityType DEF Listed, Rows
<1>6. /\ page' \in Seq(Listed)
      /\ Len(page') = IF n <= f THEN 0 ELSE IF n - f < l THEN n - f ELSE l
      /\ ToSet(page') = {r \in Listed : f <= Rank(Listed, r) /\ Rank(Listed, r) < f + l}
      /\ \A i, j \in DOMAIN page' : page'[i] = page'[j] => i = j
    <2>1. IsPage(Window(s, l, o), Listed, l, From(o))
        BY <1>3, <1>4, <1>5, PageRanks
    <2> QED BY <1>3, <1>4, <1>5, <2>1 DEF IsPage
<1>7. PICK q \in Seq(Ids) :
          /\ q = [k \in DOMAIN page' |-> page'[k].id] /\ shown' = shown \o q
          /\ Len(q) = Cardinality(ToSet(page')) /\ ToSet(q) = IdsOf(ToSet(page'))
    BY <1>5, <1>6, PageIds DEF ListActiveByUserID
<1>8. /\ walk'.phase = "listed" /\ walk'.page = walk.page /\ walk'.limit = walk.limit
      /\ walk'.time = walk.time /\ walk'.total = walk.total /\ walk'.first = walk.first
    BY <1>1, <1>2 DEF Typed
<1>9. Listed' = Listed
    BY <1>2, <1>8 DEF Listed, Active
<1>10. PICK m \in Nat :
           m = (walk.page - 1) * walk.limit /\ Position = m /\ Position' = m + l
    BY <1>1, <1>2, <1>3, <1>8, Positions DEF Position
<1>11. m <= MaxInt => f = m
    <2>1. SUFFICES ASSUME m <= MaxInt PROVE f = m
        OBVIOUS
    <2>2. o = m
        BY <1>3, <1>10, <2>1, SmallIntsFit DEF Offset
    <2> QED BY <1>3, <2>2 DEF From
<1>12. walk.first = 1 => f = m
    BY <1>1, <1>2, <1>10, <1>11, CountableAssumption, IdSetsAreFinite, ListingAssumption DEF InBounds
<1>13. Typed'
    <2>1. Listed \subseteq Row /\ IdsOf(Listed) \subseteq used
        BY <1>1 DEF Listed, Active, Typed, Keyed, IdsOf
    <2>2. page' \in Seq(Row)
        BY <1>6, <2>1, SeqMonotonic
    <2>3. shown \in Seq(Ids) /\ ToSet(shown) \subseteq used
        BY <1>1 DEF Typed
    <2>4. shown' \in Seq(Ids) /\ ToSet(shown') = ToSet(shown) \cup IdsOf(ToSet(page'))
        <3>1. shown \o q \in Seq(Ids) /\ ToSet(shown \o q) = ToSet(shown) \cup ToSet(q)
            BY <2>3, ConcatIds
        <3>2. shown' = shown \o q /\ ToSet(q) = IdsOf(ToSet(page'))
            BY <1>7
        <3>3. ToSet(shown') = ToSet(shown \o q)
            BY <3>2, Zenon DEF ToSet
        <3> QED BY <3>1, <3>2, <3>3
    <2>5. ToSet(shown') \subseteq used
        BY <1>6, <2>1, <2>3, <2>4 DEF IdsOf
    <2>6. walk' \in [phase : {"idle", "counted", "listed"}, page : Nat \ {0},
                     limit : 1 .. MaxLimit, time : Nat, total : Nat, first : Nat \ {0}]
        BY <1>1, <1>2 DEF Typed
    <2> QED BY <1>1, <1>2, <1>8, <2>2, <2>4, <2>5, <2>6 DEF Typed
<1>14. Keyed'
    BY <1>1, <1>2 DEF Keyed, IdsOf
<1>15. NothingShown'
    <2>1. ASSUME walk.first > 1 PROVE Len(shown') = Cardinality(ToSet(shown'))
        <3>1. shown = <<>>
            BY <1>1, <1>2, <2>1 DEF NothingShown
        <3>2. shown' = q
            BY <1>7, <3>1, ConcatEmptySeq
        <3>3. ToSet(page') \in SUBSET Listed
            BY <1>6
        <3>4. Rows(ToSet(page'))
            BY <1>5, <3>3, PartOfRows
        <3> QED BY <1>7, <3>2, <3>4, IdsOfRows
    <2> QED BY <1>8, <2>1 DEF NothingShown
<1>16. InBounds'
    <2>1. SUFFICES ASSUME walk.first = 1
                   PROVE  IF Len(page') < l
                          THEN \A r \in Listed : Rank(Listed, r) < m + l
                          ELSE m + l <= Cardinality(Ids)
        BY <1>3, <1>8, <1>9, <1>10 DEF InBounds
    <2>2. CASE Len(page') < l
        <3>1. n <= m + l
            BY <1>3, <1>6, <1>12, <2>1, <2>2
        <3>2. \A r \in Listed : Rank(Listed, r) \in Nat /\ Rank(Listed, r) < n
            BY <1>5, RankBound
        <3> QED BY <2>2, <3>1, <3>2
    <2>3. CASE ~(Len(page') < l)
        <3>1. m + l <= n
            BY <1>3, <1>6, <1>12, <2>1, <2>3
        <3>2. Cardinality(Ids) \in Nat
            BY <1>1, IdSetsAreFinite
        <3> QED BY <1>5, <2>3, <3>1, <3>2
    <2> QED BY <2>2, <2>3
<1>17. AllPaid'
    <2>1. SUFFICES ASSUME walk.first = 1 PROVE Paid(Listed, added, start, shown \o q, m + l)
        BY <1>2, <1>7, <1>8, <1>9, <1>10 DEF AllPaid
    <2>2. Paid(Listed, added, start, shown, m)
        BY <1>1, <1>2, <1>10, <2>1 DEF AllPaid
    <2>3. IsFiniteSet(start) /\ IsFiniteSet(added) /\ shown \in Seq(Ids)
        BY <1>1, IdSetsAreFinite DEF Typed
    <2>4. ToSet(page') = {r \in Listed : m <= Rank(Listed, r) /\ Rank(Listed, r) < m + l}
        BY <1>6, <1>12, <2>1
    <2>5. PICK P : P = ToSet(page')
        OBVIOUS
    <2> QED BY <1>5, <1>7, <2>2, <2>3, <2>4, <2>5, PaidPage
<1>18. Counted'
    BY <1>8 DEF Counted
<1>19. TotalFitsPage'
    <2>1. SUFFICES ASSUME ~changed, m <= MaxInt
                   PROVE  Len(page') = IF walk.total - m < 0 THEN 0
                                       ELSE IF walk.total - m < l THEN walk.total - m ELSE l
        BY <1>2, <1>3, <1>8, <1>10 DEF TotalFitsPage
    <2>2. walk.total = n
        BY <1>1, <1>2, <1>5, <2>1 DEF Counted
    <2> QED BY <1>3, <1>6, <1>11, <2>1, <2>2
<1> QED BY <1>13, <1>14, <1>15, <1>16, <1>17, <1>18, <1>19 DEF Inv

---------------------------------------------------------------------------
(* The theorems *)

LEMMA NextInv ==
    ASSUME Inv, [Next]_vars
    PROVE  Inv'
<1>1. ASSUME NEW p \in FirstPages, NEW l \in Limits, Begin(p, l) PROVE Inv'
    BY <1>1, BeginInv
<1>2. CASE Continue
    BY <1>2, ContinueInv
<1>3. CASE ListActiveByUserID
    BY <1>3, ListInv
<1>4. CASE Create
    BY <1>4, CreateInv
<1>5. CASE Rotate
    BY <1>5, RotateInv
<1>6. CASE Revoke
    BY <1>6, RevokeInv
<1>7. CASE Tick
    BY <1>7, TickInv
<1>8. CASE UNCHANGED vars
    <2> USE <1>8 DEF vars
    <2>1. Listed' = Listed /\ Position' = Position
        BY DEF Listed, Active, Position
    <2>2. Typed' /\ Keyed' /\ NothingShown' /\ Counted' /\ TotalFitsPage'
        BY <2>1 DEF Inv, Typed, Keyed, NothingShown, Counted, TotalFitsPage, IdsOf
    <2>3. InBounds' /\ AllPaid'
        BY <2>1 DEF Inv, InBounds, AllPaid
    <2> QED BY <2>2, <2>3 DEF Inv
<1> QED BY <1>1, <1>2, <1>3, <1>4, <1>5, <1>6, <1>7, <1>8 DEF Next

LEMMA Inductive == Spec => []Inv
<1>1. Init => Inv
    BY InitInv
<1>2. Inv /\ [Next]_vars => Inv'
    BY NextInv
<1> QED BY <1>1, <1>2, PTL DEF Spec

\* The types, for any number of sessions and any page size: what ListSessions
\* returns are rows of the account (list_sessions.service.go 37-53).
THEOREM TypeCorrect == Spec => []TypeOK
<1>1. Inv => TypeOK
    <2> SUFFICES ASSUME Typed PROVE TypeOK
        BY DEF Inv
    <2>1. \A k \in DOMAIN shown : shown[k] \in Ids
        BY LenProperties DEF Typed
    <2>2. \A k \in DOMAIN page : page[k] \in Row
        BY LenProperties DEF Typed
    <2>3. walk \in [phase : {"idle", "counted", "listed"}, page : Nat,
                    limit : 1 .. MaxLimit, time : Nat, total : Nat, first : Nat]
        BY DEF Typed
    <2> QED BY <2>1, <2>2, <2>3 DEF Typed, TypeOK
<1> QED BY <1>1, Inductive, PTL

\* The total and the page of one answer fit each other, for every page whose
\* offset an int holds, unless the table changed between the two queries
\* (list_sessions.service.go 37-53).
THEOREM TotalsFitPages == Spec => []TotalFitsPage
<1>1. Inv => TotalFitsPage
    BY DEF Inv
<1> QED BY <1>1, Inductive, PTL

\* A walk shows at most as many sessions twice as came meanwhile
\* (list_active_by_user_id.gorm.go 23-46).
THEOREM RepeatsAreBounded == Spec => []RepeatedOnlyIfAdded
<1>1. ASSUME Inv PROVE RepeatedOnlyIfAdded
    <2>1. /\ shown \in Seq(Ids) /\ Len(shown) \in Nat /\ Cardinality(added) \in Nat
          /\ Cardinality(ToSet(shown)) \in Nat /\ Typed
        BY <1>1, LenProperties, ShownIsFinite, IdSetsAreFinite, FS_CardinalityType DEF Inv, Typed
    <2>2. CASE walk.phase = "idle"
        <3>1. Len(shown) = 0
            BY <1>1, <2>2 DEF Inv, NothingShown
        <3> QED BY <2>1, <3>1 DEF RepeatedOnlyIfAdded
    <2>3. CASE walk.phase # "idle" /\ walk.first = 1
        <3>1. Paid(Listed, added, start, shown, Position)
            BY <1>1, <2>3 DEF Inv, AllPaid
        <3>2. Cardinality(Again(Listed, ToSet(shown), Position)) \in Nat
            <4>1. Rows(Listed)
                BY <1>1, <2>1, TableRows DEF Inv, Listed
            <4>2. Position \in Int
                BY <2>1, Positions
            <4> QED BY <4>1, <4>2, CountsAreNaturals
        <3> QED BY <2>1, <3>1, <3>2 DEF Paid, RepeatedOnlyIfAdded
    <2>4. CASE walk.phase # "idle" /\ walk.first # 1
        <3>1. walk.first > 1 /\ walk.phase \in {"counted", "listed"}
            BY <2>1, <2>4 DEF Typed
        <3>2. Len(shown) = 0 \/ Len(shown) = Cardinality(ToSet(shown))
            BY <1>1, <3>1 DEF Inv, NothingShown
        <3> QED BY <2>1, <3>2 DEF RepeatedOnlyIfAdded
    <2> QED BY <2>2, <2>3, <2>4
<1> QED BY <1>1, Inductive, PTL

\* A walk misses at most as many of the sessions that live through it as went
\* away meanwhile (list_active_by_user_id.gorm.go 23-46, pagination.go 64-71).
THEOREM MissesAreBounded == Spec => []MissedOnlyIfRemoved
<1>1. ASSUME Inv PROVE MissedOnlyIfRemoved
    <2> DEFINE M == (start \cap IdsOf(Listed)) \ ToSet(shown)
               G == (start \cup added) \ IdsOf(Listed)
               B == Behind(Listed, ToSet(shown), start, Position)
    <2>1. SUFFICES ASSUME WalkEnds, walk.first = 1 PROVE Cardinality(M) <= Cardinality(G)
        BY DEF MissedOnlyIfRemoved, Listed
    <2>2. Typed /\ Keyed /\ InBounds /\ AllPaid
        BY <1>1 DEF Inv
    <2>3. walk.phase = "listed" /\ Len(page) < walk.limit
        BY <2>1, <2>2 DEF WalkEnds, Typed
    <2>4. \A r \in Listed : Rank(Listed, r) < Position
        BY <2>1, <2>2, <2>3 DEF InBounds
    <2>5. Cardinality(B) <= Cardinality(G)
        BY <2>1, <2>2, <2>3 DEF AllPaid, Paid
    <2>6. Rows(Listed)
        BY <2>2, TableRows DEF Listed
    <2>7. B \in SUBSET Listed
        BY DEF Behind
    <2>8. Rows(B)
        BY <2>6, <2>7, PartOfRows
    <2>9. IsFiniteSet(IdsOf(B)) /\ Cardinality(IdsOf(B)) = Cardinality(B) /\ Cardinality(B) \in Nat
        BY <2>8, IdsOfRows
    <2>10. M \in SUBSET IdsOf(B)
        BY <2>4 DEF Behind, IdsOf
    <2>11. IsFiniteSet(M) /\ Cardinality(M) <= Cardinality(IdsOf(B))
        BY <2>9, <2>10, FS_Subset
    <2>12. Cardinality(M) \in Nat
        BY <2>11, FS_CardinalityType
    <2>13. Cardinality(G) \in Nat
        <3>1. IsFiniteSet(start \cup added)
            BY <2>2, IdSetsAreFinite, FS_Union
        <3>2. G \in SUBSET (start \cup added)
            OBVIOUS
        <3> QED BY <3>1, <3>2, FS_Subset, FS_CardinalityType
    <2> HIDE DEF M, G, B
    <2> QED BY <2>5, <2>9, <2>11, <2>12, <2>13
<1> QED BY <1>1, Inductive, PTL
============================================================================
