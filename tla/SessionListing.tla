--------------------------- MODULE SessionListing ---------------------------
(***************************************************************************)
(* GET /api/v1/auth/sessions: a client walks through the pages of one      *)
(* account's active sessions while logins, rotations, revocations and the  *)
(* clock change the list (internal/service/user/list_sessions.service.go,  *)
(* the two queries below it, and internal/model/request/pagination.go).    *)
(***************************************************************************)
EXTENDS Integers, Sequences, FiniteSets, SequencesExt

CONSTANTS
    Ids,            \* ids of rows; random, so any unused one may come next
    TTL,            \* lifetime of a session, in ticks
    Lag,            \* ticks a request takes between its clock readings and the
                    \*   commit that makes its row visible
    MaxTime,        \* bound: how long the clock runs
    FirstPages, Limits,     \* what clients send as page and limit
    DefaultLimit, MaxLimit, \* of pagination.go, scaled down
    MaxInt          \* the largest int, 2^63 - 1 in the program

ASSUME ListingAssumption ==
    /\ Ids \subseteq Nat /\ Limits \subseteq 0 .. MaxLimit
    /\ FirstPages \subseteq 0 .. MaxInt
    /\ TTL \in Nat \ {0} /\ Lag \in Nat /\ MaxTime \in Nat
    /\ DefaultLimit \in 1 .. MaxLimit /\ MaxLimit \in Nat /\ MaxInt \in Nat

\* An int counts the sessions an account ever has.
ASSUME CountableAssumption == IsFiniteSet(Ids) /\ Cardinality(Ids) <= MaxInt

VARIABLES
    now,        \* the clock
    rows,       \* refresh_tokens rows of the account
    used,       \* ids that are or were in use
    walk,       \* the client: its phase, page and limit, the time and the total
                \*   of the answer in the making, the page it began with
    shown,      \* ids it was shown, page after page
    page,       \* the rows of the last answer
    start, added, changed   \* history: ids active when the walk began; ids
                \*   created since; whether the table changed since the count

vars == <<now, rows, used, walk, shown, page, start, added, changed>>

---------------------------------------------------------------------------
(* Pagination *)

\* BindPagination has refused everything but pages and limits from 0 up to
\* MaxLimit; Normalized supplies the defaults.
NormalizedPage(p) == IF p < 1 THEN 1 ELSE p

NormalizedLimit(l) ==
    IF l < 1 THEN DefaultLimit ELSE IF l > MaxLimit THEN MaxLimit ELSE l

\* Go's int arithmetic.
Wrapped(x) == ((x + (MaxInt + 1)) % (2 * (MaxInt + 1))) - (MaxInt + 1)

\* Variant: pages are counted from 0.
OffsetFromZero(p, l) == Wrapped(p * l)

Offset(p, l) == Wrapped((p - 1) * l)

---------------------------------------------------------------------------
(* The queries *)

\* Variant: the count does not filter.
CountEvery(t) == Cardinality(rows)

Active(t) == {r \in rows : r.expires > t}

CountActiveByUserID(t) == Cardinality(Active(t))

\* Variant: ORDER BY created_at only.
NewerByTime(a, b) == a.created >= b.created

\* ORDER BY created_at DESC, id DESC.
Newer(a, b) ==
    a.created > b.created \/ (a.created = b.created /\ a.id > b.id)

\* The orders in which the database may return the rows.
Orders(t) ==
    {s \in SetToSeqs(Active(t)) :
        \A i, j \in DOMAIN s : i < j => Newer(s[i], s[j])}

\* LIMIT and OFFSET; gorm leaves out an offset that is not positive.
Window(s, limit, offset) ==
    LET from == IF offset > 0 THEN offset ELSE 0
    IN SubSeq(s, from + 1, IF from + limit < Len(s) THEN from + limit ELSE Len(s))

---------------------------------------------------------------------------
(* ListSessions: the two reads, with one reading of the clock *)

IdsOf(S) == {r.id : r \in S}

Count(p, l, first) ==
    /\ walk' = [phase |-> "counted", page |-> NormalizedPage(p),
                limit |-> NormalizedLimit(l), time |-> now,
                total |-> CountActiveByUserID(now), first |-> first]
    /\ changed' = FALSE
    /\ UNCHANGED <<now, rows, used, page, added>>

\* The first request of a walk, or the only one, for a later page.
Begin(p, l) ==
    /\ walk.phase = "idle"
    /\ Count(p, l, NormalizedPage(p))
    /\ start' = IdsOf(Active(now))
    /\ UNCHANGED shown

\* Every other one, while pages come back full.
Continue ==
    /\ walk.phase = "listed" /\ Len(page) = walk.limit /\ walk.first = 1
    /\ Count(walk.page + 1, walk.limit, 1)
    /\ UNCHANGED <<start, shown>>

ListActiveByUserID ==
    /\ walk.phase = "counted"
    /\ \E s \in Orders(walk.time) :
           page' = Window(s, walk.limit, Offset(walk.page, walk.limit))
    /\ shown' = shown \o [k \in DOMAIN page' |-> page'[k].id]
    /\ walk' = [walk EXCEPT !.phase = "listed"]
    /\ UNCHANGED <<now, rows, used, start, added, changed>>

---------------------------------------------------------------------------
(* What other requests and the janitor do meanwhile (module UserService) *)

\* The walk is over with a page that is not full; nothing after that matters.
WalkEnds == walk.phase = "listed" /\ (Len(page) < walk.limit \/ walk.first > 1)

Touch ==
    /\ ~ WalkEnds
    /\ changed' = (changed \/ walk.phase = "counted")

\* created_at is read when the row is inserted, expires_at comes from an
\* earlier reading, and the row is visible when its transaction commits.
NewRows ==
    {[id |-> i, created |-> c, expires |-> m + TTL] :
        i \in Ids \ used, c \in now - Lag .. now, m \in now - Lag .. now}

Create ==
    /\ \E r \in NewRows :
        /\ r.expires - TTL <= r.created
        /\ rows' = rows \cup {r}
        /\ used' = used \cup {r.id}
        /\ added' = IF walk.phase = "idle" THEN added ELSE added \cup {r.id}
    /\ Touch
    /\ UNCHANGED <<now, walk, shown, page, start>>

\* Refresh: the row of one session gives way to another.
Rotate ==
    /\ \E old \in rows, r \in NewRows :
        /\ r.expires - TTL <= r.created
        /\ rows' = (rows \ {old}) \cup {r}
        /\ used' = used \cup {r.id}
        /\ added' = IF walk.phase = "idle" THEN added ELSE added \cup {r.id}
    /\ Touch
    /\ UNCHANGED <<now, walk, shown, page, start>>

\* Logout, password change, sweep.
Revoke ==
    /\ \E S \in (SUBSET rows) \ {{}} : rows' = rows \ S
    /\ Touch
    /\ UNCHANGED <<now, used, walk, shown, page, start, added>>

Tick ==
    /\ now < MaxTime /\ ~ WalkEnds
    /\ now' = now + 1
    /\ UNCHANGED <<rows, used, walk, shown, page, start, added, changed>>

---------------------------------------------------------------------------
Init ==
    /\ now = Lag /\ rows = {} /\ used = {}
    /\ walk = [phase |-> "idle", page |-> 1, limit |-> DefaultLimit,
               time |-> 0, total |-> 0, first |-> 1]
    /\ shown = <<>> /\ page = <<>>
    /\ start = {} /\ added = {} /\ changed = FALSE

Next ==
    \/ \E p \in FirstPages, l \in Limits : Begin(p, l)
    \/ Continue \/ ListActiveByUserID
    \/ Create \/ Rotate \/ Revoke \/ Tick

Spec == Init /\ [][Next]_vars

---------------------------------------------------------------------------
(* Properties *)

Row == [id : Ids, created : Nat, expires : Nat]

\* Type correctness.
TypeOK ==
    /\ now \in Nat /\ rows \subseteq Row /\ used \subseteq Ids
    /\ walk \in [phase : {"idle", "counted", "listed"}, page : Nat,
                 limit : 1 .. MaxLimit, time : Nat, total : Nat, first : Nat]
    /\ \A k \in DOMAIN shown : shown[k] \in Ids
    /\ \A k \in DOMAIN page : page[k] \in Row
    /\ start \subseteq Ids /\ added \subseteq Ids /\ changed \in BOOLEAN

\* A session that lives through the walk is left out only for another one
\* that went away meanwhile: at most as many are missed as have gone
\* (list_active_by_user_id.gorm.go 23-46, pagination.go 64-71).
MissedOnlyIfRemoved ==
    WalkEnds /\ walk.first = 1 =>
        LET active == IdsOf(Active(walk.time))
            gone == (start \cup added) \ active
        IN Cardinality((start \cap active) \ ToSet(shown)) <= Cardinality(gone)

\* A session is shown twice only for another one that was created meanwhile.
RepeatedOnlyIfAdded ==
    Len(shown) - Cardinality(ToSet(shown)) <= Cardinality(added)

\* The total fits the page, also one past the end, unless the table changed
\* between the two reads or the offset does not fit an int; that the clock
\* moves between the reads does not matter (list_sessions.service.go 37-53,
\* count_active_by_user_id.gorm.go 15-19, pagination.go 64-71).
TotalFitsPage ==
    LET skipped == (walk.page - 1) * walk.limit
        rest == walk.total - skipped
    IN walk.phase = "listed" /\ ~ changed /\ skipped <= MaxInt =>
        Len(page) = IF rest < 0 THEN 0
                    ELSE IF rest < walk.limit THEN rest ELSE walk.limit

\* A page past the last session is empty: the page is what is left after as
\* many rows were skipped as earlier pages hold (pagination.go 64).
PagePastTheEndIsEmpty ==
    walk.phase = "listed" /\ ~ changed /\ (walk.page - 1) * walk.limit >= walk.total
        => page = <<>>
============================================================================
