------------------------------ MODULE Counter ------------------------------
(***************************************************************************)
(* The counter (internal/repository/implementations/counter and the        *)
(* service and handler above it): one row, read by GET and read, increased *)
(* and saved in a transaction by POST.                                     *)
(*                                                                         *)
(* On Postgres the read takes the row lock.  On sqlite FOR UPDATE is       *)
(* dropped, the write takes the one writer lock, and a transaction whose   *)
(* snapshot is no longer current cannot write (SQLITE_BUSY).               *)
(***************************************************************************)
EXTENDS Integers

CONSTANTS
    Requests,   \* calls of clients; a retry is another request
    NoRequest   \* nobody

ASSUME CounterAssumption == NoRequest \notin Requests

VARIABLES
    dialect,    \* of the database: "postgres" or "sqlite"
    row,        \* counters.value as committed
    holder,     \* the transaction that holds the row (Postgres) or the write
                \*   lock (sqlite)
    stage,      \* where a request is
    op,         \* what it asks for
    counter     \* its local copy of the row

vars == <<dialect, row, holder, stage, op, counter>>

Go(r, s) == stage' = [stage EXCEPT ![r] = s]

Release(r) == holder' = IF holder = r THEN NoRequest ELSE holder

---------------------------------------------------------------------------
(* The handlers and the checks at the top of the repository methods *)

\* GET or POST /api/v1/counter, down to the check of the context.
Start(r) ==
    /\ stage[r] = "new"
    /\ Go(r, "started")
    /\ \E o \in {"get", "inc"} : op' = [op EXCEPT ![r] = o]
    /\ UNCHANGED <<dialect, row, holder, counter>>

\* GetCounter: one read of the committed row.
GetCounter(r) ==
    /\ stage[r] = "started" /\ op[r] = "get"
    /\ counter' = [counter EXCEPT ![r] = row]
    /\ Go(r, "applied")
    /\ UNCHANGED <<dialect, row, holder, op>>

---------------------------------------------------------------------------
(* IncrementCounter: the transaction *)

\* Variant: First without clause.Locking.
FirstUnlocked(r) ==
    /\ stage[r] = "started" /\ op[r] = "inc"
    /\ counter' = [counter EXCEPT ![r] = row]
    /\ Go(r, "read")
    /\ UNCHANGED <<dialect, row, holder, op>>

\* First, FOR UPDATE where the dialect knows it.
First(r) ==
    /\ stage[r] = "started" /\ op[r] = "inc"
    /\ \/ dialect = "sqlite" /\ UNCHANGED holder
       \/ dialect = "postgres" /\ holder = NoRequest /\ holder' = r
    /\ counter' = [counter EXCEPT ![r] = row]
    /\ Go(r, "read")
    /\ UNCHANGED <<dialect, row, op>>

\* The sqlite write lock is given to a current snapshot only.
Writable(r) ==
    dialect = "sqlite" => holder = NoRequest /\ counter[r] = row

\* counter.Value++ and Save.
Save(r) ==
    /\ stage[r] = "read" /\ Writable(r)
    /\ counter' = [counter EXCEPT ![r] = @ + 1]
    /\ holder' = IF dialect = "sqlite" THEN r ELSE holder
    /\ Go(r, "saved")
    /\ UNCHANGED <<dialect, row, op>>

\* SQLITE_BUSY: the transaction is rolled back and the request fails.
Busy(r) ==
    /\ stage[r] = "read" /\ ~ Writable(r)
    /\ Go(r, "failed")
    /\ counter' = [counter EXCEPT ![r] = 0]
    /\ UNCHANGED <<dialect, row, holder, op>>

\* Variant: the lock is not given back.
CommitKeepsLock(r) ==
    /\ stage[r] = "saved"
    /\ row' = counter[r]
    /\ Go(r, "applied")
    /\ UNCHANGED <<dialect, holder, op, counter>>

Commit(r) ==
    /\ stage[r] = "saved"
    /\ row' = counter[r]
    /\ Release(r)
    /\ Go(r, "applied")
    /\ UNCHANGED <<dialect, op, counter>>

---------------------------------------------------------------------------
(* Answers *)

\* 200 with the value.
Answer(r) ==
    /\ stage[r] = "applied"
    /\ Go(r, "answered")
    /\ UNCHANGED <<dialect, row, holder, op, counter>>

\* The context is done at the first check, a statement fails, the connection
\* or the process dies: what is not committed is rolled back, the service
\* wraps the error and the handler answers 500.  After the commit only the
\* answer is lost.
Fail(r) ==
    /\ stage[r] \in {"started", "read", "saved", "applied"}
    /\ Go(r, "failed")
    /\ counter' = [counter EXCEPT ![r] = 0]
    /\ Release(r)
    /\ UNCHANGED <<dialect, row, op>>

---------------------------------------------------------------------------
\* The seeded row.
Init ==
    /\ dialect \in {"postgres", "sqlite"}
    /\ row = 0
    /\ holder = NoRequest
    /\ stage = [r \in Requests |-> "new"]
    /\ op = [r \in Requests |-> "none"]
    /\ counter = [r \in Requests |-> 0]

\* What a request does by itself.
Step(r) ==
    \/ GetCounter(r) \/ First(r) \/ Save(r) \/ Busy(r) \/ Commit(r) \/ Answer(r)

Next == \E r \in Requests : Start(r) \/ Step(r) \/ Fail(r)

Spec == Init /\ [][Next]_vars

\* Goroutines are scheduled; nobody else has to call and nothing has to fail.
FairSpec == Spec /\ \A r \in Requests : WF_vars(Step(r))

---------------------------------------------------------------------------
(* Properties *)

Stages == {"new", "started", "read", "saved", "applied", "answered", "failed"}

\* Type correctness.
TypeOK ==
    /\ dialect \in {"postgres", "sqlite"}
    /\ row \in Nat
    /\ holder \in Requests \cup {NoRequest}
    /\ stage \in [Requests -> Stages]
    /\ op \in [Requests -> {"none", "get", "inc"}]
    /\ counter \in [Requests -> Nat]

\* The counter is linearizable: every increment and every read takes effect
\* at once between its call and its answer, and one that fails has either
\* taken effect as a whole or not at all (increment_counter.gorm.go 13-37,
\* get_counter.gorm.go 10-23).
Phase(r) == IF stage[r] \in {"started", "read", "saved"} THEN "open" ELSE stage[r]

Atomic == INSTANCE AtomicCounter WITH
    value <- row,
    phase <- [r \in Requests |-> Phase(r)],
    result <- [r \in Requests |-> IF Phase(r) = "open" THEN 0 ELSE counter[r]]

Linearizable == Atomic!Spec

\* Every request is answered or fails, although increments wait for the row
\* and a stale one cannot write (increment_counter.gorm.go 23-34).
EveryCallEnds ==
    \A r \in Requests :
        stage[r] = "started" ~> stage[r] \in {"answered", "failed"}
============================================================================
