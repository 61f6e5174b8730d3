----------------------------- MODULE Migrations -----------------------------
(***************************************************************************)
(* platform.Migrate (internal/platform/migrate.go) on Postgres, run by     *)
(* every instance that boots (di.NewContainer).  Nothing coordinates the   *)
(* instances but the locks of the statements and the primary key of the    *)
(* ledger.  Each version runs in a transaction with its ledger row.        *)
(***************************************************************************)
EXTENDS Naturals

CONSTANTS
    Instances,  \* processes that boot against the database
    MaxCrashes  \* bound: how often a process dies while it migrates

ASSUME InstancesAssumption == MaxCrashes \in Nat

Versions == 1 .. 3

VARIABLES
    ledgerTable,    \* schema_migrations exists
    ledger,         \* its committed rows
    schema,         \* what is committed: whether the tables have the shape of
                    \*   the entities, the column that held tokens in the clear,
                    \*   and how many rows counters and messages have
    born,           \* history: the database the first instance found
    pc,             \* next statement of each instance
    applied,        \* the versions it read from the ledger
    ver,            \* the version its loop is at
    tx,             \* what its open transaction has written
    crashes         \* processes that died so far (bounded by MaxCrashes)

vars == <<ledgerTable, ledger, schema, born, pc, applied, ver, tx, crashes>>

\* made: tables created or extended; row: ledger row inserted, 0 for none.
NoTx == [made |-> FALSE, counters |-> 0, messages |-> 0, dropped |-> FALSE,
         row |-> 0]

Statements == {"down", "ledger", "createLedger", "read", "loop", "autoMigrate",
               "create", "countCounters", "insertCounter", "countMessages",
               "insertMessage", "hasColumn", "drop", "record", "commit",
               "serve"}

TypeOK ==
    /\ ledgerTable \in BOOLEAN /\ ledger \subseteq Versions
    /\ schema \in [tables : BOOLEAN, token : BOOLEAN, counters : 0 .. 1,
                  messages : 0 .. 1]
    /\ born \in {"empty", "old"}
    /\ pc \in [Instances -> Statements]
    /\ applied \in [Instances -> SUBSET Versions]
    /\ ver \in [Instances -> 1 .. 4]
    /\ tx \in [Instances -> [made : BOOLEAN, counters : 0 .. 1, messages : 0 .. 1,
                             dropped : BOOLEAN, row : 0 .. 3]]
    /\ crashes \in 0 .. MaxCrashes

---------------------------------------------------------------------------
Others(i) == Instances \ {i}

database == <<ledgerTable, ledger, schema, born>>

\* The next statement is s; nothing is written.
Goto(i, s) ==
    /\ pc' = [pc EXCEPT ![i] = s]
    /\ UNCHANGED <<database, applied, ver, tx, crashes>>

\* A statement of the open transaction of i, then s.
Write(i, s, t) ==
    /\ pc' = [pc EXCEPT ![i] = s]
    /\ tx' = [tx EXCEPT ![i] = t]
    /\ UNCHANGED <<database, applied, ver, crashes>>

\* An error rolls the transaction back; Migrate returns it, NewContainer
\* returns it and the process exits.
Fail(i) ==
    /\ pc' = [pc EXCEPT ![i] = "down"]
    /\ tx' = [tx EXCEPT ![i] = NoTx]
    /\ UNCHANGED <<database, applied, ver, crashes>>

Boot(i) == pc[i] = "down" /\ Goto(i, "ledger")

---------------------------------------------------------------------------
(* The ledger *)

\* AutoMigrate(&schemaMigration{}): look for the table ...
HasLedger(i) ==
    /\ pc[i] = "ledger"
    /\ Goto(i, IF ledgerTable THEN "read" ELSE "createLedger")

\* ... and create it, unless another instance did so since.
CreateLedger(i) ==
    /\ pc[i] = "createLedger"
    /\ \/ ledgerTable /\ Fail(i)
       \/ /\ ~ledgerTable
          /\ ledgerTable' = TRUE
          /\ pc' = [pc EXCEPT ![i] = "read"]
          /\ UNCHANGED <<ledger, schema, born, applied, ver, tx, crashes>>

\* Variant: the loop starts one migration too late.
AppliedVersionsSkipFirst(i) ==
    /\ pc[i] = "read"
    /\ applied' = [applied EXCEPT ![i] = ledger]
    /\ ver' = [ver EXCEPT ![i] = 2]
    /\ pc' = [pc EXCEPT ![i] = "loop"]
    /\ UNCHANGED <<database, tx, crashes>>

\* appliedVersions, read once.
AppliedVersions(i) ==
    /\ pc[i] = "read"
    /\ applied' = [applied EXCEPT ![i] = ledger]
    /\ ver' = [ver EXCEPT ![i] = 1]
    /\ pc' = [pc EXCEPT ![i] = "loop"]
    /\ UNCHANGED <<database, tx, crashes>>

\* The first statement of the Up function of version v.
Up(v) == CASE v = 1 -> "autoMigrate" [] v = 2 -> "countCounters" [] v = 3 -> "hasColumn"

\* Variant: a version that is in the ledger ends the loop.
MigrateStopsEarly(i) ==
    /\ pc[i] = "loop"
    /\ IF ver[i] \in applied[i] \/ ver[i] \notin Versions
       THEN Goto(i, "serve") ELSE Goto(i, Up(ver[i]))

\* The loop over the list of migrations.
Migrate(i) ==
    /\ pc[i] = "loop"
    /\ \/ ver[i] \notin Versions /\ Goto(i, "serve")
       \/ /\ ver[i] \in Versions \cap applied[i]
          /\ ver' = [ver EXCEPT ![i] = @ + 1]
          /\ UNCHANGED <<database, pc, applied, tx, crashes>>
       \/ ver[i] \in Versions \ applied[i] /\ Goto(i, Up(ver[i]))

---------------------------------------------------------------------------
(* Version 1: AutoMigrate of the entities *)

HasTables(i) ==
    /\ pc[i] = "autoMigrate"
    /\ Goto(i, IF schema.tables THEN "record" ELSE "create")

\* DDL waits for the uncommitted DDL of others and fails if it is done.
CreateTables(i) ==
    /\ pc[i] = "create"
    /\ \A j \in Others(i) : ~tx[j].made
    /\ \/ schema.tables /\ Fail(i)
       \/ ~schema.tables /\ Write(i, "record", [tx[i] EXCEPT !.made = TRUE])

---------------------------------------------------------------------------
(* Version 2: seed *)

CountCounters(i) ==
    /\ pc[i] = "countCounters"
    /\ Goto(i, IF schema.counters = 0 THEN "insertCounter" ELSE "countMessages")

InsertCounter(i) ==
    /\ pc[i] = "insertCounter"
    /\ Write(i, "countMessages", [tx[i] EXCEPT !.counters = 1])

CountMessages(i) ==
    /\ pc[i] = "countMessages"
    /\ Goto(i, IF schema.messages = 0 THEN "insertMessage" ELSE "record")

InsertMessage(i) ==
    /\ pc[i] = "insertMessage"
    /\ Write(i, "record", [tx[i] EXCEPT !.messages = 1])

---------------------------------------------------------------------------
(* Version 3: dropLegacyRefreshTokenColumn *)

HasColumn(i) ==
    /\ pc[i] = "hasColumn"
    /\ Goto(i, IF schema.token THEN "drop" ELSE "record")

DropColumn(i) ==
    /\ pc[i] = "drop"
    /\ \A j \in Others(i) : ~tx[j].dropped
    /\ \/ ~schema.token /\ Fail(i)
       \/ schema.token /\ Write(i, "record", [tx[i] EXCEPT !.dropped = TRUE])

---------------------------------------------------------------------------
(* applyMigration: the ledger row, and the commit of both *)

\* Variant: the ledger row is written unconditionally (upsert).
UpsertLedgerRow(i) ==
    /\ pc[i] = "record"
    /\ Write(i, "commit", [tx[i] EXCEPT !.row = ver[i]])

\* The primary key: wait for an uncommitted row of the same version, fail if
\* there is a committed one.
RecordVersion(i) ==
    /\ pc[i] = "record"
    /\ \A j \in Others(i) : tx[j].row # ver[i]
    /\ \/ ver[i] \in ledger /\ Fail(i)
       \/ /\ ver[i] \notin ledger
          /\ Write(i, "commit", [tx[i] EXCEPT !.row = ver[i]])

\* Variant: the ledger row is not part of the transaction.
CommitWithoutRow(i) ==
    /\ pc[i] = "commit"
    /\ schema' = [tables |-> schema.tables \/ tx[i].made,
                  token  |-> schema.token /\ ~tx[i].dropped,
                  counters |-> schema.counters + tx[i].counters,
                  messages |-> schema.messages + tx[i].messages]
    /\ \/ ledger' = ledger \cup {tx[i].row}
       \/ ledger' = ledger
    /\ tx' = [tx EXCEPT ![i] = NoTx]
    /\ pc' = [pc EXCEPT ![i] = "loop"]
    /\ ver' = [ver EXCEPT ![i] = @ + 1]
    /\ UNCHANGED <<ledgerTable, born, applied, crashes>>

\* Variant: the loop does not get past a version it has applied.
CommitAndRepeat(i) ==
    /\ pc[i] = "commit"
    /\ ledger' = ledger \cup {tx[i].row}
    /\ tx' = [tx EXCEPT ![i] = NoTx]
    /\ pc' = [pc EXCEPT ![i] = "loop"]
    /\ UNCHANGED <<ledgerTable, schema, born, applied, ver, crashes>>

Commit(i) ==
    /\ pc[i] = "commit"
    /\ schema' = [tables |-> schema.tables \/ tx[i].made,
                  token  |-> schema.token /\ ~tx[i].dropped,
                  counters |-> schema.counters + tx[i].counters,
                  messages |-> schema.messages + tx[i].messages]
    /\ ledger' = ledger \cup {tx[i].row}
    /\ tx' = [tx EXCEPT ![i] = NoTx]
    /\ pc' = [pc EXCEPT ![i] = "loop"]
    /\ ver' = [ver EXCEPT ![i] = @ + 1]
    /\ UNCHANGED <<ledgerTable, born, applied, crashes>>

\* The process dies, or its connection does, before any statement.
Crash(i) ==
    /\ pc[i] \notin {"down", "serve"}
    /\ crashes < MaxCrashes
    /\ crashes' = crashes + 1
    /\ pc' = [pc EXCEPT ![i] = "down"]
    /\ tx' = [tx EXCEPT ![i] = NoTx]
    /\ UNCHANGED <<database, applied, ver>>

---------------------------------------------------------------------------
\* An empty database, or one that an early release, which had no ledger,
\* created and seeded.
Init ==
    /\ born \in {"empty", "old"}
    /\ ledgerTable = FALSE /\ ledger = {}
    /\ schema = IF born = "empty"
                THEN [tables |-> FALSE, token |-> FALSE, counters |-> 0, messages |-> 0]
                ELSE [tables |-> FALSE, token |-> TRUE, counters |-> 1, messages |-> 1]
    /\ pc = [i \in Instances |-> "down"]
    /\ applied = [i \in Instances |-> {}]
    /\ ver = [i \in Instances |-> 1]
    /\ tx = [i \in Instances |-> NoTx]
    /\ crashes = 0

Step(i) ==
    \/ HasLedger(i) \/ CreateLedger(i) \/ AppliedVersions(i) \/ Migrate(i)
    \/ HasTables(i) \/ CreateTables(i)
    \/ CountCounters(i) \/ InsertCounter(i) \/ CountMessages(i) \/ InsertMessage(i)
    \/ HasColumn(i) \/ DropColumn(i)
    \/ RecordVersion(i) \/ Commit(i)

Next == \E i \in Instances : Boot(i) \/ Step(i) \/ Crash(i)

Spec == Init /\ [][Next]_vars

---------------------------------------------------------------------------
(* Properties *)

\* Versions are applied in order and none is skipped, although every instance
\* works from the ledger as it read it once (migrate.go 97-110).
LedgerIsPrefix == \A v \in ledger : 1 .. v \subseteq ledger

\* The schema is what the recorded versions made of it, never halfway through
\* one: neither a change without its row nor a row without its change
\* (migrate.go 82-84, 115-127).
WholeVersions ==
    /\ schema.tables <=> 1 \in ledger
    /\ schema.counters = (IF born = "old" \/ 2 \in ledger THEN 1 ELSE 0)
    /\ schema.messages = schema.counters
    /\ schema.token <=> born = "old" /\ 3 \notin ledger

\* An instance serves only a database at the last version (container.go
\* 139-143), seeded once.
ServesMigrated == \A i \in Instances : pc[i] = "serve" => ledger = Versions

\* Two instances never commit the same version (migrate.go 24-32): a commit
\* always adds a row.
EachVersionOnce ==
    [][\A i \in Instances : pc[i] = "commit" /\ pc'[i] = "loop" => ledger' # ledger]_vars

\* The race has a winner: unless a process died and all are down, some instance
\* serves or can take its next statement. The instances never all fail, each
\* on what another one did, nor all wait for each other (migrate.go 86-90);
\* every statement leads on to serving or failing, so one gets to serve.
SomebodyGoesOn ==
    ledgerTable =>
        \/ \E i \in Instances : pc[i] = "serve" \/ ENABLED Step(i)
        \/ crashes > 0 /\ \A i \in Instances : pc[i] = "down"
=============================================================================
