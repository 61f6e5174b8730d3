-------------------------- MODULE MigrationProofs --------------------------
(* Any number of instances may migrate one database at the same time, and  *)
(* any of them die at any statement.                                       *)
EXTENDS Migrations, TLAPS

---------------------------------------------------------------------------
(* The inductive invariant *)

\* The statements of each version.
AtVersion(i) ==
    /\ pc[i] \in {"autoMigrate", "create"} => ver[i] = 1
    /\ pc[i] \in {"countCounters", "insertCounter", "countMessages", "insertMessage"}
            => ver[i] = 2
    /\ pc[i] \in {"hasColumn", "drop"} => ver[i] = 3
    /\ pc[i] \in {"record", "commit"} => ver[i] \in Versions

InLoop == {"loop", "autoMigrate", "create", "countCounters", "insertCounter",
           "countMessages", "insertMessage", "hasColumn", "drop", "record", "commit"}

\* What an instance has read is still so, and what it has passed is recorded.
Passed(i) ==
    /\ applied[i] \subseteq ledger
    /\ pc[i] \in InLoop => \A v \in Versions : v < ver[i] => v \in ledger
    /\ pc[i] = "serve" => ledger = Versions

\* The ledger row an instance holds is its version's, and not committed.
RowHeld(i) ==
    /\ tx[i].row # 0 <=> pc[i] = "commit"
    /\ pc[i] = "commit" => tx[i].row = ver[i] /\ ver[i] \notin ledger

\* What its transaction wrote belongs to its version.
OwnWrites(i) ==
    /\ tx[i].made => pc[i] \in {"record", "commit"} /\ ver[i] = 1
    /\ tx[i].counters = 1
            => pc[i] \in {"countMessages", "insertMessage", "record", "commit"} /\ ver[i] = 2
    /\ tx[i].messages = 1 => pc[i] \in {"record", "commit"} /\ ver[i] = 2
    /\ tx[i].dropped => pc[i] \in {"record", "commit"} /\ ver[i] = 3

\* Unless another instance recorded the version first, the transaction has
\* done the whole of it by the time it writes the ledger row.
Done(i) ==
    LET end == pc[i] \in {"record", "commit"}
    IN  ver[i] \notin ledger =>
        /\ ver[i] = 1 /\ end => tx[i].made
        /\ pc[i] \in {"insertCounter", "insertMessage"} => born = "empty"
        /\ ver[i] = 2 /\ (end \/ pc[i] \in {"countMessages", "insertMessage"})
                => (tx[i].counters = 1 <=> born = "empty")
        /\ ver[i] = 2 /\ end => (tx[i].messages = 1 <=> born = "empty")
        /\ pc[i] = "drop" => born = "old"
        /\ ver[i] = 3 /\ end => (tx[i].dropped <=> born = "old")

InstanceOK(i) ==
    AtVersion(i) /\ Passed(i) /\ RowHeld(i) /\ OwnWrites(i) /\ Done(i)

\* No two instances hold the same row.
Distinct(i, j) == tx[i].row = tx[j].row => tx[i].row = 0

Inv ==
    /\ TypeOK /\ LedgerIsPrefix /\ WholeVersions
    /\ \A i \in Instances : InstanceOK(i)
    /\ \A i \in Instances : \A j \in Others(i) : Distinct(i, j)

---------------------------------------------------------------------------
(* Steps that leave the database alone *)

\* Only the instance that took the step has to be looked at.
LEMMA LocalInv ==
    ASSUME Inv, NEW i \in Instances, UNCHANGED database, TypeOK',
           \A j \in Others(i) : /\ pc'[j] = pc[j] /\ applied'[j] = applied[j]
                                /\ ver'[j] = ver[j] /\ tx'[j] = tx[j],
           InstanceOK(i)', \A j \in Others(i) : Distinct(i, j)'
    PROVE  Inv'
<1>0. ledger' = ledger /\ schema' = schema /\ born' = born
  BY DEF database
<1>1. LedgerIsPrefix' /\ WholeVersions'
  BY <1>0 DEF Inv, LedgerIsPrefix, WholeVersions
<1>2. ASSUME NEW j \in Others(i) PROVE InstanceOK(j)'
  BY <1>0 DEF Inv, Others, InstanceOK, AtVersion, Passed, RowHeld, OwnWrites, Done
<1>3. ASSUME NEW a \in Instances, NEW b \in Others(a) PROVE Distinct(a, b)'
  <2>1. CASE a = i
    BY <2>1
  <2>2. CASE b = i
    <3>1. Distinct(i, a)'
      BY <2>2 DEF Others
    <3> QED
      BY <2>2, <3>1 DEF Distinct
  <2>3. CASE a # i /\ b # i
    BY <2>3 DEF Inv, Distinct, Others
  <2> QED
    BY <2>1, <2>2, <2>3
<1> QED
  BY <1>1, <1>2, <1>3 DEF Inv, Others

\* A statement that writes nothing.
LEMMA GotoInv ==
    ASSUME Inv, NEW i \in Instances, NEW s \in Statements \ {"commit"}, Goto(i, s),
           tx[i].row = 0, InstanceOK(i)'
    PROVE  Inv'
<1>1. /\ UNCHANGED <<database, applied, ver, tx, crashes>>
      /\ pc' = [pc EXCEPT ![i] = s]
  BY DEF Goto
<1>2. TypeOK'
  BY <1>1 DEF Inv, TypeOK, database
<1>3. \A j \in Others(i) : Distinct(i, j)'
  BY <1>1 DEF Distinct
<1>4. \A j \in Others(i) : /\ pc'[j] = pc[j] /\ applied'[j] = applied[j]
                           /\ ver'[j] = ver[j] /\ tx'[j] = tx[j]
  BY <1>1 DEF Inv, TypeOK, Others
<1> QED
  BY <1>1, <1>2, <1>3, <1>4, LocalInv

\* A statement that writes, other than the one for the ledger row.
LEMMA WriteInv ==
    ASSUME Inv, NEW i \in Instances, NEW s \in Statements \ {"commit"}, NEW t, Write(i, s, t),
           t \in [made : BOOLEAN, counters : 0 .. 1, messages : 0 .. 1,
                  dropped : BOOLEAN, row : 0 .. 3],
           t.row = 0, InstanceOK(i)'
    PROVE  Inv'
<1>1. /\ UNCHANGED <<database, applied, ver, crashes>>
      /\ pc' = [pc EXCEPT ![i] = s] /\ tx' = [tx EXCEPT ![i] = t]
  BY DEF Write
<1>2. TypeOK'
  BY <1>1 DEF Inv, TypeOK, database
<1>3. tx'[i] = t /\ \A j \in Others(i) : /\ pc'[j] = pc[j] /\ applied'[j] = applied[j]
                                         /\ ver'[j] = ver[j] /\ tx'[j] = tx[j]
  BY <1>1 DEF Inv, TypeOK, Others
<1>4. \A j \in Others(i) : Distinct(i, j)'
  BY <1>3 DEF Distinct
<1> QED
  BY <1>1, <1>2, <1>3, <1>4, LocalInv

\* Giving up, by an error or a crash, holds nothing and claims nothing.
LEMMA DownInv ==
    ASSUME Inv, NEW i \in Instances, Fail(i) \/ Crash(i)
    PROVE  Inv'
<1>1. /\ UNCHANGED <<database, applied, ver>>
      /\ pc' = [pc EXCEPT ![i] = "down"] /\ tx' = [tx EXCEPT ![i] = NoTx]
  BY DEF Fail, Crash
<1>2. TypeOK'
  <2>1. crashes' \in 0 .. MaxCrashes
    BY InstancesAssumption DEF Inv, TypeOK, Fail, Crash
  <2> QED
    BY <1>1, <2>1 DEF Inv, TypeOK, database, NoTx, Statements
<1>3. /\ tx'[i] = NoTx /\ pc'[i] = "down"
      /\ \A j \in Others(i) : /\ pc'[j] = pc[j] /\ applied'[j] = applied[j]
                              /\ ver'[j] = ver[j] /\ tx'[j] = tx[j]
  BY <1>1 DEF Inv, TypeOK, Others
<1>4. InstanceOK(i)'
  <2>1. ver' = ver /\ applied' = applied /\ ledger' = ledger
    BY <1>1 DEF database
  <2> QED
    BY <1>3, <2>1 DEF Inv, InstanceOK, AtVersion, Passed, RowHeld, OwnWrites, Done,
       NoTx, InLoop
<1>5. \A j \in Others(i) : Distinct(i, j)'
  BY <1>3 DEF Distinct, NoTx
<1> QED
  BY <1>1, <1>2, <1>3, <1>4, <1>5, LocalInv

---------------------------------------------------------------------------
(* Each statement *)

\* What the invariant says of the instance that takes a step.
LEMMA Facts ==
    ASSUME Inv, NEW i \in Instances
    PROVE  /\ InstanceOK(i) /\ WholeVersions /\ pc \in [Instances -> Statements]
           /\ tx \in [Instances -> [made : BOOLEAN, counters : 0 .. 1, messages : 0 .. 1,
                                    dropped : BOOLEAN, row : 0 .. 3]]
           /\ ver[i] \in 1 .. 4 /\ born \in {"empty", "old"}
           /\ ledger \subseteq Versions
  BY DEF Inv, TypeOK

\* Booting, and the ledger table.
LEMMA LedgerTableInv ==
    ASSUME Inv, NEW i \in Instances, Boot(i) \/ HasLedger(i) \/ CreateLedger(i)
    PROVE  Inv'
<1>1. ASSUME NEW s \in {"ledger", "createLedger", "read"}, Goto(i, s),
             pc[i] \in {"down", "ledger"}
      PROVE  Inv'
  <2>1. /\ pc'[i] = s /\ ledger' = ledger /\ applied' = applied /\ ver' = ver /\ tx' = tx
        /\ tx[i].row = 0 /\ born' = born
    BY <1>1, Facts DEF Goto, database, InstanceOK, RowHeld
  <2>2. InstanceOK(i)'
    BY <1>1, <2>1, Facts DEF InstanceOK, AtVersion, Passed, RowHeld, OwnWrites, Done, InLoop
  <2> QED
    BY <1>1, <2>1, <2>2, GotoInv DEF Statements
<1>2. CASE pc[i] = "createLedger" /\ ~Fail(i) /\ CreateLedger(i)
  <2>1. /\ pc' = [pc EXCEPT ![i] = "read"] /\ ledgerTable' = TRUE
        /\ UNCHANGED <<ledger, schema, born, applied, ver, tx, crashes>>
    BY <1>2 DEF CreateLedger
  <2>2. TypeOK'
    BY <2>1 DEF Inv, TypeOK, Statements
  <2>3. LedgerIsPrefix' /\ WholeVersions'
    BY <2>1 DEF Inv, LedgerIsPrefix, WholeVersions
  <2>4. ASSUME NEW j \in Instances PROVE InstanceOK(j)'
    <3>1. pc'[j] = IF j = i THEN "read" ELSE pc[j]
      BY <2>1 DEF Inv, TypeOK
    <3>2. InstanceOK(j)
      BY Facts
    <3> QED
      BY <1>2, <2>1, <3>1, <3>2 DEF InstanceOK, AtVersion, Passed, RowHeld, OwnWrites,
         Done, InLoop
  <2>5. \A j \in Instances : \A k \in Others(j) : Distinct(j, k)'
    BY <2>1 DEF Inv, Distinct
  <2> QED
    BY <2>2, <2>3, <2>4, <2>5 DEF Inv, Others
<1>3. CASE Fail(i)
  BY <1>3, DownInv
<1> QED
  BY <1>1, <1>2, <1>3 DEF Boot, HasLedger, CreateLedger

\* Reading the ledger, and skipping a version it had.
LEMMA LoopInv ==
    ASSUME Inv, NEW i \in Instances, AppliedVersions(i) \/ Migrate(i)
    PROVE  Inv'
<1> USE Facts
<1>1. CASE AppliedVersions(i)
  <2>1. /\ applied' = [applied EXCEPT ![i] = ledger] /\ ver' = [ver EXCEPT ![i] = 1]
        /\ pc' = [pc EXCEPT ![i] = "loop"] /\ UNCHANGED <<database, tx, crashes>>
        /\ pc[i] = "read"
    BY <1>1 DEF AppliedVersions
  <2>2. TypeOK'
    BY <2>1 DEF Inv, TypeOK, database, Statements
  <2>3. /\ pc'[i] = "loop" /\ ver'[i] = 1 /\ applied'[i] = ledger /\ tx' = tx
        /\ ledger' = ledger
        /\ \A j \in Others(i) : /\ pc'[j] = pc[j] /\ applied'[j] = applied[j]
                                /\ ver'[j] = ver[j] /\ tx'[j] = tx[j]
    BY <2>1 DEF Inv, TypeOK, Others, database
  <2>4. InstanceOK(i)'
    BY <2>1, <2>3 DEF InstanceOK, AtVersion, Passed, RowHeld, OwnWrites, Done, Versions
  <2>5. \A j \in Others(i) : Distinct(i, j)'
    BY <2>3 DEF Inv, Distinct
  <2> QED
    BY <2>1, <2>2, <2>3, <2>4, <2>5, LocalInv
<1>2. CASE pc[i] = "loop" /\ ver[i] \notin Versions /\ Goto(i, "serve")
  <2>1. /\ pc'[i] = "serve" /\ ledger' = ledger /\ applied' = applied /\ ver' = ver
        /\ tx' = tx /\ tx[i].row = 0 /\ born' = born
    BY <1>2 DEF Goto, database, InstanceOK, RowHeld
  <2>2. ledger = Versions
    BY <1>2 DEF InstanceOK, Passed, InLoop, Versions
  <2>3. InstanceOK(i)'
    BY <1>2, <2>1, <2>2 DEF InstanceOK, AtVersion, Passed, RowHeld, OwnWrites, Done, InLoop
  <2> QED
    BY <1>2, <2>1, <2>3, GotoInv DEF Statements
<1>3. CASE /\ pc[i] = "loop" /\ ver[i] \in Versions \cap applied[i]
           /\ ver' = [ver EXCEPT ![i] = @ + 1]
           /\ UNCHANGED <<database, pc, applied, tx, crashes>>
  <2>1. TypeOK'
    BY <1>3 DEF Inv, TypeOK, database, Versions
  <2>2. /\ ver'[i] = ver[i] + 1 /\ pc' = pc /\ applied' = applied /\ tx' = tx
        /\ ledger' = ledger /\ born' = born /\ \A j \in Others(i) : ver'[j] = ver[j]
    BY <1>3 DEF Inv, TypeOK, Others, database
  <2>3. InstanceOK(i)'
    BY <1>3, <2>2 DEF InstanceOK, AtVersion, Passed, RowHeld, OwnWrites, Done, InLoop, Versions
  <2>4. \A j \in Others(i) : Distinct(i, j)'
    BY <2>2 DEF Inv, Distinct
  <2> QED
    BY <1>3, <2>1, <2>2, <2>3, <2>4, LocalInv
<1>4. CASE pc[i] = "loop" /\ ver[i] \in Versions \ applied[i] /\ Goto(i, Up(ver[i]))
  <2>1. /\ Up(ver[i]) \in {"autoMigrate", "countCounters", "hasColumn"}
        /\ Up(ver[i]) = "autoMigrate" => ver[i] = 1
        /\ Up(ver[i]) = "countCounters" => ver[i] = 2
        /\ Up(ver[i]) = "hasColumn" => ver[i] = 3
    BY <1>4 DEF Up, Versions
  <2>2. PICK s \in {"autoMigrate", "countCounters", "hasColumn"} : s = Up(ver[i])
    BY <2>1
  <2>3. /\ pc'[i] = s /\ ledger' = ledger /\ applied' = applied /\ ver' = ver
        /\ tx' = tx /\ tx[i].row = 0 /\ born' = born
    BY <1>4, <2>2 DEF Goto, database, InstanceOK, RowHeld
  <2>4. InstanceOK(i)'
    BY <1>4, <2>1, <2>2, <2>3 DEF InstanceOK, AtVersion, Passed, RowHeld, OwnWrites, Done, InLoop
  <2> QED
    BY <1>4, <2>2, <2>3, <2>4, GotoInv DEF Statements
<1> QED
  BY <1>1, <1>2, <1>3, <1>4 DEF Migrate

\* The statements of the three versions that only look.
LEMMA LookInv ==
    ASSUME Inv, NEW i \in Instances,
           HasTables(i) \/ CountCounters(i) \/ CountMessages(i) \/ HasColumn(i)
    PROVE  Inv'
<1> USE Facts
<1>1. ASSUME NEW s \in Statements \ {"commit"}, Goto(i, s), tx[i].row = 0,
             pc[i] \in InLoop, s \in InLoop, AtVersion(i)', OwnWrites(i)', Done(i)'
      PROVE  Inv'
  <2>1. /\ pc'[i] = s /\ ledger' = ledger /\ applied' = applied /\ ver' = ver
        /\ tx' = tx /\ born' = born
    BY <1>1 DEF Goto, database
  <2>2. Passed(i)' /\ RowHeld(i)'
    BY <1>1, <2>1 DEF InstanceOK, Passed, RowHeld, InLoop
  <2>3. InstanceOK(i)'
    BY <1>1, <2>2 DEF InstanceOK
  <2> QED
    BY <1>1, <2>3, GotoInv
<1>2. CASE HasTables(i)
  <2>1. PICK s \in {"record", "create"} :
            Goto(i, s) /\ pc[i] = "autoMigrate" /\ (s = "record" <=> schema.tables)
    BY <1>2 DEF HasTables
  <2>2. /\ pc'[i] = s /\ ledger' = ledger /\ ver' = ver /\ tx' = tx /\ born' = born
        /\ tx[i].row = 0 /\ ver[i] = 1
    BY <2>1 DEF Goto, database, InstanceOK, RowHeld, AtVersion
  <2>3. AtVersion(i)' /\ OwnWrites(i)' /\ Done(i)'
    BY <2>1, <2>2 DEF InstanceOK, AtVersion, OwnWrites, Done, WholeVersions, Versions
  <2> QED
    BY <1>1, <2>1, <2>2, <2>3 DEF Statements, InLoop
<1>3. CASE CountCounters(i)
  <2>1. PICK s \in {"insertCounter", "countMessages"} :
            Goto(i, s) /\ pc[i] = "countCounters" /\ (s = "insertCounter" <=> schema.counters = 0)
    BY <1>3 DEF CountCounters
  <2>2. /\ pc'[i] = s /\ ledger' = ledger /\ ver' = ver /\ tx' = tx /\ born' = born
        /\ tx[i].row = 0 /\ ver[i] = 2
    BY <2>1 DEF Goto, database, InstanceOK, RowHeld, AtVersion
  <2>3. AtVersion(i)' /\ OwnWrites(i)' /\ Done(i)'
    BY <2>1, <2>2 DEF InstanceOK, AtVersion, OwnWrites, Done, WholeVersions, Versions
  <2> QED
    BY <1>1, <2>1, <2>2, <2>3 DEF Statements, InLoop
<1>4. CASE CountMessages(i)
  <2>1. PICK s \in {"insertMessage", "record"} :
            Goto(i, s) /\ pc[i] = "countMessages" /\ (s = "insertMessage" <=> schema.messages = 0)
    BY <1>4 DEF CountMessages
  <2>2. /\ pc'[i] = s /\ ledger' = ledger /\ ver' = ver /\ tx' = tx /\ born' = born
        /\ tx[i].row = 0 /\ ver[i] = 2
    BY <2>1 DEF Goto, database, InstanceOK, RowHeld, AtVersion
  <2>3. AtVersion(i)' /\ OwnWrites(i)' /\ Done(i)'
    BY <2>1, <2>2 DEF InstanceOK, AtVersion, OwnWrites, Done, WholeVersions, Versions
  <2> QED
    BY <1>1, <2>1, <2>2, <2>3 DEF Statements, InLoop
<1>5. CASE HasColumn(i)
  <2>1. PICK s \in {"drop", "record"} :
            Goto(i, s) /\ pc[i] = "hasColumn" /\ (s = "drop" <=> schema.token)
    BY <1>5 DEF HasColumn
  <2>2. /\ pc'[i] = s /\ ledger' = ledger /\ ver' = ver /\ tx' = tx /\ born' = born
        /\ tx[i].row = 0 /\ ver[i] = 3
    BY <2>1 DEF Goto, database, InstanceOK, RowHeld, AtVersion
  <2>3. AtVersion(i)' /\ OwnWrites(i)' /\ Done(i)'
    BY <2>1, <2>2 DEF InstanceOK, AtVersion, OwnWrites, Done, WholeVersions, Versions
  <2> QED
    BY <1>1, <2>1, <2>2, <2>3 DEF Statements, InLoop
<1> QED
  BY <1>2, <1>3, <1>4, <1>5

\* What a transaction that has created or dropped something has written.
LEMMA FlagSet ==
    ASSUME NEW x \in [made : BOOLEAN, counters : 0 .. 1, messages : 0 .. 1,
                      dropped : BOOLEAN, row : 0 .. 3]
    PROVE  /\ LET t == [x EXCEPT !.made = TRUE]
              IN  /\ t.made = TRUE /\ t.counters = x.counters /\ t.messages = x.messages
                  /\ t.dropped = x.dropped /\ t.row = x.row
                  /\ t \in [made : BOOLEAN, counters : 0 .. 1, messages : 0 .. 1,
                            dropped : BOOLEAN, row : 0 .. 3]
           /\ LET t == [x EXCEPT !.dropped = TRUE]
              IN  /\ t.made = x.made /\ t.counters = x.counters /\ t.messages = x.messages
                  /\ t.dropped = TRUE /\ t.row = x.row
                  /\ t \in [made : BOOLEAN, counters : 0 .. 1, messages : 0 .. 1,
                            dropped : BOOLEAN, row : 0 .. 3]
  OBVIOUS

\* The statements of the three versions that write.
LEMMA ChangeInv ==
    ASSUME Inv, NEW i \in Instances,
           CreateTables(i) \/ InsertCounter(i) \/ InsertMessage(i) \/ DropColumn(i)
    PROVE  Inv'
<1> USE Facts
<1>0. CASE Fail(i)
  BY <1>0, DownInv
<1>1. ASSUME NEW s \in {"record", "countMessages"}, NEW t, Write(i, s, t),
             t \in [made : BOOLEAN, counters : 0 .. 1, messages : 0 .. 1,
                    dropped : BOOLEAN, row : 0 .. 3], t.row = 0,
             pc[i] \in InLoop, AtVersion(i)', OwnWrites(i)', Done(i)'
      PROVE  Inv'
  <2>1. /\ pc'[i] = s /\ ledger' = ledger /\ applied' = applied /\ ver' = ver
        /\ tx'[i] = t /\ born' = born
    BY <1>1 DEF Write, database
  <2>2. Passed(i)' /\ RowHeld(i)'
    BY <1>1, <2>1 DEF InstanceOK, Passed, RowHeld, InLoop
  <2>3. InstanceOK(i)'
    BY <1>1, <2>2 DEF InstanceOK
  <2> QED
    BY <1>1, <2>3, WriteInv DEF Statements
<1>2. CASE CreateTables(i) /\ ~Fail(i)
  <2> DEFINE t == [tx[i] EXCEPT !.made = TRUE]
  <2>0. tx[i] \in [made : BOOLEAN, counters : 0 .. 1, messages : 0 .. 1,
                   dropped : BOOLEAN, row : 0 .. 3]
    OBVIOUS
  <2>1. pc[i] = "create" /\ Write(i, "record", t)
    BY <1>2 DEF CreateTables
  <2>2. /\ pc'[i] = "record" /\ ledger' = ledger /\ ver' = ver /\ tx'[i] = t /\ born' = born
        /\ tx[i].row = 0 /\ ver[i] = 1
    BY <2>1 DEF Write, database, InstanceOK, RowHeld, AtVersion
  <2>3. /\ t.made = TRUE /\ t.counters = tx[i].counters /\ t.messages = tx[i].messages
        /\ t.dropped = tx[i].dropped /\ t.row = 0
        /\ t \in [made : BOOLEAN, counters : 0 .. 1, messages : 0 .. 1,
                  dropped : BOOLEAN, row : 0 .. 3]
    BY ONLY <2>0, <2>2, FlagSet, ZenonT(30)
  <2> HIDE DEF t
  <2>4. AtVersion(i)' /\ OwnWrites(i)' /\ Done(i)'
    BY <2>1, <2>2, <2>3 DEF InstanceOK, AtVersion, OwnWrites, Done, Versions
  <2> QED
    BY <1>1, <2>1, <2>2, <2>3, <2>4 DEF InLoop
<1>3. CASE InsertCounter(i)
  <2> DEFINE t == [tx[i] EXCEPT !.counters = 1]
  <2>1. pc[i] = "insertCounter" /\ Write(i, "countMessages", t)
    BY <1>3 DEF InsertCounter
  <2>2. /\ pc'[i] = "countMessages" /\ ledger' = ledger /\ ver' = ver /\ tx'[i] = t
        /\ born' = born /\ tx[i].row = 0 /\ ver[i] = 2
    BY <2>1 DEF Write, database, InstanceOK, RowHeld, AtVersion
  <2>3. /\ t.made = tx[i].made /\ t.counters = 1 /\ t.messages = tx[i].messages
        /\ t.dropped = tx[i].dropped /\ t.row = 0
        /\ t \in [made : BOOLEAN, counters : 0 .. 1, messages : 0 .. 1,
                  dropped : BOOLEAN, row : 0 .. 3]
    BY <2>2
  <2> HIDE DEF t
  <2>4. AtVersion(i)' /\ OwnWrites(i)' /\ Done(i)'
    BY <2>1, <2>2, <2>3 DEF InstanceOK, AtVersion, OwnWrites, Done, Versions
  <2> QED
    BY <1>1, <2>1, <2>2, <2>3, <2>4 DEF InLoop
<1>4. CASE InsertMessage(i)
  <2> DEFINE t == [tx[i] EXCEPT !.messages = 1]
  <2>1. pc[i] = "insertMessage" /\ Write(i, "record", t)
    BY <1>4 DEF InsertMessage
  <2>2. /\ pc'[i] = "record" /\ ledger' = ledger /\ ver' = ver /\ tx'[i] = t
        /\ born' = born /\ tx[i].row = 0 /\ ver[i] = 2
    BY <2>1 DEF Write, database, InstanceOK, RowHeld, AtVersion
  <2>3. /\ t.made = tx[i].made /\ t.counters = tx[i].counters /\ t.messages = 1
        /\ t.dropped = tx[i].dropped /\ t.row = 0
        /\ t \in [made : BOOLEAN, counters : 0 .. 1, messages : 0 .. 1,
                  dropped : BOOLEAN, row : 0 .. 3]
    BY <2>2
  <2> HIDE DEF t
  <2>4. AtVersion(i)' /\ OwnWrites(i)' /\ Done(i)'
    BY <2>1, <2>2, <2>3 DEF InstanceOK, AtVersion, OwnWrites, Done, Versions
  <2> QED
    BY <1>1, <2>1, <2>2, <2>3, <2>4 DEF InLoop
<1>5. CASE DropColumn(i) /\ ~Fail(i)
  <2> DEFINE t == [tx[i] EXCEPT !.dropped = TRUE]
  <2>0. tx[i] \in [made : BOOLEAN, counters : 0 .. 1, messages : 0 .. 1,
                   dropped : BOOLEAN, row : 0 .. 3]
    OBVIOUS
  <2>1. pc[i] = "drop" /\ Write(i, "record", t)
    BY <1>5 DEF DropColumn
  <2>2. /\ pc'[i] = "record" /\ ledger' = ledger /\ ver' = ver /\ tx'[i] = t
        /\ born' = born /\ tx[i].row = 0 /\ ver[i] = 3
    BY <2>1 DEF Write, database, InstanceOK, RowHeld, AtVersion
  <2>3. /\ t.made = tx[i].made /\ t.counters = tx[i].counters
        /\ t.messages = tx[i].messages /\ t.dropped = TRUE /\ t.row = 0
        /\ t \in [made : BOOLEAN, counters : 0 .. 1, messages : 0 .. 1,
                  dropped : BOOLEAN, row : 0 .. 3]
    BY ONLY <2>0, <2>2, FlagSet, ZenonT(30)
  <2> HIDE DEF t
  <2>4. AtVersion(i)' /\ OwnWrites(i)' /\ Done(i)'
    BY <2>1, <2>2, <2>3 DEF InstanceOK, AtVersion, OwnWrites, Done, Versions
  <2> QED
    BY <1>1, <2>1, <2>2, <2>3, <2>4 DEF InLoop
<1> QED
  BY <1>0, <1>2, <1>3, <1>4, <1>5

\* The primary key lets one instance at a time hold the row of a version.
LEMMA RecordInv ==
    ASSUME Inv, NEW i \in Instances, RecordVersion(i)
    PROVE  Inv'
<1> USE Facts
<1>1. CASE Fail(i)
  BY <1>1, DownInv
<1>2. CASE ~Fail(i)
  <2> DEFINE t == [tx[i] EXCEPT !.row = ver[i]]
  <2>1. /\ pc[i] = "record" /\ ver[i] \notin ledger /\ Write(i, "commit", t)
        /\ \A j \in Others(i) : tx[j].row # ver[i]
    BY <1>2 DEF RecordVersion
  <2>2. /\ UNCHANGED <<database, applied, ver, crashes>>
        /\ pc' = [pc EXCEPT ![i] = "commit"] /\ tx' = [tx EXCEPT ![i] = t]
    BY <2>1 DEF Write
  <2>3. /\ pc'[i] = "commit" /\ tx'[i] = t /\ ledger' = ledger /\ ver' = ver
        /\ applied' = applied /\ born' = born /\ ver[i] \in Versions
        /\ \A j \in Others(i) : /\ pc'[j] = pc[j] /\ applied'[j] = applied[j]
                                /\ ver'[j] = ver[j] /\ tx'[j] = tx[j]
    BY <2>1, <2>2 DEF Others, database, InstanceOK, AtVersion
  <2>4. /\ t.made = tx[i].made /\ t.counters = tx[i].counters
        /\ t.messages = tx[i].messages /\ t.dropped = tx[i].dropped /\ t.row = ver[i]
        /\ t \in [made : BOOLEAN, counters : 0 .. 1, messages : 0 .. 1,
                  dropped : BOOLEAN, row : 0 .. 3]
    BY <2>3 DEF Versions
  <2> HIDE DEF t
  <2>5. TypeOK'
    BY <2>2, <2>4 DEF Inv, TypeOK, database, Statements
  <2>6. InstanceOK(i)'
    <3>1. AtVersion(i)' /\ Passed(i)' /\ RowHeld(i)'
      BY <2>1, <2>3, <2>4 DEF InstanceOK, AtVersion, Passed, RowHeld, InLoop, Versions
    <3>2. OwnWrites(i)' /\ Done(i)'
      BY <2>1, <2>3, <2>4 DEF InstanceOK, OwnWrites, Done
    <3> QED
      BY <3>1, <3>2 DEF InstanceOK
  <2>7. \A j \in Others(i) : Distinct(i, j)'
    BY <2>1, <2>3, <2>4 DEF Distinct
  <2> QED
    BY <2>2, <2>3, <2>5, <2>6, <2>7, LocalInv
<1> QED
  BY <1>1, <1>2

\* The commit publishes a version and its row, or nothing.
LEMMA CommitInv ==
    ASSUME Inv, NEW i \in Instances, Commit(i)
    PROVE  Inv'
<1> USE Facts
<1> DEFINE v == ver[i]
<1>1. /\ pc[i] = "commit" /\ tx[i].row = v /\ v \in Versions /\ v \notin ledger
      /\ \A u \in Versions : u < v => u \in ledger
      /\ OwnWrites(i) /\ Done(i)
  BY DEF Commit, InstanceOK, RowHeld, AtVersion, Passed, InLoop
<1>2. /\ ledger' = ledger \cup {v} /\ born' = born /\ applied' = applied
      /\ ledgerTable' = ledgerTable /\ crashes' = crashes
      /\ tx' = [tx EXCEPT ![i] = NoTx] /\ pc' = [pc EXCEPT ![i] = "loop"]
      /\ ver' = [ver EXCEPT ![i] = v + 1]
  BY <1>1 DEF Commit
<1>3. /\ schema'.tables = (schema.tables \/ tx[i].made)
      /\ schema'.token = (schema.token /\ ~tx[i].dropped)
      /\ schema'.counters = schema.counters + tx[i].counters
      /\ schema'.messages = schema.messages + tx[i].messages
      /\ schema' = [tables |-> schema'.tables, token |-> schema'.token,
                    counters |-> schema'.counters, messages |-> schema'.messages]
  BY DEF Commit
<1>4. /\ tx[i].counters \in 0 .. 1 /\ tx[i].messages \in 0 .. 1
      /\ tx[i].made \in BOOLEAN /\ tx[i].dropped \in BOOLEAN
      /\ schema.tables \in BOOLEAN /\ schema.token \in BOOLEAN
  BY DEF Inv, TypeOK
<1>5. WholeVersions'
  <2>1. CASE v = 1
    <3>1. tx[i].made /\ tx[i].counters = 0 /\ tx[i].messages = 0 /\ ~tx[i].dropped
      BY <1>1, <1>4, <2>1 DEF OwnWrites, Done
    <3> QED
      BY <1>2, <1>3, <1>4, <2>1, <3>1 DEF WholeVersions
  <2>2. CASE v = 2
    <3>1. /\ ~tx[i].made /\ ~tx[i].dropped
          /\ tx[i].counters = (IF born = "empty" THEN 1 ELSE 0)
          /\ tx[i].messages = (IF born = "empty" THEN 1 ELSE 0)
      BY <1>1, <1>4, <2>2 DEF OwnWrites, Done
    <3> QED
      BY <1>1, <1>2, <1>3, <1>4, <2>2, <3>1 DEF WholeVersions
  <2>3. CASE v = 3
    <3>1. /\ ~tx[i].made /\ tx[i].counters = 0 /\ tx[i].messages = 0
          /\ tx[i].dropped <=> born = "old"
      BY <1>1, <1>4, <2>3 DEF OwnWrites, Done
    <3> QED
      BY <1>2, <1>3, <1>4, <2>3, <3>1 DEF WholeVersions
  <2> QED
    BY <1>1, <2>1, <2>2, <2>3 DEF Versions
<1>6. LedgerIsPrefix'
  <2>1. ASSUME NEW u \in ledger' PROVE 1 .. u \subseteq ledger'
    <3>1. CASE u \in ledger
      BY <1>2, <3>1 DEF Inv, LedgerIsPrefix
    <3>2. CASE u = v
      <4>1. ASSUME NEW k \in 1 .. v PROVE k \in ledger \cup {v}
        <5>1. k \in Versions /\ (k < v \/ k = v)
          BY <1>1 DEF Versions
        <5> QED
          BY <1>1, <5>1
      <4> QED
        BY <1>2, <3>2, <4>1
    <3> QED
      BY <1>2, <2>1, <3>1, <3>2
  <2> QED
    BY <2>1 DEF LedgerIsPrefix
<1>7. TypeOK'
  <2>1. schema'.counters \in 0 .. 1 /\ schema'.messages \in 0 .. 1
    BY <1>5, <1>2 DEF WholeVersions
  <2>2. schema'.tables \in BOOLEAN /\ schema'.token \in BOOLEAN
    BY <1>3
  <2>3. schema' \in [tables : BOOLEAN, token : BOOLEAN, counters : 0 .. 1,
                     messages : 0 .. 1]
    BY <1>3, <2>1, <2>2
  <2> HIDE DEF v
  <2>4. v + 1 \in 1 .. 4 /\ ledger' \subseteq Versions
    BY <1>1, <1>2 DEF Versions
  <2> QED
    BY <1>2, <2>3, <2>4 DEF Inv, TypeOK, Statements, NoTx
<1>8. /\ pc'[i] = "loop" /\ ver'[i] = v + 1 /\ tx'[i] = NoTx
      /\ \A j \in Others(i) : pc'[j] = pc[j] /\ ver'[j] = ver[j] /\ tx'[j] = tx[j]
  BY <1>2 DEF Inv, TypeOK, Others
<1>9. ASSUME NEW j \in Instances PROVE InstanceOK(j)'
  <2>1. CASE j = i
    BY <1>1, <1>2, <1>8, <2>1 DEF InstanceOK, AtVersion, Passed, RowHeld, OwnWrites, Done,
       NoTx, InLoop, Versions
  <2>2. CASE j # i
    <3>1. /\ j \in Others(i) /\ InstanceOK(j) /\ Distinct(j, i) /\ ver[j] \in 1 .. 4
          /\ i \in Others(j)
      BY <2>2 DEF Inv, Others, TypeOK
    <3>2. AtVersion(j)' /\ OwnWrites(j)' /\ Done(j)'
      BY <1>2, <1>8, <3>1 DEF InstanceOK, AtVersion, OwnWrites, Done
    <3>3. Passed(j)'
      BY <1>1, <1>2, <1>8, <3>1 DEF InstanceOK, Passed
    <3>4. RowHeld(j)'
      BY <1>1, <1>2, <1>8, <3>1 DEF InstanceOK, RowHeld, Distinct, Versions
    <3> QED
      BY <3>2, <3>3, <3>4 DEF InstanceOK
  <2> QED
    BY <2>1, <2>2
<1>10. ASSUME NEW j \in Instances, NEW k \in Others(j) PROVE Distinct(j, k)'
  <2>1. k \in Instances /\ Distinct(j, k)
    BY DEF Inv, Others
  <2> QED
    BY <1>2, <2>1 DEF Distinct, NoTx
<1> QED
  BY <1>5, <1>6, <1>7, <1>9, <1>10 DEF Inv, Others

---------------------------------------------------------------------------
(* The theorems *)

\* A database without a ledger: no instance has started.
LEMMA InitInv == Init => Inv
<1> SUFFICES ASSUME Init PROVE Inv
  OBVIOUS
<1>1. TypeOK
  <2>1. schema \in [tables : BOOLEAN, token : BOOLEAN, counters : 0 .. 1,
                    messages : 0 .. 1]
    BY DEF Init
  <2>2. tx \in [Instances -> [made : BOOLEAN, counters : 0 .. 1, messages : 0 .. 1,
                              dropped : BOOLEAN, row : 0 .. 3]]
    BY DEF Init, NoTx
  <2>3. crashes \in 0 .. MaxCrashes
    BY InstancesAssumption DEF Init
  <2>4. ledgerTable \in BOOLEAN /\ ledger \subseteq Versions
    BY DEF Init
  <2> QED
    BY <2>1, <2>2, <2>3, <2>4 DEF Init, TypeOK, Statements
<1>2. LedgerIsPrefix /\ WholeVersions
  BY DEF Init, LedgerIsPrefix, WholeVersions
<1>3. \A i \in Instances : InstanceOK(i)
  <2> SUFFICES ASSUME NEW i \in Instances PROVE InstanceOK(i)
    OBVIOUS
  <2>1. /\ pc[i] = "down" /\ ver[i] = 1 /\ applied[i] = {} /\ ledger = {}
        /\ tx[i].row = 0 /\ tx[i].made = FALSE /\ tx[i].dropped = FALSE
        /\ tx[i].counters = 0 /\ tx[i].messages = 0
    BY DEF Init, NoTx
  <2> QED
    BY <2>1 DEF InstanceOK, AtVersion, Passed, RowHeld, OwnWrites, Done, InLoop
<1>4. \A i \in Instances : \A j \in Others(i) : Distinct(i, j)
  BY DEF Init, Distinct, NoTx, Others
<1> QED
  BY <1>1, <1>2, <1>3, <1>4 DEF Inv

\* Every statement of every instance keeps it.
LEMMA NextInv == Inv /\ [Next]_vars => Inv'
<1>1. ASSUME Inv, UNCHANGED vars PROVE Inv'
  BY <1>1 DEF vars, Inv, TypeOK, LedgerIsPrefix, WholeVersions, InstanceOK, AtVersion,
     Passed, RowHeld, OwnWrites, Done, Distinct
<1>2. ASSUME Inv, NEW i \in Instances, Boot(i) \/ Step(i) \/ Crash(i) PROVE Inv'
  <2>1. CASE Boot(i) \/ HasLedger(i) \/ CreateLedger(i)
    BY <1>2, <2>1, LedgerTableInv
  <2>2. CASE AppliedVersions(i) \/ Migrate(i)
    BY <1>2, <2>2, LoopInv
  <2>3. CASE HasTables(i) \/ CountCounters(i) \/ CountMessages(i) \/ HasColumn(i)
    BY <1>2, <2>3, LookInv
  <2>4. CASE CreateTables(i) \/ InsertCounter(i) \/ InsertMessage(i) \/ DropColumn(i)
    BY <1>2, <2>4, ChangeInv
  <2>5. CASE RecordVersion(i)
    BY <1>2, <2>5, RecordInv
  <2>6. CASE Commit(i)
    BY <1>2, <2>6, CommitInv
  <2>7. CASE Crash(i)
    BY <1>2, <2>7, DownInv
  <2> QED
    BY <1>2, <2>1, <2>2, <2>3, <2>4, <2>5, <2>6, <2>7 DEF Step
<1> QED
  BY <1>1, <1>2 DEF Next

\* Whatever instances boot together and wherever they die, the invariant holds.
LEMMA Invariance == Spec => []Inv
  BY InitInv, NextInv, PTL DEF Spec

\* The loop of Migrate, working from a ledger that others extend, applies the
\* versions in order and skips none.
THEOREM InOrder == Spec => []LedgerIsPrefix
<1>1. Inv => LedgerIsPrefix
  BY DEF Inv
<1> QED
  BY <1>1, Invariance, PTL

\* applyMigration: the schema is always what the recorded versions make of it.
THEOREM NeverHalfway == Spec => []WholeVersions
<1>1. Inv => WholeVersions
  BY DEF Inv
<1> QED
  BY <1>1, Invariance, PTL

\* An instance that gets past Migrate serves a database at the last version.
THEOREM ServesLastVersion == Spec => []ServesMigrated
<1>1. Inv => ServesMigrated
  BY DEF Inv, InstanceOK, Passed, ServesMigrated
<1> QED
  BY <1>1, Invariance, PTL

\* The primary key of the ledger: whoever commits a version is the first to.
THEOREM OncePerVersion == Spec => EachVersionOnce
<1>1. ASSUME Inv, Next, NEW k \in Instances, pc[k] = "commit", pc'[k] = "loop"
      PROVE  ledger' # ledger
  <2>1. PICK i \in Instances : Boot(i) \/ Step(i) \/ Crash(i)
    BY <1>1 DEF Next
  <2>2. i = k
    <3> SUFFICES ASSUME i # k PROVE pc'[k] = pc[k]
      BY <1>1
    <3> QED
      BY <1>1, <2>1 DEF Inv, TypeOK, Boot, Step, Crash, Goto, Write, Fail, HasLedger,
         CreateLedger, AppliedVersions, Migrate, HasTables, CreateTables, CountCounters,
         InsertCounter, CountMessages, InsertMessage, HasColumn, DropColumn,
         RecordVersion, Commit
  <2>3. Commit(k)
    BY <1>1, <2>1, <2>2 DEF Inv, TypeOK, Boot, Step, Crash, HasLedger, CreateLedger,
       AppliedVersions, Migrate, HasTables, CreateTables, CountCounters, InsertCounter,
       CountMessages, InsertMessage, HasColumn, DropColumn, RecordVersion
  <2>4. tx[k].row \notin ledger
    BY <1>1 DEF Inv, InstanceOK, RowHeld
  <2> QED
    BY <2>3, <2>4 DEF Commit
<1>2. Inv /\ [Next]_vars => [\A i \in Instances :
            pc[i] = "commit" /\ pc'[i] = "loop" => ledger' # ledger]_vars
  BY <1>1
<1> QED
  BY <1>2, Invariance, PTL DEF Spec, EachVersionOnce

\* Type correctness, for any number of instances and of deaths: Migrate never
\* leaves its list of versions and never seeds a row twice (migrate.go 97-127).
THEOREM TypeCorrect == Spec => []TypeOK
<1>1. Inv => TypeOK
  BY DEF Inv
<1> QED
  BY <1>1, Invariance, PTL

---------------------------------------------------------------------------
(* The race has a winner *)

\* An instance works on a version that it did not read from the ledger.
NotRead(i) == pc[i] \in InLoop \ {"loop"} => ver[i] \notin applied[i]

\* Nothing of what the others committed is news to instance i.
UpToDate(i) ==
    \/ pc[i] \in {"ledger", "read", "serve"}
    \/ pc[i] \in InLoop /\ \A v \in ledger : v < ver[i] \/ v \in applied[i]

\* Unless a process died, there is an instance that the last commit did not
\* bring down and will not.
OneUpToDate == ledgerTable /\ crashes = 0 => \E i \in Instances : UpToDate(i)

WinInv == (\A i \in Instances : NotRead(i)) /\ OneUpToDate

\* The statement an instance is at does not wait for a transaction of another.
Unblocked(i) ==
    /\ pc[i] \notin {"down", "serve"}
    /\ pc[i] = "create" => \A j \in Others(i) : ~tx[j].made
    /\ pc[i] = "drop" => \A j \in Others(i) : ~tx[j].dropped
    /\ pc[i] = "record" => \A j \in Others(i) : tx[j].row # ver[i]

\* SomebodyGoesOn, with the waits of the statements in place of ENABLED.
RaceHasWinner ==
    ledgerTable =>
        \/ \E i \in Instances : pc[i] = "serve" \/ Unblocked(i)
        \/ crashes > 0 /\ \A i \in Instances : pc[i] = "down"

\* What a statement of i leaves alone.
LEMMA Frame ==
    ASSUME Inv, NEW i \in Instances, Boot(i) \/ Step(i) \/ Crash(i),
           NEW j \in Instances, j # i
    PROVE  pc'[j] = pc[j] /\ ver'[j] = ver[j] /\ applied'[j] = applied[j]
BY DEF Inv, TypeOK, Boot, Step, Crash, Goto, Write, Fail, HasLedger, CreateLedger,
   AppliedVersions, Migrate, HasTables, CreateTables, CountCounters, InsertCounter,
   CountMessages, InsertMessage, HasColumn, DropColumn, RecordVersion, Commit

\* Up leads to a statement of the loop's body.
LEMMA UpInBody == \A v \in Versions : Up(v) \in InLoop \ {"loop"}
BY DEF Up, Versions, InLoop

LEMMA NotReadStep ==
    ASSUME Inv, WinInv, NEW i \in Instances, Boot(i) \/ Step(i) \/ Crash(i)
    PROVE  \A j \in Instances : NotRead(j)'
<1> SUFFICES ASSUME NEW j \in Instances PROVE NotRead(j)'
  OBVIOUS
<1>0. NotRead(i) /\ NotRead(j)
  BY DEF WinInv
<1>1. CASE j # i
  BY <1>0, <1>1, Frame DEF NotRead
<1>2. CASE j = i
  <2>1. CASE Boot(i) \/ HasLedger(i) \/ CreateLedger(i) \/ AppliedVersions(i) \/ Crash(i)
             \/ Commit(i)
    BY <1>2, <2>1 DEF Inv, TypeOK, NotRead, InLoop, Boot, HasLedger, CreateLedger,
       AppliedVersions, Crash, Commit, Goto, Fail
  <2>2. CASE Migrate(i)
    BY <1>2, <2>2, UpInBody DEF Inv, TypeOK, NotRead, InLoop, Migrate, Goto
  <2>3. CASE HasTables(i) \/ CountCounters(i) \/ CountMessages(i) \/ HasColumn(i)
    BY <1>0, <1>2, <2>3 DEF Inv, TypeOK, NotRead, InLoop, HasTables, CountCounters,
       CountMessages, HasColumn, Goto
  <2>4. CASE CreateTables(i) \/ InsertCounter(i) \/ InsertMessage(i) \/ DropColumn(i)
             \/ RecordVersion(i)
    BY <1>0, <1>2, <2>4 DEF Inv, TypeOK, NotRead, InLoop, CreateTables, InsertCounter,
       InsertMessage, DropColumn, RecordVersion, Write, Fail
  <2> QED
    BY <2>1, <2>2, <2>3, <2>4 DEF Step
<1> QED
  BY <1>1, <1>2

\* Whoever commits is up to date: the versions are recorded in order.
LEMMA CommitterUpToDate ==
    ASSUME Inv, NEW i \in Instances, Commit(i)
    PROVE  UpToDate(i)'
<1>1. ver[i] \in Versions /\ tx[i].row = ver[i] /\ ver[i] \notin ledger
  BY DEF Inv, InstanceOK, AtVersion, RowHeld, Commit
<1>2. ledger' = ledger \cup {ver[i]} /\ pc'[i] = "loop" /\ ver'[i] = ver[i] + 1
  BY <1>1 DEF Inv, TypeOK, Commit
<1>3. ASSUME NEW v \in ledger PROVE v < ver[i]
  <2>1. v \in Nat /\ ver[i] \in Nat /\ ver[i] >= 1 /\ 1 .. v \subseteq ledger
    BY <1>1 DEF Inv, TypeOK, LedgerIsPrefix, Versions
  <2> QED
    BY <1>1, <2>1
<1>4. \A v \in ledger' : v < ver'[i]
  <2> SUFFICES ASSUME NEW v \in ledger' PROVE v < ver[i] + 1
    BY <1>2
  <2>1. v = ver[i] \/ v < ver[i]
    BY <1>2, <1>3
  <2>2. v \in Nat /\ ver[i] \in Nat
    <3>1. ver[i] \in Nat
      BY <1>1 DEF Versions
    <3>2. ledger \subseteq Nat
      BY DEF Inv, TypeOK, Versions
    <3> QED
      BY <1>2, <3>1, <3>2
  <2> QED
    BY <2>1, <2>2
<1> QED
  BY <1>2, <1>4 DEF UpToDate, InLoop

\* An instance that is up to date does not fail, nor fall behind by itself.
LEMMA StaysUpToDate ==
    ASSUME Inv, WinInv, NEW i \in Instances, Boot(i) \/ Step(i), ledgerTable,
           UpToDate(i), ledger' = ledger
    PROVE  UpToDate(i)'
<1>0. NotRead(i) /\ AtVersion(i) /\ Done(i) /\ WholeVersions
  BY DEF WinInv, Inv, InstanceOK
<1>1. CASE Boot(i) \/ HasLedger(i) \/ CreateLedger(i)
  BY <1>1 DEF Inv, TypeOK, UpToDate, InLoop, Boot, HasLedger, CreateLedger, Goto
<1>2. CASE AppliedVersions(i)
  BY <1>2 DEF Inv, TypeOK, UpToDate, InLoop, AppliedVersions
<1>3. CASE Migrate(i)
  BY <1>3, UpInBody DEF Inv, TypeOK, Versions, UpToDate, InLoop, Migrate, Goto
<1>4. CASE HasTables(i) \/ CountCounters(i) \/ CountMessages(i) \/ HasColumn(i)
  BY <1>4 DEF Inv, TypeOK, UpToDate, InLoop, HasTables, CountCounters, CountMessages,
     HasColumn, Goto
<1>5. CASE InsertCounter(i) \/ InsertMessage(i)
  BY <1>5 DEF Inv, TypeOK, UpToDate, InLoop, InsertCounter, InsertMessage, Write
<1>6. pc[i] \in {"create", "drop", "record"} => ver[i] \in Versions \ ledger
  BY <1>0 DEF Inv, TypeOK, Versions, UpToDate, NotRead, AtVersion, InLoop
<1>7. CASE CreateTables(i)
  <2>1. ~schema.tables
    BY <1>0, <1>6, <1>7 DEF CreateTables, AtVersion, WholeVersions
  <2> QED
    BY <1>7, <2>1 DEF Inv, TypeOK, UpToDate, InLoop, CreateTables, Write
<1>8. CASE DropColumn(i)
  <2>1. schema.token
    BY <1>0, <1>6, <1>8 DEF DropColumn, AtVersion, Done, WholeVersions
  <2> QED
    BY <1>8, <2>1 DEF Inv, TypeOK, UpToDate, InLoop, DropColumn, Write
<1>9. CASE RecordVersion(i)
  BY <1>6, <1>9 DEF Inv, TypeOK, UpToDate, InLoop, RecordVersion, Write
<1>10. CASE Commit(i)
  BY <1>10, CommitterUpToDate
<1> QED
  BY <1>1, <1>2, <1>3, <1>4, <1>5, <1>7, <1>8, <1>9, <1>10 DEF Step

LEMMA OneUpToDateStep ==
    ASSUME Inv, WinInv, NEW i \in Instances, Boot(i) \/ Step(i) \/ Crash(i)
    PROVE  OneUpToDate'
<1>1. CASE Crash(i)
  BY <1>1 DEF Inv, TypeOK, Crash, OneUpToDate
<1>2. CASE Commit(i)
  BY <1>2, CommitterUpToDate DEF OneUpToDate
<1>3. CASE ~ ledgerTable
  BY <1>3 DEF Inv, TypeOK, OneUpToDate, UpToDate, Boot, Step, Crash, Goto, Write, Fail,
     HasLedger, CreateLedger, AppliedVersions, Migrate, HasTables, CreateTables,
     CountCounters, InsertCounter, CountMessages, InsertMessage, HasColumn, DropColumn,
     RecordVersion, Commit, database
<1>4. CASE ledgerTable /\ ~ Commit(i) /\ ~ Crash(i)
  <2>1. ledger' = ledger /\ crashes' = crashes
    BY <1>4 DEF Boot, Step, Goto, Write, Fail, HasLedger, CreateLedger, AppliedVersions,
       Migrate, HasTables, CreateTables, CountCounters, InsertCounter, CountMessages,
       InsertMessage, HasColumn, DropColumn, RecordVersion, database
  <2>2. SUFFICES ASSUME crashes = 0 PROVE \E k \in Instances : UpToDate(k)'
    BY <2>1 DEF OneUpToDate
  <2>3. PICK w \in Instances : UpToDate(w)
    BY <1>4, <2>2 DEF WinInv, OneUpToDate
  <2>4. CASE w = i
    BY <1>4, <2>1, <2>3, <2>4, StaysUpToDate
  <2>5. CASE w # i
    <3>1. pc'[w] = pc[w] /\ ver'[w] = ver[w] /\ applied'[w] = applied[w]
      BY <2>5, Frame
    <3> QED
      BY <2>1, <2>3, <3>1 DEF UpToDate
  <2> QED
    BY <2>4, <2>5
<1> QED
  BY <1>1, <1>2, <1>3, <1>4

LEMMA WinInvariance == Spec => []WinInv
<1>1. Init => WinInv
  BY DEF Init, WinInv, NotRead, InLoop, OneUpToDate
<1>2. Inv /\ WinInv /\ [Next]_vars => WinInv'
  <2>1. CASE UNCHANGED vars
    BY <2>1 DEF vars, WinInv, NotRead, OneUpToDate, UpToDate
  <2>2. ASSUME Inv, WinInv, NEW i \in Instances, Boot(i) \/ Step(i) \/ Crash(i)
        PROVE  WinInv'
    BY <2>2, NotReadStep, OneUpToDateStep DEF WinInv
  <2> QED
    BY <2>1, <2>2 DEF Next
<1> QED
  BY <1>1, <1>2, Invariance, PTL DEF Spec

\* Who waits, waits in the end for an instance that is about to commit.
LEMMA NoCycle ==
    ASSUME Inv, NEW i \in Instances, pc[i] \notin {"down", "serve"}
    PROVE  \E k \in Instances : Unblocked(k)
<1>1. ASSUME NEW k \in Instances, pc[k] = "commit" PROVE Unblocked(k)
  BY <1>1 DEF Unblocked
<1>2. ASSUME NEW k \in Instances, pc[k] = "record" PROVE \E l \in Instances : Unblocked(l)
  <2>1. CASE \A j \in Others(k) : tx[j].row # ver[k]
    BY <1>2, <2>1 DEF Unblocked
  <2>2. CASE \E j \in Others(k) : tx[j].row = ver[k]
    <3>1. PICK j \in Others(k) : tx[j].row = ver[k]
      BY <2>2
    <3>2. j \in Instances /\ ver[k] # 0
      BY <1>2 DEF Others, Inv, InstanceOK, AtVersion, Versions
    <3>3. pc[j] = "commit"
      BY <3>1, <3>2 DEF Inv, InstanceOK, RowHeld
    <3> QED
      BY <1>1, <3>2, <3>3
  <2> QED
    BY <2>1, <2>2
<1>3. CASE pc[i] \in {"create", "drop"} /\ ~ Unblocked(i)
  <2>1. PICK j \in Others(i) : tx[j].made \/ tx[j].dropped
    BY <1>3 DEF Unblocked
  <2>2. j \in Instances /\ pc[j] \in {"record", "commit"}
    BY <2>1 DEF Others, Inv, InstanceOK, OwnWrites
  <2> QED
    BY <1>1, <1>2, <2>2
<1>4. CASE pc[i] \notin {"create", "drop", "record"}
  BY <1>4 DEF Unblocked
<1> QED
  BY <1>2, <1>3, <1>4

\* However many instances boot together, they never all fail on what another
\* one did and never all wait for each other: once there is a ledger, one of
\* them serves or can run its next statement, unless a process died and all
\* are down (migrate.go 82-127, the locks of the statements and the primary
\* key of schema_migrations).
THEOREM RaceIsWon == Spec => []RaceHasWinner
<1>1. ASSUME Inv, WinInv PROVE RaceHasWinner
  <2> SUFFICES ASSUME ledgerTable,
                      \A i \in Instances : pc[i] # "serve" /\ ~ Unblocked(i)
               PROVE  crashes > 0 /\ \A i \in Instances : pc[i] = "down"
    BY DEF RaceHasWinner
  <2>1. \A i \in Instances : pc[i] = "down"
    BY <1>1, NoCycle
  <2>2. \A i \in Instances : ~ UpToDate(i)
    BY <2>1 DEF UpToDate, InLoop
  <2>3. crashes # 0
    BY <1>1, <2>2 DEF WinInv, OneUpToDate
  <2> QED
    BY <1>1, <2>1, <2>3 DEF Inv, TypeOK
<1> QED
  BY <1>1, Invariance, WinInvariance, PTL
============================================================================
