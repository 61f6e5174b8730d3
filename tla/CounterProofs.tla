--------------------------- MODULE CounterProofs ---------------------------
(***************************************************************************)
(* The counter implements the atomic counter, for any number of requests   *)
(* on either database.                                                     *)
(*                                                                         *)
(* The refinement mapping alone is not enough: that the commit adds one to *)
(* the row needs that nobody committed since the row was read.  On         *)
(* Postgres the row lock says so from the read on, on sqlite the write     *)
(* lock says so from the save on.                                          *)
(***************************************************************************)
EXTENDS Counter, TLAPS

\* A saved copy is one ahead of the row, and its transaction holds the lock.
SavedIsNext ==
    \A r \in Requests : stage[r] = "saved" =>
        holder = r /\ op[r] = "inc" /\ counter[r] = row + 1

\* A copy read under the row lock is current.
ReadIsCurrent ==
    \A r \in Requests : stage[r] = "read" =>
        op[r] = "inc" /\ (dialect = "postgres" => holder = r /\ counter[r] = row)

\* A request that has not started has no result.
NewIsEmpty == \A r \in Requests : stage[r] = "new" => counter[r] = 0

Inv == TypeOK /\ SavedIsNext /\ ReadIsCurrent /\ NewIsEmpty

---------------------------------------------------------------------------
(* The invariant *)

LEMMA InitInv == Init => Inv
BY CounterAssumption DEF Init, Inv, TypeOK, Stages, SavedIsNext, ReadIsCurrent, NewIsEmpty

LEMMA StepInv ==
    ASSUME Inv, NEW r \in Requests, Start(r) \/ Step(r) \/ Fail(r)
    PROVE  Inv'
<1> USE CounterAssumption DEF Go, Release, Stages
<1>1. CASE Start(r)
    <2>1. TypeOK'
        BY <1>1 DEF Start, Inv, TypeOK
    <2>2. SavedIsNext' /\ ReadIsCurrent' /\ NewIsEmpty'
        BY <1>1 DEF Start, Inv, TypeOK, SavedIsNext, ReadIsCurrent, NewIsEmpty
    <2> QED BY <2>1, <2>2 DEF Inv
<1>2. CASE GetCounter(r)
    <2>1. TypeOK'
        BY <1>2 DEF GetCounter, Inv, TypeOK
    <2>2. SavedIsNext' /\ ReadIsCurrent' /\ NewIsEmpty'
        BY <1>2 DEF GetCounter, Inv, TypeOK, SavedIsNext, ReadIsCurrent, NewIsEmpty
    <2> QED BY <2>1, <2>2 DEF Inv
<1>3. CASE First(r)
    <2>1. TypeOK'
        BY <1>3 DEF First, Inv, TypeOK
    <2>2. SavedIsNext'
        BY <1>3 DEF First, Inv, TypeOK, SavedIsNext
    <2>3. ReadIsCurrent' /\ NewIsEmpty'
        BY <1>3 DEF First, Inv, TypeOK, ReadIsCurrent, NewIsEmpty
    <2> QED BY <2>1, <2>2, <2>3 DEF Inv
<1>4. CASE Save(r)
    <2>1. TypeOK'
        BY <1>4 DEF Save, Inv, TypeOK
    <2>2. counter[r] = row /\ op[r] = "inc" /\ holder' = r
        BY <1>4 DEF Save, Writable, Inv, TypeOK, ReadIsCurrent
    <2>3. SavedIsNext'
        <3>1. \A s \in Requests : s # r => stage[s] # "saved"
            BY <1>4 DEF Save, Writable, Inv, TypeOK, SavedIsNext, ReadIsCurrent
        <3> QED BY <1>4, <2>2, <3>1 DEF Save, Inv, TypeOK, SavedIsNext
    <2>4. ReadIsCurrent' /\ NewIsEmpty'
        BY <1>4 DEF Save, Inv, TypeOK, ReadIsCurrent, NewIsEmpty
    <2> QED BY <2>1, <2>3, <2>4 DEF Inv
<1>5. CASE Busy(r)
    <2>1. TypeOK'
        BY <1>5 DEF Busy, Inv, TypeOK
    <2>2. SavedIsNext' /\ ReadIsCurrent' /\ NewIsEmpty'
        BY <1>5 DEF Busy, Inv, TypeOK, SavedIsNext, ReadIsCurrent, NewIsEmpty
    <2> QED BY <2>1, <2>2 DEF Inv
<1>6. CASE Commit(r)
    <2>1. TypeOK'
        BY <1>6 DEF Commit, Inv, TypeOK
    <2>2. \A s \in Requests :
              s # r => stage[s] # "saved" /\ ~ (stage[s] = "read" /\ dialect = "postgres")
        BY <1>6 DEF Commit, Inv, SavedIsNext, ReadIsCurrent
    <2>3. SavedIsNext' /\ ReadIsCurrent' /\ NewIsEmpty'
        BY <1>6, <2>2 DEF Commit, Inv, TypeOK, SavedIsNext, ReadIsCurrent, NewIsEmpty
    <2> QED BY <2>1, <2>3 DEF Inv
<1>7. CASE Answer(r)
    <2>1. TypeOK'
        BY <1>7 DEF Answer, Inv, TypeOK
    <2>2. SavedIsNext' /\ ReadIsCurrent' /\ NewIsEmpty'
        BY <1>7 DEF Answer, Inv, TypeOK, SavedIsNext, ReadIsCurrent, NewIsEmpty
    <2> QED BY <2>1, <2>2 DEF Inv
<1>8. CASE Fail(r)
    <2>1. TypeOK'
        BY <1>8 DEF Fail, Inv, TypeOK
    <2>2. SavedIsNext' /\ ReadIsCurrent' /\ NewIsEmpty'
        BY <1>8 DEF Fail, Inv, TypeOK, SavedIsNext, ReadIsCurrent, NewIsEmpty
    <2> QED BY <2>1, <2>2 DEF Inv
<1> QED BY <1>1, <1>2, <1>3, <1>4, <1>5, <1>6, <1>7, <1>8 DEF Step

LEMMA StutterInv == Inv /\ UNCHANGED vars => Inv'
BY DEF Inv, TypeOK, SavedIsNext, ReadIsCurrent, NewIsEmpty, vars

LEMMA Invariance == Spec => []Inv
<1>1. Inv /\ [Next]_vars => Inv'
    BY StepInv, StutterInv DEF Next
<1> QED BY InitInv, <1>1, PTL DEF Spec

\* No two transactions have an increment saved and not yet committed.
OneSaves ==
    \A r, s \in Requests : stage[r] = "saved" /\ stage[s] = "saved" => r = s

\* Two increments never save from the same value of the row: the lock of the
\* first excludes the second until it commits or is rolled back
\* (increment_counter.gorm.go 23-34).
THEOREM OneSavesHolds == Spec => [](TypeOK /\ OneSaves)
<1>1. Inv => TypeOK /\ OneSaves
    BY DEF Inv, SavedIsNext, OneSaves
<1> QED BY Invariance, <1>1, PTL

---------------------------------------------------------------------------
(* The refinement *)

LEMMA InitRefines == Init => Atomic!Init
BY DEF Init, Atomic!Init, Phase

\* The commit of an increment and the read of a GET are where they take
\* effect; what a transaction does before its commit is not seen.
LEMMA StepRefines ==
    ASSUME Inv, Inv', NEW r \in Requests, Start(r) \/ Step(r) \/ Fail(r)
    PROVE  Atomic!Call(r) \/ Atomic!Apply(r) \/ Atomic!Answer(r)
           \/ Atomic!Fail(r) \/ UNCHANGED Atomic!vars
<1> USE DEF Go, Release, Phase, Stages
<1>1. CASE Start(r)
    <2>1. [s \in Requests |-> Phase(s)]' =
              [[s \in Requests |-> Phase(s)] EXCEPT ![r] = "open"]
        BY <1>1 DEF Start, Inv, TypeOK
    <2>2. \A s \in Requests :
              (IF Phase(s)' = "open" THEN 0 ELSE counter'[s]) =
              (IF Phase(s) = "open" THEN 0 ELSE counter[s])
        BY <1>1 DEF Start, Inv, TypeOK, NewIsEmpty
    <2>3. Phase(r) = "new" /\ row' = row
          /\ \E o \in {"get", "inc"} : op' = [op EXCEPT ![r] = o]
        BY <1>1 DEF Start
    <2>4. Atomic!Call(r)
        BY <2>1, <2>2, <2>3, Zenon DEF Atomic!Call
    <2> QED BY <2>4
<1>2. CASE GetCounter(r)
    <2>1. Atomic!Apply(r)
        BY <1>2 DEF GetCounter, Atomic!Apply, Inv, TypeOK
    <2> QED BY <2>1
<1>3. CASE First(r) \/ Save(r)
    <2>1. UNCHANGED Atomic!vars
        BY <1>3 DEF First, Save, Atomic!vars, Inv, TypeOK
    <2> QED BY <2>1
<1>4. CASE Commit(r)
    <2>1. counter[r] = row + 1 /\ op[r] = "inc"
        BY <1>4 DEF Commit, Inv, SavedIsNext
    <2>2. Atomic!Apply(r)
        BY <1>4, <2>1 DEF Commit, Atomic!Apply, Inv, TypeOK
    <2> QED BY <2>2
<1>5. CASE Answer(r)
    <2>1. Atomic!Answer(r)
        BY <1>5 DEF Answer, Atomic!Answer, Inv, TypeOK
    <2> QED BY <2>1
<1>6. CASE Busy(r) \/ Fail(r)
    <2>1. Atomic!Fail(r)
        BY <1>6 DEF Busy, Fail, Atomic!Fail, Inv, TypeOK
    <2> QED BY <2>1
<1> QED BY <1>1, <1>2, <1>3, <1>4, <1>5, <1>6 DEF Step

LEMMA NextRefines == Inv /\ Inv' /\ [Next]_vars => [Atomic!Next]_(Atomic!vars)
<1>1. ASSUME Inv, Inv', Next
      PROVE  Atomic!Next \/ UNCHANGED Atomic!vars
    BY <1>1, StepRefines DEF Next, Atomic!Next
<1>2. UNCHANGED vars => UNCHANGED Atomic!vars
    BY DEF vars, Atomic!vars, Phase
<1> QED BY <1>1, <1>2

\* For any number of requests, on Postgres and on sqlite, with transactions
\* that fail or die at any point, the counter is linearizable: no increment is
\* lost, counted twice or seen before its commit (increment_counter.gorm.go
\* 13-37, get_counter.gorm.go 10-23).
THEOREM CounterIsLinearizable == Spec => Linearizable
<1> QED BY InitRefines, NextRefines, Invariance, PTL DEF Spec, Linearizable, Atomic!Spec
============================================================================
