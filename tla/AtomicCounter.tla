--------------------------- MODULE AtomicCounter ---------------------------
(***************************************************************************)
(* What the counter promises its callers: an operation takes effect at one *)
(* instant between its call and its answer, and a call that fails may have *)
(* taken effect or not.                                                    *)
(***************************************************************************)
EXTENDS Integers

CONSTANTS Requests

VARIABLES
    value,      \* the counter
    phase,      \* of a request: "new", "open", "applied", "answered", "failed"
    op,         \* what it asks for: "none", "get" or "inc"
    result      \* what it is told, once it has taken effect

vars == <<value, phase, op, result>>

Init ==
    /\ value = 0
    /\ phase = [r \in Requests |-> "new"]
    /\ op = [r \in Requests |-> "none"]
    /\ result = [r \in Requests |-> 0]

Call(r) ==
    /\ phase[r] = "new"
    /\ phase' = [phase EXCEPT ![r] = "open"]
    /\ \E o \in {"get", "inc"} : op' = [op EXCEPT ![r] = o]
    /\ UNCHANGED <<value, result>>

Apply(r) ==
    /\ phase[r] = "open"
    /\ phase' = [phase EXCEPT ![r] = "applied"]
    /\ value' = IF op[r] = "inc" THEN value + 1 ELSE value
    /\ result' = [result EXCEPT ![r] = value']
    /\ UNCHANGED op

Answer(r) ==
    /\ phase[r] = "applied"
    /\ phase' = [phase EXCEPT ![r] = "answered"]
    /\ UNCHANGED <<value, op, result>>

Fail(r) ==
    /\ phase[r] \in {"open", "applied"}
    /\ phase' = [phase EXCEPT ![r] = "failed"]
    /\ result' = [result EXCEPT ![r] = 0]
    /\ UNCHANGED <<value, op>>

Next == \E r \in Requests : Call(r) \/ Apply(r) \/ Answer(r) \/ Fail(r)

Spec == Init /\ [][Next]_vars
============================================================================
