------------------------------ MODULE RandPool ------------------------------
(***************************************************************************)
(* randpool.py: values are taken at random until none is left, then all    *)
(* are there again.  The code shuffles a list and pops from its end; any   *)
(* order is possible, so the pool is the set of values left.               *)
(***************************************************************************)
EXTENDS Integers

CONSTANT Size       \* poolsize: option spread_out_delivery, checked to be at least 1

VARIABLES
    pool,       \* the values left
    given       \* history: how often each value was returned

Values == 0 .. Size - 1

Init ==
    /\ pool = {}
    /\ given = [v \in Values |-> 0]

\* Mutant: range(size + 1).
GetOneTooMany(v) ==
    LET left == IF pool = {} THEN 0 .. Size ELSE pool
    IN  /\ v \in left
        /\ pool' = left \ {v}
        /\ given' = [given EXCEPT ![v] = @ + 1]

\* Mutant: the value stays in the pool.
GetAndKeep(v) ==
    LET left == IF pool = {} THEN Values ELSE pool
    IN  /\ v \in left
        /\ pool' = left
        /\ given' = [given EXCEPT ![v] = @ + 1]

\* get() returns v.
Get(v) ==
    LET left == IF pool = {} THEN Values ELSE pool
    IN  /\ v \in left
        /\ pool' = left \ {v}
        /\ given' = [given EXCEPT ![v] = @ + 1]

\* A new object, at the start of the process.
New ==
    /\ pool' = {}
    /\ given' = [v \in Values |-> 0]
=============================================================================
