------------------------------ MODULE TxStore -------------------------------
(***************************************************************************)
(* What database/ffldb promises its callers: one read-write transaction at *)
(* a time, which takes effect as a whole or not at all, and a store that a *)
(* crash sets back to an earlier state, never to a part of one.            *)
(***************************************************************************)
CONSTANTS
    Block,        \* blocks a transaction can store
    MetaValue,    \* values of the metadata key
    None          \* no value, no transaction

VARIABLES
    state,        \* what a transaction that begins now sees
    saved,        \* what is left after a crash
    tx            \* the open read-write transaction, or None

vars == <<state, saved, tx>>

State == [blocks : SUBSET Block, meta : MetaValue \cup {None}]

\* A transaction: the blocks it stores, and the value of the key after it.
Transaction == State

Apply(s, t) == [blocks |-> s.blocks \cup t.blocks, meta |-> t.meta]

Init ==
    /\ state = [blocks |-> {}, meta |-> None]
    /\ saved = state
    /\ tx = None

Begin ==
    /\ tx = None
    /\ tx' \in {t \in Transaction : t.blocks \cap state.blocks = {}}
    /\ UNCHANGED <<state, saved>>

\* The transaction takes effect; if all before it is saved, it may be saved at
\* once.
Commit ==
    /\ tx # None
    /\ state' = Apply(state, tx)
    /\ saved' = saved \/ (saved = state /\ saved' = state')
    /\ tx' = None

Abort == tx # None /\ tx' = None /\ UNCHANGED <<state, saved>>

Persist == saved' = state /\ UNCHANGED <<state, tx>>

Crash == state' = saved /\ tx' = None /\ UNCHANGED saved

Next == Begin \/ Commit \/ Abort \/ Persist \/ Crash

Spec == Init /\ [][Next]_vars
=============================================================================
