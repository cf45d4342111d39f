----------------------------- MODULE DagLedger ------------------------------
(***************************************************************************)
(* What block acceptance promises its callers: a ledger of connected       *)
(* blocks that grows one block at a time, a block only after all of its    *)
(* parents, of which a crash may lose the newest part but never what was   *)
(* saved.  BlockDag is shown to implement this.                            *)
(***************************************************************************)
CONSTANTS Block, Genesis, Parents

VARIABLES
    ledger,   \* the connected blocks
    saved     \* those of them that are on disk

vars == <<ledger, saved>>

Init == ledger = {Genesis} /\ saved = {Genesis}

\* A block is connected; the ledger may be saved in the same instant.
Extend(b) ==
    /\ b \notin ledger
    /\ Parents[b] \subseteq ledger
    /\ ledger' = ledger \cup {b}
    /\ saved' \in {saved, ledger'}

Save == saved' = ledger /\ UNCHANGED ledger

Lose == ledger' = saved /\ UNCHANGED saved

Next == Save \/ Lose \/ \E b \in Block : Extend(b)

Spec == Init /\ [][Next]_vars

=============================================================================
