----------------------------- MODULE MCBlockDag -----------------------------
(* Small block DAGs for BlockDag. *)
EXTENDS BlockDag, TLC

CONSTANTS g, a, b, c, d, e

\* Everything hangs on a: a fork of it, a block that merges the fork, and one
\* on top, so four blocks can be orphans at once.
DiamondParents ==
    g :> {} @@ a :> {g} @@ b :> {a} @@ c :> {a} @@ d :> {b, c} @@ e :> {d}

\* Two siblings on genesis, a block that merges them, and a block on top.
MergeParents ==
    g :> {} @@ a :> {g} @@ b :> {g} @@ c :> {a, b} @@ d :> {c}

\* A chain on genesis and a sibling of its first block.
ForkParents ==
    g :> {} @@ a :> {g} @@ b :> {a} @@ c :> {b} @@ d :> {g}

=============================================================================
