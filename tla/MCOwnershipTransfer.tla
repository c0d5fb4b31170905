-------------------------- MODULE MCOwnershipTransfer --------------------------
(* Instances of OwnershipTransfer for TLC. *)
EXTENDS OwnershipTransfer, TLC

CONSTANTS alice, bob, carol, w1, w2

MCUsers == {alice, bob, carol}
MCPair == {alice, bob}
MCWorkers == {w1, w2}
MCOne == {w1}

MCSuper == {carol}

\* The PATCH payload: a rename.
MCRename == {[owner |-> Keep, policy |-> Keep, managers |-> {Keep}]}

Symmetry == Permutations(MCWorkers)
===============================================================================
