------------------------------ MODULE MCAuthTabs ------------------------------
(* Instances of AuthTabs for TLC. *)
EXTENDS AuthTabs, TLC

CONSTANTS tab1, tab2

TwoTabs == {tab1, tab2}

Symmetry == Permutations(TwoTabs)
===============================================================================
