-------------------------- MODULE MCDomainMembership --------------------------
(* Instances of DomainMembership for TLC. *)
EXTENDS DomainMembership, TLC

CONSTANTS alice, bob, carol, w1, w2

MCUsers == {alice, bob, carol}
MCPair == {alice, bob}
MCWorkers == {w1, w2}

\* PATCH payloads: a rename, an opening and a closing of the policy, another owner, another team.
Rename == [owner |-> Keep, policy |-> Keep, managers |-> {Keep}]
Opening == [Rename EXCEPT !.policy = "auto"]
MCOpening == {Opening}
MCPatches == {Rename,
              Opening,
              [Rename EXCEPT !.owner = bob],
              [Rename EXCEPT !.managers = {bob}]}

Moderation == {"join", "moderate", "cancel", "email", "sweep", "preferences"}
Roles == {"join", "role", "leave", "edit", "email"}
Queue == {"join", "edit", "sweep", "preferences"}

Symmetry == Permutations(MCWorkers)
===============================================================================
