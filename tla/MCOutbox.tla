------------------------------- MODULE MCOutbox -------------------------------
(* Instances of Outbox for TLC. *)
EXTENDS Outbox, TLC

CONSTANTS worker1, worker2, web1, web2

TwoWorkers == {worker1, worker2}
OneWorker == {worker1}
OneWeb == {web1}
TwoWeb == {web1, web2}

Symmetry == Permutations(TwoWorkers)
===============================================================================
