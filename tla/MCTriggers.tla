------------------------------ MODULE MCTriggers ------------------------------
(* Settings of every kind that SetJob and LoadAllTriggers tell apart.       *)
EXTENDS Triggers, TLC

MCSettings ==
  [active : {TRUE}, timer : {TRUE}, good : BOOLEAN]
    \cup [active : {FALSE}, timer : {TRUE}, good : {TRUE}]

Symmetry == Permutations(Process)
=============================================================================
