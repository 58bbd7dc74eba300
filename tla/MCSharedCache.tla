---------------------------- MODULE MCSharedCache ----------------------------
(* Two readers in one process, and one in another.                         *)
EXTENDS SharedCache, TLC

MCProcessOf == [r \in Reader |-> IF r = CHOOSE x \in Reader : TRUE THEN "b" ELSE "a"]

Symmetry == Permutations(Turn) \cup Permutations(Editor)
=============================================================================
