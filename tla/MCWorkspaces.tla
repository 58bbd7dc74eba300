----------------------------- MODULE MCWorkspaces ------------------------------
(* Requests differ in nothing but their names, and the properties do not   *)
(* name one.                                                               *)
EXTENDS Workspaces, TLC

Requests == Permutations(Request)
===============================================================================
