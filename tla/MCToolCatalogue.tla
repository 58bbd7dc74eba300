---------------------------- MODULE MCToolCatalogue ----------------------------
(* One program of each behaviour, and one for each way to be refused.      *)
EXTENDS ToolCatalogue

MCDoes(does) == [banned |-> FALSE, parses |-> TRUE, clean |-> TRUE, does |-> does]
MCProgram ==
  {MCDoes(does) : does \in Behaviour} \cup
  {[MCDoes("ends") EXCEPT !.banned = TRUE], [MCDoes("ends") EXCEPT !.clean = FALSE]}
===============================================================================
