---------------------------- MODULE MCChatStream ----------------------------
(***************************************************************************)
(* Bounds for the turns of a chat.                                         *)
(***************************************************************************)
EXTENDS ChatStream

\* Of two turns the one of ChatView gets a chunk.
OneChunk == [r \in Turn |-> IF r \in OpenAI THEN 0 ELSE 1]
=============================================================================
