-------------------------------- MODULE ConversationMC --------------------------------
(* Conversation for TLC: requests are interchangeable. *)
EXTENDS Conversation

Symmetric == Permutations(Requests)
================================================================================
