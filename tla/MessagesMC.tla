-------------------------------- MODULE MessagesMC --------------------------------
(* Instances of Messages: the texts and the request slots are interchangeable. *)
EXTENDS Messages, TLC

Symmetric == Permutations(Texts) \cup Permutations(Requests)
================================================================================
