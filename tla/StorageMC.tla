---------------------------------- MODULE StorageMC -----------------------------------
(* Storage for TLC: requests, extensions and users are interchangeable. *)
EXTENDS Storage, TLC

Symmetric == Permutations(Requests) \cup Permutations(Extensions) \cup Permutations(Users)
================================================================================
