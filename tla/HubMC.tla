--------------------------------- MODULE HubMC ---------------------------------
(* Instances of Hub: one user who connects twice.                             *)
EXTENDS Hub

ConnOwner == [c \in Conns |-> 1]
================================================================================
