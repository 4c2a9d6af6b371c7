--------------------------------- MODULE VoiceMC ---------------------------------
(* Instances of Voice: the users who are not watched, the channels and the     *)
(* request slots are interchangeable.                                          *)
EXTENDS Voice, TLC

Symmetric == Permutations(Users \ {Watched}) \cup Permutations(Channels)
             \cup Permutations(Requests)
================================================================================
