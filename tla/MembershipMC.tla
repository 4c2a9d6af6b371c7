---- MODULE MembershipMC ----
EXTENDS Membership, TLC
Symmetric == Permutations(Users) \cup Permutations(Spaces) \cup Permutations(Requests) \cup Permutations(Invites)
====
