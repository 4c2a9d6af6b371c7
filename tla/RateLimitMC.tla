------------------------------ MODULE RateLimitMC ------------------------------
(* Four requests under a rule of two per four ticks.                          *)
EXTENDS RateLimit, TLC

Symmetric == Permutations(Requests)
================================================================================
