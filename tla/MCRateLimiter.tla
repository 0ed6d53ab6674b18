---------------------------- MODULE MCRateLimiter ----------------------------
(* RateLimiter on a small instance.                                        *)
EXTENDS RateLimiter, TLC

Symmetry == Permutations(Ips) \cup Permutations(Requests) \cup Permutations(Limiters)

=============================================================================
