----------------------------- MODULE MCAttribution -----------------------------
(* Attribution on small instances: two conversations, and as many processes   *)
(* and ticks as it takes for pids to be used again within the lifetimes.      *)
EXTENDS Attribution, TLC

CONSTANTS c1, c2, e1, e2, p1, p2, w

\* Ends and pids are compared for equality only.
HostSymmetry == Permutations(Ends) \union Permutations(Pids)
=============================================================================
