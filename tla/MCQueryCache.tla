---------------------------- MODULE MCQueryCache ----------------------------
(* Instances of QueryCache for TLC. *)
EXTENDS QueryCache, TLC

\* Requests are interchangeable.
CacheSymmetry == Permutations(Requests)
=============================================================================
