-------------------------- MODULE MCConnectionPool --------------------------
(* The connection pool on small instances. *)
EXTENDS ConnectionPoolProperties, TLC

Symmetry == Permutations(Threads) \cup Permutations(Requests)
              \cup Permutations(Conns)
=============================================================================
