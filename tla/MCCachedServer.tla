--------------------------- MODULE MCCachedServer ---------------------------
(* Instances of CachedServer for TLC. *)
EXTENDS CachedServer, TLC

\* For the safety runs only: a symmetry set is not sound with liveness.
Symmetry ==
    Permutations(Call) \cup Permutations(Id) \cup Permutations(Alias)
      \cup Permutations(Name) \cup Permutations(TAlias) \cup Permutations(Worker)

=============================================================================
