----------------------------- MODULE MCEntServer -----------------------------
(***************************************************************************)
(* Instances of EntServer and References for TLC.  Calls, keys, names and   *)
(* aliases are only ever compared for equality, so permuting each of those  *)
(* sets is a sound symmetry of every safety property.                       *)
(***************************************************************************)
EXTENDS References, TLC

Symmetry ==
    Permutations(Call) \cup Permutations(Id) \cup Permutations(Alias)
      \cup Permutations(Name) \cup Permutations(TenantId) \cup Permutations(TAlias)

\* Where an alias may be empty, aliases are not all alike.
CallSymmetry == Permutations(Call)

=============================================================================
