---------------------------- MODULE MCTableBase ----------------------------
(* Instances of TableBase for TLC. *)
EXTENDS TableBase, TLC

\* Callers, keys and contents are only compared for equality.
Symmetry == Permutations(Worker) \cup Permutations(Key) \cup Permutations(Slug)

CONSTANT Bound \* the largest version a message carries

Numbered == 0..Bound

PerhapsUnset == (0..Bound) \cup {Unset}

=============================================================================
