------------------------- MODULE MCConfigLifecycle --------------------------
(* ConfigLifecycle on small instances. *)
EXTENDS ConfigLifecycle, TLC

\* Calls, directories and the contents that are valid are interchangeable.
Symmetry == Permutations(Process) \cup Permutations(Dir) \cup Permutations(Valid)

=============================================================================
