--------------------------- MODULE MCAcmeRollover ---------------------------
(* Small instances of AcmeRollover: keys and operators are model values. *)
EXTENDS AcmeRollover, TLC

Symmetry == Permutations(Key) \cup Permutations(Operator)

=============================================================================
