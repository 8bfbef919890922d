---------------------------- MODULE MCLocalCache ----------------------------
(* Instances of LocalCache for TLC. *)
EXTENDS LocalCache, TLC
CONSTANTS c1, c2, c3

\* Under a cap of 2, c1 and c2 fit one at a time; under a cap of 3, c1 and c2
\* fit together and c3 is larger than the whole cache.
Sizes == (c1 :> 1) @@ (c2 :> 2) @@ (c3 :> 4)
SizesOf == [c \in Contents |-> Sizes[c]]
SmallOnes == {c1}
Symmetry == Permutations(Procs)
=============================================================================
