-------------------------- MODULE MCManifestCache --------------------------
(* Instances of ManifestCache for TLC: two files that share a chunk, one of *)
(* them with a patch segment.                                               *)
EXTENDS ManifestCache, TLC

CONSTANTS m1, m2, h1, z1

SharedParts == (m1 :> <<h1, z1>>) @@ (m2 :> <<h1>>)
Symmetry == Permutations(Procs)
=============================================================================
