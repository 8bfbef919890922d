---------------------------- MODULE MCPublisher ----------------------------
(* Instances of Publisher for TLC: a file that grows at its beginning and   *)
(* shrinks, so that what is read of it may be neither; its canonical bytes  *)
(* share a chunk with it, and the canonicalizer refuses one mixture.        *)
EXTENDS Publisher, TLC

CONSTANTS a, b

Saves == {<<a>>, <<b, a>>}
CanonicalForm ==
    (<<a>> :> <<a>>) @@ (<<b, a>> :> <<a, a>>) @@ (<<b>> :> <<b>>) @@ (<<a, a>> :> None)
=============================================================================
