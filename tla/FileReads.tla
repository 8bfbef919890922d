------------------------------ MODULE FileReads ------------------------------
(***************************************************************************)
(* What reading a file from its beginning to its end may give: read()      *)
(* loops, such as those of compute_blake3, upload_blob and                 *)
(* Path.read_bytes, take many moments.  A content is the sequence of its   *)
(* pieces.                                                                 *)
(***************************************************************************)
EXTENDS Naturals, Sequences, Functions

\* If the file has had the contents S meanwhile, each overwriting the one before:
\* every piece is one that some content has at its place, and the reading ends
\* where a content does, or beyond the end of one that became shorter.
Mixtures(S) ==
    {c \in UNION {[1..n -> UNION {Range(f) : f \in S}] :
                     n \in UNION {UNION {Len(f)..Len(g) : g \in S} : f \in S}} :
        \A k \in 1..Len(c) : \E f \in S : k <= Len(f) /\ c[k] = f[k]}

\* The same, if the contents also may be files of their own, each renamed over the
\* one before: a handle stays with the file that it was opened for.
ReadsOf(inPlace, S) == IF inPlace THEN Mixtures(S) ELSE S
=============================================================================
