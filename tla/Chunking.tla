------------------------------ MODULE Chunking ------------------------------
(***************************************************************************)
(* How a file is cut for upload: into segments of one entropy class, those *)
(* into chunks at content-defined or forced places, or one patch against   *)
(* the parent version (chunking.py, entropy_segment.py, omni_ingest.py).   *)
(*                                                                         *)
(* Bytes are left out: where the rolling hash finds an anchor, and where   *)
(* the entropy of a window changes, is a choice.  A plain chunked file is  *)
(* one segment.  Publisher has what a save during all this does.           *)
(***************************************************************************)
EXTENDS Naturals

CONSTANTS MinSize, MaxSize,  \* of ChunkingConfig
          Window,            \* window_size of EntropyConfig
          FileSizes

ASSUME ChunkingAssumption ==
    /\ MinSize \in Nat /\ MaxSize \in Nat \ {0} /\ Window \in Nat \ {0}
    /\ FileSizes \subseteq Nat

VARIABLES size,    \* of the file
          cuts,    \* forced_cuts, absolute: anchors of a Maya scene
          limit,   \* end of the segment
          offset,  \* where the next chunk begins
          pieces   \* segments of the manifest

chunkVars == <<size, cuts, limit, offset, pieces>>

Piece == [at : Nat, size : Nat, kind : {"chunk", "tail", "patch", "empty"}]

ChunkingTypeOK ==
    /\ size \in FileSizes /\ cuts \subseteq 1..size
    /\ limit \in 0..size /\ offset \in 0..limit
    /\ pieces \subseteq Piece

ChunkingInit ==
    /\ size \in FileSizes /\ cuts \in SUBSET (1..size)
    /\ limit = 0 /\ offset = 0 /\ pieces = {}

-----------------------------------------------------------------------------

\* Ends of windows; adjacent ones of a class are merged.
SegmentEnds == {e \in (offset + 1)..size : e = size \/ e % Window = 0}

StartSegment ==
    /\ offset = limit
    /\ limit' \in SegmentEnds
    /\ UNCHANGED <<size, cuts, offset, pieces>>

\* A segment of high entropy, and the parent has bytes there to learn from.
PatchSegment ==
    /\ offset = limit
    /\ limit' \in SegmentEnds
    /\ offset' = limit'
    /\ pieces' = pieces \union {[at |-> offset, size |-> limit' - offset, kind |-> "patch"]}
    /\ UNCHANGED <<size, cuts>>

\* Where a buffer of n bytes is cut: the first forced cut, an anchor, its end.
FindCut(n, forced) ==
    LET far == {c \in forced : MinSize <= c /\ c <= n}
    IN IF n <= MinSize THEN {n}
       ELSE IF far # {} THEN {c \in far : \A d \in far : c <= d}
       ELSE (MinSize + 1)..n

Forced(n) == {f - offset : f \in {c \in cuts : offset < c /\ c <= offset + n}}

\* Mutated form of Advance: the rest of the buffer is not read again.
AdvanceBuffer(n, cut) == offset + n

\* The file is sought back by the rest of the buffer.
Advance(n, cut) == offset + cut

CutChunk ==
    LET left == limit - offset
        n == IF left < MaxSize THEN left ELSE MaxSize
    IN /\ offset < limit
       /\ \E cut \in FindCut(n, Forced(n)) :
              /\ pieces' = pieces \union {[at |-> offset, size |-> cut,
                                           kind |-> IF cut = left THEN "tail" ELSE "chunk"]}
              /\ offset' = Advance(n, cut)
       /\ UNCHANGED <<size, cuts, limit>>

\* A plain chunked file without a byte still has a chunk.
EmptyFile ==
    /\ size = 0
    /\ pieces' = {[at |-> 0, size |-> 0, kind |-> "empty"]}
    /\ UNCHANGED <<size, cuts, limit, offset>>

\* The file is published once more.
CutAgain ==
    /\ offset = size
    /\ limit' = 0 /\ offset' = 0 /\ pieces' = {}
    /\ UNCHANGED <<size, cuts>>

ChunkingNext == StartSegment \/ PatchSegment \/ CutChunk \/ EmptyFile \/ CutAgain

ChunkingSpec == ChunkingInit /\ [][ChunkingNext]_chunkVars

-----------------------------------------------------------------------------

\* No byte is in two pieces, and every byte before the offset is in one.
Tiled ==
    /\ \A p \in pieces : p.at + p.size <= offset
    /\ \A p, q \in pieces : p # q => p.at + p.size <= q.at \/ q.at + q.size <= p.at
    /\ \A b \in 0..(offset - 1) : \E p \in pieces : p.at <= b /\ b < p.at + p.size

\* Only the end of a segment makes a chunk smaller than the minimum, when the
\* maximum lets it reach it.
Sized ==
    \A p \in pieces : /\ p.kind \in {"chunk", "tail"} => p.size <= MaxSize
                      /\ p.kind = "chunk" => MinSize <= p.size \/ p.size = MaxSize
                      /\ p.kind # "empty" => p.size # 0

\* A chunk that goes past a forced cut begins less than the minimum before it.
CutsHonoured ==
    \A p \in pieces : \A c \in cuts :
        p.kind \in {"chunk", "tail"} /\ p.at < c /\ c < p.at + p.size => c < p.at + MinSize

(***************************************************************************)
(* The pieces of a manifest put together are the file, for every minimum   *)
(* and maximum, also a minimum above the maximum, whatever anchors, forced *)
(* cuts and segments there are; chunks keep to their bounds; and a forced  *)
(* cut is passed over only when it is too near to the start of the chunk.  *)
(***************************************************************************)
ChunksTile == Tiled /\ Sized /\ CutsHonoured
=============================================================================
