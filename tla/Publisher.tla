----------------------------- MODULE Publisher -----------------------------
(***************************************************************************)
(* zeno_client/publisher.py and omni_ingest.py: a file on disk becomes     *)
(* blobs on the server and a version that refers to them.                  *)
(*                                                                         *)
(* Nothing protects the file while it is published.  It is read, piece by  *)
(* piece, for its hash, for its canonical form, into a buffer or for the   *)
(* upload, asked for its size, and read through two handles for its        *)
(* chunks, and may be saved before, between and during all of these: by    *)
(* renaming a new file over it, which an open handle does not notice, or   *)
(* in place, which it does.  The server knows a blob by its hash and       *)
(* refuses bytes with another one; it never forgets a blob.                *)
(*                                                                         *)
(* A content is the sequence of its chunks; a chunk, a small file, is a    *)
(* sequence of one.  A hash is the content that it names.                  *)
(***************************************************************************)
EXTENDS FileReads

CONSTANTS Procs,       \* the hub's worker threads, Blender, Maya
          Chunks,
          Files,       \* the contents the file has in the course of time
          Canonical,   \* what the canonicalizer makes of what is read of it, or None
          None

ASSUME PublisherAssumption ==
    /\ Files \subseteq Seq(Chunks) /\ <<>> \notin Files
    /\ Canonical \in [Mixtures(Files) -> Seq(Chunks) \union {None}]

VARIABLES disk,      \* the content of the file
          inPlace,   \* saves overwrite the file instead of replacing it
          kind,      \* without use_omni, with it, with it and a canonicalizer
          blobs,     \* chunks and files on the server
          version,   \* what p's (last) publish has registered, or None
          pc, job,   \* where a publish is, and its local variables
          seen,      \* history: the contents of the file since p began
          failed,    \* history: a request of p's (last) publish has failed
          result

settings == <<inPlace, kind>>
server == <<blobs, version>>
vars == <<disk, settings, server, pc, job, seen, failed, result>>

Maybe(S) == S \union {None}

\* What a manifest says; version 3 differs in its segments only.
Manifests == [whole : Seq(Chunks), size : Nat, chunks : Seq(Chunks)]

\* The local variables of publish_chunked_file and ingest_omni_file: what has been
\* read so far, and the file that it is read from; hash and size of the file,
\* canonical bytes, the bytes to be uploaded and those to be chunked, the length to
\* be chunked, the chunks so far, the manifest on the server.
Job == [handle : Maybe(Files), buf : Seq(Chunks),
        whole : Maybe(Seq(Chunks)), size : Nat, canon : Maybe(Seq(Chunks)),
        src : Maybe(Seq(Chunks)), chunked : Maybe(Files), n : Nat,
        chunks : Seq(Chunks), sent : Maybe(Manifests)]

\* A version's content is a manifest or a file.
Versions == [file : Maybe(Seq(Chunks)), manifest : Maybe(Manifests),
             dedup : Maybe(Manifests), size : Nat]

ASSUME NoneAssumption == None \notin Seq(Chunks) \union Manifests \union Versions

Location == {"idle", "hash", "stat", "policy", "canon", "parent", "read", "scan",
             "open", "statOpen", "openChunks", "chunk", "hasChunk", "putChunk",
             "hasWhole", "putWhole", "register"}

Blank == [handle |-> None, buf |-> <<>>, whole |-> None, size |-> 0, canon |-> None, src |-> None, chunked |-> None,
          n |-> 0, chunks |-> <<>>, sent |-> None]

At(p, from) == pc[p] = from

TypeOK ==
    /\ disk \in Files
    /\ inPlace \in BOOLEAN /\ kind \in {"plain", "omni", "dual"}
    /\ blobs \subseteq Seq(Chunks)
    /\ pc \in [Procs -> Location]
    /\ version \in [Procs -> Maybe(Versions)]
    /\ job \in [Procs -> Job]
    /\ \A p \in Procs : At(p, "idle") => job[p] = Blank
    /\ seen \in [Procs -> SUBSET Files]
    /\ failed \in [Procs -> BOOLEAN]
    /\ result \in [Procs -> {"none", "ok", "error"}]

Init ==
    /\ disk \in Files
    /\ inPlace \in BOOLEAN /\ kind \in {"plain", "omni", "dual"}
    /\ blobs = {} /\ version = [p \in Procs |-> None]
    /\ pc = [p \in Procs |-> "idle"]
    /\ job = [p \in Procs |-> Blank]
    /\ seen = [p \in Procs |-> {}]
    /\ failed = [p \in Procs |-> FALSE]
    /\ result = [p \in Procs |-> "none"]

-----------------------------------------------------------------------------
\* Helpers

Goto(p, to) == pc' = [pc EXCEPT ![p] = to]

\* A step of p's that changes its variables only.
Assign(p, from, to, new) ==
    /\ At(p, from) /\ Goto(p, to)
    /\ job' = [job EXCEPT ![p] = new]
    /\ UNCHANGED <<disk, settings, server, seen, failed, result>>

Move(p, from, to) == Assign(p, from, to, job[p])

\* Mutated form of End: the list of chunks is a default argument.
EndKeepsChunks(p, outcome) ==
    /\ Goto(p, "idle")
    /\ job' = [job EXCEPT ![p] = [Blank EXCEPT !.chunks = job[p].chunks]]
    /\ result' = [result EXCEPT ![p] = outcome]

End(p, outcome) ==
    /\ Goto(p, "idle")
    /\ job' = [job EXCEPT ![p] = Blank]
    /\ result' = [result EXCEPT ![p] = outcome]

\* What can be read through a handle opened when the file was x.
View(x) == IF inPlace THEN disk ELSE x

\* The bytes that iter_chunks reads (omni: a buffer), and those that are uploaded.
Chunked(p) == IF kind # "plain" THEN job[p].src ELSE View(job[p].chunked)
Uploaded(p) == IF kind # "plain" THEN job[p].src ELSE View(job[p].src)

\* The chunk a publish has come to.
Chunk(p) == job[p].chunks[Len(job[p].chunks)]

-----------------------------------------------------------------------------
\* Reading the file from its beginning to its end

Reads(p) == \/ At(p, "hash")
            \/ At(p, "canon") /\ kind # "omni"
            \/ At(p, "read") /\ kind = "omni"
            \/ At(p, "putWhole")

\* A step of p's that goes on with the reading.
Read(p, new) == Reads(p) /\ Assign(p, pc[p], pc[p], new)

OpenToRead(p) ==
    /\ job[p].handle = None
    /\ Read(p, [job[p] EXCEPT !.handle = disk])

Unread(p) == job[p].handle # None /\ Len(job[p].buf) < Len(View(job[p].handle))

ReadOn(p) ==
    /\ Unread(p)
    /\ Read(p, [job[p] EXCEPT !.buf = Append(@, View(job[p].handle)[Len(@) + 1])])

\* The end of the file, wherever that is now.
AllRead(p) == job[p].handle # None /\ Len(job[p].buf) >= Len(View(job[p].handle))

Closed(p) == [job[p] EXCEPT !.handle = None, !.buf = <<>>]

-----------------------------------------------------------------------------
\* publish_chunked_file up to the choice of the strategy

Publish(p) ==
    /\ At(p, "idle") /\ Goto(p, "hash")
    /\ seen' = [seen EXCEPT ![p] = {disk}]
    /\ failed' = [failed EXCEPT ![p] = FALSE]
    /\ result' = [result EXCEPT ![p] = "none"]
    /\ version' = [version EXCEPT ![p] = None]
    /\ UNCHANGED <<disk, settings, blobs, job>>

HashFile(p) ==
    AllRead(p) /\ Assign(p, "hash", "stat", [Closed(p) EXCEPT !.whole = job[p].buf])

StatFile(p) == Assign(p, "stat", "policy", [job[p] EXCEPT !.size = Len(disk)])

\* resolve_strategy: whole or chunked, also chunked when the server does not
\* answer.
ResolveStrategy(p) ==
    \E to \in {"hasWhole", "canon"} : Move(p, "policy", to)

\* canonicalize_file has read the file once more; only ingest_omni_file uses the
\* result.  "omni" stands for the types that have no canonicalizer.
Canonicalize(p) ==
    \/ kind = "omni" /\ Move(p, "canon", "parent")
    \/ /\ At(p, "canon") /\ AllRead(p) /\ Canonical[job[p].buf] # None
       /\ Assign(p, "canon", IF kind = "plain" THEN "open" ELSE "parent",
                 [Closed(p) EXCEPT !.canon = IF kind = "dual" THEN Canonical[job[p].buf] ELSE None])

\* "Not a valid .blend file": a canonicalizer takes the bytes apart.
CanonicalizerRefuses(p) ==
    /\ At(p, "canon") /\ AllRead(p) /\ Canonical[job[p].buf] = None
    /\ End(p, "error")
    /\ UNCHANGED <<disk, settings, server, seen, failed>>

-----------------------------------------------------------------------------
\* ingest_omni_file.  No caller gives a parent's local path, so that there are
\* no patches and every segment is chunked.

\* latest_content_id; its answer would be named in patches only.
AskParent(p) == Move(p, "parent", "read")

\* chunk_source: the canonical bytes, or those that have just been read.
ReadSource(p) ==
    \/ kind = "dual" /\ Assign(p, "read", "scan", [job[p] EXCEPT !.src = job[p].canon])
    \/ AllRead(p) /\ Assign(p, "read", "scan", [Closed(p) EXCEPT !.src = job[p].buf])

\* The segments tile the canonical bytes, or the file as it is when
\* scan_entropy_segments reads it again.
ScanSegments(p) ==
    Assign(p, "scan", "chunk",
           [job[p] EXCEPT !.n = IF job[p].canon # None THEN Len(job[p].canon) ELSE Len(disk)])

-----------------------------------------------------------------------------
\* The chunked workflow: one handle for the chunks' hashes, one for their bytes

OpenFile(p) == Assign(p, "open", "statOpen", [job[p] EXCEPT !.src = disk])

StatOpen(p) == Assign(p, "statOpen", "openChunks", [job[p] EXCEPT !.n = Len(disk)])

OpenChunks(p) == Assign(p, "openChunks", "chunk", [job[p] EXCEPT !.chunked = disk])

-----------------------------------------------------------------------------
\* Uploads, common to all workflows

MoreChunks(p) ==
    LET k == Len(job[p].chunks) + 1 IN k <= job[p].n /\ k <= Len(Chunked(p))

\* Mutated form of ReadChunk: every chunk is cut at the start of the file.
ReadChunkNoSeek(p) ==
    /\ At(p, "chunk") /\ MoreChunks(p)
    /\ Assign(p, "chunk", "hasChunk", [job[p] EXCEPT !.chunks = Append(@, Chunked(p)[1])])

\* The next chunk is cut and hashed.
ReadChunk(p) ==
    /\ At(p, "chunk") /\ MoreChunks(p)
    /\ Assign(p, "chunk", "hasChunk",
              [job[p] EXCEPT !.chunks = Append(@, Chunked(p)[Len(@) + 1])])

\* blob_exists: nothing to upload.
ChunkExists(p) == At(p, "hasChunk") /\ <<Chunk(p)>> \in blobs /\ Move(p, "hasChunk", "chunk")

ChunkMissing(p) == At(p, "hasChunk") /\ <<Chunk(p)>> \notin blobs /\ Move(p, "hasChunk", "putChunk")

\* Mutated form of SameBytes: the handle has moved past the chunk.
SameBytesNext(p) ==
    LET k == Len(job[p].chunks) + 1 IN k <= Len(Uploaded(p)) /\ Uploaded(p)[k] = Chunk(p)

\* The bytes at the chunk's offset, read again, still have its hash.
SameBytes(p) ==
    LET k == Len(job[p].chunks) IN k <= Len(Uploaded(p)) /\ Uploaded(p)[k] = Chunk(p)

PutChunk(p) ==
    /\ At(p, "putChunk") /\ SameBytes(p)
    /\ blobs' = blobs \union {<<Chunk(p)>>}
    /\ Goto(p, "chunk")
    /\ UNCHANGED <<disk, settings, version, job, seen, failed, result>>

\* Mutated form of ChunkRefused: it is tried again, until it works.
ChunkRefusedAgain(p) ==
    /\ At(p, "putChunk") /\ ~SameBytes(p)
    /\ Move(p, "putChunk", "hasChunk")

\* "Content hash mismatch"
ChunkRefused(p) ==
    /\ At(p, "putChunk") /\ ~SameBytes(p)
    /\ End(p, "error")
    /\ UNCHANGED <<disk, settings, server, seen, failed>>

\* build_manifest_v2, build_manifest_v3
Manifest(p) ==
    IF kind = "plain"
    THEN [whole |-> job[p].whole, size |-> job[p].size, chunks |-> job[p].chunks]
    ELSE [whole |-> job[p].src, size |-> Len(job[p].src), chunks |-> job[p].chunks]

\* Mutated form of PutManifest: its hash is computed from the chunks.
PutManifestOfChunks(p) ==
    /\ At(p, "chunk") /\ ~MoreChunks(p)
    /\ Assign(p, "chunk", IF kind = "dual" THEN "hasWhole" ELSE "register",
              [job[p] EXCEPT !.sent = [Manifest(p) EXCEPT !.whole = job[p].chunks,
                                                          !.size = Len(job[p].chunks)]])

\* All chunks are there; the manifest is uploaded, or known to the server.
PutManifest(p) ==
    /\ At(p, "chunk") /\ ~MoreChunks(p)
    /\ Assign(p, "chunk", IF kind = "dual" THEN "hasWhole" ELSE "register",
              [job[p] EXCEPT !.sent = Manifest(p)])

WholeExists(p) == At(p, "hasWhole") /\ job[p].whole \in blobs /\ Move(p, "hasWhole", "register")

WholeMissing(p) == At(p, "hasWhole") /\ job[p].whole \notin blobs /\ Move(p, "hasWhole", "putWhole")

\* upload_blob has read the file while it was sent.
SameFile(p) == AllRead(p) /\ job[p].buf = job[p].whole

PutWhole(p) ==
    /\ At(p, "putWhole") /\ SameFile(p)
    /\ blobs' = blobs \union {job[p].whole}
    /\ Goto(p, "register")
    /\ job' = [job EXCEPT ![p] = Closed(p)]
    /\ UNCHANGED <<disk, settings, version, seen, failed, result>>

WholeRefused(p) ==
    /\ At(p, "putWhole") /\ AllRead(p) /\ ~SameFile(p)
    /\ End(p, "error")
    /\ UNCHANGED <<disk, settings, server, seen, failed>>

-----------------------------------------------------------------------------
\* The version

\* The content is the manifest, or the file itself; then a manifest serves
\* deduplication only.
Version(p) ==
    LET direct == job[p].sent = None \/ kind = "dual" IN
    [file |-> IF direct THEN job[p].whole ELSE None,
     manifest |-> IF direct THEN None ELSE job[p].sent,
     dedup |-> IF direct THEN job[p].sent ELSE None,
     size |-> job[p].size]

Register(p) ==
    /\ At(p, "register")
    /\ version' = [version EXCEPT ![p] = Version(p)]
    /\ End(p, "ok")
    /\ UNCHANGED <<disk, settings, blobs, seen, failed>>

-----------------------------------------------------------------------------
\* What goes wrong

\* Mutated form of RequestFails: a blob whose upload failed is taken for there.
RequestFailsGoesOn(p) ==
    /\ At(p, "putChunk") \/ At(p, "putWhole")
    /\ Goto(p, IF At(p, "putChunk") THEN "chunk" ELSE "register")
    /\ job' = [job EXCEPT ![p] = Closed(p)]
    /\ failed' = [failed EXCEPT ![p] = TRUE]
    /\ UNCHANGED <<disk, settings, server, seen, result>>

\* A request fails, and with it the publish: handlers.publish and the operator
\* report it.
RequestFails(p) ==
    /\ \/ pc[p] \in {"parent", "hasChunk", "putChunk", "hasWhole", "putWhole", "register"}
       \/ At(p, "chunk") /\ ~MoreChunks(p)
    /\ End(p, "error")
    /\ failed' = [failed EXCEPT ![p] = TRUE]
    /\ UNCHANGED <<disk, settings, server, seen>>

\* The server has done what it was asked, but its answer is lost.
AnswerLost(p) ==
    /\ \/ /\ At(p, "putChunk") /\ SameBytes(p)
          /\ blobs' = blobs \union {<<Chunk(p)>>}
          /\ UNCHANGED version
       \/ /\ At(p, "putWhole") /\ SameFile(p)
          /\ blobs' = blobs \union {job[p].whole}
          /\ UNCHANGED version
       \/ /\ At(p, "register")
          /\ version' = [version EXCEPT ![p] = Version(p)]
          /\ UNCHANGED blobs
    /\ End(p, "error")
    /\ failed' = [failed EXCEPT ![p] = TRUE]
    /\ UNCHANGED <<disk, settings, seen>>

\* The process ends: the hub does not wait for its threads.
Cut(p) ==
    /\ ~At(p, "idle")
    /\ End(p, "none")
    /\ UNCHANGED <<disk, settings, server, seen, failed>>

\* Somebody else publishes something with the same chunks, or the same file.
OthersPut ==
    /\ \E b \in ({<<c>> : c \in Chunks} \union Files) \ blobs : blobs' = blobs \union {b}
    /\ UNCHANGED <<disk, settings, version, pc, job, seen, failed, result>>

\* The artist saves.
Save ==
    /\ disk' \in Files \ {disk}
    /\ seen' = [p \in Procs |-> IF At(p, "idle") THEN seen[p] ELSE seen[p] \union {disk'}]
    /\ UNCHANGED <<settings, server, pc, job, failed, result>>

Step(p) ==
    \/ OpenToRead(p) \/ ReadOn(p)
    \/ HashFile(p) \/ StatFile(p) \/ ResolveStrategy(p)
    \/ Canonicalize(p) \/ CanonicalizerRefuses(p)
    \/ AskParent(p) \/ ReadSource(p) \/ ScanSegments(p)
    \/ OpenFile(p) \/ StatOpen(p) \/ OpenChunks(p)
    \/ ReadChunk(p) \/ ChunkExists(p) \/ ChunkMissing(p) \/ PutChunk(p) \/ ChunkRefused(p)
    \/ PutManifest(p) \/ WholeExists(p) \/ WholeMissing(p) \/ PutWhole(p) \/ WholeRefused(p)
    \/ Register(p) \/ RequestFails(p) \/ AnswerLost(p)

Next == Save \/ OthersPut \/ \E p \in Procs : Publish(p) \/ Step(p) \/ Cut(p)

Spec == Init /\ [][Next]_vars

\* A publish that has begun goes on: requests have timeouts.
FairSpec == Spec /\ \A p \in Procs : WF_vars(Step(p))

-----------------------------------------------------------------------------

\* The file was saved during p's (last) publish.
Saved(p) == \E f, g \in seen[p] : f # g

\* A cache can put the file of this manifest together from what is on the server.
Assembles(m) ==
    /\ \A c \in Range(m.chunks) : <<c>> \in blobs
    /\ m.chunks = m.whole /\ m.size = Len(m.whole)

\* What loading a version gives: ensure_cached checks sizes and hashes.
Loads(v) ==
    IF v.manifest # None
    THEN IF Assembles(v.manifest) THEN v.manifest.whole ELSE None
    ELSE IF v.file \in blobs /\ v.size = Len(v.file) THEN v.file ELSE None

(***************************************************************************)
(* A version that the server lists refers to blobs that it has: its file,  *)
(* or every chunk of its manifest, and of its dedup manifest.  This holds  *)
(* whatever request failed or lost its answer, whoever was cut off and     *)
(* however often the file was saved: uploads come first, and a chunk or    *)
(* file that changes between hash and upload is refused.                   *)
(***************************************************************************)
CompleteVersions ==
    \A p \in Procs : version[p] # None =>
        /\ version[p].file # None => version[p].file \in blobs
        /\ \A m \in {version[p].manifest, version[p].dedup} \ {None} :
              \A c \in Range(m.chunks) : <<c>> \in blobs

(***************************************************************************)
(* A version published from a file that nobody saved meanwhile can be      *)
(* loaded, and is that file, in every workflow and after any number of     *)
(* publishes that failed; its dedup manifest can be assembled too.         *)
(***************************************************************************)
UnsavedVersionsLoad ==
    \A p \in Procs : version[p] # None /\ ~Saved(p) =>
        /\ {Loads(version[p])} = seen[p]
        /\ version[p].dedup # None => Assembles(version[p].dedup)

(***************************************************************************)
(* What a version gives is an error, or the file as one reading of it      *)
(* during the publish can find it: where saves replace the file, its       *)
(* content at one moment; where they overwrite it, possibly pieces of      *)
(* several, each at its place, but nothing else.                           *)
(***************************************************************************)
AsRead ==
    \A p \in Procs : version[p] # None =>
        Loads(version[p]) \in ReadsOf(inPlace, seen[p]) \union {None}

\* The canonicalizer takes none of what the file has been.
Refused(p) == \E f \in seen[p] : Canonical[f] = None

(***************************************************************************)
(* A publish that nobody disturbs, by a save or a failing request, and     *)
(* whose file the canonicalizer takes, succeeds, whatever earlier ones     *)
(* have left on the server.                                                *)
(***************************************************************************)
RetrySucceeds ==
    \A p \in Procs : result[p] = "error" => failed[p] \/ Saved(p) \/ Refused(p)

(***************************************************************************)
(* Every publish ends, also if the file is saved again and again under it. *)
(***************************************************************************)
PublishesEnd == \A p \in Procs : ~At(p, "idle") ~> At(p, "idle")

-----------------------------------------------------------------------------

Busy == {p \in Procs : pc[p] # "idle"}
Gives == [p \in Procs |-> IF version[p] = None THEN {} ELSE {Loads(version[p])}]

Store == INSTANCE VersionStore WITH
    file <- disk, busy <- Busy, gives <- Gives, outcome <- result

(***************************************************************************)
(* A publish lists one version in one step, although it reads the file     *)
(* several times and uploads it piece by piece: it is a publish of         *)
(* VersionStore.  What a version gives is the file as one reading of it    *)
(* during the publish can find it, so a mixture of two saves only if these *)
(* overwrite the file, and no later save, upload or failure changes it     *)
(* (README.md:100, the whole-file BLAKE3 "for integrity").                 *)
(***************************************************************************)
PublishIsAtomic == Store!Spec
=============================================================================
