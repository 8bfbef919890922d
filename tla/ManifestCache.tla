--------------------------- MODULE ManifestCache ---------------------------
(***************************************************************************)
(* zeno_client/cache.py, _ensure_from_manifest: a file that was published  *)
(* in pieces is put together again from the chunks its manifest lists.     *)
(*                                                                         *)
(* The assembled file is under the lock of its own content id (CacheLock). *)
(* The chunks are not: manifests share them, and every process downloads a *)
(* chunk to the same two temporary names, first the one of get_blob        *)
(* (`part`), then <hash>.tmp, before it gets its final name.  A descriptor *)
(* stays with its file when somebody renames or deletes it, so fd[p] tells *)
(* which name, if any, leads to the bytes that p is writing.               *)
(*                                                                         *)
(* ensure_cached takes a blob for a manifest when HEAD says that it is     *)
(* small.  When HEAD fails, the manifest is cached like any raw blob (see  *)
(* LocalCache), its text under the name of the file, unless the caller     *)
(* knows the size of the file; callers that do not (scene_facts.py:202)    *)
(* get that text from then on.  Which texts are cached is left open.       *)
(*                                                                         *)
(* Nothing compares the bytes of a manifest with its content id: a server  *)
(* that sends wrong ones has the call assemble another file, or one whose  *)
(* segments or sizes are wrong.  What is assembled must then still have    *)
(* the hash which that manifest gives for the whole file.                  *)
(*                                                                         *)
(* Each access to a shared file is an action.  A manifest stands for the   *)
(* one file it describes.  The index and the eviction loop are LocalCache; *)
(* here eviction removes any assembled files but the caller's own.         *)
(***************************************************************************)
EXTENDS CacheLock, Naturals, Sequences

CONSTANTS Chunks,     \* hashes of the raw chunks, kept under chunks/
          Patches,    \* zstd_dict_patch segments (v3), fetched when assembling
          Parts,      \* the segments of each manifest, in order
          Crashes,    \* processes may die in the middle of a call
          None

ASSUME ManifestAssumption ==
    /\ Posix
    /\ Chunks \intersect Patches = {}
    /\ Parts \in [Contents -> Seq(Chunks \union Patches)]
    /\ Crashes \in BOOLEAN
    /\ None \notin Contents

Absent == "absent"
Bytes == {"good", "bad", "short"}     \* as named; right size only; truncated
Maybe == Bytes \union {Absent}

VARIABLES honest,   \* the server sends what a hash names (requests may still fail)
          crowded,  \* history: three calls have been after one chunk at one time
          part,     \* <hash>.tmp.tmp, written by get_blob
          tmp,      \* <hash>.tmp
          chunk,    \* chunks/../<hash>
          asm,      \* <name>.assemble.tmp
          out,      \* the assembled file under its final name
          pc, req,  \* where a call is, and for which manifest: the one asked
                    \* for, then the one whose file the manifest in hand names
          plan,     \* the segments the manifest in hand lists
          i,        \* the segment a call is at
          fd,       \* where the file p is writing is to be found
          sole,     \* nobody has truncated that file since p opened it
          calm,     \* history: nothing has disturbed p's (last) call, and the
                    \* server is honest
          result

chunkVars == <<part, tmp, chunk, fd, sole>>
fileVars == <<chunkVars, asm, out>>
callVars == <<req, plan, i, calm, result>>
regime == <<honest, crowded>>
vars == <<lockVars, regime, fileVars, pc, callVars>>

Location == {"idle", "first", "head", "lookup", "lock", "locked", "chunks", "get", "write",
             "rename", "check", "keep", "assemble", "verify", "publish",
             "touch", "evict"}

At(p, from) == pc[p] = from

\* Every variable has its type, and a descriptor is open only while its chunk is
\* being written.
TypeOK ==
    /\ LockTypeOK
    /\ {honest, crowded} \subseteq BOOLEAN
    /\ {part, tmp, chunk} \subseteq [Chunks -> Maybe]
    /\ {asm, out} \subseteq [Contents -> Maybe]
    /\ pc \in [Procs -> Location]
    /\ req \in [Procs -> Contents \union {None}]
    /\ plan \in [Procs -> Seq(Chunks \union Patches)]
    /\ i \in [Procs -> Nat]
    /\ fd \in [Procs -> {"none", "part", "tmp", "chunk", "gone"}]
    /\ sole \in [Procs -> BOOLEAN]
    /\ \A p \in Procs : fd[p] = "none" <=> ~At(p, "write")
    /\ calm \in [Procs -> BOOLEAN]
    /\ result \in [Procs -> {"none", "returned", "error"}]

Init ==
    /\ LockInit
    /\ honest \in BOOLEAN
    /\ crowded = FALSE
    /\ part = [h \in Chunks |-> Absent]
    /\ tmp = [h \in Chunks |-> Absent]
    /\ chunk = [h \in Chunks |-> Absent]
    /\ asm = [m \in Contents |-> Absent]
    /\ out = [m \in Contents |-> Absent]
    /\ pc = [p \in Procs |-> "idle"]
    /\ req = [p \in Procs |-> None]
    /\ plan = [p \in Procs |-> <<>>]
    /\ i = [p \in Procs |-> 1]
    /\ fd = [p \in Procs |-> "none"]
    /\ sole = [p \in Procs |-> FALSE]
    /\ calm = [p \in Procs |-> FALSE]
    /\ result = [p \in Procs |-> "none"]

-----------------------------------------------------------------------------
\* Helpers

Goto(p, to) == pc' = [pc EXCEPT ![p] = to]
More(p) == i[p] <= Len(plan[p])
Segment(p) == plan[p][i[p]]

\* The processes that have the temporary files of a chunk.
Fetching(h) ==
    {q \in Procs : pc[q] \in {"write", "rename", "check", "keep"} /\ Segment(q) = h}

\* What a request for a hash may deliver.  A server that is not honest may have
\* given any size for it in the manifest, so bad bytes need no kinds.
Served == IF honest THEN {"good"} ELSE {"good", "bad"}

\* The processes that are writing a file of the same chunk as p, found at loc.
Writers(p, loc) ==
    {q \in Procs : fd[q] = loc /\ Segment(q) = Segment(p)}

\* The files of p's chunk move: those at `from` are at `to` afterwards, those
\* that were at `to` have no name any more.
Moved(p, from, to) ==
    [q \in Procs |-> IF q \in Writers(p, from) THEN to
                     ELSE IF q \in Writers(p, to) THEN "gone" ELSE fd[q]]

CloseFile(p) ==
    /\ fd' = [fd EXCEPT ![p] = "none"]
    /\ sole' = [sole EXCEPT ![p] = FALSE]

EndCall(p, outcome) ==
    /\ Goto(p, "idle")
    /\ req' = [req EXCEPT ![p] = None]
    /\ plan' = [plan EXCEPT ![p] = <<>>]
    /\ i' = [i EXCEPT ![p] = 1]
    /\ result' = [result EXCEPT ![p] = outcome]
    /\ IF req[p] \in Contents /\ p \in holders[req[p]]
       THEN LockExit(p, req[p]) ELSE UNCHANGED lockVars

\* evict_if_needed removes files, but not those just made; never chunks.
EvictBut(new) ==
    \E victims \in SUBSET (Contents \ new) :
        out' = [m \in Contents |-> IF m \in victims THEN Absent ELSE out[m]]

Raise(p) == EndCall(p, "error")

-----------------------------------------------------------------------------
\* Up to the lock

\* A call disturbs those in progress, and is calm until another begins.
Call(p, m) ==
    /\ At(p, "idle")
    /\ Goto(p, "first")
    /\ req' = [req EXCEPT ![p] = m]
    /\ calm' = [q \in Procs |->
                  IF q = p THEN honest /\ \A r \in Procs \ {p} : At(r, "idle")
                           ELSE calm[q] /\ At(q, "idle")]
    /\ result' = [result EXCEPT ![p] = "none"]
    /\ UNCHANGED <<lockVars, regime, fileVars, plan, i>>

\* The hit test on <content_id>/<name> finds the text of the manifest, when such
\* was cached and the caller compares no size, or nothing.
FirstLookup(p) ==
    /\ At(p, "first")
    /\ \/ EndCall(p, "returned")
       \/ Goto(p, "head") /\ UNCHANGED <<lockVars, req, plan, i, result>>
    /\ UNCHANGED <<regime, fileVars, calm>>

\* HEAD answers; the manifest is fetched, parsed, and kept for inspection.
FetchManifest(p) ==
    /\ At(p, "head")
    /\ \E m, n \in Contents :
          /\ honest => m = req[p] /\ n = req[p]
          /\ req' = [req EXCEPT ![p] = m]
          /\ plan' = [plan EXCEPT ![p] = Parts[n]]
    /\ Goto(p, "lookup")
    /\ UNCHANGED <<lockVars, regime, fileVars, i, calm, result>>

\* HEAD fails: the manifest is downloaded like a raw blob.  Its hash is right; its
\* size is wrong, if there is one to compare it with.
HeadFails(p) ==
    /\ At(p, "head")
    /\ \/ Raise(p) /\ UNCHANGED out
       \/ EndCall(p, "returned") /\ EvictBut({})
    /\ calm' = [calm EXCEPT ![p] = FALSE]
    /\ UNCHANGED <<regime, chunkVars, asm>>

\* The hit test before the lock and the one under it compare the size with the
\* one in the manifest, which may be wrong.
Hit(p) == out[req[p]] # Absent
Miss(p) == out[req[p]] = Absent \/ ~honest

Lookup(p) ==
    /\ At(p, "lookup")
    /\ \/ Hit(p) /\ Goto(p, "touch")
       \/ Miss(p) /\ Goto(p, "lock")
    /\ UNCHANGED <<lockVars, regime, fileVars, callVars>>

Acquire(p) ==
    /\ At(p, "lock")
    /\ LockAcquire(p, req[p])
    /\ Goto(p, "locked")
    /\ UNCHANGED <<regime, fileVars, callVars>>

TimeOut(p) ==
    /\ At(p, "lock")
    /\ ~LockFree(req[p])
    /\ Raise(p)
    /\ UNCHANGED <<regime, fileVars, calm>>

LockedCheck(p) ==
    /\ At(p, "locked")
    /\ \/ Hit(p) /\ Goto(p, "touch")
       \/ Miss(p) /\ Goto(p, "chunks")
    /\ UNCHANGED <<lockVars, regime, fileVars, callVars>>

-----------------------------------------------------------------------------
\* "Ensure all raw chunks present"

\* A chunk of the size in the manifest is trusted; the patches come later.
Present(p) ==
    Segment(p) \in Chunks => chunk[Segment(p)] \in IF honest THEN {"good", "bad"} ELSE Bytes

Missing(p) ==
    /\ Segment(p) \in Chunks
    /\ chunk[Segment(p)] \in {"short", Absent} \/ ~honest

SkipChunk(p) ==
    /\ At(p, "chunks") /\ More(p) /\ Present(p)
    /\ i' = [i EXCEPT ![p] = @ + 1]
    /\ UNCHANGED <<lockVars, regime, fileVars, pc, req, plan, calm, result>>

\* The chunk is not there; get_blob asks the server for it.
RequestChunk(p) ==
    /\ At(p, "chunks") /\ More(p) /\ Missing(p)
    /\ Goto(p, "get")
    /\ UNCHANGED <<lockVars, regime, fileVars, callVars>>

\* The answer begins, whoever has fetched the chunk meanwhile: get_blob opens
\* its temporary file for writing.  Whatever was there is truncated, also under
\* somebody else's descriptor.
OpenPart(p) ==
    /\ At(p, "get")
    /\ part' = [part EXCEPT ![Segment(p)] = "short"]
    /\ fd' = [fd EXCEPT ![p] = "part"]
    /\ sole' = [q \in Procs |-> q = p \/ (sole[q] /\ q \notin Writers(p, "part"))]
    /\ crowded' = (crowded \/ \E q, r \in Fetching(Segment(p)) : q # r)
    /\ Goto(p, "write")
    /\ UNCHANGED <<lockVars, honest, tmp, chunk, asm, out, callVars>>

\* What the file holds after p's last write: p's bytes, unless somebody has
\* truncated it meanwhile; then p has written the rest of a file whose
\* beginning may be a hole.
Written(p, old) ==
    IF sole[p] \/ ~honest THEN Served
    ELSE IF old = "good" THEN {"good"} ELSE {"good", "bad"}

\* The end of the stream, wherever the file is by now.
FinishWrite(p) ==
    /\ At(p, "write")
    /\ LET h == Segment(p) IN
       CASE fd[p] = "part" ->
              /\ \E b \in Written(p, part[h]) : part' = [part EXCEPT ![h] = b]
              /\ UNCHANGED <<tmp, chunk>>
         [] fd[p] = "tmp" ->
              /\ \E b \in Written(p, tmp[h]) : tmp' = [tmp EXCEPT ![h] = b]
              /\ UNCHANGED <<part, chunk>>
         [] fd[p] = "chunk" ->
              /\ \E b \in Written(p, chunk[h]) : chunk' = [chunk EXCEPT ![h] = b]
              /\ UNCHANGED <<part, tmp>>
         [] OTHER -> UNCHANGED <<part, tmp, chunk>>
    /\ CloseFile(p)
    /\ Goto(p, "rename")
    /\ UNCHANGED <<lockVars, regime, asm, out, callVars>>

\* get_blob's rename to <hash>.tmp.
RenamePart(p) ==
    /\ At(p, "rename")
    /\ part[Segment(p)] # Absent
    /\ tmp' = [tmp EXCEPT ![Segment(p)] = part[Segment(p)]]
    /\ part' = [part EXCEPT ![Segment(p)] = Absent]
    /\ fd' = Moved(p, "part", "tmp")
    /\ Goto(p, "check")
    /\ UNCHANGED <<lockVars, regime, chunk, sole, asm, out, callVars>>

\* Mutated form of CheckChunk: the size is compared, the hash is not.
CheckChunkSize(p) ==
    /\ At(p, "check")
    /\ tmp[Segment(p)] \in {"good", "bad"}
    /\ Goto(p, "keep")
    /\ UNCHANGED <<lockVars, regime, fileVars, callVars>>

\* Size and hash of <hash>.tmp.
CheckChunk(p) ==
    /\ At(p, "check")
    /\ tmp[Segment(p)] = "good"
    /\ Goto(p, "keep")
    /\ UNCHANGED <<lockVars, regime, fileVars, callVars>>

\* CacheCorruptError, also when the size in the manifest is wrong; <hash>.tmp is
\* deleted.
RejectChunk(p) ==
    /\ At(p, "check")
    /\ tmp[Segment(p)] \in IF honest THEN {"bad", "short"} ELSE Bytes
    /\ tmp' = [tmp EXCEPT ![Segment(p)] = Absent]
    /\ fd' = [q \in Procs |-> IF q \in Writers(p, "tmp") THEN "gone" ELSE fd[q]]
    /\ Raise(p)
    /\ UNCHANGED <<regime, part, chunk, sole, asm, out, calm>>

\* The chunk gets its final name: what is at <hash>.tmp now.
KeepChunk(p) ==
    /\ At(p, "keep")
    /\ tmp[Segment(p)] # Absent
    /\ chunk' = [chunk EXCEPT ![Segment(p)] = tmp[Segment(p)]]
    /\ tmp' = [tmp EXCEPT ![Segment(p)] = Absent]
    /\ fd' = Moved(p, "tmp", "chunk")
    /\ i' = [i EXCEPT ![p] = @ + 1]
    /\ Goto(p, "chunks")
    /\ UNCHANGED <<lockVars, regime, part, sole, asm, out, req, plan, calm, result>>

\* Another process has renamed or deleted the temporary file: rename() or
\* stat() raises FileNotFoundError.
ChunkStolen(p) ==
    /\ \/ At(p, "rename") /\ part[Segment(p)] = Absent
       \/ (At(p, "check") \/ At(p, "keep")) /\ tmp[Segment(p)] = Absent
    /\ Raise(p)
    /\ UNCHANGED <<regime, fileVars, calm>>

-----------------------------------------------------------------------------
\* Assembly

\* What writing the segments of the manifest in hand makes, if each is right.
Planned(p) == IF plan[p] = Parts[req[p]] THEN "good" ELSE "bad"

\* Mutated form of BeginAssembly: the file is opened for appending.
BeginAssemblyAppends(p) ==
    /\ At(p, "chunks") /\ ~More(p)
    /\ asm' = [asm EXCEPT ![req[p]] = IF @ = Absent THEN Planned(p) ELSE "bad"]
    /\ i' = [i EXCEPT ![p] = 1]
    /\ Goto(p, "assemble")
    /\ UNCHANGED <<lockVars, regime, chunkVars, out, req, plan, calm, result>>

\* A stale <name>.assemble.tmp is replaced by an empty file.
BeginAssembly(p) ==
    /\ At(p, "chunks") /\ ~More(p)
    /\ asm' = [asm EXCEPT ![req[p]] = Planned(p)]
    /\ i' = [i EXCEPT ![p] = 1]
    /\ Goto(p, "assemble")
    /\ UNCHANGED <<lockVars, regime, chunkVars, out, req, plan, calm, result>>

\* One segment is appended: a chunk from its final name, or a patch from the
\* server, applied to its dictionary.
AppendSegment(p) ==
    /\ At(p, "assemble") /\ More(p)
    /\ \E b \in IF Segment(p) \in Patches THEN Served ELSE {chunk[Segment(p)]} :
          asm' = [asm EXCEPT ![req[p]] = IF b = "good" THEN @ ELSE "bad"]
    /\ i' = [i EXCEPT ![p] = @ + 1]
    /\ UNCHANGED <<lockVars, regime, chunkVars, out, pc, req, plan, calm, result>>

\* Size and hash of the assembled file against the manifest's.
VerifyFile(p) ==
    /\ At(p, "assemble") /\ ~More(p)
    /\ asm[req[p]] = "good"
    /\ Goto(p, "publish")
    /\ UNCHANGED <<lockVars, regime, fileVars, callVars>>

\* "Assembled hash mismatch", or a size that is not the manifest's: the assembled
\* file goes, the chunks stay.
RejectFile(p) ==
    /\ At(p, "assemble") /\ ~More(p)
    /\ asm[req[p]] # "good" \/ ~honest
    /\ asm' = [asm EXCEPT ![req[p]] = Absent]
    /\ Raise(p)
    /\ UNCHANGED <<regime, chunkVars, out, calm>>

PublishFile(p) ==
    /\ At(p, "publish")
    /\ out' = [out EXCEPT ![req[p]] = asm[req[p]]]
    /\ asm' = [asm EXCEPT ![req[p]] = Absent]
    /\ Goto(p, "evict")
    /\ UNCHANGED <<lockVars, regime, chunkVars, callVars>>

-----------------------------------------------------------------------------
\* The end of a call

\* A hit is touched and returned.
ReturnHit(p) ==
    /\ At(p, "touch")
    /\ EndCall(p, "returned")
    /\ UNCHANGED <<regime, fileVars, calm>>

\* A new file is recorded, others are evicted under the cap.
EvictAndReturn(p) ==
    /\ At(p, "evict")
    /\ EvictBut({req[p]})
    /\ EndCall(p, "returned")
    /\ UNCHANGED <<regime, chunkVars, asm, calm>>

\* _touch_index: the file was evicted between exists() and stat().
Evicted(p) ==
    /\ At(p, "touch") \/ At(p, "evict")
    /\ out[req[p]] = Absent
    /\ Raise(p)
    /\ UNCHANGED <<regime, fileVars, calm>>

\* Mutated form of RequestFails: the descriptor is left open.
RequestFailsOpen(p) ==
    /\ At(p, "head") \/ At(p, "get") \/ At(p, "write")
    /\ Raise(p)
    /\ calm' = [calm EXCEPT ![p] = FALSE]
    /\ UNCHANGED <<regime, fileVars>>

\* A request fails, or what it delivers does not parse or decompress, or a wrong
\* manifest has a segment that is none of its chunks.
RequestFails(p) ==
    /\ \/ At(p, "head") \/ At(p, "get") \/ At(p, "write")
       \/ At(p, "assemble") /\ More(p) /\ (Segment(p) \in Patches \/ ~honest)
    /\ Raise(p)
    /\ CloseFile(p)
    /\ calm' = [calm EXCEPT ![p] = FALSE]
    /\ UNCHANGED <<regime, part, tmp, chunk, asm, out>>

\* The process dies; files stay as they are.
Crash(p) ==
    /\ Crashes /\ ~At(p, "idle")
    /\ Goto(p, "idle")
    /\ req' = [req EXCEPT ![p] = None]
    /\ plan' = [plan EXCEPT ![p] = <<>>]
    /\ i' = [i EXCEPT ![p] = 1]
    /\ CloseFile(p)
    /\ LockDie(p)
    /\ UNCHANGED <<regime, part, tmp, chunk, asm, out, calm, result>>

Step(p) ==
    \/ FirstLookup(p) \/ FetchManifest(p) \/ HeadFails(p) \/ Lookup(p) \/ Acquire(p) \/ TimeOut(p) \/ LockedCheck(p)
    \/ SkipChunk(p) \/ RequestChunk(p) \/ OpenPart(p) \/ FinishWrite(p) \/ RenamePart(p)
    \/ CheckChunk(p) \/ RejectChunk(p) \/ KeepChunk(p) \/ ChunkStolen(p)
    \/ BeginAssembly(p) \/ AppendSegment(p) \/ VerifyFile(p) \/ RejectFile(p)
    \/ PublishFile(p) \/ ReturnHit(p) \/ EvictAndReturn(p) \/ Evicted(p)
    \/ RequestFails(p)

Next == \E p \in Procs : \/ Step(p) \/ Crash(p)
                         \/ \E m \in Contents : Call(p, m)

Spec == Init /\ [][Next]_vars

-----------------------------------------------------------------------------

\* The file under the name of a whole-file hash has that hash, whatever the server
\* sends, a manifest of the wrong file or with wrong segments included, and
\* whatever happens to the chunks, which have no lock.
AssembledVerified == \A m \in Contents : out[m] \in {"good", Absent}

\* A file under its final name in chunks/ has the bytes it is named after.
ChunksVerified == \A h \in Chunks : chunk[h] \in {"good", Absent}

(***************************************************************************)
(* README.md:88, "atomic rename after verifying size/hash", of files and   *)
(* chunks: an assembled file has the hash in its name, whatever the server *)
(* sends; that it is the file of the content id which was asked for rests  *)
(* on the server, for the bytes of a manifest are not hashed.  And with a  *)
(* server that sends the right bytes, two calls at a time do not make a    *)
(* wrong chunk of them, although they fetch what the other has just        *)
(* fetched, truncate, rename and delete each other's temporary files and   *)
(* die in between.  Three do: one has hashed <hash>.tmp and not yet        *)
(* renamed it, a second has opened <hash>.tmp.tmp, a third truncates it,   *)
(* and the second renames what it then wrote.  A wrong chunk of the right  *)
(* size is trusted for ever.                                               *)
(***************************************************************************)
StoredVerified == AssembledVerified /\ (honest /\ ~crowded => ChunksVerified)

(***************************************************************************)
(* Whatever calls that failed or died have left behind (temporary files,   *)
(* half an assembly, some of the chunks), a later call that nobody         *)
(* disturbs, with a server that answers, succeeds: retrying helps, unless  *)
(* a crowd has left a wrong chunk.                                         *)
(***************************************************************************)
RetrySucceeds ==
    ~crowded => \A p \in Procs : result[p] = "error" => ~calm[p]
=============================================================================
