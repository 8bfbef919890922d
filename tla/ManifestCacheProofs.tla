------------------------- MODULE ManifestCacheProofs -------------------------
(***************************************************************************)
(* Proofs about ManifestCache, for any processes, manifests and chunks,    *)
(* with failing requests, a server that may send wrong bytes, and crashes: *)
(* types, what is stored, and what a retry gives.                          *)
(***************************************************************************)
EXTENDS ManifestCache, TLAPS

\* Where a process has the temporary files of a chunk.
Fetch == {"write", "rename", "check", "keep"}

\* Where a process has the lock of its manifest.
Critical == {"locked", "chunks", "assemble", "publish", "evict", "get"} \union Fetch

PlanOK == plan \in [Procs -> Seq(Chunks \union Patches)]

Types ==
    /\ LockTypeOK
    /\ honest \in BOOLEAN /\ crowded \in BOOLEAN
    /\ part \in [Chunks -> Maybe] /\ tmp \in [Chunks -> Maybe] /\ chunk \in [Chunks -> Maybe]
    /\ asm \in [Contents -> Maybe] /\ out \in [Contents -> Maybe]
    /\ pc \in [Procs -> Location]
    /\ req \in [Procs -> Contents \union {None}]
    /\ PlanOK
    /\ i \in [Procs -> Nat \ {0}]
    /\ fd \in [Procs -> {"none", "part", "tmp", "chunk", "gone"}]
    /\ sole \in [Procs -> BOOLEAN]
    /\ calm \in [Procs -> BOOLEAN]
    /\ result \in [Procs -> {"none", "returned", "error"}]

\* A call in progress has a manifest, and while it fetches, a chunk of it.
CallInv ==
    \A p \in Procs :
        /\ IF pc[p] = "idle" THEN req[p] = None /\ i[p] = 1
                             ELSE req[p] \in Contents /\ result[p] = "none"
        /\ pc[p] \in Fetch => More(p) /\ Segment(p) \in Chunks
        /\ pc[p] = "get" => More(p) /\ Segment(p) \in Chunks
        /\ fd[p] = "none" <=> pc[p] # "write"

\* A lock is held for the request only, by one process at a time.
HolderInv ==
    /\ MutualExclusion
    /\ \A c \in Contents : \A p \in holders[c] : pc[p] \in Critical \union {"touch"} /\ req[p] = c
    /\ \A p \in Procs : pc[p] \in Critical => p \in holders[req[p]]

\* What the hash check saw is still there when the file is renamed.
FileInv ==
    /\ AssembledVerified
    /\ \A p \in Procs : pc[p] = "publish" => asm[req[p]] = "good"

Base == Types /\ CallInv /\ HolderInv /\ FileInv

-----------------------------------------------------------------------------
\* Steps

LEMMA BaseInit == Init => Base
<1> SUFFICES ASSUME Init PROVE Base OBVIOUS
<1> USE DEF Init, LockInit
<1>1. Types
    <2>1. Absent \in Maybe /\ "idle" \in Location
        BY DEF Maybe, Location
    <2>2. LockTypeOK
        BY DEF LockTypeOK
    <2>3. honest \in BOOLEAN /\ crowded \in BOOLEAN
        OBVIOUS
    <2>4. /\ part \in [Chunks -> Maybe] /\ tmp \in [Chunks -> Maybe] /\ chunk \in [Chunks -> Maybe]
          /\ asm \in [Contents -> Maybe] /\ out \in [Contents -> Maybe]
        BY <2>1
    <2>5. /\ pc \in [Procs -> Location]
          /\ req \in [Procs -> Contents \union {None}]
          /\ PlanOK
          /\ i \in [Procs -> Nat \ {0}]
          /\ fd \in [Procs -> {"none", "part", "tmp", "chunk", "gone"}]
          /\ result \in [Procs -> {"none", "returned", "error"}]
        BY <2>1 DEF PlanOK
    <2>6. sole \in [Procs -> BOOLEAN] /\ calm \in [Procs -> BOOLEAN]
        OBVIOUS
    <2> QED  BY <2>2, <2>3, <2>4, <2>5, <2>6, Zenon DEF Types
<1>2. CallInv
    BY DEF CallInv, Fetch
<1>3. HolderInv /\ FileInv
    BY DEF HolderInv, FileInv, MutualExclusion, Critical, Fetch, AssembledVerified
<1> QED  BY <1>1, <1>2, <1>3 DEF Base

\* The two halves of every way out of a call.
LEMMA EndTypes ==
    ASSUME Base, NEW p \in Procs, NEW o \in {"none", "returned", "error"}, EndCall(p, o)
    PROVE  /\ LockTypeOK'
           /\ pc' = [pc EXCEPT ![p] = "idle"]
           /\ req' = [req EXCEPT ![p] = None]
           /\ i' = [i EXCEPT ![p] = 1]
           /\ plan' = [plan EXCEPT ![p] = <<>>]
           /\ result' = [result EXCEPT ![p] = o]
           /\ \A c \in Contents : holders'[c] = holders[c] \ {p}
<1> USE DEF EndCall, Goto
<1>1. CASE req[p] \in Contents /\ p \in holders[req[p]]
    <2>1. \A c \in Contents : c # req[p] => p \notin holders[c]
        BY <1>1 DEF Base, HolderInv
    <2>2. LockExit(p, req[p])
        BY <1>1
    <2>3. \A c \in Contents : holders'[c] = holders[c] \ {p}
        BY <1>1, <2>1, <2>2 DEF LockExit, Base, Types, LockTypeOK
    <2>4. LockTypeOK'
        BY <1>1, <2>2 DEF LockExit, Base, Types, LockTypeOK
    <2> QED  BY <2>3, <2>4
<1>2. CASE ~(req[p] \in Contents /\ p \in holders[req[p]])
    <2>1. \A c \in Contents : p \notin holders[c]
        BY <1>2 DEF Base, HolderInv
    <2>2. UNCHANGED lockVars
        BY <1>2
    <2> QED  BY <2>1, <2>2 DEF lockVars, LockTypeOK, Base, Types
<1> QED  BY <1>1, <1>2

\* What is served or written is bytes.
LEMMA SentBytes ==
    ASSUME NEW p, NEW old
    PROVE  Served \subseteq Maybe /\ Written(p, old) \subseteq Maybe
BY DEF Served, Written, Bytes, Maybe

LEMMA SegmentKinds ==
    ASSUME Types, NEW p \in Procs
    PROVE  /\ Len(plan[p]) \in Nat
           /\ More(p) => i[p] \in DOMAIN plan[p] /\ Segment(p) \in Chunks \union Patches
BY DEF Types, PlanOK, More, Segment

\* The steps inside a call, and those that end it.
Inside(p) ==
    \/ FetchManifest(p) \/ Lookup(p) \/ Acquire(p) \/ LockedCheck(p)
    \/ SkipChunk(p) \/ RequestChunk(p) \/ OpenPart(p) \/ FinishWrite(p) \/ RenamePart(p) \/ CheckChunk(p) \/ KeepChunk(p)
    \/ BeginAssembly(p) \/ AppendSegment(p) \/ VerifyFile(p) \/ PublishFile(p)
    \/ FirstLookup(p) /\ ~EndCall(p, "returned")

Ending(p) ==
    \/ HeadFails(p) \/ TimeOut(p) \/ RejectChunk(p) \/ ChunkStolen(p) \/ RejectFile(p) \/ ReturnHit(p)
    \/ EvictAndReturn(p) \/ Evicted(p) \/ RequestFails(p)
    \/ FirstLookup(p) /\ EndCall(p, "returned")

LEMMA StepKinds == \A p : Step(p) => Inside(p) \/ Ending(p)
BY DEF Step, Inside, Ending

\* A step inside a call moves its process; what it was asked and the plan change
\* when it reads the manifest.
LEMMA InsidePlans ==
    ASSUME Base, NEW p \in Procs, Inside(p)
    PROVE  /\ PlanOK'
           /\ \/ FetchManifest(p)
              \/ ~FetchManifest(p) /\ UNCHANGED <<req, plan>>
<1>1. CASE FetchManifest(p)
    BY <1>1, ManifestAssumption DEF FetchManifest, Base, Types, PlanOK
<1>2. CASE ~FetchManifest(p)
    <2>1. UNCHANGED <<req, plan>>
        BY <1>2 DEF Inside, Lookup, Acquire, LockedCheck, SkipChunk, RequestChunk, OpenPart, FinishWrite, RenamePart,
            CheckChunk, KeepChunk, BeginAssembly, AppendSegment, VerifyFile, PublishFile, FirstLookup, callVars
    <2> QED  BY <1>2, <2>1 DEF Base, Types, PlanOK
<1> QED  BY <1>1, <1>2

LEMMA InsideTypes ==
    ASSUME Base, NEW p \in Procs, Inside(p)
    PROVE  Types'
<1>p. PlanOK'
    BY InsidePlans
<1> USE <1>p DEF Base, Types, At, Goto, Maybe, regime
<1>0. CASE FetchManifest(p)
    BY <1>0 DEF FetchManifest, lockVars, fileVars, chunkVars, Location, LockTypeOK
<1>1. CASE Lookup(p) \/ LockedCheck(p) \/ RequestChunk(p) \/ CheckChunk(p) \/ VerifyFile(p)
    BY <1>1 DEF Lookup, LockedCheck, RequestChunk, CheckChunk, VerifyFile, lockVars, fileVars, chunkVars, callVars,
        Location, LockTypeOK
<1>2. CASE Acquire(p)
    BY <1>2, PosixAssumption DEF Acquire, LockAcquire, fileVars, chunkVars, callVars, Location, LockTypeOK
<1>3. CASE SkipChunk(p)
    BY <1>3 DEF SkipChunk, lockVars, fileVars, chunkVars, LockTypeOK
<1>4. CASE OpenPart(p)
    BY <1>4 DEF OpenPart, lockVars, callVars, Location, LockTypeOK, Bytes
<1>5. CASE FinishWrite(p)
    BY <1>5, SentBytes DEF FinishWrite, lockVars, callVars, Location, LockTypeOK, CloseFile
<1>6. CASE RenamePart(p) \/ KeepChunk(p)
    BY <1>6 DEF RenamePart, KeepChunk, lockVars, callVars, Location, LockTypeOK, Moved
<1>7. CASE BeginAssembly(p)
    <2>1. asm' \in [Contents -> Maybe]
        BY <1>7 DEF BeginAssembly, Planned, Bytes
    <2>2. pc' \in [Procs -> Location] /\ i' \in [Procs -> Nat \ {0}]
        BY <1>7 DEF BeginAssembly, Location
    <2> QED  BY <1>7, <2>1, <2>2 DEF BeginAssembly, lockVars, chunkVars, LockTypeOK
<1>8. CASE AppendSegment(p)
    <2>1. asm' \in [Contents -> Maybe]
        BY <1>8 DEF AppendSegment, Bytes
    <2>2. i' \in [Procs -> Nat \ {0}]
        BY <1>8 DEF AppendSegment
    <2> QED  BY <1>8, <2>1, <2>2 DEF AppendSegment, lockVars, chunkVars, LockTypeOK
<1>9. CASE PublishFile(p)
    BY <1>9 DEF PublishFile, lockVars, chunkVars, callVars, Location, LockTypeOK
<1>10. CASE FirstLookup(p) /\ ~EndCall(p, "returned")
    BY <1>10 DEF FirstLookup, lockVars, fileVars, chunkVars, Location, LockTypeOK
<1> QED  BY <1>0, <1>1, <1>2, <1>3, <1>4, <1>5, <1>6, <1>7, <1>8, <1>9, <1>10 DEF Inside

LEMMA EndingTypes ==
    ASSUME Base, NEW p \in Procs, Ending(p)
    PROVE  Types'
<1>1. PICK o \in {"none", "returned", "error"} : EndCall(p, o)
    BY DEF Ending, HeadFails, TimeOut, RejectChunk, ChunkStolen, RejectFile, ReturnHit, EvictAndReturn, Evicted,
        RequestFails, FirstLookup, Raise
<1>2. /\ LockTypeOK'
      /\ pc' \in [Procs -> Location]
      /\ req' \in [Procs -> Contents \union {None}]
      /\ i' \in [Procs -> Nat \ {0}]
      /\ PlanOK'
      /\ result' \in [Procs -> {"none", "returned", "error"}]
    <2>1. Types
        BY DEF Base
    <2>2. /\ pc' = [pc EXCEPT ![p] = "idle"]
          /\ req' = [req EXCEPT ![p] = None]
          /\ i' = [i EXCEPT ![p] = 1]
          /\ plan' = [plan EXCEPT ![p] = <<>>]
          /\ result' = [result EXCEPT ![p] = o]
          /\ LockTypeOK'
        BY <1>1, EndTypes
    <2> QED  BY <2>1, <2>2 DEF Types, PlanOK, Location
<1>3. /\ part' \in [Chunks -> Maybe] /\ tmp' \in [Chunks -> Maybe] /\ chunk' \in [Chunks -> Maybe]
      /\ asm' \in [Contents -> Maybe]
      /\ UNCHANGED regime
    BY DEF Base, Types, Maybe, Ending, HeadFails, TimeOut, RejectChunk, ChunkStolen, RejectFile, ReturnHit, EvictAndReturn,
        Evicted, RequestFails, FirstLookup, fileVars, chunkVars
<1>4. out' \in [Contents -> Maybe]
    <2>1. CASE UNCHANGED out
        BY <2>1 DEF Base, Types
    <2>2. CASE HeadFails(p) \/ EvictAndReturn(p)
        BY <2>2 DEF Base, Types, Maybe, HeadFails, EvictAndReturn, EvictBut, CallInv, At
    <2> QED  BY <2>1, <2>2 DEF Ending, TimeOut, RejectChunk, ChunkStolen, RejectFile, ReturnHit,
        Evicted, RequestFails, FirstLookup, fileVars
<1>5. fd' \in [Procs -> {"none", "part", "tmp", "chunk", "gone"}]
    BY DEF Base, Types, Ending, HeadFails, TimeOut, RejectChunk, ChunkStolen, RejectFile, ReturnHit, EvictAndReturn,
        Evicted, RequestFails, FirstLookup, fileVars, chunkVars, CloseFile
<1>6. sole' \in [Procs -> BOOLEAN] /\ calm' \in [Procs -> BOOLEAN]
    BY DEF Base, Types, Ending, HeadFails, TimeOut, RejectChunk, ChunkStolen, RejectFile, ReturnHit, EvictAndReturn,
        Evicted, RequestFails, FirstLookup, fileVars, chunkVars, CloseFile
<1>7. honest' \in BOOLEAN /\ crowded' \in BOOLEAN
    BY <1>3 DEF regime, Base, Types
<1> QED  BY <1>2, <1>3, <1>4, <1>5, <1>6, <1>7, Zenon DEF Types

LEMMA CrashTypes ==
    ASSUME Base, NEW p \in Procs, Crash(p)
    PROVE  Types'
<1>1. PlanOK'
    BY DEF Base, Types, PlanOK, Crash
<1> QED  BY <1>1 DEF Base, Types, Crash, Goto, LockDie, CloseFile, LockTypeOK, Location, regime

LEMMA CallTypes ==
    ASSUME Base, NEW p \in Procs, NEW m \in Contents, Call(p, m)
    PROVE  Types'
<1> USE DEF Base, Types, Call
<1>1. calm' \in [Procs -> BOOLEAN]
    OBVIOUS
<1>2. PlanOK'
    BY DEF PlanOK
<1> QED  BY <1>1, <1>2 DEF Goto, LockTypeOK, lockVars, fileVars, chunkVars, Location, regime

-----------------------------------------------------------------------------
\* Calls

\* A step inside a call moves its process.
LEMMA InsideMoves ==
    ASSUME Base, NEW p \in Procs, Inside(p)
    PROVE  /\ pc[p] # "idle"
           /\ \E to \in Location \ {"idle"} : pc' = [pc EXCEPT ![p] = to]
           /\ \A q \in Procs \ {p} : i'[q] = i[q] /\ req'[q] = req[q] /\ plan'[q] = plan[q]
           /\ req'[p] \in Contents
           /\ UNCHANGED <<calm, result, honest>>
<1> USE DEF Base, Types, At, Goto, Location, regime
<1>1. CASE FetchManifest(p)
    BY <1>1 DEF FetchManifest, PlanOK
<1>2. CASE UNCHANGED <<req, plan>> /\ ~FetchManifest(p)
    <2>1. CASE Lookup(p) \/ LockedCheck(p) \/ (FirstLookup(p) /\ ~EndCall(p, "returned"))
        BY <1>2, <2>1 DEF Lookup, LockedCheck, FirstLookup, CallInv, callVars
    <2>2. CASE Acquire(p) \/ SkipChunk(p) \/ RequestChunk(p) \/ OpenPart(p) \/ RenamePart(p)
        BY <1>2, <2>2 DEF CallInv, Acquire, SkipChunk, RequestChunk, OpenPart, RenamePart, callVars
    <2>3. CASE CheckChunk(p) \/ KeepChunk(p) \/ BeginAssembly(p) \/ AppendSegment(p) \/ VerifyFile(p) \/ PublishFile(p)
        BY <1>2, <2>3 DEF CallInv, CheckChunk, KeepChunk, BeginAssembly, AppendSegment, VerifyFile, PublishFile, callVars
    <2>4. CASE FinishWrite(p)
        <3>1. pc[p] = "write" /\ pc' = [pc EXCEPT ![p] = "rename"] /\ UNCHANGED <<callVars, honest>>
            BY <2>4 DEF FinishWrite
        <3> QED  BY <3>1 DEF CallInv, callVars
    <2>5. \/ Lookup(p) \/ LockedCheck(p) \/ (FirstLookup(p) /\ ~EndCall(p, "returned"))
          \/ Acquire(p) \/ SkipChunk(p) \/ RequestChunk(p) \/ OpenPart(p) \/ RenamePart(p)
          \/ CheckChunk(p) \/ KeepChunk(p) \/ BeginAssembly(p) \/ AppendSegment(p) \/ VerifyFile(p) \/ PublishFile(p)
          \/ FinishWrite(p)
        BY <1>2 DEF Inside
    <2> QED  BY <2>1, <2>2, <2>3, <2>4, <2>5
<1> QED  BY <1>1, <1>2, InsidePlans

\* A step that ends a call tells how, and leaves other calls alone.
LEMMA EndingMoves ==
    ASSUME Base, NEW p \in Procs, Ending(p)
    PROVE  /\ pc[p] # "idle"
           /\ \E o \in {"returned", "error"} : EndCall(p, o)
           /\ UNCHANGED <<honest, crowded>>
BY DEF Base, Types, Ending, HeadFails, TimeOut, RejectChunk, ChunkStolen, RejectFile, ReturnHit, EvictAndReturn, Evicted,
    RequestFails, FirstLookup, Raise, At, regime

\* Which descriptors are open.
LEMMA OpenFiles ==
    ASSUME Base, NEW p \in Procs, Inside(p) \/ Ending(p) \/ Crash(p)
    PROVE  /\ \A q \in Procs \ {p} : fd'[q] = "none" <=> fd[q] = "none"
           /\ fd'[p] = "none" <=> pc'[p] # "write"
<1> USE DEF Base, Types, At, Goto, CallInv
<1>1. CASE OpenPart(p)
    BY <1>1 DEF OpenPart
<1>2. CASE FinishWrite(p) \/ RequestFails(p) \/ Crash(p)
    BY <1>2 DEF FinishWrite, RequestFails, Crash, CloseFile, Raise, EndCall
<1>3. CASE RenamePart(p) \/ KeepChunk(p)
    BY <1>3 DEF RenamePart, KeepChunk, Moved, Writers
<1>4. CASE RejectChunk(p)
    BY <1>4 DEF RejectChunk, Writers, Raise, EndCall
<1>5. CASE UNCHANGED fd /\ pc[p] # "write" /\ pc'[p] # "write"
    BY <1>5
<1>6. CASE Inside(p) /\ ~(OpenPart(p) \/ FinishWrite(p) \/ RenamePart(p) \/ KeepChunk(p))
    <2>1. UNCHANGED fd /\ pc[p] # "write" /\ pc'[p] # "write"
        BY <1>6 DEF Inside, FetchManifest, Lookup, Acquire, LockedCheck, SkipChunk, RequestChunk, CheckChunk, BeginAssembly,
            AppendSegment, VerifyFile, PublishFile, FirstLookup, fileVars, chunkVars
    <2> QED  BY <2>1, <1>5
<1>7. CASE Ending(p) /\ ~(RequestFails(p) \/ RejectChunk(p))
    <2>1. UNCHANGED fd /\ pc[p] # "write" /\ pc'[p] # "write"
        BY <1>7 DEF Ending, HeadFails, TimeOut, ChunkStolen, RejectFile, ReturnHit, EvictAndReturn, Evicted,
            FirstLookup, fileVars, chunkVars, Raise, EndCall
    <2> QED  BY <2>1, <1>5
<1> QED  BY <1>1, <1>2, <1>3, <1>4, <1>6, <1>7

LEMMA FetchStep ==
    ASSUME Base, NEW p \in Procs, Inside(p), pc'[p] \in Fetch \union {"get"}
    PROVE  More(p)' /\ Segment(p)' \in Chunks
<1> USE DEF Base, Types, At, Goto, CallInv, Fetch
<1>1. CASE OpenPart(p)
    BY <1>1 DEF OpenPart, callVars, More, Segment
<1>0. CASE RequestChunk(p)
    BY <1>0 DEF RequestChunk, Missing, callVars, More, Segment
<1>2. CASE FinishWrite(p) \/ RenamePart(p) \/ CheckChunk(p)
    BY <1>2 DEF FinishWrite, RenamePart, CheckChunk, callVars, More, Segment
<1>3. CASE ~(RequestChunk(p) \/ OpenPart(p) \/ FinishWrite(p) \/ RenamePart(p) \/ CheckChunk(p))
    BY <1>3 DEF Inside, FetchManifest, Lookup, Acquire, LockedCheck, SkipChunk, RequestChunk, BeginAssembly, KeepChunk,
        AppendSegment, VerifyFile, PublishFile, FirstLookup
<1> QED  BY <1>0, <1>1, <1>2, <1>3

LEMMA InsideCalls ==
    ASSUME Base, NEW p \in Procs, Inside(p)
    PROVE  CallInv'
<1>1. PICK to \in Location \ {"idle"} : pc' = [pc EXCEPT ![p] = to]
    BY InsideMoves
<1>2. ASSUME NEW q \in Procs \ {p} PROVE Segment(q)' = Segment(q) /\ (More(q)' <=> More(q)) /\ pc'[q] = pc[q]
    BY <1>1, InsideMoves DEF Segment, More, Base, Types
<1>3. pc'[p] = to /\ pc[p] # "idle"
    BY <1>1, InsideMoves DEF Base, Types
<1> QED  BY <1>1, <1>2, <1>3, InsideMoves, OpenFiles, FetchStep DEF CallInv, Base

LEMMA EndingCalls ==
    ASSUME Base, NEW p \in Procs, Ending(p)
    PROVE  CallInv'
<1>1. PICK o \in {"returned", "error"} : EndCall(p, o)
    BY EndingMoves
<1>2. /\ pc' = [pc EXCEPT ![p] = "idle"] /\ req' = [req EXCEPT ![p] = None] /\ i' = [i EXCEPT ![p] = 1]
      /\ plan' = [plan EXCEPT ![p] = <<>>] /\ result' = [result EXCEPT ![p] = o]
    BY <1>1, EndTypes
<1>3. ASSUME NEW q \in Procs \ {p} PROVE Segment(q)' = Segment(q) /\ (More(q)' <=> More(q)) /\ pc'[q] = pc[q]
    BY <1>2 DEF Segment, More, Base, Types
<1> QED  BY <1>2, <1>3, OpenFiles DEF CallInv, Base, Types, Fetch

LEMMA CrashCalls ==
    ASSUME Base, NEW p \in Procs, Crash(p)
    PROVE  CallInv'
<1>1. ASSUME NEW q \in Procs \ {p} PROVE Segment(q)' = Segment(q) /\ (More(q)' <=> More(q)) /\ pc'[q] = pc[q]
    BY <1>1 DEF Segment, More, Base, Types, Crash, Goto
<1>2. /\ pc' = [pc EXCEPT ![p] = "idle"] /\ req' = [req EXCEPT ![p] = None] /\ i' = [i EXCEPT ![p] = 1]
      /\ plan' = [plan EXCEPT ![p] = <<>>] /\ result' = result
    BY DEF Crash, Goto
<1> QED  BY <1>1, <1>2, OpenFiles DEF CallInv, Base, Types, Fetch

LEMMA NewCalls ==
    ASSUME Base, NEW p \in Procs, NEW m \in Contents, Call(p, m)
    PROVE  CallInv'
<1>1. ASSUME NEW q \in Procs \ {p} PROVE Segment(q)' = Segment(q) /\ (More(q)' <=> More(q)) /\ pc'[q] = pc[q]
    BY <1>1 DEF Segment, More, Base, Types, Call, Goto
<1>2. /\ pc' = [pc EXCEPT ![p] = "first"] /\ req' = [req EXCEPT ![p] = m] /\ UNCHANGED <<fd, i>>
      /\ UNCHANGED plan /\ result' = [result EXCEPT ![p] = "none"] /\ pc[p] = "idle"
    BY DEF Call, Goto, At, fileVars, chunkVars
<1> QED  BY <1>1, <1>2 DEF CallInv, Base, Types, Fetch

-----------------------------------------------------------------------------
\* Locks, and the assembled files

LEMMA InsideHolders ==
    ASSUME Base, NEW p \in Procs, Inside(p)
    PROVE  HolderInv'
<1>1. PICK to \in Location \ {"idle"} : pc' = [pc EXCEPT ![p] = to]
    BY InsideMoves
<1>2. pc'[p] = to /\ \A q \in Procs \ {p} : pc'[q] = pc[q] /\ req'[q] = req[q]
    BY <1>1, InsideMoves DEF Base, Types
<1>m. CASE FetchManifest(p)
    <2>1. pc[p] = "head" /\ pc'[p] = "lookup" /\ UNCHANGED holders
        BY <1>m DEF FetchManifest, At, Goto, lockVars, Base, Types
    <2>2. \A c \in Contents : p \notin holders[c]
        BY <2>1 DEF Base, HolderInv, Critical, Fetch
    <2> QED  BY <1>2, <2>1, <2>2 DEF HolderInv, Base, Types, LockTypeOK, MutualExclusion, Critical, Fetch
<1>3. CASE Acquire(p)
    <2>1. holders[req[p]] = {} /\ holders' = [holders EXCEPT ![req[p]] = {p}] /\ pc'[p] = "locked"
        BY <1>3, <1>1, <1>2, ManifestAssumption DEF Acquire, callVars, LockAcquire, LockFree, Goto, Base, Types, LockTypeOK, CallInv, At
    <2>3. UNCHANGED req
        BY <1>3 DEF Acquire, callVars
    <2>2. req[p] \in Contents
        BY <1>3 DEF Acquire, At, Base, CallInv
    <2> QED  BY <1>2, <2>1, <2>2, <2>3 DEF HolderInv, Base, Types, LockTypeOK, MutualExclusion, Critical, Fetch
<1>r. CASE UNCHANGED req /\ ~FetchManifest(p) /\ ~Acquire(p)
    <2>1. UNCHANGED holders
        BY <1>r DEF Inside, Lookup, LockedCheck, SkipChunk, RequestChunk, OpenPart, FinishWrite, RenamePart,
            CheckChunk, KeepChunk, BeginAssembly, AppendSegment, VerifyFile, PublishFile, FirstLookup, lockVars, EndCall
    <2>2. pc'[p] \in Critical => pc[p] \in Critical
        BY <1>2, <1>r DEF Inside, Lookup, LockedCheck, SkipChunk, RequestChunk, OpenPart, FinishWrite, RenamePart,
            CheckChunk, KeepChunk, BeginAssembly, AppendSegment, VerifyFile, PublishFile, FirstLookup, Critical, Fetch, At,
            Goto, Base, Types
    <2>3. pc[p] \in Critical \union {"touch"} => pc'[p] \in Critical \union {"touch"}
        BY <1>2, <1>r DEF Inside, Lookup, LockedCheck, SkipChunk, RequestChunk, OpenPart, FinishWrite, RenamePart,
            CheckChunk, KeepChunk, BeginAssembly, AppendSegment, VerifyFile, PublishFile, FirstLookup, Critical, Fetch, At,
            Goto, Base, Types
    <2> QED  BY <1>2, <1>r, <2>1, <2>2, <2>3 DEF HolderInv, Base, Types, LockTypeOK, MutualExclusion
<1> QED  BY <1>3, <1>m, <1>r, InsidePlans

\* A process that ends its call or dies has no lock any more.
LEMMA LeftHolders ==
    ASSUME Base, NEW p \in Procs, Ending(p) \/ Crash(p)
    PROVE  HolderInv'
<1>1. /\ pc' = [pc EXCEPT ![p] = "idle"] /\ req' = [req EXCEPT ![p] = None]
      /\ \A c \in Contents : holders'[c] = holders[c] \ {p}
    <2>1. CASE Crash(p)
        BY <2>1 DEF Crash, LockDie, Goto
    <2>2. CASE Ending(p)
        BY <2>2, EndingMoves, EndTypes
    <2> QED  BY <2>1, <2>2
<1>2. pc'[p] = "idle" /\ \A q \in Procs \ {p} : pc'[q] = pc[q] /\ req'[q] = req[q]
    BY <1>1 DEF Base, Types
<1>3. \A q \in Procs : pc[q] \in Critical => req[q] \in Contents
    BY DEF Base, CallInv, Critical, Fetch
<1> QED  BY <1>1, <1>2, <1>3 DEF HolderInv, Base, Types, LockTypeOK, MutualExclusion, Critical, Fetch

LEMMA CallHolders ==
    ASSUME Base, NEW p \in Procs, NEW m \in Contents, Call(p, m)
    PROVE  HolderInv'
<1>1. /\ pc[p] = "idle" /\ pc' = [pc EXCEPT ![p] = "first"] /\ req' = [req EXCEPT ![p] = m] /\ UNCHANGED holders
    BY DEF Call, Goto, At, lockVars
<1>2. pc'[p] = "first" /\ \A q \in Procs \ {p} : pc'[q] = pc[q] /\ req'[q] = req[q]
    BY <1>1 DEF Base, Types
<1> QED  BY <1>1, <1>2 DEF HolderInv, Base, Types, LockTypeOK, MutualExclusion, Critical, Fetch

\* Two processes in the critical part have different manifests.
LEMMA Alone ==
    ASSUME Base, NEW p \in Procs, NEW q \in Procs, pc[p] \in Critical, pc[q] \in Critical, req[p] = req[q]
    PROVE  p = q
<1>1. req[p] \in Contents
    BY DEF Base, CallInv, Critical, Fetch
<1> QED  BY <1>1 DEF Base, HolderInv, MutualExclusion

\* What happens to the files of the manifests.
LEMMA InsideFiles ==
    ASSUME Base, NEW p \in Procs, Inside(p)
    PROVE  FileInv'
<1>1. PICK to \in Location \ {"idle"} : pc' = [pc EXCEPT ![p] = to]
    BY InsideMoves
<1>2. pc'[p] = to /\ \A q \in Procs \ {p} : pc'[q] = pc[q] /\ req'[q] = req[q]
    BY <1>1, InsideMoves DEF Base, Types
<1>r. ~FetchManifest(p) => UNCHANGED req
    BY InsidePlans
<1>3. ASSUME NEW q \in Procs \ {p}, pc[q] = "publish", pc[p] \in Critical PROVE req[p] # req[q]
    BY <1>3, Alone DEF Critical
<1>4. req[p] \in Contents
    BY InsideMoves DEF Base, CallInv
<1>5. CASE PublishFile(p)
    BY <1>5, <1>2, <1>3, <1>4 DEF PublishFile, At, Goto, FileInv, AssembledVerified, Base, Types, Critical
<1>6. CASE BeginAssembly(p) \/ AppendSegment(p)
    <2>1. UNCHANGED out /\ pc'[p] # "publish" /\ pc[p] \in Critical
        BY <1>6, <1>2 DEF BeginAssembly, AppendSegment, At, Goto, Critical, Base, Types
    <2>2. \A m \in Contents : m # req[p] => asm'[m] = asm[m]
        BY <1>6 DEF BeginAssembly, AppendSegment, Base, Types
    <2>3. \A q \in Procs \ {p} : pc[q] = "publish" => req[q] \in Contents /\ req[q] # req[p]
        BY <1>3, <2>1 DEF Base, CallInv
    <2> QED  BY <1>2, <2>1, <2>2, <2>3 DEF FileInv, AssembledVerified, Base
<1>7. CASE VerifyFile(p)
    BY <1>7, <1>2 DEF VerifyFile, At, Goto, FileInv, AssembledVerified, Base, Types, fileVars, callVars
<1>8. CASE ~(PublishFile(p) \/ BeginAssembly(p) \/ AppendSegment(p) \/ VerifyFile(p))
    <2>1. UNCHANGED <<out, asm>> /\ pc'[p] # "publish"
        BY <1>8, <1>2 DEF Inside, FetchManifest, Lookup, Acquire, LockedCheck, SkipChunk, RequestChunk, OpenPart, FinishWrite, RenamePart,
            CheckChunk, KeepChunk, FirstLookup, fileVars, Goto, Base, Types, At
    <2> QED  BY <1>2, <2>1 DEF FileInv, AssembledVerified, Base
<1> QED  BY <1>5, <1>6, <1>7, <1>8

LEMMA LeftFiles ==
    ASSUME Base, NEW p \in Procs, Ending(p) \/ Crash(p)
    PROVE  FileInv'
<1>1. pc' = [pc EXCEPT ![p] = "idle"] /\ req' = [req EXCEPT ![p] = None]
    <2>1. CASE Crash(p)
        BY <2>1 DEF Crash, Goto
    <2>2. CASE Ending(p)
        BY <2>2, EndingMoves, EndTypes
    <2> QED  BY <2>1, <2>2
<1>2. pc'[p] = "idle" /\ \A q \in Procs \ {p} : pc'[q] = pc[q] /\ req'[q] = req[q]
    BY <1>1 DEF Base, Types
<1>3. AssembledVerified'
    <2>1. CASE UNCHANGED out
        BY <2>1 DEF AssembledVerified, Base, FileInv
    <2>2. CASE HeadFails(p) \/ EvictAndReturn(p)
        BY <2>2 DEF HeadFails, EvictAndReturn, EvictBut, AssembledVerified, Base, FileInv
    <2> QED  BY <2>1, <2>2 DEF Crash, Ending, TimeOut, RejectChunk, ChunkStolen, RejectFile, ReturnHit,
        Evicted, RequestFails, FirstLookup, fileVars
<1>4. ASSUME NEW q \in Procs \ {p}, pc[q] = "publish" PROVE asm'[req[q]] = asm[req[q]]
    <2>1. CASE RejectFile(p)
        <3>1. req[p] # req[q]
            BY <1>4, <2>1, Alone DEF RejectFile, At, Critical
        <3> QED  BY <2>1, <3>1, <1>4 DEF RejectFile, Base, Types, CallInv
    <2>2. CASE ~RejectFile(p)
        BY <2>2 DEF Crash, Ending, HeadFails, TimeOut, RejectChunk, ChunkStolen, ReturnHit, EvictAndReturn,
            Evicted, RequestFails, FirstLookup, fileVars
    <2> QED  BY <2>1, <2>2
<1> QED  BY <1>2, <1>3, <1>4 DEF FileInv, Base

LEMMA CallFiles ==
    ASSUME Base, NEW p \in Procs, NEW m \in Contents, Call(p, m)
    PROVE  FileInv'
BY DEF Call, Goto, At, fileVars, FileInv, AssembledVerified, Base, Types

LEMMA BaseStep == Base /\ [Next]_vars => Base'
<1> SUFFICES ASSUME Base, [Next]_vars PROVE Base' OBVIOUS
<1>1. CASE UNCHANGED vars
    BY <1>1 DEF Base, vars, regime, fileVars, chunkVars, callVars, lockVars, Types, PlanOK, LockTypeOK, CallInv, More, Segment,
        HolderInv, MutualExclusion, FileInv, AssembledVerified
<1>2. ASSUME NEW p \in Procs, Inside(p) PROVE Base'
    BY <1>2, InsideTypes, InsideCalls, InsideHolders, InsideFiles DEF Base
<1>3. ASSUME NEW p \in Procs, Ending(p) PROVE Base'
    BY <1>3, EndingTypes, EndingCalls, LeftHolders, LeftFiles DEF Base
<1>4. ASSUME NEW p \in Procs, Crash(p) PROVE Base'
    BY <1>4, CrashTypes, CrashCalls, LeftHolders, LeftFiles DEF Base
<1>5. ASSUME NEW p \in Procs, NEW m \in Contents, Call(p, m) PROVE Base'
    BY <1>5, CallTypes, NewCalls, CallHolders, CallFiles DEF Base
<1> QED  BY <1>1, <1>2, <1>3, <1>4, <1>5, StepKinds DEF Next

LEMMA BaseAlways == Spec => []Base
BY BaseInit, BaseStep, PTL DEF Spec

(***************************************************************************)
(* Every variable keeps its type, and descriptors are closed on every way  *)
(* out of a call.                                                          *)
(***************************************************************************)
THEOREM ManifestTypeCorrect == Spec => []TypeOK
<1>1. Base => TypeOK
    <2> SUFFICES ASSUME Base PROVE TypeOK OBVIOUS
    <2>1. /\ {part, tmp, chunk} \subseteq [Chunks -> Maybe]
          /\ {asm, out} \subseteq [Contents -> Maybe]
          /\ {honest, crowded} \subseteq BOOLEAN
        BY DEF Base, Types
    <2>2. i \in [Procs -> Nat] /\ plan \in [Procs -> Seq(Chunks \union Patches)]
        BY DEF Base, Types, PlanOK
    <2>3. \A p \in Procs : fd[p] = "none" <=> ~At(p, "write")
        BY DEF Base, CallInv, At
    <2> QED  BY <2>1, <2>2, <2>3, Zenon DEF Base, Types, TypeOK
<1> QED  BY <1>1, BaseAlways, PTL
-----------------------------------------------------------------------------
\* Chunks

\* Two calls that are after the same chunk.
Together(p, q) == /\ p # q /\ pc[p] \in Fetch /\ pc[q] \in Fetch
                  /\ Segment(p) = Segment(q)

(***************************************************************************)
(* While at most two calls are after a chunk: a writer whose file has been *)
(* truncated has its rival, who truncated it, still in that file or done   *)
(* with it; and what a rival may yet rename over a file that was hashed,   *)
(* or write into it, is good.                                              *)
(***************************************************************************)
ChunkInv ==
    /\ ChunksVerified
    /\ \A p \in Procs : /\ fd[p] = "tmp" => tmp[Segment(p)] # Absent
                        /\ fd[p] = "chunk" => chunk[Segment(p)] = "good"
                        /\ pc[p] = "keep" => tmp[Segment(p)] \in {"good", Absent}
    /\ \A p, q \in Procs : Together(p, q) =>
          /\ fd[q] = "part" /\ ~sole[q] => \/ fd[p] = "part" /\ sole[p]
                                           \/ pc[p] = "rename" /\ part[Segment(p)] = "good"
          /\ pc[p] \in {"check", "keep"} /\ fd[q] # "part" => part[Segment(p)] \in {"good", Absent}
    /\ \A p, q, r \in Procs : Together(p, q) /\ Together(p, r) => q = r

\* What a step of p leaves as it is.
Others(p) == \A q \in Procs \ {p} : pc'[q] = pc[q] /\ Segment(q)' = Segment(q)

LEMMA OpenPartChunks ==
    ASSUME Base, ChunkInv, NEW p \in Procs, OpenPart(p), Others(p), ~crowded'
    PROVE  ChunkInv'
<1> DEFINE h == Segment(p)
<1>1. /\ part' = [part EXCEPT ![h] = "short"] /\ fd' = [fd EXCEPT ![p] = "part"] /\ pc[p] = "get"
      /\ sole' = [q \in Procs |-> q = p \/ (sole[q] /\ q \notin Writers(p, "part"))]
      /\ UNCHANGED <<tmp, chunk, plan, i>> /\ pc' = [pc EXCEPT ![p] = "write"]
    BY DEF OpenPart, Goto, At, callVars
<1>2. Segment(p)' = h /\ h \in Chunks
    BY <1>1, FetchStep DEF Segment, Inside, Fetch, Base, Types
<1>3. \A q, r \in Procs \ {p} : pc[q] \in Fetch /\ pc[r] \in Fetch /\ Segment(q) = h /\ Segment(r) = h => q = r
    BY DEF OpenPart, Fetching, Fetch
<1>4. pc'[p] = "write" /\ fd'[p] = "part" /\ sole'[p]
    BY <1>1 DEF Base, Types
<1>5. ASSUME NEW q \in Procs \ {p}
      PROVE  /\ fd'[q] = fd[q]
             /\ Segment(q) # h => sole'[q] = sole[q] /\ part'[Segment(q)] = part[Segment(q)]
             /\ ~(q \in Writers(p, "part") /\ Segment(q) # h)
    BY <1>1, <1>5 DEF Base, Types, Writers
<1>6. ASSUME NEW q \in Procs \ {p}, NEW r \in Procs \ {p}, Together(q, r)' PROVE Together(q, r) /\ Segment(q) # h
    BY <1>3, <1>6 DEF Together, Others
<1> HIDE DEF h
<1>7. ChunksVerified'
    BY <1>1 DEF ChunkInv, ChunksVerified
<1>8. \A q \in Procs : /\ fd'[q] = "tmp" => tmp'[Segment(q)'] # Absent
                       /\ fd'[q] = "chunk" => chunk'[Segment(q)'] = "good"
                       /\ pc'[q] = "keep" => tmp'[Segment(q)'] \in {"good", Absent}
    BY <1>1, <1>4, <1>5 DEF ChunkInv, Others
<1>9. ASSUME NEW q \in Procs, NEW r \in Procs, Together(q, r)'
      PROVE  /\ fd'[r] = "part" /\ ~sole'[r] => \/ fd'[q] = "part" /\ sole'[q]
                                                \/ pc'[q] = "rename" /\ part'[Segment(q)'] = "good"
             /\ pc'[q] \in {"check", "keep"} /\ fd'[r] # "part" => part'[Segment(q)'] \in {"good", Absent}
    <2>1. CASE q = p \/ r = p
        BY <2>1, <1>4
    <2>2. CASE q # p /\ r # p
        BY <2>2, <1>5, <1>6, <1>9 DEF ChunkInv, Others, Together
    <2> QED  BY <2>1, <2>2
<1>10. ASSUME NEW q \in Procs, NEW r \in Procs, NEW s \in Procs, Together(q, r)', Together(q, s)' PROVE r = s
    <2>1. CASE q = p
        BY <2>1, <1>10, <1>3, <1>2 DEF Together, Others
    <2>2. CASE q # p /\ (r = p \/ s = p)
        BY <2>2, <1>10, <1>6, <1>2 DEF Together, Others
    <2>3. CASE q # p /\ r # p /\ s # p
        BY <2>3, <1>10, <1>6 DEF ChunkInv
    <2> QED  BY <2>1, <2>2, <2>3
<1> QED  BY <1>7, <1>8, <1>9, <1>10, Zenon DEF ChunkInv

\* With an honest server: what is written whole is right, and what was right stays so.
LEMMA HonestWrites ==
    ASSUME honest, NEW p, NEW old, NEW b \in Written(p, old)
    PROVE  /\ b # Absent
           /\ sole[p] \/ old = "good" => b = "good"
BY DEF Written, Served, Absent

LEMMA FinishWriteChunks ==
    ASSUME Base, ChunkInv, NEW p \in Procs, FinishWrite(p), Others(p), honest
    PROVE  ChunkInv'
<1> DEFINE h == Segment(p)
<1>1. /\ pc[p] = "write" /\ pc' = [pc EXCEPT ![p] = "rename"] /\ UNCHANGED <<plan, i>>
      /\ fd' = [fd EXCEPT ![p] = "none"] /\ sole' = [sole EXCEPT ![p] = FALSE]
    BY DEF FinishWrite, Goto, At, callVars, CloseFile
<1>2. Segment(p)' = h /\ h \in Chunks /\ pc'[p] = "rename" /\ fd'[p] = "none"
    BY <1>1 DEF Segment, Base, Types, CallInv, Fetch
<1>3. \A q \in Procs \ {p} : fd'[q] = fd[q] /\ sole'[q] = sole[q]
    BY <1>1 DEF Base, Types
<1>4. \A q, r \in Procs : Together(q, r)' => Together(q, r)
    BY <1>1, <1>2 DEF Together, Others, Fetch
<1>5. \A k \in Chunks : k # h => part'[k] = part[k] /\ tmp'[k] = tmp[k] /\ chunk'[k] = chunk[k]
    BY DEF FinishWrite, Base, Types
<1>6. /\ IF fd[p] = "part" THEN part'[h] # Absent /\ (sole[p] \/ part[h] = "good" => part'[h] = "good")
                             ELSE part'[h] = part[h]
      /\ IF fd[p] = "tmp" THEN tmp'[h] # Absent /\ (tmp[h] = "good" => tmp'[h] = "good")
                            ELSE tmp'[h] = tmp[h]
      /\ IF fd[p] = "chunk" THEN chunk[h] = "good" => chunk'[h] = "good"
                              ELSE chunk'[h] = chunk[h]
    <2>1. CASE fd[p] = "part"
        <3>1. PICK b \in Written(p, part[h]) : part' = [part EXCEPT ![h] = b] /\ UNCHANGED <<tmp, chunk>>
            BY <2>1 DEF FinishWrite
        <3> QED  BY <2>1, <3>1, <1>2, HonestWrites DEF Base, Types
    <2>2. CASE fd[p] = "tmp"
        <3>1. PICK b \in Written(p, tmp[h]) : tmp' = [tmp EXCEPT ![h] = b] /\ UNCHANGED <<part, chunk>>
            BY <2>2 DEF FinishWrite
        <3> QED  BY <2>2, <3>1, <1>2, HonestWrites DEF Base, Types
    <2>3. CASE fd[p] = "chunk"
        <3>1. PICK b \in Written(p, chunk[h]) : chunk' = [chunk EXCEPT ![h] = b] /\ UNCHANGED <<part, tmp>>
            BY <2>3 DEF FinishWrite
        <3> QED  BY <2>3, <3>1, <1>2, HonestWrites DEF Base, Types
    <2>4. CASE fd[p] \notin {"part", "tmp", "chunk"}
        BY <2>4 DEF FinishWrite
    <2> QED  BY <2>1, <2>2, <2>3, <2>4
<1>7. \A q \in Procs : fd[q] # "none" \/ pc[q] = "keep" => Segment(q) \in Chunks
    BY DEF Base, CallInv, Fetch
<1> HIDE DEF h
<1>8. ChunksVerified'
    <2>1. fd[p] = "chunk" => chunk[h] = "good"
        BY DEF ChunkInv, h
    <2> QED  BY <1>2, <1>5, <1>6, <2>1 DEF ChunkInv, ChunksVerified
<1>9. ASSUME NEW q \in Procs
      PROVE  /\ fd'[q] = "tmp" => tmp'[Segment(q)'] # Absent
             /\ fd'[q] = "chunk" => chunk'[Segment(q)'] = "good"
             /\ pc'[q] = "keep" => tmp'[Segment(q)'] \in {"good", Absent}
    <2>1. CASE q = p
        BY <2>1, <1>2
    <2>2. CASE q # p
        <3>1. fd[p] = "tmp" => tmp[h] # Absent
            BY DEF ChunkInv, h
        <3>2. fd[p] = "chunk" => chunk[h] = "good"
            BY DEF ChunkInv, h
        <3> QED  BY <2>2, <3>1, <3>2, <1>3, <1>5, <1>6, <1>7 DEF ChunkInv, Others
    <2> QED  BY <2>1, <2>2
<1>10. ASSUME NEW q \in Procs, NEW r \in Procs, Together(q, r)'
      PROVE  /\ fd'[r] = "part" /\ ~sole'[r] => \/ fd'[q] = "part" /\ sole'[q]
                                                \/ pc'[q] = "rename" /\ part'[Segment(q)'] = "good"
             /\ pc'[q] \in {"check", "keep"} /\ fd'[r] # "part" => part'[Segment(q)'] \in {"good", Absent}
    <2>0. Together(q, r) /\ Segment(q)' = Segment(q) /\ Segment(q) \in Chunks
        BY <1>4, <1>10, <1>2 DEF Others, Together, Base, CallInv, h
    <2>1. CASE q = p
        <3>1. r # p /\ fd'[r] = fd[r] /\ sole'[r] = sole[r] /\ Segment(q)' = h
            BY <2>1, <2>0, <1>2, <1>3 DEF Together
        <3>2. fd[r] = "part" /\ ~sole[r] => fd[p] = "part" /\ sole[p]
            BY <2>1, <2>0, <1>1 DEF ChunkInv
        <3> QED  BY <2>1, <3>1, <3>2, <1>2, <1>6
    <2>2. CASE r = p
        <3>1. Segment(q) = h /\ q # p
            BY <2>2, <2>0 DEF Together, h
        <3>2. pc[q] \in {"check", "keep"} => fd[q] = "none"
            BY DEF Base, CallInv
        <3>3. pc[q] \in {"check", "keep"} /\ fd[p] = "part" => sole[p]
            BY <2>0, <2>2, <3>2 DEF ChunkInv
        <3>4. pc[q] \in {"check", "keep"} /\ fd[p] # "part" => part[h] \in {"good", Absent}
            BY <2>0, <2>2, <3>1 DEF ChunkInv
        <3> QED  BY <2>2, <2>0, <3>1, <3>3, <3>4, <1>2, <1>6 DEF Others
    <2>3. CASE q # p /\ r # p
        <3>1. Segment(q) # h
            BY <2>3, <2>0, <1>1 DEF Together, ChunkInv, Fetch, h
        <3> QED  BY <2>3, <2>0, <3>1, <1>3, <1>5 DEF ChunkInv, Others
    <2> QED  BY <2>1, <2>2, <2>3
<1>11. \A q, r, t \in Procs : Together(q, r)' /\ Together(q, t)' => r = t
    BY <1>4 DEF ChunkInv
<1> QED  BY <1>8, <1>9, <1>10, <1>11, Zenon DEF ChunkInv

LEMMA RenamePartChunks ==
    ASSUME Base, ChunkInv, NEW p \in Procs, RenamePart(p), Others(p)
    PROVE  ChunkInv'
<1> DEFINE h == Segment(p)
<1>1. /\ pc[p] = "rename" /\ pc' = [pc EXCEPT ![p] = "check"] /\ UNCHANGED <<plan, i, chunk, sole>>
      /\ part[h] # Absent /\ tmp' = [tmp EXCEPT ![h] = part[h]] /\ part' = [part EXCEPT ![h] = Absent]
      /\ fd' = Moved(p, "part", "tmp")
    BY DEF RenamePart, Goto, At, callVars
<1>2. /\ Segment(p)' = h /\ h \in Chunks /\ pc'[p] = "check" /\ fd[p] = "none"
      /\ tmp'[h] = part[h] /\ part'[h] = Absent
    BY <1>1 DEF Segment, Base, Types, CallInv, Fetch
<1>3. \A q \in Procs : fd'[q] = IF fd[q] = "part" /\ Segment(q) = h THEN "tmp"
                                ELSE IF fd[q] = "tmp" /\ Segment(q) = h THEN "gone" ELSE fd[q]
    BY <1>1 DEF Moved, Writers
<1>4. \A q, r \in Procs : Together(q, r)' => Together(q, r)
    BY <1>1, <1>2 DEF Together, Others, Fetch
<1>5. \A k \in Chunks : k # h => part'[k] = part[k] /\ tmp'[k] = tmp[k]
    BY <1>1 DEF Base, Types
<1>6. \A q \in Procs : fd[q] # "none" \/ pc[q] \in Fetch => Segment(q) \in Chunks
    BY DEF Base, CallInv, Fetch
<1>7. ASSUME NEW q \in Procs, q # p, pc[q] = "keep", Segment(q) = h PROVE part[h] = "good"
    <2>1. Together(q, p)
        BY <1>7, <1>1 DEF Together, Fetch
    <2> QED  BY <2>1, <1>1, <1>2, <1>7 DEF ChunkInv
<1> HIDE DEF h
<1>8. ChunksVerified'
    BY <1>1 DEF ChunkInv, ChunksVerified
<1>9. ASSUME NEW q \in Procs
      PROVE  /\ fd'[q] = "tmp" => tmp'[Segment(q)'] # Absent
             /\ fd'[q] = "chunk" => chunk'[Segment(q)'] = "good"
             /\ pc'[q] = "keep" => tmp'[Segment(q)'] \in {"good", Absent}
    <2>1. CASE q = p
        BY <2>1, <1>2, <1>3
    <2>2. CASE q # p
        BY <2>2, <1>1, <1>2, <1>3, <1>5, <1>6, <1>7 DEF ChunkInv, Others, Fetch
    <2> QED  BY <2>1, <2>2
<1>10. ASSUME NEW q \in Procs, NEW r \in Procs, Together(q, r)'
      PROVE  /\ fd'[r] = "part" /\ ~sole'[r] => \/ fd'[q] = "part" /\ sole'[q]
                                                \/ pc'[q] = "rename" /\ part'[Segment(q)'] = "good"
             /\ pc'[q] \in {"check", "keep"} /\ fd'[r] # "part" => part'[Segment(q)'] \in {"good", Absent}
    <2>1. Together(q, r) /\ Segment(q)' = Segment(q) /\ Segment(q) = Segment(r) /\ Segment(q) \in Chunks
        BY <1>4, <1>6, <1>10, <1>2 DEF Others, Together, h
    <2>2. CASE Segment(q) = h
        BY <2>1, <2>2, <1>2, <1>3
    <2>3. CASE Segment(q) # h
        BY <2>1, <2>3, <1>1, <1>3, <1>5 DEF ChunkInv, Others, h
    <2> QED  BY <2>2, <2>3
<1>11. \A q, r, t \in Procs : Together(q, r)' /\ Together(q, t)' => r = t
    BY <1>4 DEF ChunkInv
<1> QED  BY <1>8, <1>9, <1>10, <1>11, Zenon DEF ChunkInv

LEMMA CheckChunkChunks ==
    ASSUME Base, ChunkInv, NEW p \in Procs, CheckChunk(p), Others(p)
    PROVE  ChunkInv'
<1>1. /\ pc[p] = "check" /\ pc' = [pc EXCEPT ![p] = "keep"] /\ tmp[Segment(p)] = "good"
      /\ UNCHANGED <<plan, i, part, tmp, chunk, fd, sole>>
    BY DEF CheckChunk, Goto, At, fileVars, chunkVars, callVars
<1>2. pc'[p] = "keep" /\ \A q \in Procs : Segment(q)' = Segment(q)
    BY <1>1 DEF Segment, Base, Types
<1>3. \A q, r \in Procs : Together(q, r)' => Together(q, r)
    BY <1>1, <1>2 DEF Together, Others, Fetch
<1>4. \A q \in Procs : /\ pc'[q] \in {"check", "keep"} => pc[q] \in {"check", "keep"}
                       /\ pc[q] = "rename" => pc'[q] = "rename"
                       /\ pc'[q] = "keep" => pc[q] = "keep" \/ q = p
    BY <1>1, <1>2 DEF Others
<1> QED  BY <1>1, <1>2, <1>3, <1>4 DEF ChunkInv, ChunksVerified

\* p is after no chunk any more, and the file that was at <hash>.tmp has no name, or
\* the one that chunks have.
LEMMA LeavesChunk ==
    ASSUME Base, ChunkInv, NEW p \in Procs, Others(p), pc[p] \in Fetch, pc'[p] \notin Fetch,
           UNCHANGED <<part, sole>>, tmp' = [tmp EXCEPT ![Segment(p)] = Absent],
           \A q \in Procs : fd'[q] = "part" <=> fd[q] = "part",
           \A q \in Procs : fd'[q] = "tmp" => fd[q] = "tmp" /\ Segment(q) # Segment(p),
           \A q \in Procs : fd'[q] = "chunk" =>
               \/ fd[q] = "chunk" /\ chunk'[Segment(q)] = chunk[Segment(q)]
               \/ q # p /\ chunk'[Segment(q)] = "good",
           ChunksVerified', fd'[p] = "none"
    PROVE  ChunkInv'
<1>1. \A q, r \in Procs : Together(q, r)' => Together(q, r) /\ q # p /\ r # p
    BY DEF Together, Others
<1>2. \A q \in Procs : fd[q] # "none" \/ pc[q] \in Fetch => Segment(q) \in Chunks
    BY DEF Base, CallInv, Fetch
<1>3. \A k \in Chunks : tmp'[k] = IF k = Segment(p) THEN Absent ELSE tmp[k]
    BY DEF Base, Types
<1>4. ASSUME NEW q \in Procs
      PROVE  /\ fd'[q] = "tmp" => tmp'[Segment(q)'] # Absent
             /\ fd'[q] = "chunk" => chunk'[Segment(q)'] = "good"
             /\ pc'[q] = "keep" => tmp'[Segment(q)'] \in {"good", Absent}
    <2>1. CASE q = p
        BY <2>1 DEF Fetch
    <2>2. CASE q # p
        BY <2>2, <1>2, <1>3 DEF ChunkInv, Others, Fetch
    <2> QED  BY <2>1, <2>2
<1>5. ASSUME NEW q \in Procs, NEW r \in Procs, Together(q, r)'
      PROVE  /\ fd'[r] = "part" /\ ~sole'[r] => \/ fd'[q] = "part" /\ sole'[q]
                                                \/ pc'[q] = "rename" /\ part'[Segment(q)'] = "good"
             /\ pc'[q] \in {"check", "keep"} /\ fd'[r] # "part" => part'[Segment(q)'] \in {"good", Absent}
    BY <1>1, <1>5 DEF ChunkInv, Others
<1>6. \A q, r, t \in Procs : Together(q, r)' /\ Together(q, t)' => r = t
    BY <1>1 DEF ChunkInv
<1> QED  BY <1>4, <1>5, <1>6, Zenon DEF ChunkInv

LEMMA RejectChunkChunks ==
    ASSUME Base, ChunkInv, NEW p \in Procs, RejectChunk(p), Others(p), pc'[p] = "idle"
    PROVE  ChunkInv'
<1>1. /\ pc[p] = "check" /\ UNCHANGED <<part, chunk, sole>> /\ tmp' = [tmp EXCEPT ![Segment(p)] = Absent]
      /\ fd' = [q \in Procs |-> IF q \in Writers(p, "tmp") THEN "gone" ELSE fd[q]]
    BY DEF RejectChunk, At
<1>2. fd[p] = "none"
    BY <1>1 DEF Base, CallInv
<1>3. /\ \A q \in Procs : fd'[q] = "part" <=> fd[q] = "part"
      /\ \A q \in Procs : fd'[q] = "tmp" => fd[q] = "tmp" /\ Segment(q) # Segment(p)
      /\ \A q \in Procs : fd'[q] = "chunk" => fd[q] = "chunk" /\ chunk'[Segment(q)] = chunk[Segment(q)]
      /\ fd'[p] = "none"
    BY <1>1, <1>2 DEF Writers
<1>4. ChunksVerified'
    BY <1>1 DEF ChunkInv, ChunksVerified
<1> QED  BY <1>1, <1>3, <1>4, LeavesChunk DEF Fetch

LEMMA KeepChunkChunks ==
    ASSUME Base, ChunkInv, NEW p \in Procs, KeepChunk(p), Others(p)
    PROVE  ChunkInv'
<1>1. /\ pc[p] = "keep" /\ UNCHANGED <<part, sole>> /\ tmp' = [tmp EXCEPT ![Segment(p)] = Absent]
      /\ chunk' = [chunk EXCEPT ![Segment(p)] = tmp[Segment(p)]] /\ tmp[Segment(p)] # Absent
      /\ fd' = Moved(p, "tmp", "chunk") /\ pc'[p] = "chunks"
    BY DEF KeepChunk, At, Goto, Base, Types
<1>2. fd[p] = "none" /\ tmp[Segment(p)] = "good" /\ Segment(p) \in Chunks
    BY <1>1 DEF Base, CallInv, ChunkInv, Fetch
<1>3. \A k \in Chunks : chunk'[k] = IF k = Segment(p) THEN "good" ELSE chunk[k]
    BY <1>1, <1>2 DEF Base, Types
<1>4. \A q \in Procs : fd'[q] = IF fd[q] = "tmp" /\ Segment(q) = Segment(p) THEN "chunk"
                                ELSE IF fd[q] = "chunk" /\ Segment(q) = Segment(p) THEN "gone" ELSE fd[q]
    BY <1>1 DEF Moved, Writers
<1>5. \A q \in Procs : fd[q] # "none" => Segment(q) \in Chunks
    BY DEF Base, CallInv, Fetch
<1>6. /\ \A q \in Procs : fd'[q] = "part" <=> fd[q] = "part"
      /\ \A q \in Procs : fd'[q] = "tmp" => fd[q] = "tmp" /\ Segment(q) # Segment(p)
      /\ \A q \in Procs : fd'[q] = "chunk" => \/ fd[q] = "chunk" /\ chunk'[Segment(q)] = chunk[Segment(q)]
                                              \/ q # p /\ chunk'[Segment(q)] = "good"
      /\ fd'[p] = "none"
    BY <1>2, <1>3, <1>4, <1>5
<1>7. ChunksVerified'
    BY <1>3 DEF ChunkInv, ChunksVerified
<1> QED  BY <1>1, <1>6, <1>7, LeavesChunk DEF Fetch

\* p leaves the chunks alone, and is after none of them.
Quiet(p) == /\ UNCHANGED <<part, tmp, chunk>> /\ pc'[p] \notin Fetch /\ fd'[p] = "none"
            /\ \A q \in Procs \ {p} : fd'[q] = fd[q] /\ sole'[q] = sole[q]

LEMMA QuietChunks ==
    ASSUME Base, ChunkInv, NEW p \in Procs, Quiet(p), Others(p)
    PROVE  ChunkInv'
<1>1. \A q, r \in Procs : Together(q, r)' => Together(q, r) /\ q # p /\ r # p
    BY DEF Together, Others, Quiet
<1>2. ASSUME NEW q \in Procs
      PROVE  /\ fd'[q] = "tmp" => tmp'[Segment(q)'] # Absent
             /\ fd'[q] = "chunk" => chunk'[Segment(q)'] = "good"
             /\ pc'[q] = "keep" => tmp'[Segment(q)'] \in {"good", Absent}
    <2>1. CASE q = p
        BY <2>1 DEF Fetch, Quiet
    <2>2. CASE q # p
        BY <2>2 DEF ChunkInv, Others, Quiet
    <2> QED  BY <2>1, <2>2
<1>3. ASSUME NEW q \in Procs, NEW r \in Procs, Together(q, r)'
      PROVE  /\ fd'[r] = "part" /\ ~sole'[r] => \/ fd'[q] = "part" /\ sole'[q]
                                                \/ pc'[q] = "rename" /\ part'[Segment(q)'] = "good"
             /\ pc'[q] \in {"check", "keep"} /\ fd'[r] # "part" => part'[Segment(q)'] \in {"good", Absent}
    BY <1>1, <1>3 DEF ChunkInv, Others, Quiet
<1>4. \A q, r, t \in Procs : Together(q, r)' /\ Together(q, t)' => r = t
    BY <1>1 DEF ChunkInv
<1>5. ChunksVerified'
    BY DEF ChunkInv, ChunksVerified, Quiet
<1> QED  BY <1>2, <1>3, <1>4, <1>5, Zenon DEF ChunkInv

\* What every step of a process leaves as it is.
LEMMA StepOthers ==
    ASSUME Base, NEW p \in Procs,
           Inside(p) \/ Ending(p) \/ Crash(p) \/ (\E m \in Contents : Call(p, m))
    PROVE  /\ Others(p)
           /\ \A q \in Procs \ {p} : /\ req'[q] = req[q] /\ i'[q] = i[q] /\ plan'[q] = plan[q]
                                     /\ result'[q] = result[q]
           /\ honest' = honest
           /\ Ending(p) \/ Crash(p) => pc'[p] = "idle"
<1> USE DEF Base, Types
<1>1. /\ \E to : pc' = [pc EXCEPT ![p] = to]
      /\ \A q \in Procs \ {p} : /\ req'[q] = req[q] /\ i'[q] = i[q] /\ plan'[q] = plan[q]
                                /\ result'[q] = result[q]
      /\ honest' = honest
      /\ Ending(p) \/ Crash(p) => pc'[p] = "idle"
    <2>1. CASE Inside(p) /\ ~(Ending(p) \/ Crash(p))
        BY <2>1, InsideMoves
    <2>2. CASE Ending(p)
        <3>1. PICK o \in {"returned", "error"} : EndCall(p, o)
            BY <2>2, EndingMoves
        <3>2. /\ pc' = [pc EXCEPT ![p] = "idle"] /\ req' = [req EXCEPT ![p] = None]
              /\ i' = [i EXCEPT ![p] = 1] /\ plan' = [plan EXCEPT ![p] = <<>>]
              /\ result' = [result EXCEPT ![p] = o]
            BY <3>1, EndTypes
        <3> QED  BY <2>2, <3>2, EndingMoves DEF PlanOK
    <2>3. CASE Crash(p)
        BY <2>3 DEF Crash, Goto, regime, PlanOK
    <2>4. ASSUME NEW m \in Contents, Call(p, m), ~(Ending(p) \/ Crash(p)) PROVE <1>1!1 /\ <1>1!2 /\ <1>1!3
        BY <2>4 DEF Call, Goto, regime
    <2> QED  BY <2>1, <2>2, <2>3, <2>4
<1>2. \A q \in Procs \ {p} : pc'[q] = pc[q]
    BY <1>1
<1> QED  BY <1>1, <1>2 DEF Others, Segment

LEMMA ChunkStep ==
    ASSUME Base, honest /\ ~crowded => ChunkInv, [Next]_vars
    PROVE  (honest /\ ~crowded => ChunkInv)'
<1> USE DEF Base, Types
<1> SUFFICES ASSUME honest', ~crowded' PROVE ChunkInv'
    OBVIOUS
<1>1. CASE UNCHANGED vars
    BY <1>1 DEF vars, regime, fileVars, chunkVars, callVars, ChunkInv, ChunksVerified, Together, Segment
<1>2. ASSUME NEW p \in Procs,
             Inside(p) \/ Ending(p) \/ Crash(p) \/ (\E m \in Contents : Call(p, m))
      PROVE  ChunkInv'
    <2>1. honest /\ ~crowded /\ Others(p)
        <3>1. honest /\ Others(p)
            BY <1>2, StepOthers
        <3>2. crowded => crowded'
            BY <1>2 DEF Inside, FetchManifest, Lookup, Acquire, LockedCheck, SkipChunk, RequestChunk, OpenPart, FinishWrite, RenamePart,
                CheckChunk, KeepChunk, BeginAssembly, AppendSegment, VerifyFile, PublishFile, FirstLookup,
                Ending, HeadFails, TimeOut, RejectChunk, ChunkStolen, RejectFile, ReturnHit, EvictAndReturn, Evicted,
                RequestFails, Crash, Call, regime
        <3> QED  BY <3>1, <3>2
    <2>2. ChunkInv
        BY <2>1
    <2>3. CASE OpenPart(p)
        BY <2>1, <2>2, <2>3, OpenPartChunks
    <2>4. CASE FinishWrite(p) \/ RenamePart(p) \/ CheckChunk(p) \/ KeepChunk(p)
        BY <2>1, <2>2, <2>4, FinishWriteChunks, RenamePartChunks, CheckChunkChunks, KeepChunkChunks
    <2>5. CASE RejectChunk(p)
        BY <2>1, <2>2, <2>5, RejectChunkChunks, StepOthers DEF Ending
    <2>6. CASE ~(OpenPart(p) \/ FinishWrite(p) \/ RenamePart(p) \/ CheckChunk(p) \/ KeepChunk(p) \/ RejectChunk(p))
        <3>1. UNCHANGED <<part, tmp, chunk>> /\ \A q \in Procs \ {p} : fd'[q] = fd[q] /\ sole'[q] = sole[q]
            BY <1>2, <2>6 DEF Inside, FetchManifest, Lookup, Acquire, LockedCheck, SkipChunk, RequestChunk,
                BeginAssembly, AppendSegment, VerifyFile, PublishFile, FirstLookup,
                Ending, HeadFails, TimeOut, ChunkStolen, RejectFile, ReturnHit, EvictAndReturn, Evicted,
                RequestFails, Crash, Call, fileVars, chunkVars, CloseFile
        <3>2. pc'[p] \notin Fetch
            <4>1. CASE Ending(p) \/ Crash(p)
                BY <4>1, StepOthers DEF Fetch
            <4>2. CASE \E m \in Contents : Call(p, m)
                BY <4>2 DEF Call, Goto, Fetch
            <4>3. CASE Inside(p)
                BY <4>3, <2>6 DEF Inside, FetchManifest, Lookup, Acquire, LockedCheck, SkipChunk, RequestChunk,
                    BeginAssembly, AppendSegment, VerifyFile, PublishFile, FirstLookup, Goto, Fetch, At
            <4> QED  BY <1>2, <4>1, <4>2, <4>3
        <3>3. CallInv'
            BY <1>2, InsideCalls, EndingCalls, CrashCalls, NewCalls
        <3>4. fd'[p] = "none"
            BY <3>2, <3>3 DEF CallInv, Fetch
        <3> QED  BY <2>1, <2>2, <3>1, <3>2, <3>4, QuietChunks DEF Quiet
    <2> QED  BY <2>3, <2>4, <2>5, <2>6
<1> QED  BY <1>1, <1>2, StepKinds DEF Next

LEMMA ChunkInit == Init => ChunkInv
BY DEF Init, ChunkInv, ChunksVerified, Together, Fetch

(***************************************************************************)
(* Whatever the server sends, a file under its final name is the one its   *)
(* manifest describes; and as long as no three calls are after one chunk   *)
(* at a time, an honest server's chunks are right, for any number of       *)
(* processes, which fail, die and overwrite each other's files.            *)
(***************************************************************************)
THEOREM ManifestStoredVerified == Spec => []StoredVerified
<1>1. Init => Base /\ (honest /\ ~crowded => ChunkInv)
    BY BaseInit, ChunkInit
<1>2. Base /\ (honest /\ ~crowded => ChunkInv) /\ [Next]_vars => Base' /\ (honest /\ ~crowded => ChunkInv)'
    BY BaseStep, ChunkStep
<1>3. Base /\ (honest /\ ~crowded => ChunkInv) => StoredVerified
    BY DEF Base, FileInv, ChunkInv, StoredVerified
<1> QED  BY <1>1, <1>2, <1>3, PTL DEF Spec
-----------------------------------------------------------------------------
\* Retries

Regular == honest /\ ~crowded

\* The chunks among the first n segments of p's manifest are there.
HasChunks(p, n) == \A k \in 1..n : plan[p][k] \in Chunks => chunk[plan[p][k]] = "good"

\* Where a call has not begun with its chunks.
Before == {"first", "head", "lookup", "lock", "locked"}

\* Where it has no manifest in hand.
Early == {"idle", "first", "head"}

AssemblyInv ==
    \A p \in Procs :
        /\ pc[p] \in Before => i[p] = 1
        /\ pc[p] \notin Early => plan[p] = Parts[req[p]]
        /\ pc[p] \in {"chunks", "get"} \union Fetch => HasChunks(p, i[p] - 1)
        /\ pc[p] = "assemble" => asm[req[p]] = "good" /\ HasChunks(p, Len(plan[p]))

\* A calm call is the only one, and finds everything as it left it.
CalmInv ==
    \A p \in Procs :
        /\ calm[p] => honest
        /\ calm[p] /\ pc[p] # "idle" =>
              /\ \A q \in Procs \ {p} : pc[q] = "idle"
              /\ pc[p] \in {"touch", "evict"} => out[req[p]] # Absent
              /\ pc[p] = "write" => fd[p] = "part" /\ sole[p]
              /\ pc[p] = "rename" => part[Segment(p)] = "good"
              /\ pc[p] \in {"check", "keep"} => tmp[Segment(p)] = "good"

\* No good chunk is lost.
LEMMA GoodStays ==
    ASSUME Base, ChunkInv, honest, NEW p \in Procs,
           Inside(p) \/ Ending(p) \/ Crash(p) \/ (\E m \in Contents : Call(p, m))
    PROVE  \A k \in Chunks : chunk[k] = "good" => chunk'[k] = "good"
<1> USE DEF Base, Types
<1>1. CASE FinishWrite(p)
    <2>1. CASE fd[p] = "chunk"
        <3>1. PICK b \in Written(p, chunk[Segment(p)]) : chunk' = [chunk EXCEPT ![Segment(p)] = b]
            BY <1>1, <2>1 DEF FinishWrite
        <3> QED  BY <3>1, HonestWrites
    <2>2. CASE fd[p] # "chunk"
        BY <1>1, <2>2 DEF FinishWrite
    <2> QED  BY <2>1, <2>2
<1>2. CASE KeepChunk(p)
    BY <1>2 DEF KeepChunk, ChunkInv, At
<1>3. CASE ~(FinishWrite(p) \/ KeepChunk(p))
    <2>1. chunk' = chunk
        BY <1>3 DEF Inside, FetchManifest, Lookup, Acquire, LockedCheck, SkipChunk, RequestChunk, OpenPart, RenamePart,
            CheckChunk, BeginAssembly, AppendSegment, VerifyFile, PublishFile, FirstLookup,
            Ending, HeadFails, TimeOut, RejectChunk, ChunkStolen, RejectFile, ReturnHit, EvictAndReturn, Evicted,
            RequestFails, Crash, Call, fileVars, chunkVars
    <2> QED  BY <2>1
<1> QED  BY <1>1, <1>2, <1>3

\* A step of p touches no other manifest's assembly.
LEMMA AssembliesApart ==
    ASSUME Base, NEW p \in Procs, NEW q \in Procs, q # p, pc[q] = "assemble",
           Inside(p) \/ Ending(p) \/ Crash(p) \/ (\E m \in Contents : Call(p, m))
    PROVE  asm'[req[q]] = asm[req[q]]
<1>1. req[q] \in Contents
    BY DEF Base, CallInv
<1>2. pc[p] \in Critical => req[p] # req[q]
    BY Alone DEF Critical
<1>3. CASE BeginAssembly(p) \/ AppendSegment(p) \/ PublishFile(p) \/ RejectFile(p)
    BY <1>1, <1>2, <1>3 DEF BeginAssembly, AppendSegment, PublishFile, RejectFile, At, Critical, Base, Types
<1>4. CASE ~(BeginAssembly(p) \/ AppendSegment(p) \/ PublishFile(p) \/ RejectFile(p))
    BY <1>4 DEF Inside, FetchManifest, Lookup, Acquire, LockedCheck, SkipChunk, RequestChunk, OpenPart, FinishWrite, RenamePart,
        CheckChunk, KeepChunk, VerifyFile, FirstLookup,
        Ending, HeadFails, TimeOut, RejectChunk, ChunkStolen, ReturnHit, EvictAndReturn, Evicted,
        RequestFails, Crash, Call, fileVars
<1> QED  BY <1>3, <1>4

\* The step of the call itself.
LEMMA OwnAssembly ==
    ASSUME Base, ChunkInv, AssemblyInv, Regular, NEW p \in Procs, Inside(p),
           \A k \in Chunks : chunk[k] = "good" => chunk'[k] = "good"
    PROVE  /\ pc'[p] \in Before => i'[p] = 1
           /\ pc'[p] \notin Early => plan'[p] = Parts[req'[p]]
           /\ pc'[p] \in {"chunks", "get"} \union Fetch => HasChunks(p, i[p] - 1)'
           /\ pc'[p] = "assemble" => asm'[req'[p]] = "good" /\ HasChunks(p, Len(plan[p]))'
<1> USE DEF Base, Types
<1>1. req[p] \in Contents /\ \E to \in Location \ {"idle"} : pc' = [pc EXCEPT ![p] = to]
    BY InsideMoves DEF CallInv
<1>2. Len(plan[p]) \in Nat /\ ChunksVerified /\ Chunks \intersect Patches = {}
    BY SegmentKinds, ManifestAssumption DEF ChunkInv
<1>3. CASE FetchManifest(p)
    <2>1. req' = [req EXCEPT ![p] = req[p]] /\ plan' = [plan EXCEPT ![p] = Parts[req[p]]]
        BY <1>3 DEF FetchManifest, Regular
    <2>2. plan'[p] = Parts[req'[p]] /\ i'[p] = 1 /\ pc'[p] = "lookup"
        BY <1>3, <2>1 DEF FetchManifest, PlanOK, At, Goto, AssemblyInv, Before
    <2> QED  BY <2>2 DEF Before, Fetch
<1>4. CASE UNCHANGED <<req, plan>> /\ ~FetchManifest(p)
    <2>1. pc'[p] \notin Early => plan'[p] = Parts[req'[p]]
        <3>1. pc[p] \in Early /\ pc'[p] \notin Early => FALSE
            BY <1>4, <1>1 DEF Inside, Lookup, Acquire, LockedCheck, SkipChunk, RequestChunk, OpenPart, FinishWrite,
                RenamePart, CheckChunk, KeepChunk, BeginAssembly, AppendSegment, VerifyFile, PublishFile, FirstLookup,
                Early, At, Goto, EndCall
        <3> QED  BY <1>4, <3>1 DEF AssemblyInv
    <2>3. CASE Lookup(p) \/ Acquire(p) \/ (FirstLookup(p) /\ ~EndCall(p, "returned"))
        <3>1. pc[p] \in Before /\ pc'[p] \notin {"chunks", "get", "assemble"} \union Fetch /\ i' = i
            BY <2>3, <1>1 DEF Lookup, Acquire, FirstLookup, At, Goto, Before, Fetch, callVars
        <3> QED  BY <2>1, <3>1 DEF AssemblyInv
    <2>4. CASE LockedCheck(p)
        <3>1. i[p] = 1 /\ i' = i /\ pc'[p] \in {"touch", "chunks"}
            BY <2>4 DEF LockedCheck, At, Goto, Before, callVars, AssemblyInv
        <3> QED  BY <2>1, <3>1 DEF Before, HasChunks, Fetch
    <2>5. CASE SkipChunk(p) \/ KeepChunk(p)
        <3>1. HasChunks(p, i[p] - 1) /\ i' = [i EXCEPT ![p] = @ + 1] /\ pc'[p] = "chunks"
            BY <2>5 DEF SkipChunk, KeepChunk, At, Goto, Fetch, AssemblyInv
        <3>2. plan[p][i[p]] \in Chunks => chunk'[plan[p][i[p]]] = "good"
            <4>1. CASE SkipChunk(p)
                BY <1>2, <4>1 DEF SkipChunk, Present, Segment, ChunksVerified, Absent, Regular, fileVars, chunkVars
            <4>2. CASE KeepChunk(p)
                BY <4>2 DEF KeepChunk, Segment, ChunkInv, At
            <4> QED  BY <2>5, <4>1, <4>2
        <3>4. \A k \in 1..(i[p] - 1) : plan[p][k] \in Chunks => chunk'[plan[p][k]] = "good"
            BY <3>1 DEF HasChunks
        <3>5. i'[p] - 1 = i[p] /\ i[p] \in Nat \ {0}
            BY <3>1
        <3>6. HasChunks(p, i[p] - 1)'
            BY <1>4, <3>2, <3>4, <3>5 DEF HasChunks
        <3> QED  BY <2>1, <3>1, <3>6 DEF Before
    <2>6. CASE RequestChunk(p) \/ OpenPart(p) \/ FinishWrite(p) \/ RenamePart(p) \/ CheckChunk(p)
        <3>1. HasChunks(p, i[p] - 1) /\ i' = i /\ pc'[p] \in Fetch \union {"get"}
            BY <2>6 DEF RequestChunk, OpenPart, FinishWrite, RenamePart, CheckChunk, At, Goto, Fetch, AssemblyInv, callVars
        <3>2. HasChunks(p, i[p] - 1)'
            BY <1>4, <3>1 DEF HasChunks
        <3> QED  BY <2>1, <3>1, <3>2 DEF Before, Fetch
    <2>7. CASE BeginAssembly(p)
        <3>1. /\ HasChunks(p, i[p] - 1) /\ ~More(p) /\ pc'[p] = "assemble" /\ plan[p] = Parts[req[p]]
            BY <2>7 DEF BeginAssembly, At, Goto, Fetch, AssemblyInv, Early
        <3>2. asm'[req'[p]] = "good"
            BY <2>7, <1>1, <1>4, <3>1 DEF BeginAssembly, Planned
        <3>3. HasChunks(p, Len(plan[p]))
            BY <3>1, <1>2 DEF HasChunks, More
        <3>4. HasChunks(p, Len(plan[p]))'
            BY <3>3, <1>4 DEF HasChunks
        <3> QED  BY <2>1, <3>1, <3>2, <3>4 DEF Before, Fetch
    <2>8. CASE AppendSegment(p)
        <3>1. /\ HasChunks(p, Len(plan[p])) /\ pc' = pc /\ pc[p] = "assemble" /\ asm[req[p]] = "good"
            BY <2>8 DEF AppendSegment, At, AssemblyInv
        <3>2. Segment(p) \in Chunks => chunk[Segment(p)] = "good"
            BY <2>8, <1>2, <3>1 DEF AppendSegment, More, Segment, HasChunks
        <3>3. Segment(p) \in Chunks \union Patches
            BY <2>8, SegmentKinds DEF AppendSegment
        <3>4. \A b \in IF Segment(p) \in Patches THEN Served ELSE {chunk[Segment(p)]} : b = "good"
            BY <3>2, <3>3 DEF Served, Regular
        <3>5. asm'[req'[p]] = "good"
            BY <2>8, <1>1, <1>4, <3>1, <3>4 DEF AppendSegment
        <3>6. HasChunks(p, Len(plan[p]))'
            BY <3>1, <1>4 DEF HasChunks
        <3> QED  BY <2>1, <3>1, <3>5, <3>6 DEF Before, Fetch
    <2>9. CASE VerifyFile(p) \/ PublishFile(p)
        BY <2>1, <2>9 DEF VerifyFile, PublishFile, Goto, Before, Fetch
    <2> QED  BY <1>4, <2>3, <2>4, <2>5, <2>6, <2>7, <2>8, <2>9 DEF Inside
<1> QED  BY <1>3, <1>4, InsidePlans

LEMMA AssemblyStep ==
    ASSUME Base, Regular => ChunkInv /\ AssemblyInv, [Next]_vars
    PROVE  (Regular => AssemblyInv)'
<1> SUFFICES ASSUME Regular' PROVE AssemblyInv'
    OBVIOUS
<1>1. CASE UNCHANGED vars
    BY <1>1 DEF vars, regime, fileVars, chunkVars, callVars, AssemblyInv, HasChunks, Regular, Early
<1>2. ASSUME NEW p \in Procs,
             Inside(p) \/ Ending(p) \/ Crash(p) \/ (\E m \in Contents : Call(p, m))
      PROVE  AssemblyInv'
    <2>1. Regular /\ Others(p) /\ \A q \in Procs \ {p} : req'[q] = req[q] /\ i'[q] = i[q] /\ plan'[q] = plan[q]
        <3>1. crowded => crowded'
            BY <1>2 DEF Inside, FetchManifest, Lookup, Acquire, LockedCheck, SkipChunk, RequestChunk, OpenPart, FinishWrite, RenamePart,
                CheckChunk, KeepChunk, BeginAssembly, AppendSegment, VerifyFile, PublishFile, FirstLookup,
                Ending, HeadFails, TimeOut, RejectChunk, ChunkStolen, RejectFile, ReturnHit, EvictAndReturn, Evicted,
                RequestFails, Crash, Call, regime
        <3> QED  BY <1>2, <3>1, StepOthers DEF Regular
    <2>2. ChunkInv /\ AssemblyInv /\ honest
        BY <2>1 DEF Regular
    <2>3. \A k \in Chunks : chunk[k] = "good" => chunk'[k] = "good"
        BY <1>2, <2>2, GoodStays
    <2>4. ASSUME NEW q \in Procs \ {p}
          PROVE  /\ pc'[q] \in Before => i'[q] = 1
                 /\ pc'[q] \notin Early => plan'[q] = Parts[req'[q]]
                 /\ pc'[q] \in {"chunks", "get"} \union Fetch => HasChunks(q, i[q] - 1)'
                 /\ pc'[q] = "assemble" => asm'[req'[q]] = "good" /\ HasChunks(q, Len(plan[q]))'
        <3>1. pc'[q] = pc[q] /\ req'[q] = req[q] /\ i'[q] = i[q] /\ plan'[q] = plan[q]
            BY <2>1 DEF Others
        <3>2. pc[q] = "assemble" => asm'[req[q]] = asm[req[q]]
            BY <1>2, AssembliesApart
        <3> QED  BY <2>2, <2>3, <3>1, <3>2 DEF AssemblyInv, HasChunks
    <2>5. /\ pc'[p] \in Before => i'[p] = 1
          /\ pc'[p] \notin Early => plan'[p] = Parts[req'[p]]
          /\ pc'[p] \in {"chunks", "get"} \union Fetch => HasChunks(p, i[p] - 1)'
          /\ pc'[p] = "assemble" => asm'[req'[p]] = "good" /\ HasChunks(p, Len(plan[p]))'
        <3>1. CASE Inside(p)
            BY <3>1, <2>1, <2>2, <2>3, OwnAssembly
        <3>2. CASE Ending(p) \/ Crash(p)
            BY <3>2, StepOthers DEF Before, Early, Fetch
        <3>3. CASE \E m \in Contents : Call(p, m)
            BY <3>3 DEF Call, Goto, At, Before, Early, Fetch, Base, Types, CallInv
        <3> QED  BY <1>2, <3>1, <3>2, <3>3
    <2> QED  BY <2>4, <2>5 DEF AssemblyInv
<1> QED  BY <1>1, <1>2, StepKinds DEF Next

LEMMA AssemblyInit == Init => AssemblyInv
BY DEF Init, AssemblyInv, Fetch, Before, Early

\* The steps of one process.
Acts(p) == Inside(p) \/ Ending(p) \/ Crash(p) \/ (\E m \in Contents : Call(p, m))

\* Whoever is calm stays so in its own steps only, unless it is idle.
LEMMA CalmOnes ==
    ASSUME Base, CalmInv, NEW p \in Procs, Acts(p)
    PROVE  \A q \in Procs \ {p} : calm'[q] => calm[q] /\ pc'[q] = "idle"
<1> SUFFICES ASSUME NEW q \in Procs \ {p}, calm'[q] PROVE calm[q] /\ pc'[q] = "idle"
    OBVIOUS
<1>1. pc'[q] = pc[q]
    BY StepOthers DEF Acts, Others
<1>2. CASE \E m \in Contents : Call(p, m)
    BY <1>1, <1>2 DEF Call, At, Base, Types
<1>3. CASE Inside(p) \/ Ending(p) \/ Crash(p)
    <2>1. pc[p] # "idle"
        BY <1>3, InsideMoves, EndingMoves DEF Crash, At
    <2>2. calm[q]
        BY <1>3, InsideMoves DEF Ending, HeadFails, TimeOut, RejectChunk, ChunkStolen, RejectFile, ReturnHit,
            EvictAndReturn, Evicted, RequestFails, FirstLookup, Crash, Base, Types
    <2> QED  BY <1>1, <2>1, <2>2 DEF CalmInv
<1> QED  BY <1>2, <1>3 DEF Acts

\* A calm call's own steps keep what the call relies on.
LEMMA OwnCalm ==
    ASSUME Base, CalmInv, NEW p \in Procs, Inside(p), calm[p]
    PROVE  /\ pc'[p] \in {"touch", "evict"} => out'[req'[p]] # Absent
           /\ pc'[p] = "write" => fd'[p] = "part" /\ sole'[p]
           /\ pc'[p] = "rename" => part'[Segment(p)'] = "good"
           /\ pc'[p] \in {"check", "keep"} => tmp'[Segment(p)'] = "good"
<1>h. honest
    BY InsideMoves DEF CalmInv
<1> USE DEF Base, Types
<1>1. req[p] \in Contents /\ pc[p] # "idle" /\ \E to \in Location \ {"idle"} : pc' = [pc EXCEPT ![p] = to]
    BY InsideMoves DEF CallInv
<1>2. pc[p] \in Fetch => Segment(p) \in Chunks
    BY DEF CallInv
<1>3. CASE Lookup(p) \/ LockedCheck(p)
    BY <1>1, <1>3 DEF Lookup, LockedCheck, Hit, Goto, fileVars, callVars
<1>4. CASE OpenPart(p)
    BY <1>4 DEF OpenPart, Goto
<1>5. CASE FinishWrite(p)
    <2>1. fd[p] = "part" /\ sole[p] /\ Segment(p) \in Chunks
        BY <1>5, <1>2, <1>1 DEF FinishWrite, At, CalmInv, Fetch
    <2>2. PICK b \in Written(p, part[Segment(p)]) : part' = [part EXCEPT ![Segment(p)] = b]
        BY <1>5, <2>1 DEF FinishWrite
    <2>3. b = "good"
        BY <1>h, <2>1, <2>2, HonestWrites
    <2>4. Segment(p)' = Segment(p)
        BY <1>5 DEF FinishWrite, callVars, Segment
    <2> QED  BY <1>5, <2>1, <2>2, <2>3, <2>4 DEF FinishWrite, Goto
<1>6. CASE RenamePart(p)
    <2>1. Segment(p) \in Chunks /\ part[Segment(p)] = "good"
        BY <1>6, <1>2, <1>1 DEF RenamePart, At, CalmInv, Fetch
    <2>2. Segment(p)' = Segment(p)
        BY <1>6 DEF RenamePart, callVars, Segment
    <2> QED  BY <1>6, <2>1, <2>2 DEF RenamePart, Goto
<1>7. CASE CheckChunk(p)
    BY <1>7 DEF CheckChunk, Goto, fileVars, chunkVars, callVars, Segment
<1>8. CASE PublishFile(p)
    BY <1>8, <1>1 DEF PublishFile, Goto, FileInv, At, Absent, callVars
<1>9. CASE ~(Lookup(p) \/ LockedCheck(p) \/ OpenPart(p) \/ FinishWrite(p) \/ RenamePart(p) \/ CheckChunk(p) \/ PublishFile(p))
    <2>1. pc'[p] \notin {"touch", "evict", "write", "rename", "check", "keep"}
        BY <1>9, <1>1 DEF Inside, FetchManifest, Acquire, SkipChunk, RequestChunk, KeepChunk, BeginAssembly, AppendSegment, VerifyFile,
            FirstLookup, Goto, At
    <2> QED  BY <2>1
<1> QED  BY <1>3, <1>4, <1>5, <1>6, <1>7, <1>8, <1>9

LEMMA CalmStep == Base /\ CalmInv /\ [Next]_vars => CalmInv'
<1> SUFFICES ASSUME Base, CalmInv, [Next]_vars PROVE CalmInv'
    OBVIOUS
<1>1. CASE UNCHANGED vars
    BY <1>1 DEF vars, regime, fileVars, chunkVars, callVars, CalmInv, Segment
<1>2. ASSUME NEW p \in Procs, Acts(p) PROVE CalmInv'
    <2>1. \A q \in Procs \ {p} : calm'[q] => pc'[q] = "idle"
        BY <1>2, CalmOnes
    <2>2. Others(p) /\ honest' = honest /\ (Ending(p) \/ Crash(p) => pc'[p] = "idle")
        BY <1>2, StepOthers DEF Acts
    <2>0. \A q \in Procs : calm'[q] => honest'
        <3>1. \A q \in Procs : calm'[q] => calm[q] \/ honest
            BY <1>2, InsideMoves DEF Acts, Ending, HeadFails, TimeOut, RejectChunk, ChunkStolen, RejectFile, ReturnHit,
                EvictAndReturn, Evicted, RequestFails, FirstLookup, Crash, Call, Base, Types
        <3> QED  BY <2>2, <3>1 DEF CalmInv
    <2>3. CASE Ending(p) \/ Crash(p)
        BY <2>0, <2>1, <2>2, <2>3 DEF CalmInv
    <2>4. CASE Inside(p)
        <3>1. calm' = calm /\ pc[p] # "idle"
            BY <2>4, InsideMoves
        <3>2. calm[p] => \A q \in Procs \ {p} : pc'[q] = "idle"
            BY <3>1, <2>2 DEF CalmInv, Others
        <3> QED  BY <2>0, <2>1, <2>2, <2>4, <3>1, <3>2, OwnCalm DEF CalmInv
    <2>5. CASE \E m \in Contents : Call(p, m)
        <3>1. pc'[p] = "first" /\ (calm'[p] => honest /\ \A q \in Procs \ {p} : pc[q] = "idle")
            BY <2>5 DEF Call, Goto, At, Base, Types
        <3> QED  BY <2>0, <2>1, <2>2, <3>1 DEF CalmInv, Others
    <2> QED  BY <1>2, <2>3, <2>4, <2>5 DEF Acts
<1> QED  BY <1>1, <1>2, StepKinds DEF Next, Acts

\* In a regular state a calm call does not raise.
LEMMA CalmReturns ==
    ASSUME Base, ChunkInv, AssemblyInv, CalmInv, Regular, NEW p \in Procs, Ending(p), calm'[p]
    PROVE  ~EndCall(p, "error")
<1> USE DEF Base, Types
<1>1. SUFFICES ASSUME EndCall(p, "error") PROVE FALSE
    OBVIOUS
<1>2. ~HeadFails(p) /\ ~RequestFails(p)
    BY DEF HeadFails, RequestFails
<1>3. calm[p] /\ pc[p] # "idle" /\ req[p] \in Contents
    BY <1>2, EndingMoves DEF Ending, TimeOut, RejectChunk, ChunkStolen, RejectFile, ReturnHit,
        EvictAndReturn, Evicted, FirstLookup, CallInv
<1>4. /\ \A q \in Procs \ {p} : pc[q] = "idle"
      /\ pc[p] \in {"touch", "evict"} => out[req[p]] # Absent
      /\ pc[p] = "rename" => part[Segment(p)] = "good"
      /\ pc[p] \in {"check", "keep"} => tmp[Segment(p)] = "good"
    BY <1>3 DEF CalmInv, Regular
<1>5. ~TimeOut(p)
    <2> SUFFICES ASSUME TimeOut(p) PROVE FALSE
        OBVIOUS
    <2>1. PICK q \in holders[req[p]] : TRUE
        BY <1>3, ManifestAssumption DEF TimeOut, LockFree
    <2>2. q \in Procs /\ pc[q] \in Critical \union {"touch"}
        BY <1>3, <2>1 DEF HolderInv, LockTypeOK
    <2>3. pc[q] # "idle" /\ pc[q] # "lock"
        BY <2>2 DEF Critical, Fetch
    <2> QED  BY <2>2, <2>3, <1>4 DEF TimeOut, At
<1>6. ~RejectChunk(p) /\ ~ChunkStolen(p) /\ ~Evicted(p)
    BY <1>4 DEF RejectChunk, ChunkStolen, Evicted, At, Absent, Regular
<1>7. ~RejectFile(p)
    BY DEF RejectFile, At, AssemblyInv, Regular
<1>8. ASSUME EndCall(p, "returned") PROVE FALSE
    BY <1>1, <1>8 DEF EndCall
<1> QED  BY <1>2, <1>5, <1>6, <1>7, <1>8 DEF Ending, ReturnHit, EvictAndReturn, FirstLookup

LEMMA RetryStep ==
    ASSUME Base, Regular => ChunkInv /\ AssemblyInv, CalmInv, CalmInv', RetrySucceeds, [Next]_vars
    PROVE  RetrySucceeds'
<1> SUFFICES ASSUME ~crowded', NEW q \in Procs, result'[q] = "error", calm'[q] PROVE FALSE
    BY DEF RetrySucceeds
<1>r. Regular'
    BY DEF CalmInv, Regular
<1>1. CASE UNCHANGED vars
    BY <1>1 DEF vars, regime, callVars, RetrySucceeds, Regular
<1>2. ASSUME NEW p \in Procs, Acts(p) PROVE FALSE
    <2>1. Regular
        <3>1. crowded => crowded'
            BY <1>2 DEF Acts, Inside, FetchManifest, Lookup, Acquire, LockedCheck, SkipChunk, RequestChunk, OpenPart, FinishWrite,
                RenamePart, CheckChunk, KeepChunk, BeginAssembly, AppendSegment, VerifyFile, PublishFile, FirstLookup,
                Ending, HeadFails, TimeOut, RejectChunk, ChunkStolen, RejectFile, ReturnHit, EvictAndReturn, Evicted,
                RequestFails, Crash, Call, regime
        <3> QED  BY <1>r, <1>2, <3>1, StepOthers DEF Regular, Acts
    <2>2. ~(result[q] = "error" /\ calm[q])
        BY <2>1 DEF RetrySucceeds, Regular
    <2>3. CASE q # p
        BY <1>2, <2>2, <2>3, StepOthers, CalmOnes DEF Acts
    <2>4. CASE q = p /\ (Inside(p) \/ Crash(p))
        BY <2>2, <2>4, InsideMoves DEF Crash
    <2>5. CASE q = p /\ Ending(p)
        <3>1. PICK o \in {"returned", "error"} : EndCall(p, o)
            BY <2>5, EndingMoves
        <3>2. result' = [result EXCEPT ![p] = o]
            BY <3>1 DEF EndCall
        <3>3. o = "error"
            BY <2>5, <3>2 DEF Base, Types
        <3> QED  BY <2>1, <2>5, <3>1, <3>3, CalmReturns
    <2>6. CASE q = p /\ \E m \in Contents : Call(p, m)
        BY <2>6 DEF Call, Base, Types
    <2> QED  BY <1>2, <2>3, <2>4, <2>5, <2>6 DEF Acts
<1> QED  BY <1>1, <1>2, StepKinds DEF Next, Acts

(***************************************************************************)
(* Whatever has failed or died before, a call that nobody disturbs and     *)
(* whose requests are answered by an honest server does not raise, as long *)
(* as no three calls have been after one chunk at a time.                  *)
(***************************************************************************)
THEOREM ManifestRetrySucceeds == Spec => []RetrySucceeds
<1> DEFINE Inv == /\ Base /\ CalmInv /\ RetrySucceeds
                  /\ honest /\ ~crowded => ChunkInv
                  /\ Regular => AssemblyInv
<1>1. Init => Inv
    <2>1. Init => CalmInv /\ RetrySucceeds
        BY DEF Init, CalmInv, RetrySucceeds
    <2> QED  BY <2>1, BaseInit, ChunkInit, AssemblyInit
<1>2. Inv /\ [Next]_vars => Inv'
    <2> SUFFICES ASSUME Inv, [Next]_vars PROVE Inv'
        OBVIOUS
    <2>1. Regular => ChunkInv /\ AssemblyInv
        BY DEF Regular
    <2>2. Base' /\ CalmInv'
        BY BaseStep, CalmStep
    <2>3. (honest /\ ~crowded => ChunkInv)'
        BY ChunkStep
    <2>4. (Regular => AssemblyInv)'
        BY <2>1, AssemblyStep
    <2>5. RetrySucceeds'
        BY <2>1, <2>2, RetryStep
    <2> QED  BY <2>2, <2>3, <2>4, <2>5
<1> QED  BY <1>1, <1>2, PTL DEF Spec
=============================================================================
