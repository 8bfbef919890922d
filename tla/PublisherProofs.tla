--------------------------- MODULE PublisherProofs ---------------------------
(***************************************************************************)
(* Proofs about Publisher for any files, chunks and canonical forms, and   *)
(* any number of publishers: no version lacks a blob, each gives the file  *)
(* as it can be read, a publish that no save disturbs gives a version that *)
(* can be loaded, and it fails only if a request does.                     *)
(*                                                                         *)
(* The invariant is stated for one publish, over the values of its own     *)
(* variables: l is where it is, j its variables, S the contents that the   *)
(* file has had since it began, v the version it has registered.           *)
(***************************************************************************)
EXTENDS Publisher, SequenceTheorems, TLAPS

\* Where the chunks of a publish are read, hashed and uploaded.
Loop == {"chunk", "hasChunk", "putChunk"}
Ends == {"hasWhole", "putWhole", "register"}

\* The file was not saved.
Same(S) == \A f, g \in S : f = g

\* Which variables are set.
Place(l, j) ==
    /\ j.handle # None => \/ l \in {"hash", "putWhole"}
                          \/ l = "canon" /\ kind # "omni"
                          \/ l = "read" /\ kind = "omni"
    /\ j.handle = None => j.buf = <<>>
    /\ l \in {"idle", "hash"} \/ j.whole \in Seq(Chunks)
    /\ l \in {"hash", "stat", "policy", "canon"} => j.canon = None
    /\ l \in {"open", "statOpen", "openChunks"} => kind = "plain" /\ j.canon = None
    /\ l \in {"parent", "read", "scan"} => kind # "plain"
    /\ l \in {"parent", "read", "scan"} \union Loop => (j.canon # None <=> kind = "dual")
    /\ l \in {"scan", "statOpen", "openChunks"} \union Loop =>
          IF kind = "dual" THEN j.src = j.canon ELSE j.src \in Seq(Chunks)
    /\ l \in Loop /\ kind = "plain" => j.chunked \in Files
    /\ l \in {"hasChunk", "putChunk"} => j.chunks # <<>>
    /\ l \notin Loop \union Ends => j.chunks = <<>>
    /\ j.sent # None => l \in Ends
    /\ l = "register" /\ j.sent = None => j.whole \in blobs

\* What has been dealt with is on the server: all chunks but the one in hand.
Stored(l, j) ==
    /\ l \in Loop => \A k \in 1..Len(j.chunks) :
                        <<j.chunks[k]>> \in blobs \/ (l # "chunk" /\ k = Len(j.chunks))
    /\ j.sent # None => \A c \in Range(j.sent.chunks) : <<c>> \in blobs
    /\ l = "register" /\ kind = "dual" => j.whole \in blobs

\* What has been read of the file, from its beginning to its end or so far, is of
\* the contents that it has had.
Known(l, j, S) ==
    /\ l # "idle" => disk \in S
    /\ j.whole \in Maybe(ReadsOf(inPlace, S)) /\ j.chunked \in Maybe(S)
    /\ kind # "dual" => j.src \in Maybe(ReadsOf(inPlace, S))
    /\ kind # "dual" /\ j.sent # None => j.sent.whole \in ReadsOf(inPlace, S)
    /\ j.handle \in Maybe(S)
    /\ \A k \in 1..Len(j.buf) : \E f \in (IF inPlace THEN S ELSE {j.handle}) :
                                  k <= Len(f) /\ j.buf[k] = f[k]

\* If there is one content only, everything fits together.
Calm(l, j, S) ==
    Same(S) =>
        /\ l \in {"idle", "hash", "stat"} \/ j.size = Len(j.whole)
        /\ l = "openChunks" => j.n = Len(j.src)
        /\ l \in Loop => /\ j.n = Len(j.src)
                         /\ Len(j.chunks) <= j.n
                         /\ \A k \in 1..Len(j.chunks) : j.chunks[k] = j.src[k]
        /\ j.sent # None => j.sent.chunks = j.sent.whole /\ j.sent.size = Len(j.sent.whole)

Good(l, j, S) == Place(l, j) /\ Stored(l, j) /\ Known(l, j, S) /\ Calm(l, j, S)

GoodVersion(v, S) ==
    v # None =>
        /\ IF v.manifest # None THEN v.manifest.whole \in ReadsOf(inPlace, S) /\ v.file = None
                                ELSE v.file \in ReadsOf(inPlace, S) /\ v.file \in blobs
        /\ \A m \in {v.manifest, v.dedup} \ {None} : \A c \in Range(m.chunks) : <<c>> \in blobs
        /\ Same(S) => /\ v.manifest = None => v.size = Len(v.file)
                      /\ \A m \in {v.manifest, v.dedup} \ {None} :
                            m.chunks = m.whole /\ m.size = Len(m.whole)

JobsGood == \A p \in Procs : Good(pc[p], job[p], seen[p])
VersionsGood == \A p \in Procs : GoodVersion(version[p], seen[p])

IInv == TypeOK /\ JobsGood /\ VersionsGood /\ RetrySucceeds

\* Facts about the constants.
LEMMA ConstantFacts ==
    /\ Files \subseteq Seq(Chunks) /\ <<>> \notin Files
    /\ None \notin Seq(Chunks) /\ None \notin Files
    /\ None \notin Manifests /\ None \notin Versions
    /\ \A c \in Mixtures(Files) : Canonical[c] \in Seq(Chunks) \union {None}
    /\ Blank \in Job
  BY PublisherAssumption, NoneAssumption DEF Blank, Job, Maybe

\* What is known of the publish that makes a step.
LEMMA Facts ==
    ASSUME IInv, NEW p \in Procs
    PROVE  /\ job[p] \in Job /\ pc[p] \in Location /\ disk \in Files
           /\ Len(disk) \in Nat /\ seen[p] \subseteq Files
           /\ job[p].buf \in Seq(Chunks) /\ job[p].handle \in Files \union {None}
           /\ job[p].chunks \in Seq(Chunks) /\ job[p].n \in Nat /\ job[p].size \in Nat
           /\ Good(pc[p], job[p], seen[p])
           /\ kind \in {"plain", "omni", "dual"}
  BY ConstantFacts DEF IInv, TypeOK, JobsGood, Job, Maybe

-----------------------------------------------------------------------------
\* Reading a file that is saved meanwhile

\* What Mixtures says, without the bounds that make it finite.
LEMMA MixtureIntro ==
    ASSUME NEW C, NEW S \in SUBSET Seq(C), NEW c \in Seq(C), c # <<>>,
           NEW e \in S, Len(e) <= Len(c),
           \A k \in 1..Len(c) : \E f \in S : k <= Len(f) /\ c[k] = f[k]
    PROVE  c \in Mixtures(S)
<1>1. Len(c) \in Nat \ {0} /\ Len(e) \in Nat /\ c \in [1..Len(c) -> C]
  BY LenProperties, EmptySeq
<1>2. PICK g \in S : Len(c) <= Len(g) /\ c[Len(c)] = g[Len(c)]
  BY <1>1
<1>3. Len(g) \in Nat /\ Len(c) \in Len(e)..Len(g)
  BY <1>1, <1>2
<1>4. \A k \in 1..Len(c) : c[k] \in UNION {Range(f) : f \in S}
  <2> SUFFICES ASSUME NEW k \in 1..Len(c) PROVE \E f \in S : c[k] \in Range(f)
    OBVIOUS
  <2>1. PICK f \in S : k <= Len(f) /\ c[k] = f[k]
    OBVIOUS
  <2>2. k \in DOMAIN f
    BY <2>1
  <2> QED BY <2>1, <2>2 DEF Range
<1>5. c \in [1..Len(c) -> UNION {Range(f) : f \in S}]
  BY <1>1, <1>4
<1> QED BY <1>3, <1>5 DEF Mixtures

LEMMA MixtureElim ==
    ASSUME NEW C, NEW S \in SUBSET Seq(C), NEW c \in Mixtures(S)
    PROVE  /\ c \in Seq(C)
           /\ \E e \in S : Len(e) <= Len(c)
           /\ \A k \in 1..Len(c) : \E f \in S : k <= Len(f) /\ c[k] = f[k]
<1>0. c \in UNION {[1..n -> UNION {Range(f) : f \in S}] :
                       n \in UNION {UNION {Len(e)..Len(g) : g \in S} : e \in S}}
  BY DEF Mixtures
<1>1. PICK e \in S, g \in S : \E n \in Len(e)..Len(g) : c \in [1..n -> UNION {Range(f) : f \in S}]
  BY <1>0
<1> PICK n \in Len(e)..Len(g) : c \in [1..n -> UNION {Range(f) : f \in S}]
  BY <1>1
<1>2. Len(e) \in Nat /\ Len(g) \in Nat /\ n \in Nat
  OBVIOUS
<1>3. UNION {Range(f) : f \in S} \subseteq C
  BY DEF Range
<1>4. c \in Seq(C) /\ Len(c) = n
  BY <1>2, <1>3
<1>5. \A k \in 1..Len(c) : \E f \in S : k <= Len(f) /\ c[k] = f[k]
  BY DEF Mixtures
<1> QED BY <1>1, <1>2, <1>4, <1>5

\* The more contents a file has had, the more can be read of it.
LEMMA ReadsMonotone ==
    ASSUME NEW S \in SUBSET Files, NEW T \in SUBSET Files, S \subseteq T, NEW b \in BOOLEAN
    PROVE  ReadsOf(b, S) \subseteq ReadsOf(b, T)
<1> SUFFICES ASSUME NEW c \in Mixtures(S) PROVE c \in Mixtures(T)
  BY DEF ReadsOf
<1>1. S \in SUBSET Seq(Chunks) /\ T \in SUBSET Seq(Chunks)
  BY ConstantFacts
<1>2. PICK e \in S : Len(e) <= Len(c)
  BY <1>1, MixtureElim
<1>3. /\ c \in Seq(Chunks)
      /\ \A k \in 1..Len(c) : \E f \in T : k <= Len(f) /\ c[k] = f[k]
  BY <1>1, MixtureElim
<1>4. c # <<>>
  <2>1. e \in Seq(Chunks) /\ e # <<>>
    BY <1>1, ConstantFacts
  <2> QED BY <1>2, <1>3, <2>1, LenProperties, EmptySeq
<1> QED BY <1>1, <1>2, <1>3, <1>4, MixtureIntro

\* The file of one moment is one of the things that can be read.
LEMMA OneMoment ==
    ASSUME NEW S \in SUBSET Files, NEW c \in S, NEW b \in BOOLEAN
    PROVE  c \in ReadsOf(b, S)
<1>1. S \in SUBSET Seq(Chunks) /\ c \in Seq(Chunks) /\ c # <<>>
  BY ConstantFacts
<1>2. c \in Mixtures(S)
  BY <1>1, MixtureIntro
<1> QED BY <1>2 DEF ReadsOf

\* Nothing can be read of no file.
LEMMA NothingRead ==
    ASSUME NEW b
    PROVE  ReadsOf(b, {}) = {}
BY DEF ReadsOf, Mixtures

\* It is the only one if nobody saves.
LEMMA OnlyMoment ==
    ASSUME NEW S \in SUBSET Files, Same(S), NEW d \in S, NEW b \in BOOLEAN, NEW c \in ReadsOf(b, S)
    PROVE  c = d
<1>1. S = {d} /\ d \in Seq(Chunks) /\ S \in SUBSET Seq(Chunks)
  BY ConstantFacts DEF Same
<1>2. CASE c \in Mixtures(S)
  <2>1. /\ c \in Seq(Chunks) /\ Len(d) <= Len(c)
        /\ \A k \in 1..Len(c) : k <= Len(d) /\ c[k] = d[k]
    BY <1>1, <1>2, MixtureElim
  <2>2. Len(c) <= Len(d)
    BY <1>1, <2>1
  <2> QED BY <1>1, <2>1, <2>2, SeqEqual
<1> QED BY <1>1, <1>2 DEF ReadsOf

\* What a publish has read when it comes to the end of the file.
LEMMA WholeRead ==
    ASSUME IInv, NEW p \in Procs, AllRead(p), pc[p] # "idle"
    PROVE  /\ job[p].buf \in ReadsOf(inPlace, seen[p]) /\ job[p].buf \in Mixtures(Files)
           /\ job[p].buf \in Seq(Chunks)
<1> DEFINE b == job[p].buf
           h == job[p].handle
           S == seen[p]
<1> USE ConstantFacts, Facts
<1>1. /\ inPlace \in BOOLEAN /\ disk \in S /\ h \in S /\ b \in Seq(Chunks)
      /\ S \in SUBSET Files /\ S \in SUBSET Seq(Chunks)
      /\ \A k \in 1..Len(b) : \E f \in (IF inPlace THEN S ELSE {h}) : k <= Len(f) /\ b[k] = f[k]
  BY DEF AllRead, IInv, TypeOK, Good, Known, Maybe
<1>2. Len(View(h)) <= Len(b) /\ View(h) \in S
  BY <1>1 DEF AllRead, View
<1>3. b # <<>>
  <2>1. View(h) \in Seq(Chunks) /\ View(h) # <<>>
    BY <1>1, <1>2
  <2> QED BY <1>1, <1>2, <2>1, LenProperties, EmptySeq
<1>4. ASSUME inPlace PROVE b \in ReadsOf(inPlace, S)
  BY <1>1, <1>2, <1>3, <1>4, MixtureIntro DEF ReadsOf
<1>5. ASSUME ~inPlace PROVE b \in ReadsOf(inPlace, S)
  <2>1. /\ Len(h) <= Len(b) /\ h \in Seq(Chunks) /\ b \in Seq(Chunks)
        /\ \A k \in 1..Len(b) : k <= Len(h) /\ b[k] = h[k]
    BY <1>1, <1>2, <1>5 DEF View
  <2> HIDE ConstantFacts, Facts DEF b, h
  <2>2. Len(b) = Len(h)
    BY <2>1, <1>3
  <2>3. b = h
    BY <2>1, <2>2, SeqEqual
  <2> QED BY <1>1, <1>5, <2>3 DEF ReadsOf
<1>6. b \in ReadsOf(inPlace, Files)
  BY <1>1, <1>4, <1>5, ReadsMonotone
<1>7. b \in Mixtures(Files)
  BY <1>1, <1>6, OneMoment DEF ReadsOf
<1> QED BY <1>1, <1>4, <1>5, <1>7

-----------------------------------------------------------------------------

\* The initial states satisfy the invariant.
LEMMA InitInv == Init => IInv
<1> SUFFICES ASSUME Init PROVE IInv OBVIOUS
<1>1. TypeOK
  BY ConstantFacts DEF Init, TypeOK, At, Maybe, Location
<1>2. JobsGood
  BY ConstantFacts DEF Init, JobsGood, Good, Place, Stored, Known, Calm, Maybe, Blank, Loop, Ends
<1>3. VersionsGood
  BY DEF Init, VersionsGood, GoodVersion
<1>4. RetrySucceeds
  BY DEF Init, RetrySucceeds
<1> QED BY <1>1, <1>2, <1>3, <1>4 DEF IInv

\* A step of somebody else's, who at most adds blobs, does not disturb a publish,
\* or a version.
LEMMA OtherGood ==
    ASSUME IInv, NEW q \in Procs, blobs \subseteq blobs', UNCHANGED <<disk, settings>>,
           pc'[q] = pc[q], job'[q] = job[q], seen'[q] = seen[q]
    PROVE  Good(pc[q], job[q], seen[q])'
<1>1. Good(pc[q], job[q], seen[q])
  BY DEF IInv, JobsGood
<1> QED BY <1>1 DEF Good, Place, Stored, Known, Calm, settings

LEMMA OtherVersion ==
    ASSUME IInv, NEW q \in Procs, blobs \subseteq blobs', UNCHANGED inPlace,
           version'[q] = version[q], seen'[q] = seen[q]
    PROVE  GoodVersion(version[q], seen[q])'
<1>1. GoodVersion(version[q], seen[q])
  BY DEF IInv, VersionsGood
<1> QED BY <1>1 DEF GoodVersion

\* A step of one publish, in which only it and the blobs change.
LEMMA StepInv ==
    ASSUME IInv, NEW p \in Procs, NEW to \in Location \ {"idle"}, NEW j \in Job,
           blobs \subseteq blobs', blobs' \subseteq Seq(Chunks),
           pc' = [pc EXCEPT ![p] = to], job' = [job EXCEPT ![p] = j],
           UNCHANGED <<disk, inPlace, kind, version, seen, failed, result>>,
           Good(to, j, seen[p])'
    PROVE  IInv'
<1>1. TypeOK'
  BY DEF IInv, TypeOK, At
<1>2. JobsGood'
  <2> SUFFICES ASSUME NEW q \in Procs PROVE Good(pc[q], job[q], seen[q])'
    BY DEF JobsGood
  <2>1. CASE q = p
    <3>1. pc'[q] = to /\ job'[q] = j /\ seen'[q] = seen'[p]
      BY <2>1 DEF IInv, TypeOK
    <3> QED BY <3>1 DEF Good, Place, Stored, Known, Calm
  <2>2. CASE q # p
    BY <2>2, OtherGood DEF IInv, TypeOK, settings
  <2> QED BY <2>1, <2>2
<1>3. VersionsGood'
  BY OtherVersion DEF VersionsGood
<1>4. RetrySucceeds'
  BY DEF IInv, RetrySucceeds, Saved, Refused
<1> QED BY <1>1, <1>2, <1>3, <1>4 DEF IInv

\* A step that changes only the variables of one publish.
LEMMA AssignInv ==
    ASSUME IInv, NEW p \in Procs, NEW from, NEW to \in Location \ {"idle"},
           NEW j \in Job, Assign(p, from, to, j), Good(to, j, seen[p])
    PROVE  IInv'
<1>1. /\ pc' = [pc EXCEPT ![p] = to]
      /\ job' = [job EXCEPT ![p] = j]
      /\ UNCHANGED <<disk, inPlace, kind, blobs, version, seen, failed, result>>
  BY DEF Assign, Goto, settings, server
<1>2. Good(to, j, seen[p])'
  BY <1>1 DEF Good, Place, Stored, Known, Calm
<1>3. blobs' \subseteq Seq(Chunks)
  BY <1>1 DEF IInv, TypeOK
<1> QED BY <1>1, <1>2, <1>3, StepInv

-----------------------------------------------------------------------------
\* Reading the file

\* A step before the first chunk keeps the invariant if what it leaves fits.
LEMMA EarlyInv ==
    ASSUME IInv, NEW p \in Procs, NEW from, NEW to \in Location \ {"idle", "hash", "register"},
           NEW j \in Job, Assign(p, from, to, j), j.chunks = <<>>, j.sent = None,
           Place(to, j), Known(to, j, seen[p]),
           Same(seen[p]) => /\ to = "stat" \/ j.size = Len(disk)
                            /\ to \in {"openChunks", "chunk"} => j.n = Len(j.src)
    PROVE  IInv'
<1>1. 1..Len(j.chunks) = {} /\ Len(j.chunks) = 0
  OBVIOUS
<1>2. Stored(to, j)
  BY DEF Stored
<1>3. Calm(to, j, seen[p])
  <2> SUFFICES ASSUME Same(seen[p]) PROVE Calm(to, j, seen[p])
    BY DEF Calm
  <2>1. disk \in seen[p] /\ j.whole \in ReadsOf(inPlace, seen[p]) /\ inPlace \in BOOLEAN
    BY ConstantFacts DEF Place, Known, Location, Maybe, IInv, TypeOK
  <2>2. j.whole = disk
    BY <2>1, Facts, OnlyMoment
  <2>3. j.n \in Nat
    BY DEF Job
  <2>4. to \in Loop => to = "chunk"
    BY DEF Place, Loop
  <2> QED BY <1>1, <2>2, <2>3, <2>4 DEF Calm
<1> QED BY <1>2, <1>3, AssignInv DEF Good

\* While the file is not saved, whatever is read of it is the same.
LEMMA OneContent ==
    ASSUME IInv, NEW p \in Procs, pc[p] # "idle", Same(seen[p])
    PROVE  /\ job[p].whole # None => job[p].whole = disk
           /\ job[p].chunked # None => job[p].chunked = disk
           /\ kind # "dual" /\ job[p].src # None => job[p].src = disk
           /\ pc[p] \in {"hash", "stat"} \/ job[p].size = Len(disk)
           /\ pc[p] \in {"openChunks"} \union Loop => job[p].n = Len(job[p].src)
<1>1. /\ job[p].whole # None => job[p].whole = disk
      /\ job[p].chunked # None => job[p].chunked = disk
      /\ kind # "dual" /\ job[p].src # None => job[p].src = disk
  <2>1. /\ disk \in seen[p] /\ inPlace \in BOOLEAN
        /\ job[p].whole # None => job[p].whole \in ReadsOf(inPlace, seen[p])
        /\ job[p].chunked # None => job[p].chunked \in seen[p]
        /\ kind # "dual" /\ job[p].src # None => job[p].src \in ReadsOf(inPlace, seen[p])
    BY Facts DEF Good, Known, Maybe, IInv, TypeOK
  <2> QED BY <2>1, Facts, OnlyMoment DEF Same
<1>2. pc[p] = "hash" \/ job[p].whole \in Seq(Chunks)
  BY Facts DEF Good, Place
<1>3. /\ pc[p] \in {"hash", "stat"} \/ job[p].size = Len(job[p].whole)
      /\ pc[p] = "openChunks" => job[p].n = Len(job[p].src)
      /\ pc[p] \in Loop => job[p].n = Len(job[p].src)
  BY Facts DEF Good, Calm
<1> QED BY <1>1, <1>2, <1>3, ConstantFacts

\* Closing the file changes nothing else.
LEMMA ClosedFacts ==
    ASSUME IInv, NEW p \in Procs
    PROVE  LET j == Closed(p) IN
           /\ j \in Job /\ j.handle = None /\ j.buf = <<>>
           /\ j.whole = job[p].whole /\ j.size = job[p].size /\ j.canon = job[p].canon
           /\ j.src = job[p].src /\ j.chunked = job[p].chunked /\ j.n = job[p].n
           /\ j.chunks = job[p].chunks /\ j.sent = job[p].sent
<1>1. job[p] \in Job /\ <<>> \in Seq(Chunks)
  BY Facts
<1>2. PICK r \in Job : r = [job[p] EXCEPT !.handle = None]
  BY <1>1 DEF Job, Maybe
<1>3. Closed(p) = [r EXCEPT !.buf = <<>>]
  BY <1>2 DEF Closed
<1>4. /\ r.handle = None
      /\ r.whole = job[p].whole /\ r.size = job[p].size /\ r.canon = job[p].canon
      /\ r.src = job[p].src /\ r.chunked = job[p].chunked /\ r.n = job[p].n
      /\ r.chunks = job[p].chunks /\ r.sent = job[p].sent
  BY <1>1, <1>2 DEF Job
<1> QED BY <1>1, <1>3, <1>4 DEF Job

\* The steps that read the file keep the invariant.
LEMMA ReadInv ==
    ASSUME IInv, NEW p \in Procs,
           \/ OpenToRead(p) \/ ReadOn(p) \/ HashFile(p) \/ StatFile(p) \/ Canonicalize(p) \/ ReadSource(p)
           \/ ScanSegments(p) \/ OpenFile(p) \/ StatOpen(p) \/ OpenChunks(p)
    PROVE  IInv'
<1> USE ConstantFacts, Facts
<1>0. ASSUME Reads(p), NEW j \in Job, Assign(p, pc[p], pc[p], j), Known(pc[p], j, seen[p]),
             j.handle # None,
             \A x \in DOMAIN Blank \ {"handle", "buf"} : j[x] = job[p][x]
      PROVE  IInv'
  <2>0. Good(pc[p], job[p], seen[p])
    OBVIOUS
  <2> HIDE ConstantFacts, Facts
  <2>1. /\ j.whole = job[p].whole /\ j.size = job[p].size /\ j.canon = job[p].canon
        /\ j.src = job[p].src /\ j.chunked = job[p].chunked /\ j.n = job[p].n
        /\ j.chunks = job[p].chunks /\ j.sent = job[p].sent
    BY <1>0 DEF Blank
  <2>2. /\ \/ pc[p] \in {"hash", "putWhole"}
           \/ pc[p] = "canon" /\ kind # "omni"
           \/ pc[p] = "read" /\ kind = "omni"
        /\ pc[p] \in Location \ {"idle"}
    BY <1>0 DEF Reads, At, Location
  <2>3. Place(pc[p], j)
    <3>1. j.handle # None
      BY <1>0
    <3>2. Place(pc[p], job[p])
      BY <2>0 DEF Good
    <3> QED BY <2>1, <2>2, <3>1, <3>2 DEF Place
  <2>4. Stored(pc[p], j) /\ Calm(pc[p], j, seen[p])
    BY <2>0, <2>1 DEF Good, Stored, Calm
  <2> QED BY <1>0, <2>2, <2>3, <2>4, AssignInv DEF Good
<1>9. CASE OpenToRead(p)
  <2> DEFINE j == [job[p] EXCEPT !.handle = disk]
  <2>1. Reads(p) /\ Assign(p, pc[p], pc[p], j) /\ pc[p] # "idle" /\ job[p].handle = None
    BY <1>9 DEF OpenToRead, Read, Reads, At
  <2>2. /\ j \in Job /\ j.handle = disk /\ j.buf = job[p].buf
        /\ \A x \in DOMAIN Blank \ {"handle", "buf"} : j[x] = job[p][x]
    BY DEF Job, Maybe, Blank
  <2>3. job[p].buf = <<>>
    BY <2>1 DEF Good, Place
  <2>4. /\ j.whole = job[p].whole /\ j.src = job[p].src /\ j.chunked = job[p].chunked
        /\ j.sent = job[p].sent
    BY <2>2 DEF Blank
  <2> HIDE DEF j
  <2>5. Known(pc[p], j, seen[p])
    BY <2>1, <2>2, <2>3, <2>4 DEF Good, Known, Maybe
  <2> QED BY <1>0, <2>1, <2>2, <2>5
<1>10. CASE ReadOn(p)
  <2> DEFINE h == job[p].handle
             x == View(h)[Len(job[p].buf) + 1]
             j == [job[p] EXCEPT !.buf = Append(@, x)]
  <2>1. Reads(p) /\ Assign(p, pc[p], pc[p], j) /\ pc[p] # "idle" /\ h # None /\ Unread(p)
    BY <1>10 DEF ReadOn, Read, Reads, At, Unread
  <2>2. /\ View(h) \in (IF inPlace THEN seen[p] ELSE {h}) /\ View(h) \in Files
        /\ Len(job[p].buf) + 1 <= Len(View(h)) /\ x \in Chunks
    <3>1. View(h) \in (IF inPlace THEN seen[p] ELSE {h}) /\ View(h) \in Files
      BY <2>1 DEF View, Good, Known
    <3>2. Len(View(h)) \in Nat /\ Len(job[p].buf) \in Nat /\ View(h) \in Seq(Chunks)
      BY <3>1
    <3> QED BY <2>1, <3>1, <3>2 DEF Unread
  <2>3. Append(job[p].buf, x) \in Seq(Chunks)
    BY <2>2
  <2> HIDE DEF x
  <2>4. /\ j \in Job /\ j.handle = h /\ j.buf = Append(job[p].buf, x)
        /\ \A y \in DOMAIN Blank \ {"handle", "buf"} : j[y] = job[p][y]
    BY <2>3 DEF Job, Maybe, Blank
  <2>5. /\ j.whole = job[p].whole /\ j.src = job[p].src /\ j.chunked = job[p].chunked
        /\ j.sent = job[p].sent
    BY <2>4 DEF Blank
  <2> HIDE DEF j
  <2>6. ASSUME NEW k \in 1..Len(j.buf)
        PROVE  \E f \in (IF inPlace THEN seen[p] ELSE {h}) : k <= Len(f) /\ j.buf[k] = f[k]
    <3>1. Len(j.buf) = Len(job[p].buf) + 1
      BY <2>4
    <3>2. CASE k = Len(j.buf)
      <4>1. k = Len(job[p].buf) + 1 /\ j.buf[k] = x
        BY <2>2, <2>4, <3>1, <3>2
      <4> QED BY <2>2, <4>1 DEF x
    <3>3. CASE k # Len(j.buf)
      <4>1. k \in 1..Len(job[p].buf) /\ j.buf[k] = job[p].buf[k]
        BY <2>2, <2>4, <3>1, <3>3
      <4> QED BY <4>1 DEF Good, Known
    <3> QED BY <3>2, <3>3
  <2>7. Known(pc[p], j, seen[p])
    BY <2>1, <2>4, <2>5, <2>6 DEF Good, Known
  <2> QED BY <1>0, <2>1, <2>4, <2>7
<1>1. CASE HashFile(p)
  <2> DEFINE to == "stat"
             j == [Closed(p) EXCEPT !.whole = job[p].buf]
  <2>1. Assign(p, "hash", to, j) /\ pc[p] = "hash" /\ AllRead(p)
    BY <1>1 DEF HashFile, Assign, At
  <2>0. job[p].buf \in ReadsOf(inPlace, seen[p]) /\ job[p].buf \in Seq(Chunks)
    BY <2>1, WholeRead
  <2>2. to \in Location \ {"idle", "hash", "register"}
    BY DEF Location
  <2>3. j \in Job /\ j.whole = job[p].buf
    <3>1. PICK r \in Job : r = Closed(p)
      BY ClosedFacts
    <3> QED BY <2>0, <3>1 DEF Job, Maybe
  <2>4. /\ j.size = job[p].size /\ j.canon = job[p].canon /\ j.src = job[p].src
        /\ j.chunked = job[p].chunked /\ j.n = job[p].n /\ j.chunks = <<>> /\ j.sent = None
        /\ j.handle = None /\ j.buf = <<>>
    <3>1. job[p].chunks = <<>> /\ job[p].sent = None
      BY <2>1 DEF Good, Place, Loop, Ends
    <3> QED BY <3>1, ClosedFacts DEF Job
  <2> HIDE DEF j
  <2>5. Place(to, j)
    BY <2>0, <2>1, <2>3, <2>4 DEF Good, Place, Loop, Ends
  <2>6. Known(to, j, seen[p])
    BY <2>0, <2>1, <2>3, <2>4 DEF Good, Known, Place, Maybe, Loop, Ends
  <2>7. Same(seen[p]) => /\ to = "stat" \/ j.size = Len(disk)
                         /\ to \in {"openChunks", "chunk"} => j.n = Len(j.src)
    BY <2>1, <2>3, <2>4, OneContent DEF Good, Place, Loop, Ends
  <2> QED BY <2>1, <2>2, <2>3, <2>4, <2>5, <2>6, <2>7, EarlyInv
<1>2. CASE StatFile(p)
  <2> DEFINE to == "policy"
             j == [job[p] EXCEPT !.size = Len(disk)]
  <2>1. Assign(p, "stat", to, j) /\ pc[p] = "stat"
    BY <1>2 DEF StatFile, Assign, At
  <2>2. to \in Location \ {"idle", "hash", "register"}
    BY DEF Location
  <2>3. j \in Job /\ j.size = Len(disk)
    BY DEF Job, Maybe
  <2>4. /\ j.whole = job[p].whole /\ j.canon = job[p].canon /\ j.src = job[p].src
        /\ j.chunked = job[p].chunked /\ j.n = job[p].n /\ j.chunks = <<>> /\ j.sent = None
        /\ j.handle = None /\ j.buf = <<>>
    <3>1. job[p].chunks = <<>> /\ job[p].sent = None /\ job[p].handle = None /\ job[p].buf = <<>>
      BY <2>1 DEF Good, Place, Loop, Ends
    <3> QED BY <3>1 DEF Job
  <2> HIDE DEF j
  <2>5. Place(to, j)
    BY <2>1, <2>3, <2>4 DEF Good, Place, Loop, Ends
  <2>6. Known(to, j, seen[p])
    BY <2>1, <2>3, <2>4 DEF Good, Known, Place, Maybe, Loop, Ends
  <2>7. Same(seen[p]) => /\ to = "stat" \/ j.size = Len(disk)
                         /\ to \in {"openChunks", "chunk"} => j.n = Len(j.src)
    BY <2>1, <2>3, <2>4, OneContent DEF Good, Place, Loop, Ends
  <2> QED BY <2>1, <2>2, <2>3, <2>4, <2>5, <2>6, <2>7, EarlyInv
<1>3. CASE Canonicalize(p)
  <2> DEFINE to == IF kind = "plain" THEN "open" ELSE "parent"
             c == IF kind = "dual" THEN Canonical[job[p].buf] ELSE None
             j == [Closed(p) EXCEPT !.canon = c]
  <2>1. /\ Assign(p, "canon", to, j) /\ pc[p] = "canon"
        /\ c \in Seq(Chunks) \union {None} /\ (kind = "dual" <=> c # None)
    <3>1. CASE kind = "omni" /\ Move(p, "canon", "parent")
      <4>1. /\ pc[p] = "canon" /\ job[p].handle = None /\ job[p].buf = <<>>
            /\ job[p].canon = None
        BY <3>1 DEF Move, Assign, At, Good, Place
      <4>2. j = job[p]
        BY <3>1, <4>1 DEF Closed, Job
      <4> HIDE DEF j
      <4> QED BY <3>1, <4>1, <4>2 DEF Move
    <3>2. CASE /\ At(p, "canon") /\ AllRead(p) /\ Canonical[job[p].buf] # None
               /\ Assign(p, "canon", to, j)
      BY <3>2, WholeRead DEF At
    <3> QED BY <1>3, <3>1, <3>2 DEF Canonicalize
  <2>2. to \in Location \ {"idle", "hash", "register"}
    BY DEF Location
  <2>3. j \in Job /\ j.canon = c
    <3>1. PICK r \in Job : r = Closed(p)
      BY ClosedFacts
    <3>2. c \in Seq(Chunks) \union {None}
      BY <2>1
    <3> HIDE DEF c
    <3> QED BY <3>1, <3>2 DEF Job, Maybe
  <2>4. /\ j.whole = job[p].whole /\ j.size = job[p].size /\ j.src = job[p].src
        /\ j.chunked = job[p].chunked /\ j.n = job[p].n /\ j.chunks = <<>> /\ j.sent = None
        /\ j.handle = None /\ j.buf = <<>>
    <3>1. job[p].chunks = <<>> /\ job[p].sent = None
      BY <2>1 DEF Good, Place, Loop, Ends
    <3> QED BY <3>1, ClosedFacts DEF Job
  <2> HIDE DEF j, c
  <2>5. Place(to, j)
    BY <2>1, <2>3, <2>4 DEF Good, Place, Loop, Ends
  <2>6. Known(to, j, seen[p])
    BY <2>1, <2>3, <2>4 DEF Good, Known, Place, Maybe, Loop, Ends
  <2>7. Same(seen[p]) => /\ to = "stat" \/ j.size = Len(disk)
                         /\ to \in {"openChunks", "chunk"} => j.n = Len(j.src)
    BY <2>1, <2>3, <2>4, OneContent DEF Good, Place, Loop, Ends
  <2> QED BY <2>1, <2>2, <2>3, <2>4, <2>5, <2>6, <2>7, EarlyInv
<1>4. CASE ReadSource(p)
  <2> DEFINE to == "scan"
             c == IF kind = "dual" THEN job[p].canon ELSE job[p].buf
             j == [Closed(p) EXCEPT !.src = c]
  <2>1. /\ Assign(p, "read", to, j) /\ pc[p] = "read"
        /\ c \in Seq(Chunks) /\ (kind = "dual" => c = job[p].canon)
        /\ kind # "dual" => c \in ReadsOf(inPlace, seen[p])
    <3>1. CASE kind = "dual" /\ Assign(p, "read", to, [job[p] EXCEPT !.src = job[p].canon])
      <4>1. /\ pc[p] = "read" /\ job[p].handle = None /\ job[p].buf = <<>>
            /\ job[p].canon # None
        BY <3>1 DEF Assign, At, Good, Place
      <4>2. j = [job[p] EXCEPT !.src = job[p].canon]
        BY <3>1, <4>1 DEF Closed, Job
      <4>3. job[p].canon \in Seq(Chunks)
        BY <4>1 DEF Job, Maybe
      <4> HIDE DEF j
      <4> QED BY <3>1, <4>1, <4>2, <4>3
    <3>2. CASE AllRead(p) /\ Assign(p, "read", to, [Closed(p) EXCEPT !.src = job[p].buf])
      <4>1. pc[p] = "read" /\ kind # "dual"
        BY <3>2 DEF Assign, At, AllRead, Good, Place
      <4> QED BY <3>2, <4>1, WholeRead
    <3> QED BY <1>4, <3>1, <3>2 DEF ReadSource
  <2>2. to \in Location \ {"idle", "hash", "register"}
    BY DEF Location
  <2>3. j \in Job /\ j.src = c
    <3>1. PICK r \in Job : r = Closed(p)
      BY ClosedFacts
    <3>2. c \in Seq(Chunks) \union {None}
      BY <2>1
    <3> HIDE DEF c
    <3> QED BY <3>1, <3>2 DEF Job, Maybe
  <2>4. /\ j.whole = job[p].whole /\ j.size = job[p].size /\ j.canon = job[p].canon
        /\ j.chunked = job[p].chunked /\ j.n = job[p].n /\ j.chunks = <<>> /\ j.sent = None
        /\ j.handle = None /\ j.buf = <<>>
    <3>1. job[p].chunks = <<>> /\ job[p].sent = None
      BY <2>1 DEF Good, Place, Loop, Ends
    <3> QED BY <3>1, ClosedFacts DEF Job
  <2> HIDE DEF j, c
  <2>5. Place(to, j)
    BY <2>1, <2>3, <2>4 DEF Good, Place, Loop, Ends
  <2>6. Known(to, j, seen[p])
    BY <2>1, <2>3, <2>4 DEF Good, Known, Place, Maybe, Loop, Ends
  <2>7. Same(seen[p]) => /\ to = "stat" \/ j.size = Len(disk)
                         /\ to \in {"openChunks", "chunk"} => j.n = Len(j.src)
    BY <2>1, <2>3, <2>4, OneContent DEF Good, Place, Loop, Ends
  <2> QED BY <2>1, <2>2, <2>3, <2>4, <2>5, <2>6, <2>7, EarlyInv
<1>5. CASE ScanSegments(p)
  <2> DEFINE to == "chunk"
             j == [job[p] EXCEPT !.n = IF job[p].canon # None THEN Len(job[p].canon) ELSE Len(disk)]
  <2>1. Assign(p, "scan", to, j) /\ pc[p] = "scan"
    BY <1>5 DEF ScanSegments, Assign, At
  <2>2. to \in Location \ {"idle", "hash", "register"}
    BY DEF Location
  <2>3. j \in Job /\ j.n = IF job[p].canon # None THEN Len(job[p].canon) ELSE Len(disk)
    <3>1. job[p].canon # None => Len(job[p].canon) \in Nat
      BY DEF Job
    <3> QED BY <3>1 DEF Job
  <2>4. /\ j.whole = job[p].whole /\ j.size = job[p].size /\ j.canon = job[p].canon
        /\ j.src = job[p].src /\ j.chunked = job[p].chunked /\ j.chunks = <<>> /\ j.sent = None
        /\ j.handle = None /\ j.buf = <<>>
    <3>1. job[p].chunks = <<>> /\ job[p].sent = None /\ job[p].handle = None /\ job[p].buf = <<>>
      BY <2>1 DEF Good, Place, Loop, Ends
    <3> QED BY <3>1 DEF Job
  <2> HIDE DEF j
  <2>5. Place(to, j)
    BY <2>1, <2>3, <2>4 DEF Good, Place, Loop, Ends
  <2>6. Known(to, j, seen[p])
    BY <2>1, <2>3, <2>4 DEF Good, Known, Place, Maybe, Loop, Ends
  <2>7. Same(seen[p]) => /\ to = "stat" \/ j.size = Len(disk)
                         /\ to \in {"openChunks", "chunk"} => j.n = Len(j.src)
    BY <2>1, <2>3, <2>4, OneContent DEF Good, Place, Loop, Ends
  <2> QED BY <2>1, <2>2, <2>3, <2>4, <2>5, <2>6, <2>7, EarlyInv
<1>6. CASE OpenFile(p)
  <2> DEFINE to == "statOpen"
             j == [job[p] EXCEPT !.src = disk]
  <2>1. Assign(p, "open", to, j) /\ pc[p] = "open"
    BY <1>6 DEF OpenFile, Assign, At
  <2>2. to \in Location \ {"idle", "hash", "register"}
    BY DEF Location
  <2>3. j \in Job /\ j.src = disk
    BY DEF Job, Maybe
  <2>0. disk \in ReadsOf(inPlace, seen[p])
    BY <2>1, OneMoment DEF Good, Known, IInv, TypeOK
  <2>4. /\ j.whole = job[p].whole /\ j.size = job[p].size /\ j.canon = job[p].canon
        /\ j.chunked = job[p].chunked /\ j.n = job[p].n /\ j.chunks = <<>> /\ j.sent = None
        /\ j.handle = None /\ j.buf = <<>>
    <3>1. job[p].chunks = <<>> /\ job[p].sent = None /\ job[p].handle = None /\ job[p].buf = <<>>
      BY <2>1 DEF Good, Place, Loop, Ends
    <3> QED BY <3>1 DEF Job
  <2> HIDE DEF j
  <2>5. Place(to, j)
    BY <2>1, <2>3, <2>4 DEF Good, Place, Loop, Ends
  <2>6. Known(to, j, seen[p])
    BY <2>0, <2>1, <2>3, <2>4 DEF Good, Known, Place, Maybe, Loop, Ends
  <2>7. Same(seen[p]) => /\ to = "stat" \/ j.size = Len(disk)
                         /\ to \in {"openChunks", "chunk"} => j.n = Len(j.src)
    BY <2>1, <2>3, <2>4, OneContent DEF Good, Place, Loop, Ends
  <2> QED BY <2>1, <2>2, <2>3, <2>4, <2>5, <2>6, <2>7, EarlyInv
<1>7. CASE StatOpen(p)
  <2> DEFINE to == "openChunks"
             j == [job[p] EXCEPT !.n = Len(disk)]
  <2>1. Assign(p, "statOpen", to, j) /\ pc[p] = "statOpen"
    BY <1>7 DEF StatOpen, Assign, At
  <2>2. to \in Location \ {"idle", "hash", "register"}
    BY DEF Location
  <2>3. j \in Job /\ j.n = Len(disk)
    BY DEF Job, Maybe
  <2>4. /\ j.whole = job[p].whole /\ j.size = job[p].size /\ j.canon = job[p].canon
        /\ j.src = job[p].src /\ j.chunked = job[p].chunked /\ j.chunks = <<>> /\ j.sent = None
        /\ j.handle = None /\ j.buf = <<>>
    <3>1. job[p].chunks = <<>> /\ job[p].sent = None /\ job[p].handle = None /\ job[p].buf = <<>>
      BY <2>1 DEF Good, Place, Loop, Ends
    <3> QED BY <3>1 DEF Job
  <2> HIDE DEF j
  <2>5. Place(to, j)
    BY <2>1, <2>3, <2>4 DEF Good, Place, Loop, Ends
  <2>6. Known(to, j, seen[p])
    BY <2>1, <2>3, <2>4 DEF Good, Known, Place, Maybe, Loop, Ends
  <2>7. Same(seen[p]) => /\ to = "stat" \/ j.size = Len(disk)
                         /\ to \in {"openChunks", "chunk"} => j.n = Len(j.src)
    <3>1. job[p].src \in Seq(Chunks) /\ kind = "plain"
      BY <2>1 DEF Good, Place
    <3> QED BY <2>1, <2>3, <2>4, <3>1, OneContent
  <2> QED BY <2>1, <2>2, <2>3, <2>4, <2>5, <2>6, <2>7, EarlyInv
<1>8. CASE OpenChunks(p)
  <2> DEFINE to == "chunk"
             j == [job[p] EXCEPT !.chunked = disk]
  <2>1. Assign(p, "openChunks", to, j) /\ pc[p] = "openChunks"
    BY <1>8 DEF OpenChunks, Assign, At
  <2>2. to \in Location \ {"idle", "hash", "register"}
    BY DEF Location
  <2>3. j \in Job /\ j.chunked = disk
    BY DEF Job, Maybe
  <2>4. /\ j.whole = job[p].whole /\ j.size = job[p].size /\ j.canon = job[p].canon
        /\ j.src = job[p].src /\ j.n = job[p].n /\ j.chunks = <<>> /\ j.sent = None
        /\ j.handle = None /\ j.buf = <<>>
    <3>1. job[p].chunks = <<>> /\ job[p].sent = None /\ job[p].handle = None /\ job[p].buf = <<>>
      BY <2>1 DEF Good, Place, Loop, Ends
    <3> QED BY <3>1 DEF Job
  <2> HIDE DEF j
  <2>5. Place(to, j)
    BY <2>1, <2>3, <2>4 DEF Good, Place, Loop, Ends
  <2>6. Known(to, j, seen[p])
    BY <2>1, <2>3, <2>4 DEF Good, Known, Place, Maybe, Loop, Ends
  <2>7. Same(seen[p]) => /\ to = "stat" \/ j.size = Len(disk)
                         /\ to \in {"openChunks", "chunk"} => j.n = Len(j.src)
    BY <2>1, <2>3, <2>4, OneContent DEF Good, Place, Loop, Ends
  <2> QED BY <2>1, <2>2, <2>3, <2>4, <2>5, <2>6, <2>7, EarlyInv
<1> QED BY <1>1, <1>2, <1>3, <1>4, <1>5, <1>6, <1>7, <1>8, <1>9, <1>10

\* The steps that only move on keep the invariant.
LEMMA MoveInv ==
    ASSUME IInv, NEW p \in Procs,
           \/ ResolveStrategy(p) \/ AskParent(p) \/ ChunkExists(p) \/ ChunkMissing(p)
           \/ WholeExists(p) \/ WholeMissing(p)
    PROVE  IInv'
<1> USE ConstantFacts, Facts
<1>0. ASSUME NEW from, NEW to \in Location \ {"idle"},
             Move(p, from, to), Good(to, job[p], seen[p])
      PROVE  IInv'
  BY <1>0, AssignInv DEF Move
<1> USE DEF Good, Place, Stored, Known, Calm, Maybe, Job, Loop, Ends, Location, Move, Assign, At
<1>1. CASE ResolveStrategy(p)
  <2>1. PICK to \in {"hasWhole", "canon"} : Move(p, "policy", to)
    BY <1>1 DEF ResolveStrategy
  <2> QED BY <2>1, <1>0
<1>2. CASE AskParent(p)
  BY <1>2, <1>0 DEF AskParent
<1>3. CASE ChunkExists(p)
  BY <1>3, <1>0 DEF ChunkExists, Chunk
<1>4. CASE ChunkMissing(p)
  BY <1>4, <1>0 DEF ChunkMissing
<1>5. CASE WholeExists(p)
  BY <1>5, <1>0 DEF WholeExists
<1>6. CASE WholeMissing(p)
  BY <1>6, <1>0 DEF WholeMissing
<1> QED BY <1>1, <1>2, <1>3, <1>4, <1>5, <1>6

-----------------------------------------------------------------------------
\* Chunks and uploads

\* What the chunks are cut from, and uploaded from.
LEMMA Bytes ==
    ASSUME IInv, NEW p \in Procs, pc[p] \in Loop
    PROVE  /\ Chunked(p) \in Seq(Chunks) /\ Uploaded(p) \in Seq(Chunks)
           /\ job[p].src \in Seq(Chunks)
           /\ Same(seen[p]) => Chunked(p) = job[p].src /\ Uploaded(p) = job[p].src
<1> USE ConstantFacts, Facts
<1>1. /\ kind = "dual" => job[p].src = job[p].canon /\ job[p].canon # None
      /\ kind # "dual" => job[p].src \in Seq(Chunks)
      /\ kind = "plain" => job[p].chunked \in Files
  BY DEF Good, Place
<1>2. job[p].src \in Seq(Chunks)
  BY <1>1 DEF Job, Maybe
<1>3. ASSUME Same(seen[p])
      PROVE  /\ job[p].chunked # None => job[p].chunked = disk
             /\ kind # "dual" => job[p].src = disk
  BY <1>1, <1>3, OneContent DEF Loop
<1> QED BY <1>1, <1>2, <1>3 DEF Chunked, Uploaded, View

\* Cutting the next chunk keeps the invariant.
LEMMA ReadChunkInv ==
    ASSUME IInv, NEW p \in Procs, ReadChunk(p)
    PROVE  IInv'
<1> DEFINE c == Chunked(p)[Len(job[p].chunks) + 1]
           j == [job[p] EXCEPT !.chunks = Append(@, c)]
<1> USE ConstantFacts, Facts
<1>1. Assign(p, "chunk", "hasChunk", j) /\ pc[p] = "chunk" /\ MoreChunks(p)
  BY DEF ReadChunk, At
<1>2. /\ Chunked(p) \in Seq(Chunks) /\ job[p].src \in Seq(Chunks)
      /\ Same(seen[p]) => Chunked(p) = job[p].src
  BY <1>1, Bytes DEF Loop
<1>3. Len(job[p].chunks) + 1 <= job[p].n /\ c \in Chunks
  BY <1>1, <1>2 DEF MoreChunks
<1>4. j \in Job /\ j.chunks = Append(job[p].chunks, c) /\ j.n = job[p].n /\ j.src = job[p].src
  <2>1. Append(job[p].chunks, c) \in Seq(Chunks)
    BY <1>3
  <2> HIDE DEF c
  <2> QED BY <2>1 DEF Job
<1>5. /\ j.whole = job[p].whole /\ j.size = job[p].size /\ j.canon = job[p].canon
      /\ j.chunked = job[p].chunked /\ j.sent = job[p].sent
      /\ j.handle = job[p].handle /\ j.buf = job[p].buf
  BY DEF Job
<1> HIDE DEF j, c
<1>6. /\ Len(j.chunks) = Len(job[p].chunks) + 1 /\ j.chunks # <<>>
      /\ \A k \in 1..Len(j.chunks) :
            j.chunks[k] = IF k = Len(j.chunks) THEN c ELSE job[p].chunks[k]
  <2>1. job[p].chunks \in Seq(Chunks) /\ c \in Chunks
    BY <1>3
  <2> HIDE ConstantFacts, Facts
  <2> QED BY <1>4, <2>1, AppendProperties
<1>7. Place("hasChunk", j)
  BY <1>1, <1>4, <1>5, <1>6 DEF Good, Place, Loop, Ends
<1>8. Stored("hasChunk", j)
  <2>1. job[p].sent = None /\ \A k \in 1..Len(job[p].chunks) : <<job[p].chunks[k]>> \in blobs
    BY <1>1 DEF Good, Place, Stored, Loop, Ends
  <2>2. \A k \in 1..Len(j.chunks) : k = Len(j.chunks) \/ <<j.chunks[k]>> \in blobs
    BY <1>4, <1>6, <2>1
  <2> QED BY <1>5, <2>1, <2>2 DEF Stored
<1>9. Known("hasChunk", j, seen[p])
  BY <1>1, <1>4, <1>5 DEF Good, Known
<1>10. Calm("hasChunk", j, seen[p])
  <2> SUFFICES ASSUME Same(seen[p]) PROVE Calm("hasChunk", j, seen[p])
    BY DEF Calm
  <2>1. /\ j.size = Len(j.whole) /\ j.n = Len(j.src)
        /\ \A k \in 1..Len(job[p].chunks) : job[p].chunks[k] = job[p].src[k]
    BY <1>1, <1>4, <1>5 DEF Good, Calm, Loop
  <2>2. j.sent = None
    BY <1>1, <1>5 DEF Good, Place, Loop, Ends
  <2>3. \A k \in 1..Len(j.chunks) : j.chunks[k] = j.src[k]
    BY <1>2, <1>4, <1>6, <2>1 DEF c
  <2> QED BY <1>3, <1>4, <1>6, <2>1, <2>2, <2>3 DEF Calm
<1>11. "hasChunk" \in Location \ {"idle"}
  BY DEF Location
<1> QED BY <1>1, <1>4, <1>7, <1>8, <1>9, <1>10, <1>11, AssignInv DEF Good

\* The manifest lists what has been stored.
LEMMA PutManifestInv ==
    ASSUME IInv, NEW p \in Procs, PutManifest(p)
    PROVE  IInv'
<1> DEFINE to == IF kind = "dual" THEN "hasWhole" ELSE "register"
           m == Manifest(p)
           j == [job[p] EXCEPT !.sent = m]
<1> USE ConstantFacts, Facts
<1>1. Assign(p, "chunk", to, j) /\ pc[p] = "chunk" /\ ~MoreChunks(p)
  BY DEF PutManifest, At
<1>2. /\ Chunked(p) \in Seq(Chunks) /\ job[p].src \in Seq(Chunks)
      /\ Same(seen[p]) => Chunked(p) = job[p].src
  BY <1>1, Bytes DEF Loop
<1>3. job[p].whole \in Seq(Chunks)
  BY <1>1 DEF Good, Place
<1>4. /\ m \in Manifests /\ m.chunks = job[p].chunks
      /\ m.whole = IF kind = "plain" THEN job[p].whole ELSE job[p].src
      /\ m.size = IF kind = "plain" THEN job[p].size ELSE Len(job[p].src)
  BY <1>2, <1>3 DEF Manifest, Manifests
<1> HIDE DEF m
<1>5. j \in Job /\ j.sent = m
  BY <1>4 DEF Job, Maybe
<1>6. /\ j.whole = job[p].whole /\ j.size = job[p].size /\ j.canon = job[p].canon
      /\ j.chunked = job[p].chunked /\ j.src = job[p].src
      /\ j.handle = job[p].handle /\ j.buf = job[p].buf
  BY DEF Job
<1> HIDE DEF j
<1>7. to \in Ends /\ to # "putWhole" /\ to \in Location \ {"idle"} /\ m # None
  BY <1>4 DEF Location, Ends
<1>8. Place(to, j)
  BY <1>1, <1>3, <1>5, <1>6, <1>7 DEF Good, Place, Loop, Ends
<1>9. Stored(to, j)
  <2>1. \A k \in 1..Len(job[p].chunks) : <<job[p].chunks[k]>> \in blobs
    BY <1>1 DEF Good, Stored, Loop
  <2>2. \A c \in Range(m.chunks) : <<c>> \in blobs
    BY <1>4, <2>1 DEF Range
  <2> QED BY <1>5, <1>7, <2>2 DEF Stored, Loop, Ends
<1>10. Known(to, j, seen[p])
  <2>1. kind # "dual" => m.whole \in ReadsOf(inPlace, seen[p])
    BY <1>1, <1>2, <1>3, <1>4 DEF Good, Known, Maybe
  <2> QED BY <1>1, <1>5, <1>6, <1>7, <2>1 DEF Good, Known, Ends
<1>11. Calm(to, j, seen[p])
  <2> SUFFICES ASSUME Same(seen[p]) PROVE Calm(to, j, seen[p])
    BY DEF Calm
  <2>1. /\ job[p].size = Len(job[p].whole) /\ job[p].n = Len(job[p].src)
        /\ Len(job[p].chunks) <= job[p].n
        /\ \A k \in 1..Len(job[p].chunks) : job[p].chunks[k] = job[p].src[k]
    BY <1>1 DEF Good, Calm, Loop
  <2>2. Len(job[p].chunks) = Len(job[p].src)
    BY <1>1, <1>2, <2>1 DEF MoreChunks
  <2>3. job[p].chunks = job[p].src
    BY <1>2, <2>1, <2>2, SeqEqual
  <2>4. kind = "plain" => job[p].whole = job[p].src
    <3>1. kind = "plain" => job[p].src \in Seq(Chunks)
      BY <1>1 DEF Good, Place, Loop
    <3> QED BY <1>1, <1>3, <3>1, OneContent
  <2> QED BY <1>4, <1>5, <1>6, <1>7, <2>1, <2>3, <2>4 DEF Calm, Loop, Ends
<1> QED BY <1>1, <1>5, <1>7, <1>8, <1>9, <1>10, <1>11, AssignInv DEF Good

\* Uploading a chunk, or the file.
LEMMA PutInv ==
    ASSUME IInv, NEW p \in Procs, PutChunk(p) \/ PutWhole(p)
    PROVE  IInv'
<1> USE ConstantFacts, Facts
<1>2. CASE PutChunk(p)
  <2> PICK j \in Job : j = job[p]
    OBVIOUS
  <2>0. job' = [job EXCEPT ![p] = j]
    BY <1>2 DEF PutChunk, IInv, TypeOK
  <2>1. /\ pc[p] = "putChunk" /\ pc' = [pc EXCEPT ![p] = "chunk"]
        /\ blobs' = blobs \union {<<Chunk(p)>>}
        /\ UNCHANGED <<disk, inPlace, kind, version, seen, failed, result>>
    BY <1>2 DEF PutChunk, At, Goto, settings
  <2>2. j.chunks # <<>> /\ Chunk(p) \in Chunks
    BY <2>1 DEF Good, Place, Chunk
  <2>5. <<Chunk(p)>> \in Seq(Chunks)
    BY <2>2
  <2>3. blobs' \subseteq Seq(Chunks)
    BY <2>1, <2>5 DEF IInv, TypeOK
  <2>4. Good("chunk", j, seen[p])'
    <3>1. /\ job[p] = j /\ seen'[p] = seen[p] /\ kind' = kind /\ disk' = disk
          /\ inPlace' = inPlace
      BY <2>1 DEF IInv, TypeOK
    <3>2. \A k \in 1..Len(j.chunks) : <<j.chunks[k]>> \in blobs'
      BY <2>1 DEF Good, Stored, Loop, Chunk
    <3>3. Stored("chunk", j)'
      BY <2>1, <3>1, <3>2 DEF Good, Place, Stored, Loop, Ends
    <3>6. Place("putChunk", j) /\ Calm("putChunk", j, seen[p])
      BY <2>1 DEF Good
    <3>7. j.handle = None /\ j.sent = None
      BY <3>6 DEF Place, Loop, Ends
    <3>4. Place("chunk", j)' /\ Calm("chunk", j, seen[p])'
      BY <3>1, <3>6, <3>7 DEF Place, Calm, Loop, Ends
    <3>5. Known("chunk", j, seen[p])'
      BY <2>1, <3>1 DEF Good, Known
    <3> QED BY <3>3, <3>4, <3>5 DEF Good
  <2> QED BY <2>0, <2>1, <2>3, <2>4, StepInv DEF Location
<1>3. CASE PutWhole(p)
  <2> PICK j \in Job : j = Closed(p)
    BY ClosedFacts
  <2>1. /\ pc[p] = "putWhole" /\ pc' = [pc EXCEPT ![p] = "register"]
        /\ blobs' = blobs \union {job[p].whole} /\ job' = [job EXCEPT ![p] = j]
        /\ UNCHANGED <<disk, inPlace, kind, version, seen, failed, result>>
    BY <1>3 DEF PutWhole, At, Goto, settings
  <2>2. job[p].whole \in Seq(Chunks)
    BY <2>1 DEF Good, Place
  <2>3. blobs' \subseteq Seq(Chunks)
    BY <2>1, <2>2 DEF IInv, TypeOK
  <2>4. /\ j.handle = None /\ j.buf = <<>>
        /\ j.whole = job[p].whole /\ j.size = job[p].size /\ j.canon = job[p].canon
        /\ j.src = job[p].src /\ j.chunked = job[p].chunked /\ j.n = job[p].n
        /\ j.chunks = job[p].chunks /\ j.sent = job[p].sent
    BY ClosedFacts
  <2>5. Place("register", j)' /\ Stored("register", j)'
    BY <2>1, <2>4 DEF Good, Place, Stored, Loop, Ends
  <2>6. Known("register", j, seen[p])' /\ Calm("register", j, seen[p])'
    BY <2>1, <2>4 DEF Good, Known, Calm, Maybe, Loop, Ends
  <2> QED BY <2>1, <2>3, <2>5, <2>6, StepInv DEF Location, Good
<1> QED BY <1>2, <1>3

-----------------------------------------------------------------------------
\* Endings

\* A version that is registered lacks no blob, and is of one content.
LEMMA VersionGood ==
    ASSUME IInv, NEW p \in Procs, At(p, "register")
    PROVE  Version(p) \in Versions /\ GoodVersion(Version(p), seen[p])
<1> USE ConstantFacts, Facts
<1> DEFINE v == Version(p)
           direct == job[p].sent = None \/ kind = "dual"
<1>1. /\ v.file = IF direct THEN job[p].whole ELSE None
      /\ v.manifest = IF direct THEN None ELSE job[p].sent
      /\ v.dedup = IF direct THEN job[p].sent ELSE None
      /\ v.size = job[p].size
  BY DEF Version
<1>2. /\ pc[p] = "register" /\ job[p].whole \in Seq(Chunks)
      /\ job[p].whole \in ReadsOf(inPlace, seen[p])
      /\ direct => job[p].whole \in blobs
  BY DEF At, Good, Place, Stored, Known, Maybe
<1>3. v \in Versions
  BY <1>2 DEF Version, Versions, Job, Maybe
<1>4. job[p].sent # None => \A c \in Range(job[p].sent.chunks) : <<c>> \in blobs
  BY DEF Good, Stored
<1>5. ~direct => job[p].sent.whole \in ReadsOf(inPlace, seen[p])
  BY DEF Good, Known
<1>6. Same(seen[p]) => /\ job[p].size = Len(job[p].whole)
                       /\ job[p].sent # None => /\ job[p].sent.chunks = job[p].sent.whole
                                                /\ job[p].sent.size = Len(job[p].sent.whole)
  BY <1>2 DEF Good, Calm
<1> HIDE DEF v
<1>7. GoodVersion(v, seen[p])
  BY <1>1, <1>2, <1>4, <1>5, <1>6 DEF GoodVersion
<1> QED BY <1>3, <1>7 DEF v

\* A publish ends, and has at most added a blob, or its version.
LEMMA EndInv ==
    ASSUME IInv, NEW p \in Procs, NEW outcome \in {"none", "ok", "error"}, NEW f \in BOOLEAN,
           NEW v \in Versions \union {None}, GoodVersion(v, seen[p]),
           End(p, outcome), outcome = "error" => f \/ Saved(p) \/ Refused(p),
           blobs \subseteq blobs', blobs' \subseteq Seq(Chunks),
           version' = [version EXCEPT ![p] = v], failed' = [failed EXCEPT ![p] = f],
           UNCHANGED <<disk, inPlace, kind, seen>>
    PROVE  IInv'
<1> USE ConstantFacts
<1>1. /\ pc' = [pc EXCEPT ![p] = "idle"] /\ job' = [job EXCEPT ![p] = Blank]
      /\ result' = [result EXCEPT ![p] = outcome]
  BY DEF End, Goto
<1>2. TypeOK'
  BY <1>1 DEF IInv, TypeOK, At, Maybe, Location
<1>3. JobsGood'
  <2> SUFFICES ASSUME NEW q \in Procs PROVE Good(pc[q], job[q], seen[q])'
    BY DEF JobsGood
  <2>1. CASE q = p
    <3>1. pc'[q] = "idle" /\ job'[q] = Blank
      BY <1>1, <2>1 DEF IInv, TypeOK
    <3> QED BY <3>1 DEF Blank, Good, Place, Stored, Known, Calm, Maybe, Loop, Ends
  <2>2. CASE q # p
    BY <1>1, <2>2, OtherGood DEF IInv, TypeOK, settings
  <2> QED BY <2>1, <2>2
<1>4. VersionsGood'
  <2> SUFFICES ASSUME NEW q \in Procs PROVE GoodVersion(version[q], seen[q])'
    BY DEF VersionsGood
  <2>1. CASE q = p
    BY <2>1 DEF IInv, TypeOK, GoodVersion
  <2>2. CASE q # p
    BY <2>2, OtherVersion DEF IInv, TypeOK
  <2> QED BY <2>1, <2>2
<1>5. RetrySucceeds'
  BY <1>1 DEF IInv, TypeOK, RetrySucceeds, Saved, Refused
<1> QED BY <1>2, <1>3, <1>4, <1>5 DEF IInv

\* Every way in which a publish ends keeps the invariant.
LEMMA EndingInv ==
    ASSUME IInv, NEW p \in Procs,
           \/ CanonicalizerRefuses(p) \/ ChunkRefused(p) \/ WholeRefused(p) \/ Register(p)
           \/ RequestFails(p) \/ AnswerLost(p) \/ Cut(p)
    PROVE  IInv'
<1> USE ConstantFacts, Facts
<1> PICK v \in Versions \union {None} : v = version[p]
  BY DEF IInv, TypeOK, Maybe
<1> PICK f \in BOOLEAN : f = failed[p]
  BY DEF IInv, TypeOK
<1>1. GoodVersion(v, seen[p])
  BY DEF IInv, VersionsGood
<1>2. /\ UNCHANGED version => version' = [version EXCEPT ![p] = v]
      /\ UNCHANGED failed => failed' = [failed EXCEPT ![p] = f]
      /\ UNCHANGED blobs => blobs \subseteq blobs' /\ blobs' \subseteq Seq(Chunks)
  BY DEF IInv, TypeOK
<1>3. CASE ChunkRefused(p)
  <2>1. Saved(p)
    <3> SUFFICES ASSUME Same(seen[p]) PROVE FALSE
      BY DEF Same, Saved
    <3>1. pc[p] = "putChunk" /\ ~SameBytes(p)
      BY <1>3 DEF ChunkRefused, At
    <3>2. Uploaded(p) = job[p].src
      BY <3>1, Bytes DEF Loop
    <3>3. job[p].chunks # <<>>
      BY <3>1 DEF Good, Place
    <3>4. /\ job[p].n = Len(job[p].src) /\ Len(job[p].chunks) <= job[p].n
          /\ \A k \in 1..Len(job[p].chunks) : job[p].chunks[k] = job[p].src[k]
      BY <3>1 DEF Good, Calm, Loop
    <3> DEFINE k == Len(job[p].chunks)
    <3>5. job[p].chunks \in Seq(Chunks) /\ job[p].n \in Nat
      OBVIOUS
    <3>6. k \in Nat \ {0}
      BY ONLY <3>3, <3>5
    <3>7. k <= Len(job[p].src) /\ job[p].chunks[k] = job[p].src[k]
      BY ONLY <3>4, <3>5, <3>6
    <3> QED BY ONLY <3>1, <3>2, <3>7 DEF SameBytes, Chunk
  <2> QED BY <1>1, <1>2, <1>3, <2>1, EndInv DEF ChunkRefused, settings, server
<1>4. CASE WholeRefused(p)
  <2>1. Saved(p)
    <3> SUFFICES ASSUME Same(seen[p]) PROVE FALSE
      BY DEF Same, Saved
    <3>1. pc[p] = "putWhole" /\ AllRead(p) /\ job[p].buf # job[p].whole
      BY <1>4 DEF WholeRefused, SameFile, At
    <3>2. /\ disk \in seen[p] /\ inPlace \in BOOLEAN /\ job[p].whole \in ReadsOf(inPlace, seen[p])
          /\ job[p].buf \in ReadsOf(inPlace, seen[p])
      BY <3>1, WholeRead DEF Good, Place, Known, Maybe, IInv, TypeOK
    <3> QED BY <3>1, <3>2, OnlyMoment
  <2> QED BY <1>1, <1>2, <1>4, <2>1, EndInv DEF WholeRefused, settings, server
<1>5. CASE Register(p)
  <2> PICK w \in Versions : w = Version(p)
    BY <1>5, VersionGood DEF Register
  <2>1. GoodVersion(w, seen[p])
    BY <1>5, VersionGood DEF Register
  <2> QED BY <1>2, <1>5, <2>1, EndInv DEF Register, settings
<1>6. CASE RequestFails(p)
  BY <1>1, <1>2, <1>6, EndInv DEF RequestFails, settings, server
<1>7. CASE AnswerLost(p)
  <2>1. /\ End(p, "error") /\ failed' = [failed EXCEPT ![p] = TRUE]
        /\ UNCHANGED <<disk, inPlace, kind, seen>>
    BY <1>7 DEF AnswerLost, settings
  <2>2. CASE At(p, "putChunk") /\ blobs' = blobs \union {<<Chunk(p)>>} /\ UNCHANGED version
    <3>1. Chunk(p) \in Chunks
      BY <2>2 DEF At, Good, Place, Chunk
    <3>0. <<Chunk(p)>> \in Seq(Chunks)
      BY <3>1
    <3>2. blobs \subseteq blobs' /\ blobs' \subseteq Seq(Chunks)
      BY <2>2, <3>0 DEF IInv, TypeOK
    <3> QED BY <1>1, <1>2, <2>1, <2>2, <3>2, EndInv
  <2>3. CASE At(p, "putWhole") /\ blobs' = blobs \union {job[p].whole} /\ UNCHANGED version
    <3>1. job[p].whole \in Seq(Chunks)
      BY <2>3 DEF At, Good, Place
    <3>2. blobs \subseteq blobs' /\ blobs' \subseteq Seq(Chunks)
      BY <2>3, <3>1 DEF IInv, TypeOK
    <3> QED BY <1>1, <1>2, <2>1, <2>3, <3>2, EndInv
  <2>4. CASE /\ At(p, "register") /\ UNCHANGED blobs
             /\ version' = [version EXCEPT ![p] = Version(p)]
    <3> PICK w \in Versions : w = Version(p)
      BY <2>4, VersionGood
    <3>1. GoodVersion(w, seen[p])
      BY <2>4, VersionGood
    <3> QED BY <1>2, <2>1, <2>4, <3>1, EndInv
  <2> QED BY <1>7, <2>2, <2>3, <2>4 DEF AnswerLost
<1>8. CASE Cut(p)
  BY <1>1, <1>2, <1>8, EndInv DEF Cut, settings, server
<1>9. CASE CanonicalizerRefuses(p)
  <2>1. Saved(p) \/ Refused(p)
    <3> SUFFICES ASSUME Same(seen[p]) PROVE Refused(p)
      BY DEF Same, Saved
    <3>1. pc[p] = "canon" /\ AllRead(p) /\ Canonical[job[p].buf] = None
      BY <1>9 DEF CanonicalizerRefuses, At
    <3>2. /\ disk \in seen[p] /\ inPlace \in BOOLEAN
          /\ job[p].buf \in ReadsOf(inPlace, seen[p])
      BY <3>1, WholeRead DEF Good, Known, IInv, TypeOK
    <3>3. job[p].buf = disk
      BY <3>2, OnlyMoment
    <3> QED BY <3>1, <3>2, <3>3 DEF Refused
  <2> QED BY <1>1, <1>2, <1>9, <2>1, EndInv DEF CanonicalizerRefuses, settings, server
<1> QED BY <1>9, <1>3, <1>4, <1>5, <1>6, <1>7, <1>8

-----------------------------------------------------------------------------
\* Beginnings, saves and other publishers

\* A publish begins with no variable set and one content seen.
LEMMA PublishInv ==
    ASSUME IInv, NEW p \in Procs, Publish(p)
    PROVE  IInv'
<1> USE ConstantFacts
<1>1. /\ pc' = [pc EXCEPT ![p] = "hash"] /\ seen' = [seen EXCEPT ![p] = {disk}]
      /\ version' = [version EXCEPT ![p] = None] /\ failed' = [failed EXCEPT ![p] = FALSE]
      /\ result' = [result EXCEPT ![p] = "none"]
      /\ UNCHANGED <<disk, inPlace, kind, blobs, job>>
      /\ pc[p] = "idle" /\ job[p] = Blank
  BY DEF Publish, At, Goto, settings, IInv, TypeOK
<1>2. TypeOK'
  BY <1>1 DEF IInv, TypeOK, At, Maybe, Location
<1>3. JobsGood'
  <2> SUFFICES ASSUME NEW q \in Procs PROVE Good(pc[q], job[q], seen[q])'
    BY DEF JobsGood
  <2>1. CASE q = p
    <3>1. pc'[q] = "hash" /\ job'[q] = Blank /\ seen'[q] = {disk} /\ disk' = disk /\ inPlace' = inPlace
      BY <1>1, <2>1 DEF IInv, TypeOK
    <3> QED BY <3>1 DEF Blank, Good, Place, Stored, Known, Calm, Maybe, Loop, Ends
  <2>2. CASE q # p
    BY <1>1, <2>2, OtherGood DEF IInv, TypeOK, settings
  <2> QED BY <2>1, <2>2
<1>4. VersionsGood'
  <2> SUFFICES ASSUME NEW q \in Procs PROVE GoodVersion(version[q], seen[q])'
    BY DEF VersionsGood
  <2>1. CASE q = p
    BY <1>1, <2>1 DEF IInv, TypeOK, GoodVersion
  <2>2. CASE q # p
    BY <1>1, <2>2, OtherVersion DEF IInv, TypeOK
  <2> QED BY <2>1, <2>2
<1>5. RetrySucceeds'
  BY <1>1 DEF IInv, TypeOK, RetrySucceeds, Saved, Refused
<1> QED BY <1>2, <1>3, <1>4, <1>5 DEF IInv

\* After a save there is more than one content, and nothing is promised of calm.
LEMMA SaveInv ==
    ASSUME IInv, Save
    PROVE  IInv'
<1>1. /\ disk' \in Files \ {disk}
      /\ seen' = [p \in Procs |-> IF pc[p] = "idle" THEN seen[p] ELSE seen[p] \union {disk'}]
      /\ UNCHANGED <<inPlace, kind, blobs, version, pc, job, failed, result>>
  BY DEF Save, At, settings, server
<1>2. TypeOK'
  BY <1>1, ConstantFacts DEF IInv, TypeOK, At
<1>3. JobsGood'
  <2> SUFFICES ASSUME NEW q \in Procs PROVE Good(pc[q], job[q], seen[q])'
    BY DEF JobsGood
  <2>1. Good(pc[q], job[q], seen[q])
    BY DEF IInv, JobsGood
  <2>2. CASE pc[q] = "idle"
    <3>1. seen'[q] = seen[q] /\ pc'[q] = "idle" /\ job'[q] = job[q]
      BY <1>1, <2>2
    <3> QED BY <1>1, <2>1, <2>2, <3>1 DEF Good, Place, Stored, Known, Calm
  <2>3. CASE pc[q] # "idle"
    <3>1. seen'[q] = seen[q] \union {disk'} /\ pc'[q] = pc[q] /\ job'[q] = job[q]
      BY <1>1, <2>3
    <3>2. disk \in seen[q] /\ ~Same(seen[q])'
      BY <1>1, <2>1, <2>3, <3>1 DEF Good, Known, Same
    <3>3. Place(pc[q], job[q])' /\ Stored(pc[q], job[q])'
      BY <1>1, <2>1, <3>1 DEF Good, Place, Stored
    <3>4. Known(pc[q], job[q], seen[q])'
      <4>1. ReadsOf(inPlace, seen[q]) \subseteq ReadsOf(inPlace, seen[q])'
        BY <1>1, <3>1, ReadsMonotone DEF IInv, TypeOK
      <4>2. /\ seen[q] \subseteq seen'[q] /\ disk' \in seen'[q]
            /\ UNCHANGED <<inPlace, kind>>
        BY <1>1, <3>1
      <4>3. ASSUME NEW k \in 1..Len(job[q].buf)
            PROVE  \E f \in (IF inPlace THEN seen'[q] ELSE {job[q].handle}) :
                        k <= Len(f) /\ job[q].buf[k] = f[k]
        <5>1. PICK f \in (IF inPlace THEN seen[q] ELSE {job[q].handle}) :
                        k <= Len(f) /\ job[q].buf[k] = f[k]
          BY <2>1 DEF Good, Known
        <5> QED BY <4>2, <5>1
      <4> HIDE <1>1
      <4>4. Known(pc[q], job[q], seen[q])
        BY <2>1 DEF Good
      <4> QED BY <3>1, <4>1, <4>2, <4>3, <4>4 DEF Known, Maybe
    <3>5. Calm(pc[q], job[q], seen[q])'
      BY <3>2 DEF Calm
    <3> QED BY <3>3, <3>4, <3>5 DEF Good
  <2> QED BY <2>2, <2>3
<1>4. VersionsGood'
  <2> SUFFICES ASSUME NEW q \in Procs PROVE GoodVersion(version[q], seen[q])'
    BY DEF VersionsGood
  <2>1. GoodVersion(version[q], seen[q])
    BY DEF IInv, VersionsGood
  <2>2. seen[q] \subseteq seen'[q] /\ version'[q] = version[q] /\ blobs' = blobs
    BY <1>1
  <2>3. ReadsOf(inPlace, seen[q]) \subseteq ReadsOf(inPlace, seen[q])'
    BY <1>1, <2>2, ReadsMonotone DEF IInv, TypeOK
  <2> QED BY <2>1, <2>2, <2>3 DEF GoodVersion, Same
<1>5. RetrySucceeds'
  BY <1>1 DEF IInv, RetrySucceeds, Saved, Refused
<1> QED BY <1>2, <1>3, <1>4, <1>5 DEF IInv

\* What others publish, and steps that change nothing.
LEMMA OthersInv ==
    ASSUME IInv, OthersPut \/ UNCHANGED vars
    PROVE  IInv'
<1>1. /\ blobs \subseteq blobs' /\ blobs' \subseteq Seq(Chunks)
      /\ UNCHANGED <<disk, inPlace, kind, version, pc, job, seen, failed, result>>
  <2>1. \A c \in Chunks : <<c>> \in Seq(Chunks)
    OBVIOUS
  <2>2. CASE OthersPut
    BY <2>1, <2>2, ConstantFacts DEF OthersPut, settings, IInv, TypeOK
  <2>3. CASE UNCHANGED vars
    BY <2>3 DEF vars, settings, server, IInv, TypeOK
  <2> QED BY <2>2, <2>3
<1>2. TypeOK'
  BY <1>1, ConstantFacts DEF IInv, TypeOK, At
<1>3. JobsGood'
  BY <1>1, OtherGood DEF JobsGood, settings
<1>4. VersionsGood'
  BY <1>1, OtherVersion DEF VersionsGood
<1>5. RetrySucceeds'
  BY <1>1 DEF IInv, RetrySucceeds, Saved, Refused
<1> QED BY <1>2, <1>3, <1>4, <1>5 DEF IInv

\* Every step keeps the invariant.
LEMMA NextInv == IInv /\ [Next]_vars => IInv'
<1> SUFFICES ASSUME IInv, [Next]_vars PROVE IInv'
  OBVIOUS
<1>1. CASE Save
  BY <1>1, SaveInv
<1>2. CASE OthersPut \/ UNCHANGED vars
  BY <1>2, OthersInv
<1>3. ASSUME NEW p \in Procs, Publish(p) PROVE IInv'
  BY <1>3, PublishInv
<1>4. ASSUME NEW p \in Procs, Step(p) PROVE IInv'
  BY <1>4, ReadInv, MoveInv, ReadChunkInv, PutManifestInv, PutInv, EndingInv DEF Step
<1>5. ASSUME NEW p \in Procs, Cut(p) PROVE IInv'
  BY <1>5, EndingInv
<1> QED BY <1>1, <1>2, <1>3, <1>4, <1>5 DEF Next

-----------------------------------------------------------------------------
\* The results

\* The invariant holds in every behaviour, fair or not.
THEOREM PublisherInvariance == Spec => []IInv
<1>1. Init => IInv
  BY InitInv
<1>2. IInv /\ [Next]_vars => IInv'
  BY NextInv
<1> QED BY <1>1, <1>2, PTL DEF Spec

\* Every variable keeps to its type.
THEOREM PublisherTypeCorrect == Spec => []TypeOK
<1>1. IInv => TypeOK
  BY DEF IInv
<1> QED BY <1>1, PublisherInvariance, PTL

\* No version lacks a blob: the upload loop of publish_chunked_file never goes past
\* a chunk that the server does not have, and register_version comes last.
THEOREM VersionsComplete == Spec => []CompleteVersions
<1>1. IInv => CompleteVersions
  BY DEF IInv, VersionsGood, GoodVersion, CompleteVersions
<1> QED BY <1>1, PublisherInvariance, PTL

\* A version of a file that nobody saved while it was published can be loaded and
\* is that file, for chunks, canonical forms and whole files alike.
THEOREM UnsavedLoad == Spec => []UnsavedVersionsLoad
<1>1. IInv => UnsavedVersionsLoad
  <2> SUFFICES ASSUME IInv, NEW p \in Procs, version[p] # None, ~Saved(p)
               PROVE  /\ {Loads(version[p])} = seen[p]
                      /\ version[p].dedup # None => Assembles(version[p].dedup)
    BY DEF UnsavedVersionsLoad
  <2>1. GoodVersion(version[p], seen[p]) /\ Same(seen[p])
    BY DEF IInv, VersionsGood, Saved, Same
  <2>2. \A m \in {version[p].manifest, version[p].dedup} \ {None} : Assembles(m)
    BY <2>1 DEF GoodVersion, Assembles
  <2>3. Loads(version[p]) \in ReadsOf(inPlace, seen[p])
    BY <2>1, <2>2 DEF GoodVersion, Loads
  <2>4. inPlace \in BOOLEAN /\ seen[p] \subseteq Files
    BY DEF IInv, TypeOK
  <2>5. seen[p] # {}
    BY <2>3, NothingRead
  <2>6. PICK d : d \in seen[p]
    BY <2>5
  <2>7. Loads(version[p]) = d
    BY <2>1, <2>3, <2>4, <2>6, OnlyMoment
  <2> QED BY <2>1, <2>2, <2>6, <2>7 DEF Same
<1> QED BY <1>1, PublisherInvariance, PTL

\* However the saves fall before, between and during the readings of the file, a
\* version gives what one reading can find: the file of one moment if saves replace
\* it, pieces of its contents in their places if saves overwrite it.
THEOREM VersionsAsRead == Spec => []AsRead
<1>1. IInv => AsRead
  BY DEF IInv, VersionsGood, GoodVersion, AsRead, Loads
<1> QED BY <1>1, PublisherInvariance, PTL

\* A publish fails only if a request fails, the file is saved under it or the
\* canonicalizer refuses it: no chunk is refused, whatever earlier publishes left.
THEOREM RetriesSucceed == Spec => []RetrySucceeds
<1>1. IInv => RetrySucceeds
  BY DEF IInv
<1> QED BY <1>1, PublisherInvariance, PTL

-----------------------------------------------------------------------------
\* The refinement of VersionStore

\* A publish that makes a step goes on, or ends without its version, or with it.
LEMMA StepFacts ==
    ASSUME NEW p \in Procs, Step(p) \/ Cut(p)
    PROVE  /\ pc[p] # "idle" /\ UNCHANGED <<disk, inPlace, seen>> /\ blobs \subseteq blobs'
           /\ \/ /\ \E to : to # "idle" /\ pc' = [pc EXCEPT ![p] = to]
                 /\ UNCHANGED <<version, result>>
              \/ /\ \E how \in {"error", "none"} : End(p, how)
                 /\ UNCHANGED version
              \/ /\ \E how \in {"ok", "error"} : End(p, how)
                 /\ At(p, "register") /\ version' = [version EXCEPT ![p] = Version(p)]
<1> USE DEF At, server, settings
<1>0. CASE OpenToRead(p) \/ ReadOn(p)
  BY <1>0 DEF OpenToRead, ReadOn, Read, Reads, Assign, Goto
<1>1. CASE \/ HashFile(p) \/ StatFile(p) \/ ResolveStrategy(p) \/ Canonicalize(p)
           \/ AskParent(p) \/ ReadSource(p) \/ ScanSegments(p)
           \/ OpenFile(p) \/ StatOpen(p) \/ OpenChunks(p)
  BY <1>1 DEF HashFile, StatFile, ResolveStrategy, Canonicalize, AskParent, ReadSource, ScanSegments,
         OpenFile, StatOpen, OpenChunks, Move, Assign, Goto
<1>2. CASE \/ ReadChunk(p) \/ ChunkExists(p) \/ ChunkMissing(p) \/ PutChunk(p)
           \/ PutManifest(p) \/ WholeExists(p) \/ WholeMissing(p) \/ PutWhole(p)
  BY <1>2 DEF ReadChunk, ChunkExists, ChunkMissing, PutChunk, PutManifest, WholeExists, WholeMissing,
         PutWhole, Move, Assign, Goto
<1>3. CASE \/ CanonicalizerRefuses(p) \/ ChunkRefused(p) \/ WholeRefused(p)
           \/ RequestFails(p) \/ Cut(p)
  BY <1>3 DEF CanonicalizerRefuses, ChunkRefused, WholeRefused, RequestFails, Cut
<1>4. CASE Register(p) \/ AnswerLost(p)
  BY <1>4 DEF Register, AnswerLost
<1> QED BY <1>0, <1>1, <1>2, <1>3, <1>4 DEF Step

\* A publish lists its version last.
Unlisted == \A p \in Procs : pc[p] # "idle" => version[p] = None

LEMMA UnlistedNext == TypeOK /\ Unlisted /\ [Next]_vars => Unlisted'
<1> SUFFICES ASSUME TypeOK, Unlisted, [Next]_vars PROVE Unlisted'
  OBVIOUS
<1>1. CASE UNCHANGED <<pc, version>>
  BY <1>1 DEF Unlisted
<1>2. ASSUME NEW p \in Procs, Publish(p) PROVE Unlisted'
  BY <1>2 DEF Publish, Goto, Unlisted, TypeOK
<1>3. ASSUME NEW p \in Procs, Step(p) \/ Cut(p) PROVE Unlisted'
  <2>1. CASE UNCHANGED version /\ \E to : pc' = [pc EXCEPT ![p] = to]
    BY <1>3, <2>1, StepFacts DEF Unlisted, TypeOK
  <2>2. CASE pc' = [pc EXCEPT ![p] = "idle"] /\ version' = [version EXCEPT ![p] = Version(p)]
    BY <2>2 DEF Unlisted, TypeOK
  <2> QED BY <1>3, <2>1, <2>2, StepFacts DEF End, Goto
<1> QED BY <1>1, <1>2, <1>3 DEF Next, Save, OthersPut, vars, server

\* Blobs are never forgotten, so that a version keeps giving what it gave.
LEMMA GivesKept ==
    ASSUME IInv, NEW p \in Procs, blobs \subseteq blobs', version'[p] = version[p]
    PROVE  Gives'[p] = Gives[p]
<1>1. PICK v : v = version[p] /\ v = version'[p]
  OBVIOUS
<1>2. GoodVersion(v, seen[p])
  BY <1>1 DEF IInv, VersionsGood
<1>3. ASSUME v # None PROVE Loads(v)' = Loads(v)
  BY <1>2, <1>3 DEF GoodVersion, Loads, Assembles
<1> QED BY <1>1, <1>3 DEF Gives

\* A publish that goes on is invisible, and so are others' uploads.
LEMMA WorkHidden ==
    ASSUME IInv, blobs \subseteq blobs', UNCHANGED <<disk, inPlace, version, seen, result>>, Busy' = Busy
    PROVE  UNCHANGED Store!vars
<1>1. \A p \in Procs : Gives'[p] = Gives[p]
  BY GivesKept
<1>2. Gives' = Gives
  BY <1>1 DEF Gives
<1> QED BY <1>2 DEF Store!vars

\* One that goes on stays busy.
LEMMA StaysBusy ==
    ASSUME TypeOK, NEW p \in Procs, pc[p] # "idle", NEW to, to # "idle", pc' = [pc EXCEPT ![p] = to]
    PROVE  Busy' = Busy
BY DEF TypeOK, Busy

\* One that ends is an end of VersionStore, with its version or without.
LEMMA EndsStore ==
    ASSUME IInv, IInv', Unlisted, NEW p \in Procs, pc[p] # "idle", NEW how, End(p, how),
           blobs \subseteq blobs', UNCHANGED <<disk, inPlace, seen>>,
           \/ UNCHANGED version /\ how \in {"error", "none"}
           \/ /\ version' = [version EXCEPT ![p] = Version(p)]
              /\ how \in {"ok", "error"} /\ Version(p) # None
    PROVE  Store!List(p) \/ Store!GiveUp(p)
<1>1. /\ pc' = [pc EXCEPT ![p] = "idle"] /\ result' = [result EXCEPT ![p] = how]
      /\ p \in Busy
  BY DEF End, Goto, Busy
<1>2. Busy' = Busy \ {p}
  BY <1>1 DEF Busy, IInv, TypeOK
<1>3. Store!End(p, how)
  BY <1>1, <1>2 DEF Store!End
<1>4. CASE UNCHANGED version /\ how \in {"error", "none"}
  <2>1. \A q \in Procs : Gives'[q] = Gives[q]
    BY <1>4, GivesKept
  <2>2. Gives' = Gives
    BY <2>1 DEF Gives
  <2> QED BY <1>3, <1>4, <2>2 DEF Store!GiveUp
<1>5. CASE /\ version' = [version EXCEPT ![p] = Version(p)]
           /\ how \in {"ok", "error"} /\ Version(p) # None
  <2>1. PICK v : v = Version(p)
    OBVIOUS
  <2>2. v # None /\ version'[p] = v /\ \A q \in Procs \ {p} : version'[q] = version[q]
    BY <1>5, <2>1 DEF IInv, TypeOK
  <2>3. GoodVersion(v, seen[p])'
    BY <2>2 DEF IInv, VersionsGood
  <2>4. Loads(v)' \in ReadsOf(inPlace, seen[p]) \/ (Loads(v)' = None /\ ~Same(seen[p]))
    BY <2>2, <2>3 DEF GoodVersion, Loads, Assembles, Same
  <2>5. Gives[p] = {}
    BY DEF Unlisted, Gives
  <2>6. PICK content : content = Loads(v)'
    OBVIOUS
  <2>7. Gives'[p] = {content}
    BY <2>2, <2>6 DEF Gives
  <2>8. \A q \in Procs \ {p} : Gives'[q] = Gives[q]
    BY <2>2, GivesKept
  <2>9. Gives' = [Gives EXCEPT ![p] = {content}]
    BY <2>7, <2>8 DEF Gives
  <2>10. content \in ReadsOf(inPlace, seen[p]) \union (IF Store!Saved(p) THEN {None} ELSE {})
    BY <2>4, <2>6 DEF Store!Saved, Same
  <2>11. Store!ReadsOf(inPlace, seen[p]) = ReadsOf(inPlace, seen[p])
    BY DEF Store!ReadsOf, ReadsOf, Store!Mixtures, Mixtures, Store!Range, Range
  <2> QED BY <1>3, <1>5, <2>5, <2>9, <2>10, <2>11 DEF Store!List
<1> QED BY <1>4, <1>5

\* Every step of a publish is one of VersionStore or invisible.
LEMMA StepRefines ==
    ASSUME IInv, IInv', Unlisted, [Next]_vars
    PROVE  [Store!Next]_(Store!vars)
<1>1. CASE Save
  <2>1. /\ disk' \in Files /\ UNCHANGED <<inPlace, blobs, version, pc, result>>
        /\ seen' = [p \in Procs |-> IF pc[p] = "idle" THEN seen[p] ELSE seen[p] \union {disk'}]
    BY <1>1 DEF Save, At, settings, server
  <2>2. Gives' = Gives /\ Busy' = Busy
    BY <2>1 DEF Gives, Busy, Loads, Assembles
  <2>3. seen' = [p \in Procs |-> IF p \in Busy THEN seen[p] \union {disk'} ELSE seen[p]]
    BY <2>1 DEF Busy
  <2> QED BY <2>1, <2>2, <2>3 DEF Store!Save, Store!Next
<1>2. ASSUME NEW p \in Procs, Publish(p) PROVE Store!Begin(p)
  <2>1. /\ pc[p] = "idle" /\ pc' = [pc EXCEPT ![p] = "hash"] /\ seen' = [seen EXCEPT ![p] = {disk}]
        /\ version' = [version EXCEPT ![p] = None] /\ result' = [result EXCEPT ![p] = "none"]
        /\ UNCHANGED <<disk, inPlace, blobs>>
    BY <1>2 DEF Publish, At, Goto, settings
  <2>2. p \notin Busy /\ Busy' = Busy \union {p}
    BY <2>1 DEF Busy, IInv, TypeOK
  <2>3. /\ version'[p] = None
        /\ \A q \in Procs \ {p} : version'[q] = version[q]
    BY <2>1 DEF IInv, TypeOK
  <2>4. Gives'[p] = {} /\ \A q \in Procs \ {p} : Gives'[q] = Gives[q]
    BY <2>1, <2>3, GivesKept DEF Gives
  <2>5. Gives' = [Gives EXCEPT ![p] = {}]
    BY <2>4 DEF Gives
  <2> QED BY <2>1, <2>2, <2>5 DEF Store!Begin
<1>3. ASSUME NEW p \in Procs, Step(p) \/ Cut(p)
      PROVE  Store!List(p) \/ Store!GiveUp(p) \/ UNCHANGED Store!vars
  <2>1. pc[p] # "idle" /\ UNCHANGED <<disk, inPlace, seen>> /\ blobs \subseteq blobs'
    BY <1>3, StepFacts
  <2>2. CASE (\E to : to # "idle" /\ pc' = [pc EXCEPT ![p] = to]) /\ UNCHANGED <<version, result>>
    <3>1. Busy' = Busy
      BY <2>1, <2>2, StaysBusy DEF IInv
    <3> QED BY <2>1, <2>2, <3>1, WorkHidden
  <2>3. CASE (\E how \in {"error", "none"} : End(p, how)) /\ UNCHANGED version
    BY <2>1, <2>3, EndsStore
  <2>4. CASE /\ \E how \in {"ok", "error"} : End(p, how)
             /\ At(p, "register") /\ version' = [version EXCEPT ![p] = Version(p)]
    <3>1. Version(p) # None
      BY <2>4, VersionGood, ConstantFacts
    <3> QED BY <2>1, <2>4, <3>1, EndsStore
  <2> QED BY <1>3, <2>2, <2>3, <2>4, StepFacts
<1>4. CASE OthersPut \/ UNCHANGED vars
  <2>1. blobs \subseteq blobs' /\ UNCHANGED <<disk, inPlace, version, seen, result, pc>>
    BY <1>4 DEF OthersPut, vars, settings, server
  <2> QED BY <2>1, WorkHidden DEF Busy
<1> QED
  BY <1>1, <1>2, <1>3, <1>4 DEF Next, Store!Next

\* Publishing is atomic for every file, chunking, canonical form and number of
\* publishers: whatever happens between its first read and its last request, a
\* publish lists nothing, or once and for all the file as one reading finds it, or,
\* if the file was saved meanwhile, a version that does not load.
THEOREM PublishAlwaysAtomic == Spec => PublishIsAtomic
<1>1. Init => Store!Init /\ Unlisted
  <2> SUFFICES ASSUME Init PROVE Store!Init /\ Unlisted
    OBVIOUS
  <2>1. Busy = {} /\ Gives = [p \in Procs |-> {}]
    BY DEF Init, Busy, Gives
  <2> QED BY <2>1 DEF Init, Store!Init, Unlisted
<1>2. IInv /\ IInv' /\ Unlisted /\ [Next]_vars => [Store!Next]_(Store!vars)
  BY StepRefines
<1>3. IInv /\ Unlisted /\ [Next]_vars => Unlisted'
  BY UnlistedNext DEF IInv
<1> QED BY <1>1, <1>2, <1>3, PublisherInvariance, PTL DEF Spec, PublishIsAtomic, Store!Spec
=============================================================================
