------------------------------- MODULE Relink -------------------------------
(***************************************************************************)
(* Linked assets of the file open in Blender: linking one, pointing one at *)
(* another version, and fetching the libraries this machine lacks, which a *)
(* thread does while a timer waits to point the libraries at what it got   *)
(* (scene_facts.py of the add-on and of zeno_client, operators_load.py).   *)
(*                                                                         *)
(* A path is where a file lies: in this machine's cache or elsewhere, in a *)
(* folder named by an id.  A chunked version is cached under the hash of   *)
(* the whole file, which is not its content id: that is CachedAs.          *)
(***************************************************************************)
EXTENDS Naturals, FiniteSets

CONSTANTS Libs,      \* libraries a file can link
          Contents,  \* content ids of versions
          CachedAs,  \* the folder of the cache a content is put in
          Files,     \* what files on disk link: a library or Unlinked each
          Unlinked   \* no library, no tag, no id

Ids == Contents \union {CachedAs[c] : c \in Contents}
Path == [here : BOOLEAN, id : Ids \union {Unlinked}]
Lib == [path : Path, tag : Contents \union {Unlinked}]

\* What a file written here or on another machine holds: a tag says what was
\* linked, and the path lies in the folder that content was cached in.
SavedLib == {lib \in Lib : lib.tag # Unlinked => lib.path.id = CachedAs[lib.tag]}

\* A folder is named by the hash of its file, and a content whose id is the hash
\* of its file is that file.
ASSUME RelinkAssumption ==
    /\ Unlinked \notin Ids \union Lib
    /\ \A c \in Contents : CachedAs[c] \in Contents => CachedAs[CachedAs[c]] = CachedAs[c]
    /\ Files \subseteq [Libs -> SavedLib \union {Unlinked}]

VARIABLES libs,       \* bpy.data.libraries: [path, tag] of each
          disk,       \* folders of this machine's cache that hold their file
          relinking,  \* the flag _relinking
          fetching,   \* the thread: [todo, left, got, failed]
          polling,    \* its poll is registered
          opening,    \* the timer that relinks after a load is registered
          stuck,      \* history: a fetch has lost its poll, or never got one
          torn        \* history: an update in this file failed between path and tag

relinkVars == <<libs, disk, relinking, fetching, polling, opening, stuck, torn>>

Cached(id) == [here |-> TRUE, id |-> id]
Todo == [stored : Path, id : Ids]
Fetching == [todo : SUBSET Todo, left : SUBSET Ids, got : SUBSET Ids, failed : SUBSET Ids]
Nothing == [todo |-> {}, left |-> {}, got |-> {}, failed |-> {}]

RelinkTypeOK ==
    /\ libs \in [Libs -> Lib \union {Unlinked}]
    /\ disk \subseteq Ids
    /\ {relinking, polling, opening, stuck, torn} \subseteq BOOLEAN
    /\ fetching \in Fetching
    /\ polling => relinking

RelinkInit ==
    /\ libs = [l \in Libs |-> Unlinked]
    /\ disk = {}
    /\ relinking = FALSE /\ polling = FALSE /\ opening = FALSE
    /\ stuck = FALSE /\ torn = FALSE
    /\ fetching = Nothing

Linked == {l \in Libs : libs[l] # Unlinked}
Exists(path) == path.here /\ path.id \in disk

\* A library's tag, or else the folder its file lies in.
LibraryIdentity(lib) == IF lib.tag # Unlinked THEN lib.tag ELSE lib.path.id

\* The versions a submission reports as linked.
CollectFacts == [l \in Linked |-> LibraryIdentity(libs[l])]

\* Where a fetched id is found: CachedAs, and a whole file under its own hash.
FolderOf(id) == IF id \in Contents THEN CachedAs[id] ELSE id

\* Libraries whose file is not on this machine and that can be identified.
MissingLibraries ==
    {[stored |-> libs[l].path, id |-> LibraryIdentity(libs[l])] :
        l \in {k \in Linked : ~Exists(libs[k].path) /\ LibraryIdentity(libs[k]) # Unlinked}}

-----------------------------------------------------------------------------
\* Another file is opened: Blender drops the timers that are not persistent,
\* the thread of a running fetch goes on.
OpenFile ==
    /\ libs' \in Files
    /\ polling' = FALSE
    /\ opening' \in BOOLEAN
    /\ stuck' = (stuck \/ polling)
    /\ torn' = FALSE
    /\ UNCHANGED <<disk, relinking, fetching>>

\* Somebody else's fetch evicts a file from the capped cache.
LoseFile ==
    /\ \E id \in disk : disk' = disk \ {id}
    /\ UNCHANGED <<libs, relinking, fetching, polling, opening, stuck, torn>>

\* relink_missing.  Between the flag and the thread the message, the client or
\* the cache may raise.
Relinks ==
    IF MissingLibraries = {} \/ relinking
    THEN UNCHANGED <<relinking, fetching, polling, stuck>>
    ELSE /\ relinking' = TRUE
         /\ \/ /\ fetching' = [Nothing EXCEPT !.todo = MissingLibraries,
                                              !.left = {t.id : t \in MissingLibraries}]
               /\ polling' = TRUE /\ UNCHANGED stuck
            \/ stuck' = TRUE /\ UNCHANGED <<fetching, polling>>

RelinkOnOpen ==
    /\ opening
    /\ opening' = FALSE
    /\ Relinks
    /\ UNCHANGED <<libs, disk, torn>>

FixLinkedAssets == Relinks /\ UNCHANGED <<libs, disk, opening, torn>>

\* One step of the thread.  The service has no content under the hash of a
\* whole file that was published in chunks.
FetchLibrary ==
    \E id \in fetching.left :
        /\ \/ /\ id \in Contents
              /\ disk' = disk \union {CachedAs[id]}
              /\ fetching' = [fetching EXCEPT !.left = @ \ {id}, !.got = @ \union {id}]
           \/ /\ fetching' = [fetching EXCEPT !.left = @ \ {id}, !.failed = @ \union {id}]
              /\ UNCHANGED disk
        /\ UNCHANGED <<libs, relinking, polling, opening, stuck, torn>>

\* The libraries whose stored path is still the one that was missing; of two
\* with one path each item of todo finds another.
Claimed(l) == \E t \in fetching.todo : t.id \in fetching.got /\ t.stored = libs[l].path

\* Mutated form of Repath: a library is found again by its place in the file.
RepathAll(l) ==
    IF l \in Linked /\ fetching.got # {}
    THEN [libs[l] EXCEPT !.path = Cached(FolderOf(CHOOSE i \in fetching.got : TRUE))]
    ELSE libs[l]

Repath(l) ==
    IF l \in Linked /\ Claimed(l)
    THEN LET t == CHOOSE t \in fetching.todo : t.id \in fetching.got /\ t.stored = libs[l].path
         IN [libs[l] EXCEPT !.path = Cached(FolderOf(t.id))]
    ELSE libs[l]

\* Mutated form of FinishRelink: a reload that fails ends the timer early.
FinishRelinkUncaught ==
    /\ polling /\ fetching.left = {}
    /\ libs' = [l \in Libs |-> Repath(l)]
    /\ relinking' = (\E l \in Linked : libs'[l] # libs[l] /\ ~Exists(libs'[l].path))
    /\ polling' = FALSE
    /\ fetching' = Nothing
    /\ UNCHANGED <<disk, opening, stuck, torn>>

\* The poll, once the thread has ended.  The path stays when the reload fails
\* because the file is gone again.
FinishRelink ==
    /\ polling /\ fetching.left = {}
    /\ libs' = [l \in Libs |-> Repath(l)]
    /\ relinking' = FALSE /\ polling' = FALSE
    /\ fetching' = Nothing
    /\ UNCHANGED <<disk, opening, stuck, torn>>

-----------------------------------------------------------------------------
\* The operators, each on the main thread until it ends.  A fetch that fails
\* changes nothing and is left out.

LoadAsset(c) ==
    /\ disk' = disk \union {CachedAs[c]}
    /\ UNCHANGED <<libs, relinking, fetching, polling, opening, stuck, torn>>

\* A library that has this path already is tagged again.
LinkAsset(c) ==
    /\ disk' = disk \union {CachedAs[c]}
    /\ \E l \in Libs :
           /\ \/ libs[l] # Unlinked /\ libs[l].path = Cached(CachedAs[c])
              \/ /\ libs[l] = Unlinked
                 /\ \A k \in Linked : libs[k].path # Cached(CachedAs[c])
           /\ libs' = [libs EXCEPT ![l] = [path |-> Cached(CachedAs[c]), tag |-> c]]
    /\ UNCHANGED <<relinking, fetching, polling, opening, stuck, torn>>

\* Path, reload, tag: a reload that raises leaves the old tag on the new file.
UpdateLinkedAsset(l, c) ==
    /\ l \in Linked
    /\ disk' = disk \union {CachedAs[c]}
    /\ \/ /\ libs' = [libs EXCEPT ![l] = [path |-> Cached(CachedAs[c]), tag |-> c]]
          /\ UNCHANGED torn
       \/ /\ libs' = [libs EXCEPT ![l].path = Cached(CachedAs[c])]
          /\ torn' = TRUE
    /\ UNCHANGED <<relinking, fetching, polling, opening, stuck>>

RelinkNext ==
    \/ OpenFile \/ LoseFile
    \/ RelinkOnOpen \/ FixLinkedAssets \/ FetchLibrary \/ FinishRelink
    \/ \E c \in Contents : LoadAsset(c) \/ LinkAsset(c)
    \/ \E l \in Libs, c \in Contents : UpdateLinkedAsset(l, c)

\* The thread runs, requests end, Blender calls its timers.
RelinkFairness ==
    WF_relinkVars(FetchLibrary) /\ WF_relinkVars(FinishRelink) /\ WF_relinkVars(RelinkOnOpen)

RelinkSpec == RelinkInit /\ [][RelinkNext]_relinkVars

-----------------------------------------------------------------------------

(***************************************************************************)
(* However links, updates and a fetch in flight interleave, a library with *)
(* a tag lies in the folder of the content its tag names: a fetch begun    *)
(* before an update never undoes it, and collect_facts reports the version *)
(* that is loaded.  Unless the reload of an update failed in this file.    *)
(***************************************************************************)
LoadedIsTagged ==
    ~torn => \A l \in Linked :
        libs[l].tag # Unlinked => libs[l].path.id = CachedAs[CollectFacts[l]]

(***************************************************************************)
(* A fetch of missing libraries ends and lets the next one start, whatever *)
(* requests and reloads fail in it.  Except that opening another file      *)
(* meanwhile drops its poll, and that an exception before its thread runs  *)
(* leaves it without one: the flag is never cleared again, and             *)
(* relink_missing returns 0, "nothing to do", from then on.                *)
(***************************************************************************)
RelinkEnds == []<>(~relinking \/ stuck)
=============================================================================
