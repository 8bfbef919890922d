----------------------------- MODULE AddonProofs -----------------------------
(***************************************************************************)
(* Proofs about four parts of the Blender add-on: the linked assets        *)
(* (Relink), the status bar (TaskStatus) and the Qt runtime (QtRuntime),   *)
(* which live on timers, and the chunks of an upload (Chunking); for any   *)
(* libraries, contents, files, notifications and dialogs.                  *)
(***************************************************************************)
EXTENDS Relink, TaskStatus, QtRuntime, Chunking, FiniteSetTheorems, TLAPS

-----------------------------------------------------------------------------
\* Relink

\* Every tagged library lies where its tag's content is cached.
Tagged(l) == libs[l] # Unlinked /\ libs[l].tag # Unlinked => libs[l].path.id = CachedAs[libs[l].tag]

\* What the poll will put in place of a path is in the folder it replaces, if
\* that is a folder some content is cached in.
FetchFits ==
    \A t \in fetching.todo : \A c \in Contents :
        t.stored.id = CachedAs[c] => FolderOf(t.id) = t.stored.id

RelinkInv ==
    /\ RelinkTypeOK
    /\ ~torn => \A l \in Libs : Tagged(l)
    /\ polling /\ ~torn => FetchFits

LEMMA IdTypes ==
    /\ \A c \in Contents : c \in Ids /\ CachedAs[c] \in Ids
    /\ Contents \subseteq Ids /\ Unlinked \notin Contents /\ Unlinked \notin Ids /\ Unlinked \notin Lib
BY RelinkAssumption DEF Ids

LEMMA LinkedAreLibs == RelinkTypeOK => \A l \in Linked : l \in Libs /\ libs[l] \in Lib
BY DEF RelinkTypeOK, Linked

\* A library that is missing is fetched under the id it will be found with.
LEMMA MissingFit ==
    ASSUME RelinkTypeOK, \A l \in Libs : Tagged(l)
    PROVE  \A t \in MissingLibraries : \A c \in Contents :
               t.stored.id = CachedAs[c] => FolderOf(t.id) = t.stored.id
<1> SUFFICES ASSUME NEW t \in MissingLibraries, NEW c \in Contents, t.stored.id = CachedAs[c]
             PROVE  FolderOf(t.id) = t.stored.id
    OBVIOUS
<1>1. PICK l \in Linked : t = [stored |-> libs[l].path, id |-> LibraryIdentity(libs[l])]
    BY DEF MissingLibraries
<1>2. l \in Libs /\ libs[l] \in Lib /\ libs[l] # Unlinked
    BY <1>1, LinkedAreLibs DEF Linked
<1>3. CASE libs[l].tag # Unlinked
    BY <1>1, <1>2, <1>3, IdTypes DEF LibraryIdentity, Lib, FolderOf, Tagged
<1>4. CASE libs[l].tag = Unlinked
    <2>1. t.id = CachedAs[c] /\ t.stored.id = CachedAs[c]
        BY <1>1, <1>4 DEF LibraryIdentity
    <2> QED  BY <2>1, RelinkAssumption DEF FolderOf
<1> QED  BY <1>3, <1>4

LEMMA MissingTodo == RelinkTypeOK => MissingLibraries \in SUBSET Todo
<1> SUFFICES ASSUME RelinkTypeOK, NEW t \in MissingLibraries PROVE t \in Todo
    OBVIOUS
<1>1. PICK l \in Linked : /\ LibraryIdentity(libs[l]) # Unlinked
                          /\ t = [stored |-> libs[l].path, id |-> LibraryIdentity(libs[l])]
    BY DEF MissingLibraries
<1>2. libs[l] \in Lib
    BY <1>1, LinkedAreLibs
<1>3. libs[l].path \in Path /\ LibraryIdentity(libs[l]) \in Ids
    BY <1>1, <1>2, IdTypes DEF Lib, Path, LibraryIdentity
<1> QED  BY <1>1, <1>3 DEF Todo

LEMMA RelinkInitInv == RelinkInit => RelinkInv
<1> SUFFICES ASSUME RelinkInit PROVE RelinkInv
    OBVIOUS
<1>1. Nothing \in Fetching
    BY DEF Nothing, Fetching
<1>2. RelinkTypeOK
    BY <1>1 DEF RelinkInit, RelinkTypeOK
<1> QED  BY <1>2 DEF RelinkInit, RelinkInv, Tagged

LEMMA OpenFileInv == RelinkInv /\ OpenFile => RelinkInv'
<1> SUFFICES ASSUME RelinkInv, OpenFile PROVE RelinkInv'
    OBVIOUS
<1>1. libs' \in [Libs -> SavedLib \union {Unlinked}] /\ ~polling'
    BY RelinkAssumption DEF OpenFile
<1>2. RelinkTypeOK'
    BY <1>1 DEF OpenFile, RelinkInv, RelinkTypeOK, SavedLib
<1>3. \A l \in Libs : Tagged(l)'
    BY <1>1 DEF SavedLib, Tagged
<1> QED  BY <1>1, <1>2, <1>3 DEF RelinkInv

\* Relinking starts a fetch whose work fits, or changes nothing.
LEMMA RelinksInv ==
    ASSUME RelinkInv, Relinks, opening' \in BOOLEAN, UNCHANGED <<libs, disk, torn>>
    PROVE  RelinkInv'
<1>1. CASE MissingLibraries = {} \/ relinking
    BY <1>1 DEF Relinks, RelinkInv, RelinkTypeOK, Tagged, FetchFits
<1>2. CASE ~(MissingLibraries = {} \/ relinking)
    <2>0. CASE relinking' = TRUE /\ stuck' = TRUE /\ UNCHANGED <<fetching, polling>>
        BY <2>0 DEF RelinkInv, RelinkTypeOK, Tagged, FetchFits
    <2>1. SUFFICES ASSUME relinking' = TRUE, polling' = TRUE, UNCHANGED stuck,
                          fetching' = [Nothing EXCEPT !.todo = MissingLibraries,
                                                      !.left = {t.id : t \in MissingLibraries}]
                   PROVE  RelinkInv'
        BY <1>2, <2>0 DEF Relinks
    <2>2. fetching' = [todo |-> MissingLibraries, left |-> {t.id : t \in MissingLibraries},
                       got |-> {}, failed |-> {}]
        BY <2>1 DEF Nothing
    <2>3. MissingLibraries \in SUBSET Todo
        BY MissingTodo DEF RelinkInv
    <2>4. {t.id : t \in MissingLibraries} \in SUBSET Ids
        BY <2>3 DEF Todo
    <2>5. fetching' \in Fetching /\ fetching'.todo = MissingLibraries
        BY <2>2, <2>3, <2>4 DEF Fetching
    <2>6. RelinkTypeOK'
        BY <2>1, <2>5 DEF RelinkInv, RelinkTypeOK
    <2>7. ~torn => FetchFits'
        BY <2>5, MissingFit DEF RelinkInv, FetchFits
    <2> QED  BY <2>6, <2>7 DEF RelinkInv, Tagged
<1> QED  BY <1>1, <1>2

LEMMA FetchLibraryInv == RelinkInv /\ FetchLibrary => RelinkInv'
<1> SUFFICES ASSUME RelinkInv, FetchLibrary PROVE RelinkInv'
    OBVIOUS
<1>1. PICK id \in fetching.left :
          /\ \/ /\ id \in Contents
                /\ disk' = disk \union {CachedAs[id]}
                /\ fetching' = [fetching EXCEPT !.left = @ \ {id}, !.got = @ \union {id}]
             \/ /\ fetching' = [fetching EXCEPT !.left = @ \ {id}, !.failed = @ \union {id}]
                /\ UNCHANGED disk
          /\ UNCHANGED <<libs, relinking, polling, opening, stuck, torn>>
    BY DEF FetchLibrary
<1>2. fetching \in Fetching /\ id \in Ids
    BY <1>1 DEF RelinkInv, RelinkTypeOK, Fetching
<1>3. fetching' \in Fetching /\ fetching'.todo = fetching.todo
    BY <1>1, <1>2 DEF Fetching
<1>4. disk' \subseteq Ids
    BY <1>1, IdTypes DEF RelinkInv, RelinkTypeOK
<1> QED  BY <1>1, <1>3, <1>4 DEF RelinkInv, RelinkTypeOK, Tagged, FetchFits

\* A library that is found again stays a library, and lies where its tag says.
LEMMA RepathFits ==
    ASSUME RelinkInv, NEW l \in Libs
    PROVE  /\ Repath(l) \in Lib \union {Unlinked}
           /\ polling /\ ~torn /\ Repath(l) # Unlinked /\ Repath(l).tag # Unlinked
                 => Repath(l).path.id = CachedAs[Repath(l).tag]
<1>1. CASE l \in Linked /\ Claimed(l)
    <2> DEFINE t == CHOOSE t \in fetching.todo : t.id \in fetching.got /\ t.stored = libs[l].path
    <2>1. /\ t \in fetching.todo /\ t.id \in fetching.got /\ t.stored = libs[l].path
          /\ Repath(l) = [libs[l] EXCEPT !.path = Cached(FolderOf(t.id))]
        BY <1>1 DEF Claimed, Repath
    <2> HIDE DEF t
    <2>2. libs[l] \in Lib /\ t.id \in Ids /\ t \in Todo
        BY <1>1, <2>1, LinkedAreLibs DEF RelinkInv, RelinkTypeOK, Fetching, Todo
    <2>3. FolderOf(t.id) \in Ids
        BY <2>2, IdTypes DEF FolderOf
    <2>4. /\ Repath(l) \in Lib /\ Repath(l).tag = libs[l].tag
          /\ Repath(l).path.id = FolderOf(t.id)
        <3> DEFINE file == Cached(FolderOf(t.id))
        <3>1. file \in Path /\ file.id = FolderOf(t.id)
            BY <2>3 DEF Path, Cached
        <3>2. Repath(l) = [libs[l] EXCEPT !.path = file]
            BY <2>1
        <3> HIDE DEF file
        <3> QED  BY <2>2, <3>1, <3>2 DEF Lib
    <2>5. ASSUME polling, ~torn, libs[l].tag # Unlinked
          PROVE  FolderOf(t.id) = CachedAs[libs[l].tag]
        <3>1. libs[l].tag \in Contents /\ libs[l].path.id = CachedAs[libs[l].tag]
            BY <1>1, <2>2, <2>5 DEF RelinkInv, Tagged, Lib, Linked
        <3> QED  BY <2>1, <2>5, <3>1 DEF RelinkInv, FetchFits
    <2> QED  BY <2>4, <2>5
<1>2. CASE ~(l \in Linked /\ Claimed(l))
    BY <1>2 DEF Repath, RelinkInv, RelinkTypeOK, Tagged
<1> QED  BY <1>1, <1>2

LEMMA FinishRelinkInv == RelinkInv /\ FinishRelink => RelinkInv'
<1> SUFFICES ASSUME RelinkInv, FinishRelink PROVE RelinkInv'
    OBVIOUS
<1>1. /\ libs' = [l \in Libs |-> Repath(l)] /\ polling /\ polling' = FALSE /\ relinking' = FALSE
      /\ fetching' = Nothing /\ UNCHANGED <<disk, opening, stuck, torn>>
    BY DEF FinishRelink
<1>2. RelinkTypeOK'
    BY <1>1, RepathFits DEF RelinkInv, RelinkTypeOK, Nothing, Fetching
<1>3. ~torn => \A l \in Libs : Tagged(l)'
    BY <1>1, RepathFits DEF Tagged
<1> QED  BY <1>1, <1>2, <1>3 DEF RelinkInv

LEMMA OperatorsInv ==
    ASSUME RelinkInv, NEW c \in Contents
    PROVE  /\ LoadAsset(c) => RelinkInv'
           /\ LinkAsset(c) => RelinkInv'
           /\ \A l \in Libs : UpdateLinkedAsset(l, c) => RelinkInv'
<1> DEFINE file == Cached(CachedAs[c])
           lib == [path |-> file, tag |-> c]
<1>1. file \in Path /\ file.id = CachedAs[c] /\ lib \in Lib /\ lib.path.id = CachedAs[lib.tag]
      /\ disk \union {CachedAs[c]} \subseteq Ids
    BY IdTypes DEF Cached, Path, Lib, RelinkInv, RelinkTypeOK
<1>2. ASSUME LoadAsset(c) PROVE RelinkInv'
    BY <1>1, <1>2 DEF LoadAsset, RelinkInv, RelinkTypeOK, Tagged, FetchFits
<1>3. ASSUME LinkAsset(c) PROVE RelinkInv'
    <2>1. PICK l \in Libs : libs' = [libs EXCEPT ![l] = lib]
        BY <1>3 DEF LinkAsset
    <2>2. disk' \subseteq Ids /\ UNCHANGED <<relinking, fetching, polling, opening, stuck, torn>>
        BY <1>1, <1>3 DEF LinkAsset
    <2> HIDE DEF lib
    <2>3. RelinkTypeOK'
        BY <1>1, <2>1, <2>2 DEF RelinkInv, RelinkTypeOK
    <2>4. ~torn => \A k \in Libs : Tagged(k)'
        BY <1>1, <2>1 DEF RelinkInv, RelinkTypeOK, Tagged
    <2> QED  BY <2>2, <2>3, <2>4 DEF RelinkInv, FetchFits
<1>4. ASSUME NEW l \in Libs, UpdateLinkedAsset(l, c) PROVE RelinkInv'
    <2>1. disk' \subseteq Ids /\ UNCHANGED <<relinking, fetching, polling, opening, stuck>>
        BY <1>1, <1>4 DEF UpdateLinkedAsset
    <2>2. libs[l] \in Lib
        BY <1>4, LinkedAreLibs DEF UpdateLinkedAsset, RelinkInv
    <2>3. CASE libs' = [libs EXCEPT ![l] = lib] /\ UNCHANGED torn
        <3> HIDE DEF lib
        <3>1. RelinkTypeOK'
            BY <1>1, <2>1, <2>3 DEF RelinkInv, RelinkTypeOK
        <3>2. ~torn => \A k \in Libs : Tagged(k)'
            BY <1>1, <2>3 DEF RelinkInv, RelinkTypeOK, Tagged
        <3> QED  BY <2>1, <2>3, <3>1, <3>2 DEF RelinkInv, FetchFits
    <2>4. CASE libs' = [libs EXCEPT ![l].path = file] /\ torn' = TRUE
        <3> HIDE DEF file
        <3>1. [libs[l] EXCEPT !.path = file] \in Lib
            BY <1>1, <2>2 DEF Lib
        <3>2. RelinkTypeOK'
            BY <2>1, <2>4, <3>1 DEF RelinkInv, RelinkTypeOK
        <3> QED  BY <2>4, <3>2 DEF RelinkInv
    <2> QED  BY <1>4, <2>3, <2>4 DEF UpdateLinkedAsset
<1> QED  BY <1>2, <1>3, <1>4

LEMMA RelinkNextInv == RelinkInv /\ [RelinkNext]_relinkVars => RelinkInv'
<1> SUFFICES ASSUME RelinkInv, [RelinkNext]_relinkVars PROVE RelinkInv'
    OBVIOUS
<1>1. CASE OpenFile
    BY <1>1, OpenFileInv
<1>2. CASE LoseFile
    BY <1>2 DEF LoseFile, RelinkInv, RelinkTypeOK, Tagged, FetchFits
<1>3. CASE RelinkOnOpen
    BY <1>3, RelinksInv DEF RelinkOnOpen
<1>4. CASE FixLinkedAssets
    BY <1>4, RelinksInv DEF FixLinkedAssets, RelinkInv, RelinkTypeOK
<1>5. CASE FetchLibrary
    BY <1>5, FetchLibraryInv
<1>6. CASE FinishRelink
    BY <1>6, FinishRelinkInv
<1>7. CASE UNCHANGED relinkVars
    BY <1>7 DEF relinkVars, RelinkInv, RelinkTypeOK, Tagged, FetchFits
<1> QED  BY <1>1, <1>2, <1>3, <1>4, <1>5, <1>6, <1>7, OperatorsInv DEF RelinkNext

(***************************************************************************)
(* A fetch in flight never undoes an update: what a submission reports as  *)
(* linked is what is loaded, unless an update's reload failed.             *)
(***************************************************************************)
THEOREM LoadedAlwaysTagged == RelinkSpec => []LoadedIsTagged
<1>1. RelinkInv => LoadedIsTagged
    BY DEF RelinkInv, LoadedIsTagged, Tagged, CollectFacts, LibraryIdentity, Linked
<1> QED  BY RelinkInitInv, RelinkNextInv, <1>1, PTL DEF RelinkSpec

-----------------------------------------------------------------------------
\* TaskStatus

\* A result that will be stored was asked for by the file that is open.
Fresh == \A r \in fetches : r.polled \/ r.at # "running" => r.file = opened

StatusInv == StatusTypeOK /\ Fresh

LEMMA CountBounded ==
    /\ Cardinality(Notices) \in Nat
    /\ \A s \in SUBSET Notices : Cardinality(s) \in 0..Cardinality(Notices)
BY TaskStatusAssumption, FS_Subset, FS_CardinalityType

LEMMA EmptyBar == Empty \in Bar
BY CountBounded DEF Empty, Bar

LEMMA StatusInitInv == StatusInit => StatusInv
<1> SUFFICES ASSUME StatusInit PROVE StatusInv
    OBVIOUS
<1>1. 0 \in 0..MaxLoads
    BY TaskStatusAssumption
<1>2. StatusTypeOK
    BY <1>1, EmptyBar DEF StatusInit, StatusTypeOK
<1> QED  BY <1>2 DEF StatusInit, StatusInv, Fresh

LEMMA RefreshInv ==
    ASSUME StatusInv, RefreshStatus
    PROVE  /\ fetches' \subseteq Fetch
           /\ \A r \in fetches' : r.polled \/ r.at # "running" => r.file = opened
           /\ fetches \ fetches' = {}
<1> DEFINE r == [at |-> "running", polled |-> TRUE, hasTask |-> hasTask, file |-> opened, result |-> Empty]
<1>1. r \in Fetch /\ r.file = opened
    BY EmptyBar DEF StatusInv, StatusTypeOK, Fetch
<1>2. fetches' = fetches \/ fetches' = fetches \union {r}
    BY DEF RefreshStatus
<1> HIDE DEF r
<1> QED  BY <1>1, <1>2 DEF StatusInv, StatusTypeOK, Fresh

LEMMA AnswersInv ==
    ASSUME StatusInv, NEW r \in fetches, NEW end \in {"fetched", "failed"}, NEW result \in Bar,
           Answers(r, end, result)
    PROVE  StatusInv' /\ bar' = bar
<1> DEFINE s == [r EXCEPT !.at = end, !.result = result]
<1>1. r \in Fetch
    BY DEF StatusInv, StatusTypeOK
<1>2. s \in Fetch /\ s.polled = r.polled /\ s.file = r.file
    BY <1>1 DEF Fetch
<1>3. fetches' = (fetches \ {r}) \union IF r.polled THEN {s} ELSE {}
    BY DEF Answers
<1>4. UNCHANGED <<arrived, unread, hasTask, bar, marks, started, opened, preferred>>
    BY DEF Answers
<1> HIDE DEF s
<1>5. fetches' \subseteq Fetch
    BY <1>2, <1>3 DEF StatusInv, StatusTypeOK
<1>6. Fresh'
    BY <1>2, <1>3, <1>4 DEF StatusInv, Fresh
<1> QED  BY <1>4, <1>5, <1>6 DEF StatusInv, StatusTypeOK

LEMMA MarkReadInv ==
    ASSUME StatusInv, NEW ids, NEW all \in BOOLEAN, MarkRead(ids, all)
    PROVE  StatusInv' /\ fetches' = fetches
<1> DEFINE n == IF all THEN 0 ELSE CountDown(bar.unread, Cardinality(ids))
<1>1. ids \in SUBSET Notices /\ bar \in Bar
    BY DEF StatusInv, StatusTypeOK, MarkRead, Bar
<1>2. Cardinality(ids) \in Nat /\ bar.unread \in 0..Cardinality(Notices) /\ Cardinality(Notices) \in Nat
    BY <1>1, CountBounded DEF Bar
<1>3. n \in 0..Cardinality(Notices)
    BY <1>2 DEF CountDown
<1>4. bar' = [bar EXCEPT !.items = @ \ ids, !.unread = n]
    BY DEF MarkRead
<1> HIDE DEF n
<1>5. bar' \in Bar
    BY <1>1, <1>3, <1>4 DEF Bar
<1>6. marks' \subseteq Notices
    BY <1>1 DEF MarkRead, StatusInv, StatusTypeOK
<1> QED  BY <1>5, <1>6 DEF MarkRead, StatusInv, StatusTypeOK, Fresh

\* A bar that shows a task comes from a refresh of this file, or only counts down.
BarStep == bar'.known /\ bar' # bar => \A r \in fetches \ fetches' : r.file = opened

LEMMA StatusNextInv == StatusInv /\ [StatusNext]_statusVars => StatusInv' /\ BarStep
<1> SUFFICES ASSUME StatusInv, [StatusNext]_statusVars PROVE StatusInv' /\ BarStep
    OBVIOUS
<1>1. ASSUME NEW n \in Notices, Notify(n) PROVE StatusInv' /\ BarStep
    BY <1>1 DEF Notify, StatusInv, StatusTypeOK, Fresh, BarStep
<1>2. ASSUME NEW n \in Notices, OpenNotification(n) PROVE StatusInv' /\ BarStep
    BY <1>2, MarkReadInv DEF OpenNotification, BarStep
<1>3. CASE MarkAllRead
    BY <1>3, MarkReadInv DEF MarkAllRead, BarStep
<1>4. CASE MarkEnds
    BY <1>4 DEF MarkEnds, StatusInv, StatusTypeOK, Fresh, BarStep
<1>5. CASE ShowStatusLine
    BY <1>5 DEF ShowStatusLine, StatusInv, StatusTypeOK, Fresh, BarStep
<1>6. CASE TickStatus
    BY <1>6, RefreshInv DEF TickStatus, StatusInv, StatusTypeOK, Fresh, BarStep
<1>7. CASE RefreshAfterLoad
    BY <1>7, RefreshInv DEF RefreshAfterLoad, StatusInv, StatusTypeOK, Fresh, BarStep
<1>8. CASE LoadStatus
    <2>1. fetches' = DropPolls /\ bar' = Empty /\ opened' = opened + 1 /\ opened < MaxLoads
        BY <1>8 DEF LoadStatus
    <2>2. \A r \in fetches' : r \in Fetch /\ ~r.polled /\ r.at = "running"
        BY <2>1 DEF DropPolls, StatusInv, StatusTypeOK, Fetch
    <2>3. opened' \in 0..MaxLoads
        BY <2>1, TaskStatusAssumption DEF StatusInv, StatusTypeOK
    <2>4. Fresh'
        BY <2>2 DEF Fresh
    <2>5. StatusTypeOK'
        BY <1>8, <2>1, <2>2, <2>3, EmptyBar DEF LoadStatus, StatusInv, StatusTypeOK
    <2>6. BarStep
        BY <2>1 DEF Empty, BarStep
    <2> QED  BY <2>4, <2>5, <2>6 DEF StatusInv
<1>9. CASE FetchStatus
    <2>1. PICK r \in fetches, items \in SUBSET unread :
              Answers(r, "fetched",
                      IF r.hasTask
                      THEN [known |-> TRUE, items |-> items, unread |-> Cardinality(unread)]
                      ELSE Empty)
        BY <1>9 DEF FetchStatus
    <2>2. [known |-> TRUE, items |-> items, unread |-> Cardinality(unread)] \in Bar
        BY CountBounded DEF StatusInv, StatusTypeOK, Bar
    <2> QED  BY <2>1, <2>2, EmptyBar, AnswersInv DEF BarStep
<1>10. CASE FetchFails
    <2>1. PICK r \in fetches : \/ Answers(r, "failed", Empty)
                               \/ Answers(r, "fetched", [Empty EXCEPT !.known = r.hasTask])
        BY <1>10 DEF FetchFails
    <2>2. r.hasTask \in BOOLEAN
        BY DEF StatusInv, StatusTypeOK, Fetch
    <2>3. [Empty EXCEPT !.known = r.hasTask] \in Bar
        BY <2>2, EmptyBar DEF Bar
    <2> QED  BY <2>1, <2>3, EmptyBar, AnswersInv DEF BarStep
<1>11. CASE PollStatus
    <2>1. PICK r \in fetches :
              /\ r.at # "running"
              /\ bar' = IF r.at = "failed" THEN bar ELSE r.result
              /\ fetches' = fetches \ {r}
              /\ UNCHANGED <<arrived, unread, hasTask, marks, started, opened, preferred>>
        BY <1>11 DEF PollStatus
    <2>2. r.result \in Bar /\ r.file = opened
        BY <2>1 DEF StatusInv, StatusTypeOK, Fetch, Fresh
    <2> QED  BY <2>1, <2>2 DEF StatusInv, StatusTypeOK, Fresh, BarStep
<1>12. CASE UNCHANGED statusVars
    BY <1>12 DEF statusVars, StatusInv, StatusTypeOK, Fresh, BarStep
<1> QED  BY <1>1, <1>2, <1>3, <1>4, <1>5, <1>6, <1>7, <1>8, <1>9, <1>10, <1>11, <1>12 DEF StatusNext

(***************************************************************************)
(* The bar never shows a task that was fetched for a file opened before,   *)
(* for any number of files opened and refreshes in flight.                 *)
(***************************************************************************)
THEOREM BarAlwaysOfThisFile == StatusSpec => BarIsOfThisFile
<1>1. StatusInv /\ [StatusNext]_statusVars => [BarStep]_statusVars
    BY StatusNextInv
<1> QED  BY StatusInitInv, StatusNextInv, <1>1, PTL DEF StatusSpec, BarIsOfThisFile, BarStep

-----------------------------------------------------------------------------
\* QtRuntime

\* The handle tells whether Blender has the timer; it has it while a dialog is
\* retained, which every dialog is that can still be closed or destroyed by an event.
QtInv ==
    /\ QtTypeOK
    /\ tickHandle = ticking
    /\ pump => ticking
    /\ retained # {} => ticking /\ app
    /\ \A w \in Visible : w \in retained
    /\ ticking /\ ~pump => retained # {}
    /\ \A w \in retained : \/ window[w] \in {"shown", "deleting"}
                           \/ window[w] = "hidden" /\ w \notin SelfDeleting
    /\ warm > 0 => warmTimer

LEMMA QtInitInv == QtInit => QtInv
<1> SUFFICES ASSUME QtInit PROVE QtInv
    OBVIOUS
<1>1. ~app /\ ~tickHandle /\ ~ticking /\ ~pump /\ ~warmTimer /\ tickHandle = ticking
    BY DEF QtInit
<1>2. app \in BOOLEAN /\ tickHandle \in BOOLEAN /\ ticking \in BOOLEAN /\ pump \in BOOLEAN
      /\ warmTimer \in BOOLEAN
    BY DEF QtInit
<1>3. warm \in 0..3 /\ ~(warm > 0) /\ retained = {} /\ Visible = {}
    BY DEF QtInit, Visible
<1>4. QtTypeOK
    BY <1>2, <1>3 DEF QtInit, QtTypeOK
<1> QED  BY <1>1, <1>3, <1>4 DEF QtInv

LEMMA QtNextInv == QtInv /\ [QtNext]_qtVars => QtInv'
<1> SUFFICES ASSUME QtInv, [QtNext]_qtVars PROVE QtInv'
    OBVIOUS
<1> USE DEF QtInv, QtTypeOK, Visible
<1>1. CASE EnsurePySide
    BY <1>1 DEF EnsurePySide
<1>2. CASE InstallEnds
    BY <1>2 DEF InstallEnds
<1>3. CASE OpenFails
    BY <1>3 DEF OpenFails
<1>4. ASSUME NEW w \in Windows, OpenWindow(w) PROVE QtInv'
    BY <1>4 DEF OpenWindow, EnsureTick
<1>5. ASSUME NEW w \in Windows, CloseByUser(w) PROVE QtInv'
    BY <1>5 DEF CloseByUser
<1>6. ASSUME NEW w \in Windows, Destroyed(w) PROVE QtInv'
    BY <1>6 DEF Destroyed
<1>7. CASE BeginTick
    BY <1>7 DEF BeginTick
<1>8. CASE EndTick
    BY <1>8 DEF EndTick, StopTick
<1>9. CASE ScheduleWarmUp
    BY <1>9 DEF ScheduleWarmUp
<1>10. CASE WarmTick
    <2>1. UNCHANGED <<binding, tickHandle, ticking, pump, window, retained>>
        BY <1>10 DEF WarmTick
    <2>2. warm' = 0 \/ (warm > 0 /\ warm' = warm - 1)
        BY <1>10 DEF WarmTick
    <2>3. warm' \in 0..3
        BY <2>2
    <2>4. warmTimer' = (warm' > 0)
        BY <1>10 DEF WarmTick
    <2>5. warmTimer' \in BOOLEAN /\ (warm' > 0 => warmTimer')
        <3>1. CASE warm' > 0
            BY <2>4, <3>1, Zenon
        <3>2. CASE ~(warm' > 0)
            <4>1. (warm' > 0) = FALSE
                BY <3>2
            <4>2. warmTimer' = FALSE
                BY <2>4, <4>1, Zenon
            <4> QED  BY <3>2, <4>2, Zenon
        <3> QED  BY <3>1, <3>2
    <2>6. app' = (app \/ warm = 2) \/ app' = app
        BY <1>10 DEF WarmTick
    <2>7. app' \in BOOLEAN /\ (app => app')
        BY <2>6
    <2> QED  BY <2>1, <2>3, <2>5, <2>7
<1>11. CASE ShutDown
    <2>1. /\ ~pump' /\ warm' = 0 /\ ~tickHandle' /\ ~ticking' /\ retained' = {}
          /\ tickHandle' = ticking' /\ binding' = binding
        BY <1>11 DEF ShutDown
    <2>2. \A w \in Windows : /\ window'[w] \in {"none", "shown", "hidden", "deleting", "deleted"}
                             /\ window'[w] # "shown"
        BY <1>11 DEF ShutDown
    <2>3. window' \in [Windows -> {"none", "shown", "hidden", "deleting", "deleted"}]
        BY <1>11, <2>2 DEF ShutDown
    <2>4. app' \in BOOLEAN /\ tickHandle' \in BOOLEAN /\ ticking' \in BOOLEAN
          /\ warmTimer' \in BOOLEAN /\ pump' = pump
        BY <1>11 DEF ShutDown
    <2>5. retained' \subseteq Windows /\ warm' \in 0..3
        BY <2>1
    <2>6. QtTypeOK'
        BY <2>1, <2>3, <2>4, <2>5
    <2> QED  BY <2>1, <2>2, <2>6
<1>12. CASE UNCHANGED qtVars
    BY <1>12 DEF qtVars
<1> QED  BY <1>1, <1>2, <1>3, <1>4, <1>5, <1>6, <1>7, <1>8, <1>9, <1>10, <1>11, <1>12 DEF QtNext

(***************************************************************************)
(* For any number of dialogs, opened, closed and destroyed in any ticks:   *)
(* one that is on the screen is retained, and its events are processed.    *)
(***************************************************************************)
THEOREM VisibleAlwaysPumped == QtSpec => []VisibleIsPumped
<1>1. QtInv => VisibleIsPumped
    BY QtRuntimeAssumption DEF QtInv, QtTypeOK, VisibleIsPumped, Visible
<1> QED  BY QtInitInv, QtNextInv, <1>1, PTL DEF QtSpec

-----------------------------------------------------------------------------
\* Chunking: for any file, forced cuts, minimum, maximum and window, wherever
\* anchors and segments fall, the pieces tile the file.

ChunkInv == ChunkingTypeOK /\ ChunksTile

\* A cut is at least one byte and stays in the buffer; when the buffer is more
\* than the minimum the cut is not below it, and passes over no forced cut that
\* is not below it either.
LEMMA CutFacts ==
    ASSUME NEW n \in Nat \ {0}, NEW forced \in SUBSET (1..n), NEW cut \in FindCut(n, forced)
    PROVE  /\ cut \in 1..n
           /\ n <= MinSize => cut = n
           /\ n > MinSize => cut >= MinSize
           /\ \A c \in forced : c < cut => c < MinSize
<1> DEFINE far == {c \in forced : MinSize <= c /\ c <= n}
<1>1. CASE n <= MinSize
    BY <1>1, ChunkingAssumption DEF FindCut
<1>2. CASE n > MinSize /\ far # {}
    <2>1. cut \in far /\ \A d \in far : cut <= d
        BY <1>2, ChunkingAssumption DEF FindCut
    <2> QED  BY <1>2, <2>1, ChunkingAssumption
<1>3. CASE n > MinSize /\ far = {}
    <2>1. cut \in (MinSize + 1)..n
        BY <1>3, ChunkingAssumption DEF FindCut
    <2>2. \A c \in forced : ~(MinSize <= c /\ c <= n)
        BY <1>3
    <2> QED  BY <1>3, <2>1, <2>2, ChunkingAssumption
<1> QED  BY <1>1, <1>2, <1>3, ChunkingAssumption

\* A piece of at least one byte put at the offset keeps the tiling.
LEMMA PieceTiles ==
    ASSUME NEW n \in Nat \ {0}, NEW kind \in {"chunk", "tail", "patch"}, ChunkingTypeOK, Tiled,
           offset' = offset + n,
           pieces' = pieces \union {[at |-> offset, size |-> n, kind |-> kind]}
    PROVE  pieces' \subseteq Piece /\ Tiled'
<1> DEFINE new == [at |-> offset, size |-> n, kind |-> kind]
<1>1. offset \in Nat /\ offset' \in Nat /\ pieces \subseteq Piece /\ new \in Piece
    BY ChunkingAssumption DEF ChunkingTypeOK, Piece
<1>2. \A p \in pieces' : p.at + p.size <= offset'
    BY <1>1 DEF Tiled, Piece
<1>3. \A p, q \in pieces' : p # q => p.at + p.size <= q.at \/ q.at + q.size <= p.at
    BY <1>1 DEF Tiled, Piece
<1>4. ASSUME NEW b \in 0..(offset' - 1)
      PROVE  \E p \in pieces' : p.at <= b /\ b < p.at + p.size
    <2>1. CASE b < offset
        BY <1>1, <2>1 DEF Tiled
    <2>2. CASE b >= offset
        BY <1>1, <2>2
    <2> QED  BY <1>1, <2>1, <2>2
<1> QED  BY <1>1, <1>2, <1>3, <1>4 DEF Tiled

LEMMA ChunkInitInv == ChunkingInit => ChunkInv
BY ChunkingAssumption DEF ChunkingInit, ChunkInv, ChunkingTypeOK, ChunksTile, Tiled, Sized, CutsHonoured

LEMMA PatchInv == ChunkInv /\ PatchSegment => ChunkInv'
<1> SUFFICES ASSUME ChunkInv, PatchSegment PROVE ChunkInv'
    OBVIOUS
<1> DEFINE n == limit' - offset
<1>1. /\ offset \in Nat /\ size \in Nat /\ n \in Nat \ {0} /\ offset' = offset + n
      /\ limit' \in 0..size
      /\ offset' \in 0..limit'
    <2>1. PICK e \in (offset + 1)..size : limit' = e
        BY DEF PatchSegment, SegmentEnds
    <2>2. offset \in Nat /\ size \in Nat
        BY ChunkingAssumption DEF ChunkInv, ChunkingTypeOK
    <2>3. offset' = e
        BY <2>1 DEF PatchSegment
    <2>4. e \in Nat /\ e \in 0..size /\ e - offset \in Nat \ {0} /\ e = offset + (e - offset)
        BY <2>2
    <2> QED  BY <2>1, <2>2, <2>3, <2>4
<1>2. pieces' = pieces \union {[at |-> offset, size |-> n, kind |-> "patch"]}
    BY DEF PatchSegment
<1>3. pieces' \subseteq Piece /\ Tiled'
    <2> HIDE DEF n
    <2> QED  BY <1>1, <1>2, PieceTiles DEF ChunkInv, ChunksTile
<1>4. ChunkingTypeOK'
    <2>1. size' = size /\ cuts' = cuts
        BY DEF PatchSegment
    <2> HIDE DEF n
    <2> QED  BY <1>1, <1>3, <2>1 DEF ChunkInv, ChunkingTypeOK
<1>5. Sized' /\ CutsHonoured'
    <2>1. cuts' = cuts
        BY DEF PatchSegment
    <2> HIDE DEF n
    <2> QED  BY <1>1, <1>2, <2>1 DEF ChunkInv, ChunksTile, Sized, CutsHonoured
<1> QED  BY <1>3, <1>4, <1>5 DEF ChunkInv, ChunksTile

LEMMA CutInv == ChunkInv /\ CutChunk => ChunkInv'
<1> SUFFICES ASSUME ChunkInv, CutChunk PROVE ChunkInv'
    OBVIOUS
<1> DEFINE left == limit - offset
           n == IF left < MaxSize THEN left ELSE MaxSize
<1>1. /\ offset \in Nat /\ size \in Nat /\ limit \in 0..size /\ left \in Nat \ {0}
      /\ n \in Nat \ {0} /\ n <= left /\ n <= MaxSize
      /\ cuts \subseteq 1..size
    BY ChunkingAssumption DEF ChunkInv, ChunkingTypeOK, CutChunk
<1>2. PICK cut \in FindCut(n, Forced(n)) :
          /\ pieces' = pieces \union {[at |-> offset, size |-> cut,
                                       kind |-> IF cut = left THEN "tail" ELSE "chunk"]}
          /\ offset' = Advance(n, cut)
    BY DEF CutChunk
<1>3. UNCHANGED <<size, cuts, limit>> /\ offset' = offset + cut
    BY <1>2 DEF CutChunk, Advance
<1> HIDE DEF n
<1>4. Forced(n) \in SUBSET (1..n)
    <2>1. ASSUME NEW c \in cuts, offset < c, c <= offset + n
          PROVE  c - offset \in 1..n
        BY <1>1, <2>1
    <2> QED  BY <2>1 DEF Forced
<1>5. /\ cut \in 1..n
      /\ n <= MinSize => cut = n
      /\ n > MinSize => cut >= MinSize
      /\ \A c \in Forced(n) : c < cut => c < MinSize
    BY <1>1, <1>2, <1>4, CutFacts
<1>6. pieces' \subseteq Piece /\ Tiled'
    <2> DEFINE kind == IF cut = left THEN "tail" ELSE "chunk"
    <2>1. kind \in {"chunk", "tail", "patch"}
        OBVIOUS
    <2>2. pieces' = pieces \union {[at |-> offset, size |-> cut, kind |-> kind]}
        BY <1>2
    <2> HIDE DEF kind
    <2> QED  BY <1>1, <1>3, <1>5, <2>1, <2>2, PieceTiles DEF ChunkInv, ChunksTile
<1>7. ChunkingTypeOK'
    BY <1>1, <1>3, <1>5, <1>6 DEF ChunkInv, ChunkingTypeOK
<1>8. Sized'
    <2>1. cut <= MaxSize /\ cut # 0
        BY <1>1, <1>5, ChunkingAssumption
    <2>2. cut # left => MinSize <= cut \/ cut = MaxSize
        BY <1>1, <1>5, ChunkingAssumption DEF n
    <2> QED  BY <1>2, <2>1, <2>2 DEF ChunkInv, ChunksTile, Sized
<1>9. CutsHonoured'
    <2>1. ASSUME NEW c \in cuts, offset < c, c < offset + cut
          PROVE  c < offset + MinSize
        <3>1. c \in Nat /\ c - offset \in Forced(n) /\ c - offset < cut
            BY <1>1, <1>5, <2>1 DEF Forced
        <3> QED  BY <1>1, <1>5, <3>1, ChunkingAssumption
    <2> QED  BY <1>2, <1>3, <2>1 DEF ChunkInv, ChunksTile, CutsHonoured
<1> QED  BY <1>6, <1>7, <1>8, <1>9 DEF ChunkInv, ChunksTile

LEMMA ChunkNextInv == ChunkInv /\ [ChunkingNext]_chunkVars => ChunkInv'
<1> SUFFICES ASSUME ChunkInv, [ChunkingNext]_chunkVars PROVE ChunkInv'
    OBVIOUS
<1>1. CASE StartSegment
    BY <1>1, ChunkingAssumption
       DEF StartSegment, SegmentEnds, ChunkInv, ChunkingTypeOK, ChunksTile, Tiled, Sized, CutsHonoured
<1>2. CASE PatchSegment
    BY <1>2, PatchInv
<1>3. CASE CutChunk
    BY <1>3, CutInv
<1>4. CASE EmptyFile
    BY <1>4, ChunkingAssumption
       DEF EmptyFile, ChunkInv, ChunkingTypeOK, Piece, ChunksTile, Tiled, Sized, CutsHonoured
<1>5. CASE CutAgain
    BY <1>5, ChunkingAssumption
       DEF CutAgain, ChunkInv, ChunkingTypeOK, ChunksTile, Tiled, Sized, CutsHonoured
<1>6. CASE UNCHANGED chunkVars
    BY <1>6 DEF chunkVars, ChunkInv, ChunkingTypeOK, ChunksTile, Tiled, Sized, CutsHonoured
<1> QED  BY <1>1, <1>2, <1>3, <1>4, <1>5, <1>6 DEF ChunkingNext

(***************************************************************************)
(* Any file is cut into pieces that put together are the file, within the  *)
(* bounds of chunks, and no forced cut is passed over but near the start.  *)
(***************************************************************************)
THEOREM ChunksAlwaysTile == ChunkingSpec => []ChunksTile
<1>1. ChunkInv => ChunksTile
    BY DEF ChunkInv
<1> QED  BY ChunkInitInv, ChunkNextInv, <1>1, PTL DEF ChunkingSpec
=============================================================================
