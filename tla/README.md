# Zeno plug-in: TLA+ models, checks and proofs

Zeno connects DCC applications (Blender, Maya) to a content-addressed asset
store. This directory holds TLA+ models of it, from the cache and the publisher
to the windows of the Blender add-on, the TLC configurations that check them, and
TLAPS proofs about them.

## 1. Inventory

| Part | State | Operations | Interacts with | Hard behaviour | Must hold |
|---|---|---|---|---|---|
| Local cache (`zeno_client/cache.py`, `cache_index.py`, `cache_lock.py`) | files `<content_id>/<name>`, temporary files, SQLite index, one lock file per content | `ensure_cached`, `touch`, `evict_if_needed` | API client (downloads); hub, Blender, Maya, relinking (callers) | several processes on one directory, crashes, faulty downloads, eviction beside use | verified content only; cap; LRU; index describes disk; calls end |
| Manifest and chunk cache (`cache.py:156`) | `manifests/`, `chunks/`, assembled files | `_ensure_from_manifest` | as above | chunk temporary files shared between manifests | assembled file verified; a bad chunk does not stay |
| Hub process (`chimera_hub/__main__.py`, `runtime.py`) | `session.json`, `session.pid`, sockets, token | start, serve, stop | clients through the session file and HTTP | check-then-act start, crash, port reuse | one hub, reachable, recovers |
| Hub discovery (`zeno_thin/client.py`, `hub_bridge.py`) | none of its own | `discover_session`, `ensure_hub_running`, requests | hub | stale files, races to spawn, timeouts | a client that keeps asking is served |
| Hub server and UI (`server.py`, `handlers.py`, `ui_service.py`) | last launch hint, open dialogs | publish, load, open UI | publisher, cache | worker threads, shutdown during a request | the right file is published once |
| Blender main-thread queue (`qt_host.py`, `blender_qt.py`) | operator queue, drain timer, dialogs | enqueue, drain, wait | Qt workers, operators | lost wake-up, timeout with the closure still queued | every closure runs; outcome reported is its own |
| Publish (`operators_publish.py`, `publisher.py`, `omni_ingest.py`, `client.py`) | server's blobs, versions, asset locks; `_LAST_PUBLISH_RESULT` | upload, register, lock | hub or in process, API | retry after a lost answer, file saved while it is read | version refers to complete blobs, and is one state of the file unless saves overwrite it; one click, one version |
| Chunking (`chunking.py`, `entropy_segment.py`, `omni_ingest.py`) | pure | `iter_chunks`, segments, patches | publisher | minimum, maximum, forced cuts, end of file | pieces tile the file |
| Review windows (`review_notes_dialog.py`, `submit_review_dialog.py`, `qt_workers.py`) | selected task, what is shown, requests in flight, checks, a submission in two events | open, pick, refresh, submit, close | API through worker threads, the host's scene | answers late, lost and out of order; fields enabled again by a late answer | a window shows, files and sends what is of the task it names |
| Review fixes (`review_ops.py`, `review_state.py`, `review_host.py`) | ticks in each scene, jobs, polls | toggle, submit, mark fixed | API, review windows | file or scene switched during an upload, some of several notes fail | a tick goes only when its note is fixed |
| Shared review state (`review_state.py`, `review_overlay.py`) | task list, picked task, notes loaded last | `refresh_async`, popup, window, status bar | threads that fetch, timers that store | results stored late and for another task | notes are those of the task they are kept for |
| Linked assets (`scene_facts.py`, `operators_load.py`) | libraries and their tags, `_relinking`, a thread and its poll | load, link, update, `relink_missing` | cache | a fetch ends in another file or after an update; several fetches into a capped cache | a library lies where its tag says; a fetch ends |
| Task status (`task_status.py`) | the bar, a guessed count, polls | refresh, mark read | API | a guess against a refresh in flight, a file opened meanwhile | bar is of this file; count settles |
| Palette data cache (`zeno_ui/data_source.py`) | lists by key | get, clear | dialogs | clear during a fetch | nothing older than the refresh |
| Navigator, palette, version picker (`qt_dialogs.py`, `action_dialogs.py`) | boxes that fill each other, requests | select, refresh, load, link, switch | data cache, API | answers without sequence numbers | a click asks for what was listed |
| Hub's UI (`ui_service.py`) | last launch hint, one window of a kind, clicks | show, publish, load | DCCs over HTTP, publisher | DCCs that overwrite each other's hint | file and DCC of one hint |
| Qt in Blender (`qt_host.py`, `blender_qt.py`, `pyside_provision.py`) | application, tick, retained dialogs, warm-up, install thread | open, close, tick, warm up, unregister | all dialogs | closing inside the tick; destroyed or only hidden | a visible dialog is pumped |
| Others | | | | | canonicalizers, API client, diagnostics' text, Maya menu, launch environment, drawing: no state or control of their own worth a model |

How they interact: dialogs call the API and the cache from worker threads of Qt and
get answers as signals on the GUI thread; in Blender that thread exists only inside
the tick, and work on `bpy` goes through the main-thread queue; add-on threads leave
results in module variables for polls, `bpy.app.timers` that Blender drops when a
file is opened, and which therefore are the weak point of everything that waits for
one; DCCs, hub and relinking share the cache directory; publishing goes through the
hub or, when that fails, in process.

The components, modelled or not, are also listed in `PROJECT.json`, and so is
every hazard with the line where it bites and the property that would notice.

## 2. Modules

| Module | Models |
|---|---|
| `CacheLock` | `file_lock`: flock, the sentinel fallback, the shared `finally` block, death of a holder |
| `LocalCache` | `ensure_cached` for raw blobs, `_touch_index`, `evict_if_needed`, `touch`; extends `CacheLock` |
| `ContentStore` | what the cache promises its callers (abstract) |
| `LocalCacheProofs` | TLAPS proofs about `LocalCache` |
| `ManifestCache` | `_ensure_from_manifest`: chunks and patches, `get_blob`'s temporary files, assembly; a failed HEAD; extends `CacheLock` |
| `ManifestCacheProofs` | TLAPS proofs about `ManifestCache` |
| `HubLifecycle` | hub start, session file, shutdown, discovery and spawning |
| `HubLifecycleProofs` | TLAPS proofs about `HubLifecycle` |
| `Publisher` | `publish_chunked_file` and `ingest_omni_file` against a file that is saved meanwhile and a server that fails |
| `VersionStore` | what publishing promises (abstract) |
| `FileReads` | how one reading of a file that is saved meanwhile can find it, for the two above |
| `PublisherProofs` | TLAPS proofs about `Publisher` |
| `OpsQueue` | Blender's main-thread queue, its drain timer, unregistering the add-on |
| `PublishQueue` | the publish operator, the dialogs that wait for it and what they report; extends `OpsQueue` |
| `QueueProofs` | TLAPS proofs about `OpsQueue` and `PublishQueue` |
| `Chunking` | segments, chunks and patches of a file |
| `ReviewWindow` | the requests of the Review Notes and Submit windows, and how a submission takes its task and its notes |
| `SubmitChecks` | the checks before a submission, and the format it offers |
| `ReviewFixes` | the ticks of a scene, and the submissions that mark notes fixed |
| `ReviewShared` | task list, picked task and notes that windows, popup, top bar and overlay share |
| `Relink` | linked assets: load, link, update, fetch what is missing |
| `TaskStatus` | the status in the top bar |
| `DataCache` | the palette's lists |
| `Dialogs` | lists of the palette and the Navigator, and their requests |
| `EntityPicker` | the boxes of stage, version and representation, and what Load, Link and Switch ask for |
| `UiService` | the hub's windows and launch hints |
| `QtRuntime` | PySide's installation, the application, the tick and the dialogs it keeps alive |
| `ReviewProofs` | about `ReviewWindow`, `ReviewFixes`, `ReviewShared` |
| `AddonProofs` | about `Relink`, `TaskStatus`, `QtRuntime`, `Chunking` |
| `DesktopProofs` | about `DataCache`, `Dialogs`, `EntityPicker`, `UiService`, `SubmitChecks`, and about all parts of `MCDesktop` together |
| `MCLocalCache`, `MCManifestCache`, `MCHubLifecycle`, `MCPublisher`, `MCOpsQueue`, `MCPublishQueue` | values of the constants for TLC; `MCPublishQueue` also limits publishing to one dialog or none |
| `MCDesktop` | the twelve parts from `Chunking` to `QtRuntime`, one per behaviour, with values for TLC |

### LocalCache and the code

`pc[p]` is where a process is in its call; each action is one access to shared state:
the three hit tests (`Lookup`, `Recheck`, `LockedCheck`), the download (small blobs in
memory, others as a `stream`), the hash check, the rename (`Publish`), the two reads of
`_touch_index` (`TestExists`, `ReadSize`) and its write (`UpsertRow`), and the four
steps of the eviction loop (`ReadTotal`, `SelectCandidates`, `UnlinkVictim`,
`DeleteRow`). `req[p]` is the path asked for, `body[p]` the bytes of a small blob
already in memory, `fresh[p]` says that the call published the file itself (only then
does it evict), `cands[p]` is the rest of the batch of eviction candidates. `disk`,
`tmp` and `index` are the files, the temporary files and the SQLite table. A file is
"good" or "bad" (its bytes hash to its content id or not). SQL statements are atomic
(autocommit).

`part` are the files `<name>.download.tmp.tmp`: `get_blob` streams into one and renames
it to the `<name>.download.tmp` that it was asked for (`client.py:443`). When the stream
breaks, only the latter is removed (`cache.py:104`), and the half stays until the next
stream of that content in full. `spared` is a history variable: the files that the
eviction failed to delete, which go on without a row. In the sentinel fallback a
process may begin with sentinels of processes that died before.

Abstracted: bytes (only good or bad), the size test of a hit (existence decides,
because a file is hash-checked before it gets its name), the blob size behind
HEAD (`Small`). Manifests are in `ManifestCache`.

### ManifestCache and the code

`plan[p]` are the segments that the manifest in p's hand lists. Nothing compares the
manifest's bytes with its content id (`cache.py:80`), so that a server which is not
`honest` may have p assemble another file, or one of wrong segments; `req[p]` is from then
on the file that manifest names.

`part`, `tmp` and `chunk` are the three names a chunk goes through: `<hash>.tmp.tmp`
(`get_blob`), `<hash>.tmp` and `<hash>`. They have no lock. A chunk that is missing
(`cache.py:203`) is asked for (`RequestChunk`), and the file for it opened only when the
answer begins (`OpenPart`, `client.py:444`); what others do in between is part of every
property here. `fd[p]` follows the file that p has open while others rename, replace or
delete it, and `sole[p]` says that nobody has truncated it since; without these two the
bytes that a slow writer adds to a file already renamed would be lost from the model.
`asm`, `out` are the assembled file and its final name, under the lock of its content. A
chunk or a file is "good", "bad" (right size, wrong bytes) or "short". After a HEAD
request that failed, a manifest is cached as if it were the file (`HeadFails`); which of
these texts are there is left open. `honest` is chosen at the start: whether the server
sends what a hash names (requests may fail in both cases). `calm[p]` is a history
variable: the server is honest, no request of p's call has failed and no other call ran
beside it. `crowded` is another: three calls have been after one chunk at one time
(`Fetching`).

Abstracted: the index and the eviction loop (`LocalCache`; here eviction takes any
files but the caller's own), segments' lengths and codecs, the copy under
`manifests/` that nobody reads. Left out: manifests above 256 KiB, which are
taken for raw blobs, and two manifests of one file.

### HubLifecycle and the code

`hub[h]` follows `main()`: `check` and `probe` (`existing_session`), `prepare`,
`rename`, `pid`, `pidRename` (`prepare_session` and its two `_atomic_write`s, whose
`.tmp` names all processes share), `bind`, `serving`, `stopping`, `closing` (socket
open, loop ended), `exiting`. `client[t]` and `try[t]` follow `get_hub_client`:
`discover_session`, again inside `ensure_hub_running`, then spawn and poll. A hub's
identity stands for its token and pid; it is used again only when no file and no process
refers to it, so the model has no bound on the number of restarts. A listener that is no
hub (`Other`, after `PortsTaken`) answers as it likes: with an error, with a 200 that
passes for the hub's (`Foreign`; `client.py:66` looks at nothing but the status), or
with something that is not HTTP, for which `http.client` raises an exception that
neither `discover_session` nor `get_hub_client` catches (`AnswerGarbled`; the client is
`raised`). The contents of `session.pid` are read by nobody and left out; its `.tmp`
file is kept because the rename can fail. Reading a truncated `.tmp` through an earlier
rename, and pid reuse, are left out. `outage` is a history variable: it flips when a hub
is stopped or killed or a port is taken from outside, so that `ClientsServed` can tell
an outage from an ordinary exit (a crash and a refused start leave the same state
behind).

### Publisher and the code

`kind` is the workflow the environment and the file's type select: without `use_omni`
("plain"), with it ("omni"), with it and a canonicalizer ("dual": the raw file is the
content, the manifest of the canonical bytes is registered for deduplication). Each of
them may become the whole-file workflow, which `ResolveStrategy` chooses. `pc[p]`
follows a publish through its accesses to the file (`HashFile`, `StatFile`,
`Canonicalize`, `ReadSource`, `ScanSegments`; plain: `OpenFile`, `StatOpen`,
`OpenChunks` and the reads through both handles) and its requests. `job[p]` holds its
local variables: `whole`, `size`, `canon`, `chunks`; `src` is the buffer of
`ingest_omni_file`, or the file that `p.open` has open, `chunked` the same for the
handle of `iter_chunks`, `n` its `size_total` or the end of the last segment, `sent` the
manifest uploaded.

The readings from beginning to end (for the hash, the canonical form, the buffer and the
upload of the whole file) take many steps: `handle` is the file being read, `buf` what
has been read of it (`OpenToRead`, `ReadOn`), and the step named after the line of code
is the one that uses what was read.

`Save` gives the file another content at any moment. `inPlace`, chosen at the
start, says what an open handle sees: the new bytes, or still the old ones when
the application renames a new file over the old name (`View`). In place, a reading
may find a mixture that the file never was (`FileReads!Mixtures`). `blobs` are
chunks and files on the server, which checks a blob's hash on upload
(`ChunkRefused`, `WholeRefused`; the repository's tests describe the answer) and
never deletes one. `version[p]` is what p's last publish has registered; a
publisher's earlier versions need no state, since blobs only grow and the version is
not changed. `seen` and `failed` are history variables for the properties.

A file saved between its hash, its size and its chunks gives a version that is
registered, reported as published and cannot be loaded; a file overwritten during
`p.read_bytes()` (`omni_ingest.py:144`) gives one that can be loaded and is a mixture of
two saves, because hash, chunks and manifest all come from that buffer. So
`UnsavedVersionsLoad` is about files that nobody saved, and `PublishIsAtomic` says what
remains otherwise: `Publisher` refines `VersionStore`, where a publish lists its version
in one step: the file as one reading of it can find it, of one moment if saves replace the
file, or, if it was saved meanwhile, one that gives an error; and what the version gives
never changes afterwards. `Busy` is who is publishing and `Gives` what
loading a version gives, on the server as it is at present, and so an upload or a save that
disturbed an earlier version would be a step that `VersionStore` does not have. A
publisher that is cut off or loses the answer may have listed its version all the same.
`AsRead` follows from it: pieces of two readings never come together in a version.

Abstracted: chunk boundaries (a chunk is a letter; equal chunks are one blob), the
segments' entropies (every segment is cut into chunks), the moments of a save in place
at which the file is empty or cut short, the manifest's other fields.
Left out: patches against a parent's file, which no caller gives; missing, unreadable
and empty files; version numbers and the server's own checks of a registration.

### OpsQueue, PublishQueue and the code

`at[t]` is where a thread is in `queue_main_thread`: queued but no timer ensured
yet (`ensure`), timer registered and handle not set yet (`set`, the part that
holds `_LOCK`). `drain` follows `_drain_ops_queue` on the main thread: taking a
closure (`pop`), running it (`run`), the test of the queue (`test`), and the two
steps of ending, `_OPS_DRAIN_HANDLE = None` (`clear`) and Blender's removal of a
timer that returned None (`unregister`). `timers` counts the timers Blender
knows. The main thread may queue from its GUI and from a closure it runs, never
in the middle of a drain's own code. A registration never fails.

`PublishQueue` adds the dialogs (`dialog[w]`: waiting, reading the outcome, shown) and
the operator's `execute` (`op`): validation, hub, fallback, client, heartbeat, lock,
upload, release, return. `get_hub_client` stands outside the operator's `try`
(`operators_publish.py:115`) and may raise, which ends the operator with an empty
outcome (`HubRaises`). `QueueOther` is what else workers and the GUI queue. `last` is
`_LAST_PUBLISH_RESULT`, with the closure it is about. `publish_chunked_file` is one step
that registers a version or fails, and a failure may have registered one (lost answer).
`hubWork` holds the requests the hub goes on with after its client gave up. `session` is
`prefs.session_id`, read before the heartbeat that creates one. `assetLock` says whether
this session holds the lock on the server; another artist's lock is one of the ways to
fail. `lockFault` is a history variable (the answer to a lock call was lost). What file
is open is not modelled; neither are two Blender sessions of one user.

A dialog belongs to a thread: a worker of the palette, or `Main` for the Publisher
dialog, which calls `_queued_publish` on the main thread (`action_dialogs.py:811`,
wired at `blender_qt.py:444`). While that one waits, nothing on the main thread moves
(`MainFree`), its own closure included.

### The parts of MCDesktop and the code

Each of them has the actions of one group of handlers, named after them, and leaves
to the others what they keep; a request is answered by another action than the one
that made it, late, in any order, with an error or not at all. History variables
(`raced`, `reassigned`, `orphaned`, `stuck`, `torn`, `astray`, `racing`) mark the
situations in which the code does not keep a promise, so that the properties say that
it keeps it in all others; section 4 lists them.

- `Chunking`. `limit` is the end of the segment that is being cut, `offset` where its
  next chunk begins, `pieces` the manifest. `FindCut` is the set of lengths that
  `_find_cut` and the forced cuts allow: bytes are left out, so that an anchor may be
  anywhere. `omni_ingest` calls the chunker for each segment; a patch is one piece.
- `ReviewWindow`. `loads` are the requests of `WorkerPool` with their sequence
  numbers, of which only "is the last one given out" is compared. `go` follows a
  submission through two events after the click: `processEvents`, after which the
  ticks are taken, and 60 ms later, when the task is read again.
- `SubmitChecks`. What Blender's scene is (`info`) and what the window last polled
  (`polled`) are two things; `Blocked` is `submit_checks` and the rows that block.
  `frames` and `choice` are the format and whether it may be chosen.
- `ReviewFixes`. `jobs` are submissions and batches of "mark fixed now" with their
  steps on the main thread, in a thread and in the poll that ends them. The poll runs
  in whatever scene is current by then. Both the start (`UploadRaises`) and the poll
  (`PollRaises`) may raise before the window hears of the end (`review_ops.py:278-322`).
- `ReviewShared`. `refreshes` are the threads of `refresh_async` and results that wait
  for a poll; polls wait for the *last* thread, so results may be stored together.
- `Relink`. A path is a place (this machine's cache or elsewhere) and a folder, a tag
  the content it was linked as; `CachedAs` is the hash of the whole file, under which
  a chunked version is cached. `Relinks` sets the flag and then starts thread and poll, or
  raises in between (`scene_facts.py:191-194`). `FetchLibrary` is one step of the
  thread, `FinishRelink` the poll.
- `TaskStatus`. `unread` is the server's, `bar` what is drawn, `fetches` threads and
  results, `file` for which open file a refresh began.
- `DataCache`, `Dialogs`, `EntityPicker`. A list is how often it had changed, or the
  project it is of; a request is `old` once its runner has made another; boxes rebuild
  each other in one action, as the Qt signals do.
- `UiService`. `asks` are requests in the hub's threads, `shows` closures for its GUI
  thread, each of which may never be run (`InvokeOnGui`: `ui_service.py:130` calls
  `QTimer.singleShot` in a thread without an event loop); a click takes the hint, builds
  its request and dispatches it.
- `QtRuntime`. `pump` says that the tick is inside `processEvents`, from where dialogs
  open and close; `deleting` is between `close()` and `destroyed`.

## 3. Runs

| Run | Instance | Shows |
|---|---|---|
| `cache_concurrent` | 2 processes, 2 contents that do not fit together, batch 1, crashes, faulty server, broken streams, failing deletions | types; final files verified; refinement of `ContentStore` |
| `cache_single` | 1 process, exclusive-create lock with sentinels of dead processes, 3 contents (two fit together, one is larger than the cap), downloads that fail or break off, failing deletions, fairness | whenever no call is inside, what the index lists is under the cap, index and disk agree but for files that could not be deleted, and a half of a stream lies only where the file is missing (`CacheAtRest`); LRU; calls end |
| `lock_fallback` (violation) | 2 processes, 1 content, exclusive-create lock | two processes inside the lock |
| `manifest_cache` | 2 processes, 2 files that share a chunk, one with a patch segment; failing requests, a server that may send wrong chunks, patches and manifests, crashes, eviction | types; the assembled file is verified, and with an honest server so are the chunks while at most two calls are after each (`StoredVerified`); an undisturbed retry succeeds |
| `publisher` | 1 publisher in all workflows, files `a`, `ab` and `ba` with canonical forms that share chunks with them, saves in place or by rename, also in the middle of a reading, failing requests, lost answers, termination, others' uploads, fairness | types; versions refer to complete blobs; unsaved files load; a publish is atomic (refinement of `VersionStore`); an undisturbed publish succeeds; publishes end |
| `hub_serial` | 3 identities, 2 ports, 1 client, no overlapping starts, crashes, ports taken by programs that answer anything, fairness | types; serving hub is the one in the session file; shutdown clears its own session; recovery, unless such a program stays on the port in the session file |
| `hub_overlap` | 3 hubs that start at any time, 2 ports, 2 clients | whatever files and ports they take from each other, one of them goes on to serve (`RaceHasWinner`) |
| `hub_twins` (violation) | 2 hubs, 2 clients | two hubs serve |
| `ops_queue_lost` (violation) | 1 worker, 2 closures | a closure that never runs |
| `publish_queue` | 1 per drain; 1 dialog, on a worker or on the main thread beside a closure of the GUI, 2 publish closures; or no dialog, 2 workers and the main thread, 3 closures; fairness | types and two versions at most; one drain timer; closures of the GUI run and then the timer stops (`DrainsThenStops`); a timely report is about its own publish; lock given back, upload under lock (`LockDiscipline`); every click answered |
| `publish_stale` (violation) | 1 dialog, 2 publish closures, 1 per drain | success reported for a click that published nothing |
| `desktop` | the twelve parts, two of everything that can be mistaken for another (libraries, tasks, notes, scenes, lists, projects, assets, DCCs, dialogs), fairness | below |

`desktop` checks, each property for the part or the parts it is about:

| Property | Part | Says |
|---|---|---|
| `TypesOK` | all | types, at most one request that counts, at most one thread of a kind |
| `LoadedIsTagged` | `Relink` | a library lies in the folder of the content its tag names, whatever fetch ends after whatever update, until an update fails half-way |
| `WindowsTellTruth` | `ReviewWindow`, `SubmitChecks` | the window shows the task it names; a submission takes the ticks of its task and only what the checks allow |
| `NotesAreOfTheirTask` | `ReviewShared` | notes drawn over the viewport are of the task they are kept for, or flagged as failed |
| `ListsAgree` | `DataCache`, `Dialogs` | no list older than the refresh, except one that a thread had fetched and not stored; once nothing is awaited, assets and tasks of the project selected or typed, unless the last answer was to an older request or the last request failed |
| `ClicksAskForOneThing` | `EntityPicker`, `UiService` | the version asked for was listed with its representation; file and DCC of one hint |
| `ChunksTile` | `Chunking` | pieces tile the file, sizes keep to their bounds, forced cuts are honoured |
| `VisibleIsPumped` | `QtRuntime` | a visible dialog has an application, a reference and a tick; the tick has a dialog |
| `TicksLostOnlyWhenFixed` | `ReviewFixes` | a tick goes only when its note is fixed on the server |
| `BarIsOfThisFile` | `TaskStatus` | what a refresh stores was fetched for the open file |
| `WorkEnds` | `Relink`, `ReviewFixes`, `TaskStatus` | fetches and submissions that did not lose their poll end and are seen to end, a guessed count of unread notifications settles |

Bounds. Two processes are enough for every race of the cache between a caller and an
evictor or between two callers of one content; sizes and caps are chosen so that a
second content always evicts the first (`cache_concurrent`), or that two fit and a third
never does (`cache_single`). `MaxClock` bounds the index's time stamps, whole seconds in
the code too; equal stamps are evicted in any order. In `manifest_cache` two processes
are enough for one to rename, replace, truncate or delete what the other writes, one
shared chunk for each step of a chunk to meet each of the other's, and one patch for
what is fetched only while assembling; with three, a chunk can go wrong (section 4),
which is why `StoredVerified` and `RetrySucceeds` exclude `crowded`. For any number of
processes both are proved. Two of them already make `ChunksVerified` fail with a server
that also sends wrong bytes: A's verified `<hash>.tmp` is replaced by B's before A
renames it. The assembled file is verified in every case. In `publisher` one publisher
is enough: publishers share only the file and the server's blobs, and `Save` and
`OthersPut` do to either whatever another could. Two chunks and three files let a save
grow, shrink or rearrange the file under every read, so that a chunk at the same offset
changes, moves or is gone; repetitions and termination cover a server that holds any
part of an earlier attempt. Hub identities are recycled; two ports are enough for a port
to be free or reused. In `hub_serial` starts do not overlap: that is the regime in which
the single-instance check is sound, and `hub_twins` shows what happens outside it. Two
publish closures let a timed-out one run before or during the next click; one per drain
(16 in the code) puts the timer's end between them. Without a dialog, three closures
leave a rest behind each batch while two workers and the main thread contend for the
lock. One dialog (`OneDialog`, of the thread `user`): its button is disabled while it
publishes, and with two dialogs `TimelyReportIsOwn` fails on the same global.

In `desktop` a behaviour is one of a single part (`part`), and the other parts stay in
one initial state: they share no variable, so that their interleavings would only
multiply states. Where parts touch in the code (a submission of `ReviewWindow` is a
job of `ReviewFixes`, a refresh of the window stores notes of `ReviewShared`), each
has the other's step as an action that may come at any time with any value. Two
members of each set let an answer be about the wrong one; a third would be like the
second. `MaxRequests`, `MaxRefreshes` and `MaxPolls` leave two answers in flight, enough for
one to overtake the other; `InboxLimit` is below the number of notifications, so that
the list is cut; `MaxLoads` is one file opened, which drops every poll; `FileSizes` are
those at which the code branches: empty, below the minimum of 2, the maximum of 4, one
below and at two full chunks, with a window that ends inside a chunk. `CatalogsOf`
has groups with and without a stage and an asset without versions, `ContextsOf` a
context without a cut, one that fits and one with handles, with and without frames.

The exclusive-create lock of systems without flock is run with one process where a
property is to hold. With two it does not exclude, which is finding 4 below.

Fairness. `publisher`: weak fairness of a publish's next step; requests have timeouts.
Saves, new publishes and termination are never forced. `cache_single`: weak fairness of
a call's next step, a thread that runs; the lock is polled with a timeout, downloads
have HTTP timeouts. New calls, touches and time are free. `hub_serial`: weak fairness of
each process's steps, and of the polling deadline. Other programs need not give a port
back. Stops, crashes and port thefts are never forced; `ClientsServed` assumes that they
cease at some point, and speaks of clients that do not end with an exception for ever
and of a session file whose port is not another program's. `publish_queue`: strong
fairness of getting `_LOCK`, weak fairness of Blender's calling its timers and of the
closures' ends (network calls have timeouts) and of the wait, which has one. Clicks, the
GUI's closures, unregistering and a late hub are never forced. `desktop`: weak fairness
of threads and of the timers Blender has (a poll it dropped is not fair any more, which
is what `stuck` and `orphaned` are about), strong fairness of an answered status request
(the server answers now and then) and of its poll between two ticks. What artists do is
never forced.

## 4. Findings

Shown by a run that expects a violation:

1. **Two hubs** (`hub_twins`): `acquire_single_instance_or_die` reserves
   nothing, so two spawned together both serve; `runtime.py:99` says the second
   is refused.
2. **Lost closures** (`ops_queue_lost`): `_drain_ops_queue` clears the handle without
   `_LOCK`. A worker that queues between the test of the queue and the clearing
   finds the handle set; worse, a worker that sets the handle after its timer has
   run and ended leaves a handle without a timer, and nothing queued later runs
   until the add-on is unregistered. `qt_host.py:189` promises that the callable runs.
3. **Somebody else's success** (`publish_stale`): after the timeout of
   `blender_qt.py:163` the worker reads the global outcome all the same; it is that of
   an earlier publish, and the dialog says "Published" for a click that published
   nothing. The comment at `blender_qt.py:259` says that there is no such race.
4. **Two in the fallback lock** (`lock_fallback`): without flock, a waiter that times out
   runs the `finally` block of the lock it never got and deletes the holder's sentinel
   (`cache_lock.py:60-66`); the next call gets in beside the holder, against
   `cache_lock.py:14`. What two such calls do to each other's files is not followed further.

Met while modelling; the history variables of the models mark the situations, and the
properties hold outside them:

- *Cache.* With two processes a row can be lost for good: p1 has unlinked c and is
  about to delete its row (`cache.py:379`); p2 misses, fetches c and writes the row;
  p1 deletes the new row. c is on disk, untracked, and no eviction finds it, though
  `README.md:87` of the repository promises a size-capped cache. `CacheAtRest` is
  therefore checked with one process. A file whose deletion fails loses its row all the
  same (`spared`). A stream that breaks leaves `<name>.download.tmp.tmp` (`client.py:443`,
  `cache.py:104`), which nothing counts or removes until the content is streamed again.
- *Hub discovery.* `hub_bridge.py:45` says of `get_hub_client` that it never raises. When
  the port in a stale `session.json` belongs to a program that is not an HTTP server, it
  does (`client.py:66` catches `OSError` only), and no hub is spawned as long as that
  program runs; an HTTP server that answers 200 is taken for the hub.
- *Publish.* A save in place during the one reading of `omni_ingest.py:144` is
  published as a version that loads and is no state of the file.
- *Chunks.* Three loads that need one chunk can make a wrong one of right bytes, though
  `README.md:88` of the repository promises a "rename after verifying size/hash". p1 has
  hashed `<hash>.tmp` and not yet renamed it (`cache.py:214-223`). p2 has opened
  `<hash>.tmp.tmp` and p3 opens it too, which truncates it (`client.py:444`). p2 goes on
  writing at its old position, behind a hole, and renames the result over `<hash>.tmp`;
  p1 renames that to the chunk. If p3 fails before it has written the same bytes into it,
  the chunk stays wrong, has the right size, and is trusted from then on: every later
  assembly ends in "Assembled hash mismatch". TLC finds this within `ManifestCache` for
  three processes and three files that share a chunk, if `crowded` is taken out of
  `StoredVerified`. While two calls at most are after a chunk it cannot happen, which is
  proved.
- *Publisher dialog.* It calls `_queued_publish` on the main thread
  (`action_dialogs.py:811`, wired at `blender_qt.py:444`), which waits up to 300 s for a
  closure that only the main thread can run (`blender_qt.py:163`), against
  `blender_qt.py:120` and `182-187`. Such a publish reports a timeout and runs
  afterwards; a second click reports the first one's success.
- *Linked assets.* `relink_missing` returns 0, for which the operator says that all
  assets are on this machine, also while a fetch runs (`scene_facts.py:189`,
  `scene_facts.py:253`), and for ever when a file opened during the fetch has dropped
  the poll that clears `_relinking`, or when the message, the client or the cache raises
  after the flag is set (`scene_facts.py:191-194`): `stuck`. An update whose reload fails
  keeps the old tag on the new path (`torn`), which `LoadedIsTagged` excepts.
- *Review.* The native popup may pick another task while the notes of the former one
  stay listed, so that a tick made on them is filed under the task picked now
  (`review_ops.py:438`). A refresh that fails leaves the former notes under the new
  task's id, with the error beside them. "You can keep working"
  (`submit_review_dialog.py:464`) does not hold for opening a file: Blender drops the
  poll, and the window stays busy (`orphaned`); so it does when `start_upload` or the
  poll raises before `on_done` (`review_host.py:170`, `review_ops.py:308-319`). Submit
  may be clicked while a task list loads (`submit_review_dialog.py:261-263`); the list
  may then change the task between the ticks and the submission (`raced`).
- *Status bar.* "Mark all read" marks the twelve notifications listed at most and
  shows 0 (`task_status.py:98`). A refresh asked for while the thread of the file
  before still runs is dropped, and the bar is empty until the next period.
- *Dialogs.* A list request that fails is cached as an empty list until the next
  refresh. A list fetched before a refresh and stored after it stays, old, until the next
  (`racing`). Palette and navigator compare no sequence numbers, unlike the review windows:
  an older answer that comes last stays in the box (`astray`).
  A refresh of the navigator forgets the preferred project. Load and Link send no
  stage, though the list shows versions of every stage. The version switcher calls its
  host with `pipeline_stage` (`action_dialogs.py:470`), which `_queued_load`
  (`blender_qt.py:177`, passed at `blender_qt.py:403`) does not take: a `TypeError`.
  When the attachment of an issue fails, the issue exists and the dialog says that it
  failed; a second click makes a second one (`blender_qt.py:280`).
- *Hub's UI.* It publishes the file of the hint seen last, whichever palette is on the
  screen. `ui_service.py:130` queues with `QTimer.singleShot` from the thread of a
  request, which has no event loop, where the module's docstring (`ui_service.py:4`) says
  `invokeMethod`; a closure that is never run shows no window.
- *Qt tick.* "Only while a Zeno dialog is actually visible" (`qt_host.py:6`) and
  "auto-stop when no Zeno dialogs are visible" (`qt_host.py:46`) hold for the dialogs
  that delete themselves when closed (`submit_review_dialog.py:85`,
  `review_notes_dialog.py:107`). The others are hidden, stay retained and keep the tick.

## 5. Proofs

`LocalCacheProofs` proves, for all contents, names, sizes, caps and batches, with a
faulty server, from the named assumptions on the constants:

| Theorem | Beyond that, for |
|---|---|
| `CacheTypeCorrect` | any processes, crashes, failing deletions, either lock |
| `CacheFilesVerified`, `CacheImplementsStore` | any processes, crashes, failing deletions; flock (`Posix`) |
| `CacheEvictsLru` | one process (`OneProcess`), crashes, failing deletions, either lock |
| `CacheRests` | one process that does not die; one name per content (`OneName`); failing deletions, either lock |

The conditions are those under which the code keeps the promise, not what the proof
would like. The sentinel lock of several processes does not exclude (finding 4). A second
process touches a row between the eviction's read of its batch and its deletion, so
that the file deleted is not the oldest any more. A process that dies between a
rename and the write of its row leaves a file
without a row, which no later eviction sees; so does a second name of the same content,
which takes over its only row (a hazard of its own in `PROJECT.json`).

None of the invariants is inductive alone. `Calls` has the types and

- `RequestInv`: a call in progress has a path, an idle process none;
- `CandidatesInv`: the eviction loop never holds the caller's own content and never
  runs dry between choosing and deleting.

`IInv` adds `HoldersInv` (a process holds only the lock of its request, and is in
the critical part of the code only as its holder) and `VerifiedInv` (between the
hash check and the rename the temporary file is good). The argument for
`FinalFilesVerified`: the rename takes bytes that were hashed; nobody else has
touched them, because whoever writes that temporary file is past the lock of the
same content, and that is one process. One lemma per conjunct shows that a step
preserves it. For the refinement, each action is shown to be `Ask`, `See`,
`Materialise`, `Drop`, `End` or a stutter of `ContentStore`.

`LruInv` adds `AgesInv` (no row is younger than the clock, and the call's own is the
youngest once written) and `QueueInv`: the batch the loop works off is sorted, has no
row twice, and every row outside it but the caller's own is no older (`Oldest`). Deleting
its head and that row keeps this (`OldestTail`); the next batch restores it.

`RestInv` says what is known at each step of a call (`Known`), that a temporary file
belongs to a download in progress, that a row agrees with its file unless the call is
between the two (`Open`), and that what the index lists is within the cap, or holds one
file, unless a call has added a file and not finished evicting, or a file that could not
be deleted was asked for again (`CapInv`). `HalvesInv`: a stream that has been verified
left no half, and a half lies beside no file. The loop ends when the rows' total fits or
no candidate is left. In the first case rows are files (`RowsInv`), so the two totals
are sums of one function; in the second the only row left is the caller's. No sum is
computed: totals are compared as functions, which needs no induction.

`QueueProofs` proves about `OpsQueue`, for all closures, worker threads and batch sizes:

- `QueueTypeCorrect`, `QueueOneTimer`: the types, and at most one timer that Blender
  will call again;
- `GuiWorkHasTimer`: when no worker thread queues, closures that wait have a timer,
  unless the add-on is unregistered. (Finding 2 shows that workers break it.)

`OneTimer` is not inductive: a state with a live timer and no handle would let a
second thread register another. `IInv` adds `LockInv` (one thread is inside
`_LOCK`, and it found no handle) and `TimerInv` (a live timer is known through the
handle, or the thread that registered it still holds the lock).

and about `PublishQueue`, for any publishes, threads and other closures:

- `PublishTypeCorrect`: the types, and with them that no click registers more than two
  versions, the second only when the hub's answer came too late;
- `PublishKeepsLock`: the asset's lock is given back unless an answer about it was lost,
  and with a session the upload runs under it;
- `TimelyReportsOwn`: with one dialog (`OneDialogSpec(u)`), a report that did not time out
  is about the publish of its own click, and its success has registered a version.

`PInv` is the common invariant. `Once` says that a closure is queued or running once;
`OpInv` that the operator runs inside a publish's closure; `LockRules` that `hold` and
the server's lock agree; `VersionInv` that a closure has its allowance of versions still
before it (`Allowance`): two before the hub was tried, one less for each that is
registered or still owed by the hub. For the reports the queue's order matters:
`ClickInv` says that while a dialog waits, its closure is the last publish in the queue
(`Ahead`), or runs with none behind it (`Under`), or was the last to end, so that the
global outcome is its own, or empty (`Over`). The next click needs an idle dialog, which
is where "one dialog" is used. A late report breaks the chain, and `ClickInv` promises
nothing about it: that is finding 3. `MainWaits` covers the dialog on the main thread,
whose waits all end late.

`ManifestCacheProofs` proves the three properties of run `manifest_cache` for any
processes, manifests and chunks, with failing requests, crashes and a server that may
send wrong chunks, patches and manifests: `ManifestTypeCorrect`, `ManifestStoredVerified`
and `ManifestRetrySucceeds`. The assumptions are `Posix` and what
`ManifestAssumption` says of the manifests. `Base` has the types and

- `CallInv`: a call has a manifest, while it fetches a chunk of it, and a descriptor only
  while it writes;
- `HolderInv`: who is past the lock holds that of its request, alone;
- `FileInv`: the assembled files are verified, and what was hashed is still there at the
  rename.

Chunks have no lock, so their part of `StoredVerified` rests on the two rivals knowing of
each other. `ChunkInv` says that no chunk has more than two calls after it; that a
writer whose file was truncated has its rival, who truncated it, still writing that
file alone or done with it; and that what a rival may yet rename over a hashed
`<hash>.tmp` is right. A third call breaks exactly the second of these.
`RetrySucceeds` needs two more. `AssemblyInv`: the chunks a call has passed are there and
right, and stay so, since nothing evicts chunks (`GoodStays`); hence an assembly is right.
`CalmInv`: a call that nobody disturbs is the only one, and finds the temporary files
as it left them. `CalmReturns` then goes through the ways a call may raise and finds
each one closed.

`HubLifecycleProofs` proves, for any number of hubs, clients and ports, with crashes
and stolen ports:

- `HubTypeCorrect`: the types;
- `RaceAlwaysHasWinner`: hubs that start at the same time do not all fail, if nobody
  stops or kills them or takes their ports;
- `SerialHubReachable`, `SerialSingleHub`, `SerialClearsOwn`: if starts do not overlap
  (`~Overlap`), the hub that serves is the one in `session.json`, there is one, and
  none removes another's session.

`IInv` adds `PortsInv` (a hub that has picked a port has one) to the types. For
`RaceHasWinner`, a hub that cannot go on has lost its temporary file to the rename of
another, which then is past that rename, or its port to one that serves
(`OwnListeners`); a step of the only winner leaves it one, and the exit of a loser changes
nothing (`LoserExits`, `NobodyExits`). The serial
theorems rest on `SerialInv`: one hub starts at a time; one that is past
the check is alone (`CommittedAlone`), because what it read while checking is the
record of the hub that serves (`ProbesServing`), which answers; and the files hold
what their writer wrote (`OwnRecords`).

`PublisherProofs` proves, for any files, chunks and canonical forms, any number of
publishers, saves, failures and terminations:

- `PublisherTypeCorrect`, `VersionsComplete`, `UnsavedLoad`, `RetriesSucceed`: the
  invariants of run `publisher`;
- `VersionsAsRead`: a version that loads is the file as one reading of it during the
  publish can find it (`AsRead`), which is the file of one moment where saves replace it;
- `PublishAlwaysAtomic`: every publish refines `VersionStore`.

The assumptions are that files are not empty and `None` is none of the values. The
invariant `IInv` is stated for one publish, over the values of its variables: `Place`
(which of them are set at which step), `Stored` (all chunks but the one in hand are on
the server, and a manifest that was sent lists stored chunks), `Known` (what was read
was in the file at its place when it was read, and is of one content where saves replace
the file) and `Calm` (while there has been one content only, hash, size, handles and
chunks agree, and the chunks so far are a prefix). `Same` makes `Calm` void at the first
save, so that `SaveInv` is short; `GoodVersion` is what remains of `Stored`, `Known` and
`Calm` when the publish ends. Blobs only grow, and therefore a step of one publisher
never disturbs another (`OtherGood`).

The refinement rests on `IInv` and on `Unlisted`: a publish that has not ended has listed
nothing. `StepFacts` says what all its steps have in common: it goes on and changes no
version and no result, or it ends, and only from `register` with a version. Going on is
invisible (`WorkHidden`), because what versions give survives more blobs (`GivesKept`);
an end is `List` or `GiveUp` (`EndsStore`), where `GoodVersion` gives the content that
`List` chooses.

`AddonProofs`, for any libraries, contents, files, notifications, dialogs and sizes of
chunks:

- `LoadedAlwaysTagged`. What the fetching thread took along is old when the poll uses
  it. `FetchFits` says why it is right all the same: the poll replaces only paths that are
  still the stored ones, by the same content's file in this machine's folder of the same
  name. A library that was updated meanwhile has another path and is left alone.
- `BarAlwaysOfThisFile`. `Fresh`: a refresh that still has its poll, or has not
  delivered, began in the file that is open; opening a file drops polls.
- `VisibleAlwaysPumped`. `QtInv`: the handle tells whether Blender has the timer, a
  retained dialog keeps both, and outside `processEvents` the timer has a retained dialog.
- `ChunksAlwaysTile`, wherever segments and anchors fall. `ChunksTile` is inductive
  with the types; the work is in `CutFacts` (a cut is positive, within the buffer, not
  below the minimum unless the buffer is, and passes over no forced cut that is not
  below the minimum) and `PieceTiles` (a piece put at the offset keeps the tiling).

`ReviewProofs`, for any tasks, notes, scenes, submissions and requests:

- `WindowsAlwaysAgree`. `LastLoad`: there is one request that counts, made for the
  task selected now. `TaskHeld`: from the click to the end of a submission no list of
  tasks that counts is on its way, unless one was at the click (`raced`), because the box
  is disabled; hence both events of the submission see the same task.
- `TicksAlwaysLostWhenFixed`. `GoodJob`: what a job has sent is among its notes and is
  fixed; `JobChanges` covers every step of a job at once.
- `NotesAlwaysOfTheirTask`. `NotesAreOfTheirTask` is inductive as it stands.

`DesktopProofs` proves the properties of run `desktop` that are about several parts, of
the specification that run checks, `MCDesktop!Spec`, for any values of its constants:
`DesktopTypesOK`, `WindowsAlwaysTellTruth`, `ListsAlwaysAgree`,
`ClicksAlwaysAskForOneThing`. A step of the whole is, for each part, one of its steps or
a stutter (`StepsOfParts`); hence the conjunction of the parts' invariants,
`DesktopInv`, is inductive. Those of the parts in `AddonProofs` and `ReviewProofs` are
taken from there. The others:

- `ListsInv` (`DataCache`). `RefreshIsFresh` speaks of lists that are cached; a list in
  a thread's hands becomes one. `FetchedIsFresh`: it is newer than the last `clear()` as
  well, unless a list of that name had been fetched and not stored when that ran
  (`racing`).
- `BoxesInv` (`Dialogs`). Answers carry no number, so one may arrive for what was typed
  before. `AnswersFit`: the answer to a runner's last request (`Awaited`) is for what the
  box says by now. `BoxesSettled`: where that has come and no older one or a failure since
  (`astray`), the box is right; tasks follow the project typed once the palette has learnt
  of its state. `AskedFacts` and `AnsweredFacts` say what a request and its answer do to
  what is in flight.
- `PickerInv` (`EntityPicker`). `BoxesListed`: the boxes hold a version of the selected
  asset's groups, and in the Navigator the three name one group. The boxes are rebuilt one
  from another, so the lemmas follow that order: `StageBoxTyped`, `VersionBoxListed`,
  `RepBoxListed`, `RebuiltVersions`.
- `UiInv` (`UiService`): a hint with a file is a DCC's, and a request is its click's hint.
- `ChecksInv` (`SubmitChecks`): the button is not Render while a submission runs, and
  frames cannot be chosen for a studio that does not take them. Each handler either
  brings the button up to date (`RenderedInv`) or leaves what it depends on
  (`ButtonLeftInv`).
- `WindowTypesInv`, `SharedInv`: what the types need beside the invariants of
  `ReviewProofs`, with "at most one" stated without counting (`AtMostOne`).

Every safety property of a run that passes is stated by a theorem, invariants and action
properties alike. Only model-checked is liveness, which is out of the prover's reach, as is
ENABLED: `CallsEnd`, `ClientsServed`, `PublishesEnd`, `DrainsThenStops`,
`EveryClickReports`, `WorkEnds`. `SerialSingleHub`, `GuiWorkHasTimer` and `VersionsAsRead`
are proved and not run: `PublishIsAtomic` implies the last, and runs that expect a violation
show why the others have their conditions.

## 6. Open ends

What would come next: review windows, submissions and notes in one specification, instead
of each with the other's steps as its environment; then two Blender sessions of one artist.

Not modelled, and why:

- The canonicalizers (`blender/canonicalize.py`, `maya/canonicalize.py`,
  `usd/canonicalize.py`): byte formats. `Publisher` has what publishing needs of them, a
  canonical form per file that may share chunks with it.
- The API client's thin calls (one request, one answer): each is part of the action that
  makes it; the files that `get_blob` writes are in `ManifestCache`.
- Launch context, menus, preferences, the drawing of overlays: functions of their
  arguments, or layout. `QtRuntime` has the install thread, without pip.
- Diagnostics: text. The Maya plug-in's menu: each entry starts what is modelled for the
  hub. Layout of every window.
- The API server and its database are outside this repository and modelled where they
  are called.

## 7. Mutants

Definitions whose comment begins with "Mutated form of" are plausible faulty
versions of the definition they precede. They take no part in any
specification; `PROJECT.json` names the property each one violates.
