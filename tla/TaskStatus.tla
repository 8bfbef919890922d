----------------------------- MODULE TaskStatus -----------------------------
(***************************************************************************)
(* The Zeno status in Blender's top bar: a thread fetches the task and its *)
(* unread notifications every 90 seconds, a timer stores them, and marking *)
(* a notification read counts it down at once, before the server knows     *)
(* (task_status.py).                                                       *)
(*                                                                         *)
(* Left out: what the bar says of the task, whose parts are stored         *)
(* together, and the redraw.  An answer of the inbox has at most           *)
(* InboxLimit items but the whole count.                                   *)
(***************************************************************************)
EXTENDS Naturals, FiniteSets

CONSTANTS Notices, InboxLimit,
          MaxPolls,  \* bound: refreshes whose result is not stored yet
          MaxLoads   \* bound: files opened

ASSUME TaskStatusAssumption ==
    /\ IsFiniteSet(Notices)
    /\ {InboxLimit, MaxPolls, MaxLoads} \subseteq Nat

VARIABLES arrived, unread,  \* at the server
          hasTask,          \* the open file's scene resolves to a task
          bar,              \* status: [known, items, unread]
          fetches,          \* refresh: threads and the results polls wait for
          marks,            \* notifications a thread is marking read
          started,          \* the timer that refreshes after a load is registered
          opened,           \* files opened so far
          preferred         \* the preference show_status_line

statusVars == <<arrived, unread, hasTask, bar, fetches, marks, started, opened, preferred>>

Empty == [known |-> FALSE, items |-> {}, unread |-> 0]
Bar == [known : BOOLEAN, items : SUBSET Notices, unread : 0..Cardinality(Notices)]

\* file: how many files had been opened when the refresh began.
Fetch == [at : {"running", "fetched", "failed"}, polled : BOOLEAN, hasTask : BOOLEAN,
          file : 0..MaxLoads, result : Bar]

StatusTypeOK ==
    /\ unread \subseteq arrived /\ arrived \subseteq Notices
    /\ hasTask \in BOOLEAN /\ started \in BOOLEAN /\ preferred \in BOOLEAN
    /\ bar \in Bar
    /\ fetches \subseteq Fetch
    /\ marks \subseteq Notices
    /\ opened \in 0..MaxLoads

StatusInit ==
    /\ arrived = {} /\ unread = {} /\ marks = {}
    /\ hasTask \in BOOLEAN /\ preferred \in BOOLEAN /\ bar = Empty
    /\ fetches = {} /\ started = FALSE /\ opened = 0

Alive == \E r \in fetches : r.at = "running"

-----------------------------------------------------------------------------

\* Somebody reviews the artist's work.
Notify(n) ==
    /\ n \notin arrived
    /\ arrived' = arrived \union {n} /\ unread' = unread \union {n}
    /\ UNCHANGED <<hasTask, bar, fetches, marks, started, opened, preferred>>

\* refresh, which does nothing while the last thread lives.
RefreshStatus ==
    fetches' = IF Alive \/ Cardinality(fetches) >= MaxPolls THEN fetches
               ELSE fetches \union {[at |-> "running", polled |-> TRUE, hasTask |-> hasTask,
                                     file |-> opened, result |-> Empty]}

\* Without it the bar is not drawn, nor refreshed by the clock.
ShowStatusLine ==
    /\ preferred' = ~preferred
    /\ UNCHANGED <<arrived, unread, hasTask, bar, fetches, marks, started, opened>>

\* Every 90 seconds and after a submission or a new task in the notes window.
TickStatus ==
    /\ preferred /\ ~Alive
    /\ RefreshStatus
    /\ UNCHANGED <<arrived, unread, hasTask, bar, marks, started, opened, preferred>>

RefreshAfterLoad ==
    /\ started
    /\ started' = FALSE
    /\ RefreshStatus
    /\ UNCHANGED <<arrived, unread, hasTask, bar, marks, opened, preferred>>

\* Without a task the inbox is not asked for.  A thread whose poll was dropped
\* leaves nothing.
Answers(r, at, result) ==
    /\ r.at = "running"
    /\ fetches' = (fetches \ {r}) \union IF r.polled THEN {[r EXCEPT !.at = at, !.result = result]} ELSE {}
    /\ UNCHANGED <<arrived, unread, hasTask, bar, marks, started, opened, preferred>>

FetchStatus ==
    \E r \in fetches : \E items \in SUBSET unread :
        /\ \/ items = unread /\ Cardinality(unread) <= InboxLimit
           \/ Cardinality(unread) > InboxLimit /\ Cardinality(items) = InboxLimit
        /\ Answers(r, "fetched",
                   IF r.hasTask
                   THEN [known |-> TRUE, items |-> items, unread |-> Cardinality(unread)]
                   ELSE Empty)

\* Before the tasks came, or after: then the rest is stored as empty.
FetchFails ==
    \E r \in fetches :
        \/ Answers(r, "failed", Empty)
        \/ Answers(r, "fetched", [Empty EXCEPT !.known = r.hasTask])

\* The poll waits for the last thread; results may be stored out of order.
PollStatus ==
    \E r \in fetches :
        /\ r.at # "running" /\ ~Alive
        /\ bar' = IF r.at = "failed" THEN bar ELSE r.result
        /\ fetches' = fetches \ {r}
        /\ UNCHANGED <<arrived, unread, hasTask, marks, started, opened, preferred>>

LastPoll == PollStatus /\ fetches' = {}

-----------------------------------------------------------------------------

\* _mark_read_async, and "Mark all read", which sets the count to zero although
\* the inbox may hold more than the items it listed.
CountDown(n, m) == IF m > n THEN 0 ELSE n - m

MarkRead(ids, all) ==
    /\ ids # {} /\ ids \subseteq bar.items
    /\ marks' = marks \union ids
    /\ bar' = [bar EXCEPT !.items = @ \ ids, !.unread = IF all THEN 0 ELSE CountDown(@, Cardinality(ids))]
    /\ UNCHANGED <<arrived, unread, hasTask, fetches, started, opened, preferred>>

OpenNotification(n) == MarkRead({n}, FALSE)
MarkAllRead == MarkRead(bar.items, TRUE)

\* The thread's request, which may fail: nobody tries again.
MarkEnds ==
    \E n \in marks :
        /\ marks' = marks \ {n}
        /\ unread' \in {unread, unread \ {n}}
        /\ UNCHANGED <<arrived, hasTask, bar, fetches, started, opened, preferred>>

\* Mutated form of DropPolls: the polls survive the load.
KeepPolls == fetches

\* The polls are not persistent.
DropPolls == {[r EXCEPT !.polled = FALSE] : r \in {q \in fetches : q.at = "running"}}

\* Blender drops the polls, _on_load empties the bar.
LoadStatus ==
    /\ opened < MaxLoads
    /\ opened' = opened + 1
    /\ hasTask' \in BOOLEAN
    /\ bar' = Empty
    /\ fetches' = DropPolls
    /\ started' = TRUE
    /\ UNCHANGED <<arrived, unread, marks, preferred>>

StatusNext ==
    \/ \E n \in Notices : Notify(n) \/ OpenNotification(n)
    \/ MarkAllRead \/ MarkEnds
    \/ ShowStatusLine \/ TickStatus \/ RefreshAfterLoad \/ LoadStatus
    \/ FetchStatus \/ FetchFails \/ PollStatus

\* Threads and timers run, the polls in the 90 seconds between two ticks; the
\* server answers now and then.
StatusFairness ==
    /\ WF_statusVars(TickStatus) /\ WF_statusVars(RefreshAfterLoad)
    /\ WF_statusVars(FetchStatus \/ FetchFails) /\ SF_statusVars(FetchStatus)
    /\ WF_statusVars(PollStatus) /\ SF_statusVars(LastPoll) /\ WF_statusVars(MarkEnds)

StatusSpec == StatusInit /\ [][StatusNext]_statusVars

-----------------------------------------------------------------------------

(***************************************************************************)
(* What a refresh stores was fetched for the file that is open: an answer  *)
(* about the task of a file opened before does not come back to the bar.   *)
(* (A file without a task shows the one that Blender was launched for.)    *)
(***************************************************************************)
BarIsOfThisFile ==
    [][ bar'.known /\ bar' # bar => \A r \in fetches \ fetches' : r.file = opened ]_statusVars

(***************************************************************************)
(* The count drawn in the bar becomes the server's, however refreshes that *)
(* were in flight, answers stored out of order and requests that fail undo *)
(* or belie the count shown at once.                                       *)
(***************************************************************************)
UnreadSettles ==
    []<>(preferred => bar.unread = IF hasTask THEN Cardinality(unread) ELSE 0)
=============================================================================
