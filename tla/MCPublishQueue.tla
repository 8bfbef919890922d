--------------------------- MODULE MCPublishQueue ---------------------------
(***************************************************************************)
(* PublishQueue for TLC: one dialog publishes, one with a worker or the    *)
(* Publisher dialog, while the GUI queues a closure of its own; or there   *)
(* is no dialog, and workers and the GUI queue closures.  With two dialogs *)
(* the one reads what the other has written.                               *)
(***************************************************************************)
EXTENDS PublishQueue

CONSTANTS p1, p2, g1, g2, g3, w1, w2

VARIABLE user  \* the thread of the dialog, or None

OneDialog == \A t \in Threads : dialog'[t] # "idle" => t = user

\* Bound: beside a worker's dialog nothing else is queued, beside the Publisher
\* dialog the GUI queues one closure.
OneOther ==
    user # None =>
        /\ \A w \in Workers : at[w] = "idle" /\ at'[w] # "idle" => dialog'[w] = "wait"
        /\ \A i \in DOMAIN queue' : queue'[i] \in Publishes \union (IF user = Main THEN {g1} ELSE {})

MCInit == Init /\ user \in Threads \union {None} /\ (user = None => ~session)

MCSpec ==
    /\ MCInit
    /\ [][Next /\ OneDialog /\ OneOther /\ UNCHANGED user]_<<vars, user>>

MCFairSpec == MCSpec /\ Fairness
=============================================================================
