--------------------------- MODULE ContentStore ----------------------------
(***************************************************************************)
(* What the local cache promises its callers, without lock, index or       *)
(* temporary files: a call asks for one path; it returns that path only    *)
(* if the file was in the store at some moment of the call; nothing but    *)
(* the call that asked for a path puts it into the store; and a call drops *)
(* files only once its own is settled, never one with the content it was   *)
(* asked for.                                                              *)
(***************************************************************************)
CONSTANTS Procs, Paths, None

VARIABLES avail,    \* paths whose verified file is in the store
          asked,    \* the path each caller waits for, or None
          seen,     \* the callers whose path was in the store during the call
          outcome   \* how the last call ended

vars == <<avail, asked, seen, outcome>>

Init == /\ avail = {}
        /\ asked = [p \in Procs |-> None]
        /\ seen = {}
        /\ outcome = [p \in Procs |-> "none"]

Ask(p, x) == /\ asked[p] = None
             /\ asked' = [asked EXCEPT ![p] = x]
             /\ outcome' = [outcome EXCEPT ![p] = "none"]
             /\ UNCHANGED <<avail, seen>>

See(p) == /\ asked[p] \in avail
          /\ seen' = seen \union {p}
          /\ UNCHANGED <<avail, asked, outcome>>

Materialise(p) == /\ asked[p] \in Paths
                  /\ avail' = avail \union {asked[p]}
                  /\ seen' = seen \union {p}
                  /\ UNCHANGED <<asked, outcome>>

Drop(p, x) == /\ p \in seen
              /\ asked[p] \in Paths /\ x.cid # asked[p].cid
              /\ avail' = avail \ {x}
              /\ UNCHANGED <<asked, seen, outcome>>

End(p, how) == /\ asked[p] # None
               /\ how = "ok" => p \in seen
               /\ asked' = [asked EXCEPT ![p] = None]
               /\ seen' = seen \ {p}
               /\ outcome' = [outcome EXCEPT ![p] = how]
               /\ UNCHANGED avail

Next == \E p \in Procs :
           \/ \E x \in Paths : Ask(p, x) \/ Drop(p, x)
           \/ See(p)
           \/ Materialise(p)
           \/ \E how \in {"ok", "error", "none"} : End(p, how)

Spec == Init /\ [][Next]_vars
=============================================================================
