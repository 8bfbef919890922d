---------------------------- MODULE VersionStore ----------------------------
(***************************************************************************)
(* What publishing promises, without blobs, chunks and manifests: between  *)
(* its beginning and its end a publish lists at most one version, in one   *)
(* step, which is the file as it can be read meanwhile: the file of one    *)
(* moment, or, if saves overwrite it, a mixture of its contents; or, if    *)
(* the file was saved, a version that cannot be loaded.  What loading a    *)
(* version gives never changes afterwards.                                 *)
(***************************************************************************)
EXTENDS FileReads

CONSTANTS Procs, Files,
          None  \* loading fails

VARIABLES file,     \* the content of the file on disk
          inPlace,  \* saves overwrite the file instead of replacing it
          busy,     \* who is publishing
          seen,     \* the contents of the file during each (last) publish
          gives,    \* what loading its version gives, {} if it listed none
          outcome   \* how it ended

vars == <<file, inPlace, busy, seen, gives, outcome>>

Init == /\ file \in Files
        /\ inPlace \in BOOLEAN
        /\ busy = {}
        /\ seen = [p \in Procs |-> {}]
        /\ gives = [p \in Procs |-> {}]
        /\ outcome = [p \in Procs |-> "none"]

Save == /\ file' \in Files
        /\ seen' = [p \in Procs |-> IF p \in busy THEN seen[p] \union {file'} ELSE seen[p]]
        /\ UNCHANGED <<inPlace, busy, gives, outcome>>

Begin(p) == /\ p \notin busy
            /\ busy' = busy \union {p}
            /\ seen' = [seen EXCEPT ![p] = {file}]
            /\ gives' = [gives EXCEPT ![p] = {}]
            /\ outcome' = [outcome EXCEPT ![p] = "none"]
            /\ UNCHANGED <<file, inPlace>>

Saved(p) == \E f, g \in seen[p] : f # g

End(p, how) == /\ p \in busy
               /\ busy' = busy \ {p}
               /\ outcome' = [outcome EXCEPT ![p] = how]
               /\ UNCHANGED <<file, inPlace, seen>>

\* The version is listed, also if the publisher does not hear of it.
List(p) == /\ gives[p] = {}
           /\ \E content \in ReadsOf(inPlace, seen[p]) \union (IF Saved(p) THEN {None} ELSE {}) :
                  gives' = [gives EXCEPT ![p] = {content}]
           /\ \E how \in {"ok", "error"} : End(p, how)

GiveUp(p) == /\ \E how \in {"error", "none"} : End(p, how)
             /\ UNCHANGED gives

Next == Save \/ \E p \in Procs : Begin(p) \/ List(p) \/ GiveUp(p)

Spec == Init /\ [][Next]_vars
=============================================================================
