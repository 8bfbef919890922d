---------------------------- MODULE DesktopProofs ----------------------------
(***************************************************************************)
(* What TLAPS proves of the add-on's windows and background work together: *)
(* the invariants of the parts that AddonProofs and ReviewProofs leave     *)
(* out, and, for the composition of MCDesktop, the four properties its     *)
(* run checks that several parts share.  Any lists, projects, requests,    *)
(* catalogs, DCCs, clicks, scenes and contexts.                            *)
(***************************************************************************)
EXTENDS MCDesktop, AddonProofs, ReviewProofs

-----------------------------------------------------------------------------
\* DataCache

(***************************************************************************)
(* A list fetched and not stored is newer than the last clear() too, unless*)
(* that met one fetched.                                                   *)
(***************************************************************************)
FetchedIsFresh ==
    \A g \in Getters :
        gets[g].at = "fetched" /\ gets[g].list \in Versions /\ gets[g].name \notin racing
            => gets[g].list >= cleared[gets[g].name]

ListsInv ==
    /\ ListsTypeOK /\ RefreshIsFresh /\ FetchedIsFresh
    /\ \A n \in ListNames : cleared[n] <= server[n]

LEMMA IdleTyped ==
    /\ Idle.at = "idle" /\ Idle.name \in ListNames /\ Idle.list = Failed
    /\ Idle \in [at : {"idle", "asked", "fetched"}, name : ListNames,
                 list : Versions \union {Failed}]
BY DataCacheAssumption DEF Idle

LEMMA ListsInitInv == ListsInit => ListsInv
<1> SUFFICES ASSUME ListsInit PROVE ListsInv
    OBVIOUS
<1>1. 0 \in Versions /\ NoList \notin Versions
    BY DataCacheAssumption DEF Versions
<1>2. ListsTypeOK
    BY <1>1, IdleTyped DEF ListsInit, ListsTypeOK
<1>3. RefreshIsFresh /\ FetchedIsFresh /\ \A n \in ListNames : cleared[n] <= server[n]
    BY <1>1, IdleTyped DEF ListsInit, RefreshIsFresh, FetchedIsFresh
<1> QED  BY <1>2, <1>3 DEF ListsInv

LEMMA ListsNextInv == ListsInv /\ [ListsNext]_listsVars => ListsInv'
<1> SUFFICES ASSUME ListsInv, [ListsNext]_listsVars PROVE ListsInv'
    OBVIOUS
<1> USE DEF ListsInv, ListsTypeOK, RefreshIsFresh, FetchedIsFresh
<1>0. Versions \subseteq Nat /\ MaxEdits \in Nat /\ {Failed, NoList} \cap Versions = {}
    BY DataCacheAssumption DEF Versions
<1>1. ASSUME NEW n \in ListNames, EditList(n) PROVE ListsInv'
    <2>1. server[n] + 1 \in Versions
        BY <1>0, <1>1 DEF EditList, Versions
    <2>2. server' \in [ListNames -> Versions] /\ \A m \in ListNames : server[m] <= server'[m]
        BY <1>0, <1>1, <2>1 DEF EditList
    <2>3. \A m \in ListNames : cleared[m] <= server'[m]
        BY <1>0, <2>2
    <2> QED  BY <1>1, <2>2, <2>3 DEF EditList
<1>2. ASSUME NEW g \in Getters, NEW n \in ListNames, GetList(g, n) PROVE ListsInv'
    BY <1>2, IdleTyped DEF GetList
<1>3. ASSUME NEW g \in Getters, GetCached(g) PROVE ListsInv'
    BY <1>3, IdleTyped DEF GetCached
<1>4. ASSUME NEW g \in Getters, FetchList(g) PROVE ListsInv'
    <2>1. PICK list \in {server[gets[g].name], Failed} :
              gets' = [gets EXCEPT ![g].at = "fetched", ![g].list = list]
        BY <1>4 DEF FetchList
    <2>2. gets[g].name \in ListNames /\ server[gets[g].name] \in Versions
        OBVIOUS
    <2>3. /\ gets'[g].at = "fetched" /\ gets'[g].list = list /\ gets'[g].name = gets[g].name
          /\ \A h \in Getters \ {g} : gets'[h] = gets[h]
        BY <2>1
    <2>4. gets' \in [Getters -> [at : {"idle", "asked", "fetched"}, name : ListNames,
                                list : Versions \union {Failed}]]
        <3>1. [gets[g] EXCEPT !.at = "fetched", !.list = list]
                  \in [at : {"idle", "asked", "fetched"}, name : ListNames,
                      list : Versions \union {Failed}]
            BY <2>2
        <3> QED  BY <2>1, <3>1
    <2>5. list \in Versions => list >= cleared[gets[g].name]
        BY <1>0, <2>2
    <2> QED  BY <1>4, <2>3, <2>4, <2>5 DEF FetchList
<1>5. ASSUME NEW g \in Getters, StoreList(g) PROVE ListsInv'
    BY <1>0, <1>5, IdleTyped DEF StoreList
<1>6. CASE ClearLists
    <2>1. racing' \subseteq ListNames
        BY <1>6 DEF ClearLists
    <2>2. \A g \in Getters : gets[g].at = "fetched" => gets[g].name \in racing'
        BY <1>6 DEF ClearLists
    <2>3. cleared' = server /\ UNCHANGED <<server, gets>> /\ \A n \in ListNames : cached'[n] = NoList
        BY <1>6 DEF ClearLists, Emptied
    <2>4. ListsTypeOK'
        BY <1>6, <2>1, <2>3 DEF ClearLists, Emptied
    <2>5. RefreshIsFresh' /\ FetchedIsFresh'
        BY <1>0, <2>2, <2>3
    <2>6. \A n \in ListNames : server[n] <= server[n]
        BY <1>0
    <2> QED  BY <2>3, <2>4, <2>5, <2>6
<1>7. CASE UNCHANGED listsVars
    BY <1>7 DEF listsVars
<1> QED  BY <1>1, <1>2, <1>3, <1>4, <1>5, <1>6, <1>7 DEF ListsNext

-----------------------------------------------------------------------------
\* Dialogs

\* The last request of a runner, as long as it is in flight.
Awaited(d) == {r \in InFlight(d) : ~r.old}

(***************************************************************************)
(* The answer to a runner's last request is for what the box names by now. *)
(***************************************************************************)
AnswersFit ==
    /\ \A r \in Awaited("assets") : r.project = nav.project
    /\ pal.due \/ \A r \in Awaited("state") : r.project = pal.typed
    /\ \A r \in Awaited("tasks") : r.project = pal.tasksFor

\* The Palette is going to learn of the project typed.
StateDue == pal.due \/ Awaited("state") # {}

(***************************************************************************)
(* Where it has come, and no older one or a failure since, the box is      *)
(* right, whatever old requests are still in flight.                       *)
(***************************************************************************)
BoxesSettled ==
    /\ nav.list \in {nav.project, NoProject} \/ "assets" \in astray
    /\ StateDue \/ "state" \in astray \/ pal.state = pal.typed
    /\ StateDue \/ "state" \in astray \/ pal.typed = NoProject \/ pal.tasksFor = pal.typed
    /\ Awaited("tasks") # {} \/ "tasks" \in astray \/ pal.tasks = pal.tasksFor

BoxesInv == DialogsTypeOK /\ AnswersFit /\ BoxesSettled

LEMMA BoxesInvAgrees == BoxesInv => BoxesAgree
BY DEF BoxesInv, BoxesSettled, StateDue, Awaited, BoxesAgree

LEMMA DialogsInitInv == DialogsInit => BoxesInv
<1> SUFFICES ASSUME DialogsInit PROVE BoxesInv
    OBVIOUS
<1>1. DialogsTypeOK
    BY DEF DialogsInit, DialogsTypeOK, AnyProject, Palette
<1>2. \A d : Awaited(d) = {}
    BY DEF DialogsInit, InFlight, Awaited
<1>3. AnswersFit /\ BoxesSettled
    BY <1>2 DEF DialogsInit, AnswersFit, BoxesSettled, StateDue
<1> QED  BY <1>1, <1>3 DEF BoxesInv

\* The requests of a set that are d's and not old.
AwaitedIn(d, reqs) == {r \in reqs : r.by = d /\ ~r.old}

LEMMA AwaitedInFlight == \A d : Awaited(d) = AwaitedIn(d, requests) /\ Awaited(d)' = AwaitedIn(d, requests')
BY DEF Awaited, AwaitedIn, InFlight

\* A new request makes those before it old.
LEMMA SupersededFacts ==
    ASSUME DialogsTypeOK, NEW d \in Runners, NEW reqs \in SUBSET requests
    PROVE  /\ Superseded(d, reqs) \subseteq [by : Runners, project : AnyProject, old : BOOLEAN]
           /\ AwaitedIn(d, Superseded(d, reqs)) = {}
           /\ \A e \in Runners \ {d} : AwaitedIn(e, Superseded(d, reqs)) = AwaitedIn(e, reqs)
<1>1. ASSUME NEW r \in reqs
      PROVE  LET q == IF r.by = d THEN [r EXCEPT !.old = TRUE] ELSE r IN
             /\ q \in [by : Runners, project : AnyProject, old : BOOLEAN]
             /\ q.by = r.by /\ (r.by = d => q.old) /\ (r.by # d => q = r)
    <2>1. r \in [by : Runners, project : AnyProject, old : BOOLEAN]
        BY DEF DialogsTypeOK
    <2> QED  BY <2>1
<1>2. Superseded(d, reqs) \subseteq [by : Runners, project : AnyProject, old : BOOLEAN]
    <2> SUFFICES ASSUME NEW q \in Superseded(d, reqs)
                 PROVE  q \in [by : Runners, project : AnyProject, old : BOOLEAN]
        OBVIOUS
    <2>1. PICK r \in reqs : q = IF r.by = d THEN [r EXCEPT !.old = TRUE] ELSE r
        BY DEF Superseded
    <2>2. r \in [by : Runners, project : AnyProject, old : BOOLEAN]
        BY DEF DialogsTypeOK
    <2>3. CASE r.by = d
        BY <2>1, <2>2, <2>3
    <2>4. CASE r.by # d
        BY <2>1, <2>2, <2>4
    <2> QED  BY <2>3, <2>4
<1>3. AwaitedIn(d, Superseded(d, reqs)) = {}
    BY <1>1 DEF Superseded, AwaitedIn
<1>4. \A e \in Runners \ {d} : AwaitedIn(e, Superseded(d, reqs)) = AwaitedIn(e, reqs)
    BY <1>1 DEF Superseded, AwaitedIn
<1> QED  BY <1>2, <1>3, <1>4

LEMMA AskedFacts ==
    ASSUME DialogsTypeOK, NEW d \in Runners, NEW p \in AnyProject, NEW reqs \in SUBSET requests,
           requests' = AskedWith(d, p, reqs)
    PROVE  /\ requests' \subseteq [by : Runners, project : AnyProject, old : BOOLEAN]
           /\ Awaited(d)' = {[by |-> d, project |-> p, old |-> FALSE]}
           /\ \A e \in Runners \ {d} : Awaited(e)' = AwaitedIn(e, reqs)
<1> DEFINE r == [by |-> d, project |-> p, old |-> FALSE]
<1>1. r \in [by : Runners, project : AnyProject, old : BOOLEAN] /\ r.by = d /\ ~r.old
    OBVIOUS
<1>2. requests' = Superseded(d, reqs) \union {r}
    BY DEF AskedWith
<1> HIDE DEF r
<1>3. \A e : Awaited(e)' = AwaitedIn(e, Superseded(d, reqs)) \union AwaitedIn(e, {r})
    BY <1>2, AwaitedInFlight DEF AwaitedIn
<1>4. AwaitedIn(d, {r}) = {r} /\ \A e \in Runners \ {d} : AwaitedIn(e, {r}) = {}
    BY <1>1 DEF AwaitedIn
<1>5. Awaited(d)' = {r} /\ \A e \in Runners \ {d} : Awaited(e)' = AwaitedIn(e, reqs)
    <2>1. Awaited(d)' = {} \union {r}
        BY <1>3, <1>4, SupersededFacts
    <2>2. ASSUME NEW e \in Runners \ {d} PROVE Awaited(e)' = AwaitedIn(e, reqs)
        <3>1. Awaited(e)' = AwaitedIn(e, Superseded(d, reqs)) \union AwaitedIn(e, {r})
            BY <1>3
        <3>2. AwaitedIn(e, Superseded(d, reqs)) = AwaitedIn(e, reqs)
            BY SupersededFacts
        <3>3. AwaitedIn(e, {r}) = {}
            BY <1>4
        <3> QED  BY <3>1, <3>2, <3>3
    <2> QED  BY <2>1, <2>2
<1>6. requests' \subseteq [by : Runners, project : AnyProject, old : BOOLEAN]
    BY <1>1, <1>2, SupersededFacts
<1> QED  BY <1>5, <1>6 DEF r

\* A request of runner d, and no other, as Asks does.
LEMMA AsksFacts ==
    ASSUME DialogsTypeOK, NEW d \in Runners, NEW p \in AnyProject, Asks(d, p)
    PROVE  /\ requests' \subseteq [by : Runners, project : AnyProject, old : BOOLEAN]
           /\ Awaited(d)' = {[by |-> d, project |-> p, old |-> FALSE]}
           /\ \A e \in Runners \ {d} : Awaited(e)' = Awaited(e)
BY AskedFacts, AwaitedInFlight DEF Asks

\* An answer, or a failure, takes its request away and no other.
LEMMA AnsweredFacts ==
    ASSUME DialogsTypeOK, NEW r \in requests, requests' = requests \ {r}
    PROVE  /\ requests' \subseteq [by : Runners, project : AnyProject, old : BOOLEAN]
           /\ r.by \in Runners /\ r.project \in AnyProject
           /\ \A e \in Runners : Awaited(e)' = Awaited(e) \ {r}
           /\ \A e \in Runners \ {r.by} : Awaited(e)' = Awaited(e)
           /\ ~r.old => r \in Awaited(r.by)
           /\ r.old => Awaited(r.by)' = Awaited(r.by)
BY DEF DialogsTypeOK, InFlight, Awaited

LEMMA DialogsNextInv == BoxesInv /\ [DialogsNext]_dialogVars => BoxesInv'
<1> SUFFICES ASSUME BoxesInv, [DialogsNext]_dialogVars PROVE BoxesInv'
    OBVIOUS
<1> USE DEF BoxesInv
<1>0. /\ DialogsTypeOK /\ {"assets", "state", "tasks"} = Runners
      /\ NoProject \in AnyProject /\ Projects \subseteq AnyProject
    BY DEF Runners, AnyProject
<1>1. ASSUME NEW p \in Projects, OnProjectChanged(p) PROVE BoxesInv'
    <2>1. Asks("assets", p) /\ nav' = [project |-> p, list |-> NoProject] /\ UNCHANGED <<pal, busy, astray>>
        BY <1>1 DEF OnProjectChanged
    <2>2. DialogsTypeOK'
        BY <1>0, <2>1, AsksFacts DEF DialogsTypeOK
    <2>3. /\ \A r \in Awaited("assets")' : r.project = p
          /\ Awaited("state")' = Awaited("state") /\ Awaited("tasks")' = Awaited("tasks")
        BY <1>0, <2>1, AsksFacts
    <2> QED  BY <1>0, <2>1, <2>2, <2>3 DEF BoxesSettled, StateDue, AnswersFit
<1>2. CASE NoProjects
    <2>1. /\ requests' = Superseded("assets", requests) /\ UNCHANGED <<pal, busy, astray>>
          /\ nav' = [project |-> NoProject, list |-> NoProject]
        BY <1>2 DEF NoProjects
    <2>2. /\ requests' \subseteq [by : Runners, project : AnyProject, old : BOOLEAN]
          /\ Awaited("assets")' = {}
          /\ Awaited("state")' = Awaited("state") /\ Awaited("tasks")' = Awaited("tasks")
        BY <1>0, <2>1, SupersededFacts, AwaitedInFlight
    <2>3. DialogsTypeOK'
        BY <1>0, <2>1, <2>2 DEF DialogsTypeOK
    <2> QED  BY <1>0, <2>1, <2>2, <2>3 DEF BoxesSettled, StateDue, AnswersFit
<1>3. ASSUME NEW p \in AnyProject, TypeProject(p) PROVE BoxesInv'
    <2>1. UNCHANGED <<requests, nav, busy, astray>> /\ pal' = [pal EXCEPT !.typed = p, !.due = TRUE]
        BY <1>3 DEF TypeProject
    <2>2. \A d \in Runners : Awaited(d)' = Awaited(d)
        BY <2>1 DEF Awaited, InFlight
    <2>3. /\ pal' \in Palette /\ pal'.due /\ pal'.tasks = pal.tasks /\ pal'.tasksFor = pal.tasksFor
        BY <2>1 DEF DialogsTypeOK, Palette
    <2>4. DialogsTypeOK'
        BY <2>1, <2>3 DEF DialogsTypeOK
    <2> QED  BY <1>0, <2>1, <2>2, <2>3, <2>4 DEF BoxesSettled, StateDue, AnswersFit
<1>4. CASE DebouncedRefresh
    <2>1. Asks("state", pal.typed) /\ UNCHANGED <<nav, busy, astray>> /\ pal' = [pal EXCEPT !.due = FALSE]
        BY <1>4 DEF DebouncedRefresh
    <2>2. /\ pal' \in Palette /\ pal'.typed = pal.typed /\ pal'.tasks = pal.tasks
          /\ pal'.tasksFor = pal.tasksFor /\ pal.typed \in AnyProject
        BY <2>1 DEF DialogsTypeOK, Palette
    <2>3. DialogsTypeOK'
        BY <1>0, <2>1, <2>2, AsksFacts DEF DialogsTypeOK
    <2>4. /\ Awaited("state")' = {[by |-> "state", project |-> pal.typed, old |-> FALSE]}
          /\ Awaited("assets")' = Awaited("assets") /\ Awaited("tasks")' = Awaited("tasks")
        BY <1>0, <2>1, <2>2, AsksFacts
    <2>6. AnswersFit'
        BY <2>1, <2>2, <2>3, <2>4 DEF AnswersFit
    <2>7. Awaited("state")' # {}
        BY <2>4
    <2>8. BoxesSettled'
        BY <2>1, <2>2, <2>3, <2>4, <2>7 DEF BoxesSettled, StateDue
    <2> QED  BY <2>3, <2>6, <2>8
<1>5. CASE PaletteReload
    <2>1. PICK p \in AnyProject : pal' = [pal EXCEPT !.typed = p] /\ Asks("state", p)
        BY <1>5 DEF PaletteReload, DialogsTypeOK, Palette
    <2>2. UNCHANGED <<nav, busy, astray>>
        BY <1>5 DEF PaletteReload
    <2>3. /\ pal' \in Palette /\ pal'.typed = p /\ pal'.due = pal.due /\ pal'.tasks = pal.tasks
          /\ pal'.tasksFor = pal.tasksFor
        BY <2>1 DEF DialogsTypeOK, Palette
    <2>4. DialogsTypeOK'
        BY <1>0, <2>1, <2>2, <2>3, AsksFacts DEF DialogsTypeOK
    <2>5. /\ Awaited("state")' = {[by |-> "state", project |-> p, old |-> FALSE]}
          /\ Awaited("assets")' = Awaited("assets") /\ Awaited("tasks")' = Awaited("tasks")
        BY <1>0, <2>1, AsksFacts
    <2>6. AnswersFit'
        BY <2>1, <2>2, <2>3, <2>5 DEF AnswersFit
    <2>7. Awaited("state")' # {}
        BY <2>5
    <2>8. BoxesSettled'
        BY <2>1, <2>2, <2>3, <2>5, <2>7 DEF BoxesSettled, StateDue
    <2> QED  BY <2>4, <2>6, <2>8
<1>6. ASSUME NEW r \in requests, OnAssetsLoaded(r) PROVE BoxesInv'
    <2>1. /\ r.by = "assets" /\ nav' = [nav EXCEPT !.list = r.project] /\ requests' = requests \ {r}
          /\ BoxAnswered(r) /\ UNCHANGED <<pal, busy>>
        BY <1>6 DEF OnAssetsLoaded
    <2>2. nav' \in [project : AnyProject, list : AnyProject] /\ nav'.project = nav.project
          /\ nav'.list = r.project
        BY <1>0, <2>1, AnsweredFacts DEF DialogsTypeOK
    <2>3. DialogsTypeOK'
        BY <1>0, <2>1, <2>2, AnsweredFacts DEF DialogsTypeOK, BoxAnswered
    <2>4. /\ Awaited("assets")' = Awaited("assets") \ {r}
          /\ Awaited("state")' = Awaited("state") /\ Awaited("tasks")' = Awaited("tasks")
          /\ ~r.old => r \in Awaited("assets")
        BY <1>0, <2>1, AnsweredFacts
    <2>5. nav'.list = nav'.project \/ "assets" \in astray'
        BY <2>1, <2>2, <2>4 DEF AnswersFit, BoxAnswered
    <2>6. \A e \in {"state", "tasks"} : e \in astray' <=> e \in astray
        BY <2>1 DEF BoxAnswered
    <2> QED  BY <2>1, <2>2, <2>3, <2>4, <2>5, <2>6 DEF BoxesSettled, StateDue, AnswersFit
<1>7. ASSUME NEW r \in requests, OnStateLoaded(r) PROVE BoxesInv'
    <2>0. r.by = "state" /\ UNCHANGED <<nav, busy>> /\ BoxAnswered(r)
          /\ r.project \in AnyProject /\ pal \in Palette /\ pal.typed \in AnyProject
        BY <1>7 DEF OnStateLoaded, DialogsTypeOK, Palette
    <2>1. /\ ~r.old => r \in Awaited("state")
          /\ \A e \in {"assets", "tasks"} : e \in astray' <=> e \in astray
          /\ "state" \in astray' <=> r.old
          /\ astray' \subseteq Runners
        BY <1>0, <2>0 DEF Awaited, InFlight, BoxAnswered, DialogsTypeOK
    <2>2. CASE ~NewTasksFor
        <3>1. pal' = [pal EXCEPT !.state = r.project] /\ requests' = requests \ {r}
            BY <1>7, <2>2 DEF OnStateLoaded
        <3>2. /\ pal' \in Palette /\ pal'.typed = pal.typed /\ pal'.due = pal.due
              /\ pal'.state = r.project /\ pal'.tasks = pal.tasks /\ pal'.tasksFor = pal.tasksFor
            BY <2>0, <3>1 DEF Palette
        <3>3. DialogsTypeOK'
            BY <1>0, <2>0, <2>1, <3>1, <3>2, AnsweredFacts DEF DialogsTypeOK
        <3>4. /\ Awaited("state")' = Awaited("state") \ {r}
              /\ Awaited("assets")' = Awaited("assets") /\ Awaited("tasks")' = Awaited("tasks")
            BY <1>0, <2>0, <3>1, AnsweredFacts
        <3>5. pal.due \/ r.old \/ r.project = pal.typed
            BY <2>1 DEF AnswersFit
        <3> QED  BY <2>0, <2>1, <2>2, <3>2, <3>3, <3>4, <3>5 DEF NewTasksFor, BoxesSettled, StateDue, AnswersFit
    <2>3. CASE NewTasksFor
        <3>1. /\ pal' = [pal EXCEPT !.state = r.project, !.tasksFor = pal.typed]
              /\ requests' = AskedWith("tasks", pal.typed, requests \ {r})
            BY <1>7, <2>3 DEF OnStateLoaded
        <3>2. /\ pal' \in Palette /\ pal'.typed = pal.typed /\ pal'.due = pal.due
              /\ pal'.state = r.project /\ pal'.tasks = pal.tasks /\ pal'.tasksFor = pal.typed
            BY <2>0, <3>1 DEF Palette
        <3>3. /\ requests' \subseteq [by : Runners, project : AnyProject, old : BOOLEAN]
              /\ Awaited("tasks")' = {[by |-> "tasks", project |-> pal.typed, old |-> FALSE]}
              /\ \A e \in {"assets", "state"} : Awaited(e)' = Awaited(e) \ {r}
            <4>1. pal.typed \in AnyProject /\ requests \ {r} \in SUBSET requests
                BY <2>0 DEF Palette
            <4>2. /\ requests' \subseteq [by : Runners, project : AnyProject, old : BOOLEAN]
                  /\ Awaited("tasks")' = {[by |-> "tasks", project |-> pal.typed, old |-> FALSE]}
                  /\ \A e \in Runners \ {"tasks"} : Awaited(e)' = AwaitedIn(e, requests \ {r})
                BY <1>0, <3>1, <4>1, AskedFacts DEF Runners
            <4>3. \A e : AwaitedIn(e, requests \ {r}) = Awaited(e) \ {r}
                BY AwaitedInFlight DEF AwaitedIn
            <4> QED  BY <4>2, <4>3 DEF Runners
        <3>4. DialogsTypeOK'
            BY <1>0, <2>0, <2>1, <3>2, <3>3 DEF DialogsTypeOK
        <3>5. pal.due \/ r.old \/ r.project = pal.typed
            BY <2>1 DEF AnswersFit
        <3>6. AnswersFit'
            BY <2>0, <2>1, <3>2, <3>3 DEF AnswersFit
        <3>7. Awaited("tasks")' # {}
            BY <3>3
        <3>8. BoxesSettled'
            BY <2>0, <2>1, <3>2, <3>3, <3>5, <3>7 DEF BoxesSettled, StateDue
        <3> QED  BY <3>4, <3>6, <3>8
    <2> QED  BY <2>2, <2>3
<1>8. ASSUME NEW r \in requests, OnTasksLoaded(r) PROVE BoxesInv'
    <2>1. /\ r.by = "tasks" /\ pal' = [pal EXCEPT !.tasks = r.project] /\ requests' = requests \ {r}
          /\ BoxAnswered(r) /\ UNCHANGED <<nav, busy>>
        BY <1>8 DEF OnTasksLoaded
    <2>2. /\ pal' \in Palette /\ pal'.typed = pal.typed /\ pal'.due = pal.due
          /\ pal'.state = pal.state /\ pal'.tasks = r.project /\ pal'.tasksFor = pal.tasksFor
        BY <1>0, <2>1, AnsweredFacts DEF DialogsTypeOK, Palette
    <2>3. DialogsTypeOK'
        BY <1>0, <2>1, <2>2, AnsweredFacts DEF DialogsTypeOK, BoxAnswered
    <2>4. /\ Awaited("tasks")' = Awaited("tasks") \ {r}
          /\ Awaited("state")' = Awaited("state") /\ Awaited("assets")' = Awaited("assets")
          /\ ~r.old => r \in Awaited("tasks")
        BY <1>0, <2>1, AnsweredFacts
    <2>5. pal'.tasks = pal'.tasksFor \/ "tasks" \in astray'
        BY <2>1, <2>2, <2>4 DEF AnswersFit, BoxAnswered
    <2>6. \A e \in {"state", "assets"} : e \in astray' <=> e \in astray
        BY <2>1 DEF BoxAnswered
    <2> QED  BY <2>1, <2>2, <2>3, <2>4, <2>5, <2>6 DEF BoxesSettled, StateDue, AnswersFit
<1>9. ASSUME NEW r \in requests, OnLoadFailed(r) PROVE BoxesInv'
    <2>1. /\ requests' = requests \ {r} /\ UNCHANGED <<nav, pal, busy>>
          /\ astray' = IF r.old THEN astray ELSE astray \union {r.by}
        BY <1>9 DEF OnLoadFailed
    <2>2. DialogsTypeOK'
        BY <1>0, <2>1, AnsweredFacts DEF DialogsTypeOK
    <2>3. \A e \in Runners : Awaited(e)' \subseteq Awaited(e) /\ (Awaited(e)' = Awaited(e) \/ e \in astray')
        BY <1>0, <2>1, AnsweredFacts
    <2>4. astray \subseteq astray'
        BY <2>1
    <2>5. AnswersFit'
        BY <1>0, <2>1, <2>3 DEF AnswersFit
    <2>6. BoxesSettled'
        BY <1>0, <2>1, <2>3, <2>4 DEF BoxesSettled, StateDue
    <2> QED  BY <2>2, <2>5, <2>6
<1>10. CASE RunPublish \/ OnPublishDone \/ UNCHANGED dialogVars
    <2>1. UNCHANGED <<requests, nav, pal, astray>> /\ busy' \in BOOLEAN
        BY <1>10 DEF RunPublish, OnPublishDone, dialogVars, DialogsTypeOK
    <2> QED  BY <2>1 DEF DialogsTypeOK, BoxesSettled, StateDue, AnswersFit, Awaited, InFlight
<1> QED  BY <1>1, <1>2, <1>3, <1>4, <1>5, <1>6, <1>7, <1>8, <1>9, <1>10 DEF DialogsNext

-----------------------------------------------------------------------------
\* EntityPicker

\* What the service lists keeps to its type.
GroupsTyped == \A a \in Assets : \A g \in groups[a] :
                  g.version \in Nat /\ g.stage \in Stages \union {Unset} /\ g.rep \in Reps

(***************************************************************************)
(* A box is filled from the groups of the selected asset, and the          *)
(* Navigator's three name one of them.                                     *)
(***************************************************************************)
BoxesListed ==
    /\ stage # Unset \/ version # Unset => asset \in Assets
    /\ version # Unset => version \in {g.version : g \in groups[asset]}
    /\ dialog = "navigator" /\ version # Unset =>
          \E g \in groups[asset] : Matches(g, stage, version) /\ g.rep = rep

PickerInv == PickerTypeOK /\ GroupsTyped /\ BoxesListed /\ AsksForListed

LEMMA PickerInitInv == PickerInit => PickerInv
BY DEF PickerInit, PickerInv, PickerTypeOK, GroupsTyped, BoxesListed, AsksForListed, NoGroups

\* Groups as the service may list them.
TypedGroups(gs) == \A g \in gs : g.version \in Nat /\ g.stage \in Stages \union {Unset} /\ g.rep \in Reps

LEMMA StageBoxTyped ==
    ASSUME NEW gs, TypedGroups(gs), NEW s \in StageBox(gs) PROVE s \in Stages /\ s # Unset
BY EntityPickerAssumption DEF TypedGroups, StageBox

\* A version in the box is one of a group; without groups the box is empty.
LEMMA VersionBoxListed ==
    ASSUME NEW gs, TypedGroups(gs), NEW s, NEW v \in VersionBox(gs, s)
    PROVE  v = Unset \/ \E g \in gs : g.version = v /\ Matches(g, s, v)
BY DEF VersionBox, OneOf, Matches

\* The representation in the box is that of a group with the version.
LEMMA RepBoxListed ==
    ASSUME NEW gs, TypedGroups(gs), NEW s, NEW v, NEW r \in RepBox(gs, s, v),
           \E g \in gs : Matches(g, s, v)
    PROVE  \E g \in gs : Matches(g, s, v) /\ g.rep = r
BY DEF RepBox

LEMMA RepBoxTyped ==
    ASSUME NEW gs, TypedGroups(gs), NEW s, NEW v, NEW r \in RepBox(gs, s, v) PROVE r \in Reps
BY EntityPickerAssumption DEF RepBox, TypedGroups

\* What rebuilding the versions, and with them the representations, gives.
LEMMA RebuiltVersions ==
    ASSUME NEW gs, TypedGroups(gs), NEW s, RebuildVersions(gs, s)
    PROVE  /\ version' = Unset \/ version' \in {g.version : g \in gs}
           /\ version' # Unset => \E g \in gs : Matches(g, s, version') /\ g.rep = rep'
           /\ rep' \in Reps
<1>1. version' \in VersionBox(gs, s) /\ rep' \in RepBox(gs, s, version')
    BY DEF RebuildVersions
<1>2. PICK v, r : v = version' /\ r = rep'
    OBVIOUS
<1>3. v \in VersionBox(gs, s) /\ r \in RepBox(gs, s, v)
    BY <1>1, <1>2
<1>4. v = Unset \/ \E g \in gs : g.version = v /\ Matches(g, s, v)
    BY <1>3, VersionBoxListed
<1>5. v # Unset => \E g \in gs : Matches(g, s, v) /\ g.rep = r
    BY <1>3, <1>4, RepBoxListed
<1>6. r \in Reps
    BY <1>3, RepBoxTyped
<1> QED  BY <1>2, <1>4, <1>5, <1>6

\* A step that leaves the groups, or empties what was asked for with them.
LEMMA PickerStep ==
    ASSUME PickerInv, GroupsTyped', BoxesListed',
           tree' \subseteq Assets, asset' \in Assets \union {Unset},
           stage' \in Stages \union {Unset}, rep' \in Reps \union {Unset},
           dialog' \in {"closed", "navigator", "switcher"},
           asked' = Unset \/ UNCHANGED <<groups, asked>>
    PROVE  PickerInv'
<1>1. PickerTypeOK'
    BY DEF PickerTypeOK, BoxesListed
<1>2. AsksForListed'
    BY DEF PickerInv, AsksForListed
<1> QED  BY <1>1, <1>2 DEF PickerInv

LEMMA PickerNextInv == PickerInv /\ [PickerNext]_pickerVars => PickerInv'
<1> SUFFICES ASSUME PickerInv, [PickerNext]_pickerVars PROVE PickerInv'
    OBVIOUS
<1>0. /\ PickerTypeOK /\ GroupsTyped /\ BoxesListed /\ Unset \notin Assets
      /\ \A a \in Assets : TypedGroups(groups[a])
    BY EntityPickerAssumption DEF PickerInv, GroupsTyped, TypedGroups
<1>1. CASE OpenNavigator
    <2>1. GroupsTyped' /\ BoxesListed'
        BY <1>1 DEF OpenNavigator, NoGroups, ClearBoxes, GroupsTyped, BoxesListed
    <2> QED  BY <1>0, <1>1, <2>1, PickerStep DEF OpenNavigator, ClearBoxes
<1>2. CASE ReloadEntities
    <2>1. PICK cat \in Catalogs, known \in SUBSET Assets :
              groups' = [a \in Assets |-> IF a \in known THEN cat[a] ELSE {}]
        BY <1>2 DEF ReloadEntities
    <2>2. tree' = Assets /\ asked' = Unset /\ dialog' = dialog /\ dialog = "navigator"
        BY <1>2 DEF ReloadEntities
    <2>3. GroupsTyped' /\ \A a \in Assets : TypedGroups(groups[a])'
        BY <2>1, EntityPickerAssumption DEF GroupsTyped, TypedGroups
    <2>4. CASE asset' \in Assets /\ RebuildStages(groups'[asset'])
        <3>1. stage' \in StageBox(groups'[asset']) /\ RebuildVersions(groups'[asset'], stage')
            BY <2>4 DEF RebuildStages
        <3>2. PICK gs, s : gs = groups'[asset'] /\ s = stage'
            OBVIOUS
        <3>3. TypedGroups(gs)
            BY <2>3, <2>4, <3>2 DEF TypedGroups
        <3>4. s \in Stages /\ RebuildVersions(gs, s)
            BY <3>1, <3>2, <3>3, StageBoxTyped
        <3>5. BoxesListed' /\ rep' \in Reps
            BY <2>4, <3>2, <3>3, <3>4, RebuiltVersions DEF BoxesListed
        <3> QED  BY <1>0, <2>2, <2>3, <2>4, <3>2, <3>4, <3>5, PickerStep DEF PickerTypeOK
    <2>5. CASE UNCHANGED asset /\ ClearBoxes
        <3>1. BoxesListed'
            BY <2>5 DEF ClearBoxes, BoxesListed
        <3> QED  BY <1>0, <2>2, <2>3, <2>5, <3>1, PickerStep DEF ClearBoxes, PickerTypeOK
    <2> QED  BY <1>2, <2>4, <2>5 DEF ReloadEntities
<1>3. CASE ReloadFails
    <2>1. GroupsTyped' /\ BoxesListed'
        BY <1>0, <1>3 DEF ReloadFails, ClearBoxes, GroupsTyped, BoxesListed
    <2> QED  BY <1>0, <1>3, <2>1, PickerStep DEF ReloadFails, ClearBoxes, PickerTypeOK
<1>4. ASSUME NEW a \in Assets, SelectAsset(a) PROVE PickerInv'
    <2>1. asset' = a /\ RebuildStages(groups[a]) /\ UNCHANGED <<dialog, groups, tree, asked>>
        BY <1>4 DEF SelectAsset
    <2>2. PICK s : s = stage' /\ s \in StageBox(groups[a]) /\ RebuildVersions(groups[a], s)
        BY <2>1 DEF RebuildStages
    <2>3. PICK gs : gs = groups[a] /\ TypedGroups(gs)
        BY <1>0
    <2>4. s \in Stages
        BY <2>2, <2>3, StageBoxTyped
    <2>5. BoxesListed' /\ rep' \in Reps
        BY <2>1, <2>2, <2>3, <2>4, RebuiltVersions DEF BoxesListed
    <2>6. GroupsTyped'
        BY <1>0, <2>1 DEF GroupsTyped
    <2> QED  BY <1>0, <2>1, <2>2, <2>4, <2>5, <2>6, PickerStep DEF PickerTypeOK
<1>5. CASE PickStage
    <2>1. asset \in Assets /\ UNCHANGED <<dialog, groups, tree, asset, asked>>
        BY <1>0, <1>5 DEF PickStage, BoxesListed
    <2>2. PICK s : s = stage' /\ s \in StageBox(groups[asset]) /\ RebuildVersions(groups[asset], s)
        BY <1>5 DEF PickStage
    <2>3. PICK gs : gs = groups[asset] /\ TypedGroups(gs)
        BY <1>0, <2>1
    <2>4. s \in Stages
        BY <2>2, <2>3, StageBoxTyped
    <2>5. BoxesListed' /\ rep' \in Reps
        BY <2>1, <2>2, <2>3, <2>4, RebuiltVersions DEF BoxesListed
    <2>6. GroupsTyped'
        BY <1>0, <2>1 DEF GroupsTyped
    <2> QED  BY <1>0, <2>1, <2>2, <2>4, <2>5, <2>6, PickerStep DEF PickerTypeOK
<1>6. CASE PickVersion
    <2>1. asset \in Assets /\ UNCHANGED <<dialog, groups, tree, asset, stage, asked>>
        BY <1>0, <1>6 DEF PickVersion, BoxesListed
    <2>2. PICK v, r : v = version' /\ r = rep'
        OBVIOUS
    <2>3. PICK gs : gs = groups[asset] /\ TypedGroups(gs)
        BY <1>0, <2>1
    <2>4. v = Unset \/ \E g \in gs : g.version = v /\ Matches(g, stage, v)
        BY <1>6, <2>2, <2>3, VersionBoxListed DEF PickVersion
    <2>5. CASE dialog = "navigator"
        <3>1. r \in RepBox(gs, stage, v)
            BY <1>6, <2>2, <2>3, <2>5 DEF PickVersion
        <3>2. r \in Reps /\ (v # Unset => \E g \in gs : Matches(g, stage, v) /\ g.rep = r)
            BY <2>3, <2>4, <3>1, RepBoxTyped, RepBoxListed
        <3>3. BoxesListed'
            BY <2>1, <2>2, <2>3, <2>4, <3>2 DEF BoxesListed
        <3>4. GroupsTyped'
            BY <1>0, <2>1 DEF GroupsTyped
        <3> QED  BY <1>0, <2>1, <2>2, <3>2, <3>3, <3>4, PickerStep DEF PickerTypeOK
    <2>6. CASE dialog # "navigator"
        <3>1. rep' = rep
            BY <1>6, <2>6 DEF PickVersion
        <3>2. BoxesListed'
            BY <2>1, <2>2, <2>3, <2>4, <2>6 DEF BoxesListed
        <3>3. GroupsTyped'
            BY <1>0, <2>1 DEF GroupsTyped
        <3> QED  BY <1>0, <2>1, <3>1, <3>2, <3>3, PickerStep DEF PickerTypeOK
    <2> QED  BY <2>5, <2>6
<1>7. CASE LoadEntity
    <2>1. /\ dialog = "navigator" /\ dialog' \in {"closed", "navigator"} /\ asset # Unset
          /\ asked' = [asset |-> asset, rep |-> IF rep = Unset THEN Blend ELSE rep, stage |-> stage,
                       version |-> version]
          /\ UNCHANGED <<groups, tree, asset, stage, version, rep>>
        BY <1>7 DEF LoadEntity
    <2>2. asset \in Assets
        BY <1>0, <2>1 DEF PickerTypeOK
    <2>3. version # Unset => rep # Unset
        BY <1>0, <2>1, <2>2, EntityPickerAssumption DEF BoxesListed, GroupsTyped
    <2>4. AsksForListed'
        BY <1>0, <2>1, <2>3 DEF AsksForListed, BoxesListed
    <2>5. BoxesListed' /\ GroupsTyped' /\ PickerTypeOK'
        BY <1>0, <2>1 DEF BoxesListed, GroupsTyped, PickerTypeOK
    <2> QED  BY <2>4, <2>5 DEF PickerInv
<1>8. CASE OpenSwitcher
    <2>1. /\ dialog' = "switcher" /\ tree' = Assets /\ asset' \in Assets /\ stage' \in Stages
          /\ groups' \in Catalogs \union {NoGroups} /\ rep' = Unset /\ asked' = Unset
          /\ version' \in VersionBox(groups'[asset'], stage')
        BY <1>8 DEF OpenSwitcher
    <2>2. GroupsTyped'
        BY <2>1, EntityPickerAssumption DEF NoGroups, GroupsTyped
    <2>3. PICK gs, s, v : gs = groups'[asset'] /\ s = stage' /\ v = version'
        OBVIOUS
    <2>4. TypedGroups(gs)
        BY <2>1, <2>2, <2>3 DEF GroupsTyped, TypedGroups
    <2>5. v = Unset \/ \E g \in gs : g.version = v
        BY <2>1, <2>3, <2>4, VersionBoxListed
    <2>6. BoxesListed'
        BY <2>1, <2>3, <2>5 DEF BoxesListed
    <2> QED  BY <2>1, <2>2, <2>6, PickerStep
<1>9. CASE OnSwitch
    <2>1. BoxesListed' /\ GroupsTyped'
        BY <1>0, <1>9 DEF OnSwitch, BoxesListed, GroupsTyped
    <2> QED  BY <1>0, <1>9, <2>1, PickerStep DEF OnSwitch, PickerTypeOK
<1>10. CASE CloseDialog
    <2>1. BoxesListed' /\ GroupsTyped'
        BY <1>0, <1>10 DEF CloseDialog, BoxesListed, GroupsTyped
    <2> QED  BY <1>0, <1>10, <2>1, PickerStep DEF CloseDialog, PickerTypeOK
<1>11. CASE UNCHANGED pickerVars
    <2>1. BoxesListed' /\ GroupsTyped'
        BY <1>0, <1>11 DEF pickerVars, BoxesListed, GroupsTyped
    <2> QED  BY <1>0, <1>11, <2>1, PickerStep DEF pickerVars, PickerTypeOK
<1> QED
    BY <1>1, <1>2, <1>3, <1>4, <1>5, <1>6, <1>7, <1>8, <1>9, <1>10, <1>11 DEF PickerNext

-----------------------------------------------------------------------------
\* UiService

UiInv == UiTypeOK /\ HintNotTorn

LEMMA HintTypes ==
    /\ NoHint \in Hint
    /\ \A h \in Hint : h.file \in DccFiles \union {NoFile}
    /\ \A h \in Hint : h.file # NoFile => h.dcc \in Dccs /\ h = [dcc |-> h.dcc, file |-> h.file]
    /\ \A d \in Dccs, f \in DccFiles \union {NoFile} : [dcc |-> d, file |-> f] \in Hint
BY DEF Hint, NoHint

ClickStates == [at : {"idle", "clicked", "hinted", "built", "answered"}, hint : Hint, req : Hint]

\* One click goes on, or ends.
LEMMA ClickStep ==
    ASSUME UiInv, NEW c \in Clicks, NEW click \in ClickStates, clicks' = [clicks EXCEPT ![c] = click],
           click.at = "built" => click.req = click.hint /\ click.req.dcc \in Dccs,
           UNCHANGED <<open, asks, hint, shows, palette, navigator>>
    PROVE  UiInv'
BY DEF UiInv, UiTypeOK, HintNotTorn, ClickStates

\* Nothing happens to the clicks.
LEMMA OtherUiStep ==
    ASSUME UiInv, UNCHANGED clicks,
           open' \in [Dccs -> DccFiles \union {NoFile}],
           asks' \in [Dccs -> [at : {"idle", "asked", "noted"}, hint : Hint]],
           hint' \in Hint, shows' \subseteq {"palette", "navigator"},
           palette' \in HubWindow, navigator' \in HubWindow
    PROVE  UiInv'
BY DEF UiInv, UiTypeOK, HintNotTorn

LEMMA UiInitInv == UiInit => UiInv
<1> SUFFICES ASSUME UiInit PROVE UiInv
    OBVIOUS
<1>1. NoClick \in ClickStates /\ NoClick.at = "idle"
    BY HintTypes DEF NoClick, ClickStates
<1>2. UiTypeOK
    BY <1>1, HintTypes DEF UiInit, UiTypeOK, HubWindow, ClickStates
<1>3. HintNotTorn
    BY <1>1 DEF UiInit, HintNotTorn
<1> QED  BY <1>2, <1>3 DEF UiInv

LEMMA UiNextInv == UiInv /\ [UiNext]_uiVars => UiInv'
<1> SUFFICES ASSUME UiInv, [UiNext]_uiVars PROVE UiInv'
    OBVIOUS
<1>0. UiTypeOK
    BY DEF UiInv
<1>1. ASSUME NEW d \in Dccs, NEW f \in DccFiles, OpenInDcc(d, f) PROVE UiInv'
    BY <1>0, <1>1, OtherUiStep DEF OpenInDcc, UiTypeOK
<1>2. ASSUME NEW d \in Dccs, AskPalette(d) PROVE UiInv'
    <2>1. [at |-> "asked", hint |-> [dcc |-> d, file |-> open[d]]]
              \in [at : {"idle", "asked", "noted"}, hint : Hint]
        BY <1>0, HintTypes DEF UiTypeOK
    <2> QED  BY <1>0, <1>2, <2>1, OtherUiStep DEF AskPalette, UiTypeOK
<1>3. ASSUME NEW d \in Dccs, NoteHint(d) PROVE UiInv'
    BY <1>0, <1>3, OtherUiStep DEF NoteHint, UiTypeOK
<1>4. ASSUME NEW d \in Dccs, QueueShow(d) PROVE UiInv'
    BY <1>0, <1>4, HintTypes, OtherUiStep DEF QueueShow, InvokeOnGui, UiTypeOK
<1>5. CASE AskNavigator
    BY <1>0, <1>5, OtherUiStep DEF AskNavigator, InvokeOnGui, UiTypeOK
<1>6. CASE Show
    BY <1>0, <1>6, OtherUiStep DEF Show, UiTypeOK, HubWindow
<1>7. CASE CloseUi
    BY <1>0, <1>7, OtherUiStep DEF CloseUi, UiTypeOK, HubWindow
<1>8. ASSUME NEW c \in Clicks,
             \/ ClickLoad(c) \/ ClickPublish(c) \/ TakeHint(c) \/ NoFileKnown(c)
             \/ BuildRequest(c) \/ Dispatched(c)
      PROVE  UiInv'
    <2>0. clicks[c] \in ClickStates /\ clicks[c].hint \in Hint /\ hint \in Hint
        BY <1>0 DEF UiTypeOK, ClickStates
    <2>1. CASE ClickLoad(c) \/ NoFileKnown(c)
        <3>1. [clicks[c] EXCEPT !.at = "answered"] \in ClickStates
            BY <2>0 DEF ClickStates
        <3>2. clicks' = [clicks EXCEPT ![c] = [clicks[c] EXCEPT !.at = "answered"]]
            BY <2>1 DEF ClickLoad, NoFileKnown
        <3>3. [clicks[c] EXCEPT !.at = "answered"].at = "answered"
            BY <2>0 DEF ClickStates
        <3> QED  BY <2>1, <3>1, <3>2, <3>3, ClickStep DEF ClickLoad, NoFileKnown
    <2>2. CASE ClickPublish(c)
        <3>1. [clicks[c] EXCEPT !.at = "clicked"] \in ClickStates
            BY <2>0 DEF ClickStates
        <3>2. clicks' = [clicks EXCEPT ![c] = [clicks[c] EXCEPT !.at = "clicked"]]
            BY <2>2 DEF ClickPublish
        <3>3. [clicks[c] EXCEPT !.at = "clicked"].at = "clicked"
            BY <2>0 DEF ClickStates
        <3> QED  BY <2>2, <3>1, <3>2, <3>3, ClickStep DEF ClickPublish
    <2>3. CASE TakeHint(c)
        <3>1. [clicks[c] EXCEPT !.at = "hinted", !.hint = hint] \in ClickStates
            BY <2>0 DEF ClickStates
        <3>2. clicks' = [clicks EXCEPT ![c] = [clicks[c] EXCEPT !.at = "hinted", !.hint = hint]]
            BY <2>3 DEF TakeHint
        <3>3. [clicks[c] EXCEPT !.at = "hinted", !.hint = hint].at = "hinted"
            BY <2>0 DEF ClickStates
        <3> QED  BY <2>3, <3>1, <3>2, <3>3, ClickStep DEF TakeHint
    <2>4. CASE BuildRequest(c)
        <3>1. /\ clicks[c].hint.dcc \in Dccs
              /\ clicks[c].hint = [dcc |-> clicks[c].hint.dcc, file |-> clicks[c].hint.file]
            BY <2>0, <2>4, HintTypes DEF BuildRequest
        <3>2. RequestOf(c) = clicks[c].hint
            BY <3>1 DEF RequestOf
        <3>3. PICK click : click = [clicks[c] EXCEPT !.at = "built", !.req = clicks[c].hint]
            OBVIOUS
        <3>4. click \in ClickStates /\ click.req = click.hint /\ click.hint = clicks[c].hint
            BY <2>0, <3>3 DEF ClickStates
        <3>5. clicks' = [clicks EXCEPT ![c] = click]
            BY <2>4, <3>2, <3>3 DEF BuildRequest
        <3> QED  BY <2>4, <3>1, <3>4, <3>5, ClickStep DEF BuildRequest
    <2>5. CASE Dispatched(c)
        <3>1. NoClick \in ClickStates /\ NoClick.at = "idle"
            BY HintTypes DEF NoClick, ClickStates
        <3> QED  BY <2>5, <3>1, ClickStep DEF Dispatched
    <2> QED  BY <1>8, <2>1, <2>2, <2>3, <2>4, <2>5
<1>9. CASE UNCHANGED uiVars
    BY <1>0, <1>9, OtherUiStep DEF uiVars, UiTypeOK
<1> QED  BY <1>1, <1>2, <1>3, <1>4, <1>5, <1>6, <1>7, <1>8, <1>9 DEF UiNext

-----------------------------------------------------------------------------
\* SubmitChecks

(***************************************************************************)
(* The button is off while a submission runs, and frames cannot be chosen  *)
(* for a studio that does not take them.                                   *)
(***************************************************************************)
ChecksInv ==
    /\ info \in SceneInfos /\ ChecksTypeOK /\ SubmitsOnlyAllowed
    /\ submit \in {"clicked", "rendering"} => button # "render"
    /\ choice => ~Off(context)

LEMMA ChecksInitInv == ChecksInit => ChecksInv
<1> SUFFICES ASSUME ChecksInit PROVE ChecksInv
    OBVIOUS
<1>1. ~frames /\ button = "off" /\ ~updating /\ choice /\ request = [seq |-> FALSE, off |-> FALSE]
      /\ context = NoContext /\ submit = "no" /\ info \in SceneInfos
      /\ polled \in {info, Unread} /\ assigned \in BOOLEAN
    BY DEF ChecksInit
<1>2. frames \in BOOLEAN /\ choice \in BOOLEAN /\ updating \in BOOLEAN
    BY DEF ChecksInit
<1>3. ChecksTypeOK
    BY <1>1, <1>2 DEF ChecksTypeOK
<1>4. SubmitsOnlyAllowed
    BY <1>1 DEF SubmitsOnlyAllowed
<1>5. ~Off(context)
    BY <1>1 DEF Off
<1> QED  BY <1>1, <1>3, <1>4, <1>5 DEF ChecksInv

\* What a handler sets before it brings the button up to date.
SetsFields ==
    /\ info' \in SceneInfos /\ polled' \in SceneInfos \union {Unread}
    /\ context' \in Contexts \union {NoContext}
    /\ assigned' \in BOOLEAN /\ frames' \in BOOLEAN /\ choice' \in BOOLEAN /\ updating' \in BOOLEAN
    /\ frames' => ~Off(context')
    /\ choice' => ~Off(context')
    /\ submit' \in {"no", "clicked", "rendering", "submitted"}
    /\ request' \in [seq : BOOLEAN, off : BOOLEAN]
    /\ request'.seq => ~request'.off

\* The button after any handler that renders the checks.
LEMMA RenderedInv ==
    ASSUME ChecksInv, SetsFields, submit' \in {submit, "no"}, RenderChecks
    PROVE  ChecksInv'
<1>1. button \in {"off", "render", "browse"} /\ (submit \in {"clicked", "rendering"} => button # "render")
    BY DEF ChecksInv, ChecksTypeOK
<1>2. /\ button' \in {"off", "render", "browse"}
      /\ button' = "render" => assigned' /\ polled' # Unread /\ ~Blocked(polled', context', frames')
      /\ submit' \in {"clicked", "rendering"} => button' # "render"
    BY <1>1 DEF RenderChecks
<1> QED  BY <1>2 DEF SetsFields, ChecksInv, ChecksTypeOK, SubmitsOnlyAllowed

\* A handler that leaves the button, or turns it off.
LEMMA ButtonLeftInv ==
    ASSUME ChecksInv, SetsFields,
           button' \in {button, "off", "browse"},
           button' = "render" => /\ assigned' /\ submit' = submit
                                 /\ UNCHANGED <<polled, context, frames>>
    PROVE  ChecksInv'
<1>1. button \in {"off", "render", "browse"} /\ (submit \in {"clicked", "rendering"} => button # "render")
    BY DEF ChecksInv, ChecksTypeOK
<1>2. button' = "render" => polled' # Unread /\ ~Blocked(polled', context', frames')
    BY DEF ChecksInv, SubmitsOnlyAllowed, Blocked
<1>3. submit' \in {"clicked", "rendering"} => button' # "render"
    BY <1>1
<1> QED  BY <1>1, <1>2, <1>3 DEF SetsFields, ChecksInv, ChecksTypeOK, SubmitsOnlyAllowed

LEMMA ChecksNextInv == ChecksInv /\ [ChecksNext]_checksVars => ChecksInv'
<1> SUFFICES ASSUME ChecksInv, [ChecksNext]_checksVars PROVE ChecksInv'
    OBVIOUS
<1>0. /\ info \in SceneInfos /\ polled \in SceneInfos \union {Unread}
      /\ context \in Contexts \union {NoContext}
      /\ assigned \in BOOLEAN /\ frames \in BOOLEAN /\ choice \in BOOLEAN /\ updating \in BOOLEAN
      /\ frames => ~Off(context)
      /\ choice => ~Off(context)
      /\ submit \in {"no", "clicked", "rendering", "submitted"}
      /\ request \in [seq : BOOLEAN, off : BOOLEAN]
      /\ request.seq => ~request.off
    BY DEF ChecksInv, ChecksTypeOK, SubmitsOnlyAllowed
<1>a. \A c \in Contexts \union {NoContext} : Off(c) \in BOOLEAN
    BY SubmitChecksAssumption DEF Off
<1>1. ASSUME SetsFields, submit' = submit, RenderAll PROVE ChecksInv'
    BY <1>1, RenderedInv DEF RenderAll
<1>2. ASSUME UNCHANGED <<updating, request, submit, polled>>, info' \in SceneInfos,
             assigned' \in BOOLEAN, context' \in Contexts \union {NoContext}, RenderAll
      PROVE  ChecksInv'
    <2>1. choice' = ~Off(context') /\ frames' = (frames /\ ~Off(context'))
        BY <1>2 DEF RenderAll
    <2>2. (choice' => ~Off(context')) /\ choice' \in BOOLEAN
        BY <1>a, <1>2, <2>1, Zenon
    <2>3. (frames' => ~Off(context')) /\ frames' \in BOOLEAN
        BY <1>0, <1>a, <1>2, <2>1, Zenon
    <2>4. SetsFields
        BY <1>0, <1>2, <2>2, <2>3 DEF SetsFields
    <2> QED  BY <1>1, <1>2, <2>4
<1>3. CASE EditScene \/ UseShotRange
    <2>1. info' \in SceneInfos
          /\ UNCHANGED <<polled, assigned, context, frames, choice, submit, button, updating, request>>
        BY <1>3 DEF EditScene, UseShotRange
    <2>2. SetsFields
        BY <1>0, <2>1 DEF SetsFields
    <2>3. button' = "render" => assigned'
        BY <2>1 DEF ChecksInv, SubmitsOnlyAllowed
    <2> QED  BY <2>1, <2>2, <2>3, ButtonLeftInv
<1>4. CASE PollScene
    <2>1. SetsFields
        BY <1>0, <1>4 DEF PollScene, SetsFields
    <2> QED  BY <1>4, <2>1, RenderedInv DEF PollScene
<1>5. CASE PickFormat
    <2>1. frames' = ~frames /\ choice
        BY <1>5 DEF PickFormat
    <2>2. frames' \in BOOLEAN /\ ~Off(context)
        BY <1>0, <2>1, Zenon
    <2>3. SetsFields
        BY <1>0, <1>5, <2>2 DEF PickFormat, SetsFields
    <2> QED  BY <1>5, <2>3, RenderedInv DEF PickFormat
<1>6. CASE TaskChanged
    <2>1. assigned' \in BOOLEAN
        BY <1>6 DEF TaskChanged
    <2> QED  BY <1>0, <1>2, <1>6, <2>1 DEF TaskChanged
<1>7. CASE TaskListArrives
    <2>1. assigned' \in BOOLEAN /\ UNCHANGED <<info, polled, context, submit, updating, request>>
        BY <1>7 DEF TaskListArrives
    <2>2. CASE assigned' /\ UNCHANGED <<frames, choice, button>>
        <3>1. SetsFields
            BY <1>0, <2>1, <2>2 DEF SetsFields
        <3> QED  BY <2>1, <2>2, <3>1, ButtonLeftInv
    <2>3. CASE RenderAll
        BY <1>0, <1>2, <2>1, <2>3
    <2> QED  BY <1>7, <2>2, <2>3 DEF TaskListArrives
<1>8. CASE ContextArrives
    BY <1>0, <1>2, <1>8 DEF ContextArrives
<1>9. CASE UpdateAsset \/ AssetUpdated
    <2>1. updating' \in BOOLEAN
          /\ UNCHANGED <<info, polled, assigned, context, frames, choice, submit, button, request>>
        BY <1>9 DEF UpdateAsset, AssetUpdated
    <2>2. SetsFields
        BY <1>0, <2>1 DEF SetsFields
    <2>3. button' = "render" => assigned'
        BY <2>1 DEF ChecksInv, SubmitsOnlyAllowed
    <2> QED  BY <2>1, <2>2, <2>3, ButtonLeftInv
<1>10. CASE ClickGo
    <2>1. ~choice' /\ choice' \in BOOLEAN
        BY <1>10 DEF ClickGo
    <2>2. SetsFields
        BY <1>0, <1>10, <2>1 DEF ClickGo, SetsFields
    <2> QED  BY <1>10, <2>2, ButtonLeftInv DEF ClickGo
<1>11. CASE StartRender
    <2>1. request' = [seq |-> frames, off |-> Off(context)]
        BY <1>11 DEF StartRender
    <2>2. request'.seq = frames /\ request'.off = Off(context)
        BY <2>1
    <2>3. request' \in [seq : BOOLEAN, off : BOOLEAN]
        BY <1>0, <1>a, <2>1
    <2>4. request'.seq => ~request'.off
        BY <1>0, <2>2, Zenon
    <2>5. button # "render"
        BY <1>11 DEF StartRender, ChecksInv
    <2>6. SetsFields
        BY <1>0, <1>11, <2>3, <2>4 DEF StartRender, SetsFields
    <2> QED  BY <1>11, <2>5, <2>6, ButtonLeftInv DEF StartRender
<1>12. CASE NotSubmitted
    <2>1. choice' = ~Off(context) /\ UNCHANGED context
        BY <1>12 DEF NotSubmitted, FormatAfterError
    <2>2. (choice' => ~Off(context')) /\ choice' \in BOOLEAN
        BY <1>0, <1>a, <2>1, Zenon
    <2>3. SetsFields
        BY <1>0, <1>12, <2>2 DEF NotSubmitted, SetsFields
    <2> QED  BY <1>12, <2>3, RenderedInv DEF NotSubmitted
<1>13. CASE Submitted
    <2>1. SetsFields
        BY <1>0, <1>13 DEF Submitted, SetsFields
    <2> QED  BY <1>13, <2>1, ButtonLeftInv DEF Submitted
<1>14. CASE UNCHANGED checksVars
    <2>1. SetsFields
        BY <1>0, <1>14 DEF checksVars, SetsFields
    <2>2. button' = "render" => assigned'
        BY <1>14 DEF checksVars, ChecksInv, SubmitsOnlyAllowed
    <2> QED  BY <1>14, <2>1, <2>2, ButtonLeftInv DEF checksVars
<1> QED
    BY <1>3, <1>4, <1>5, <1>6, <1>7, <1>8, <1>9, <1>10, <1>11, <1>12, <1>13, <1>14 DEF ChecksNext

-----------------------------------------------------------------------------
\* ReviewWindow and ReviewShared

\* What of the window's state ReviewProofs has no use for.
WindowKinds ==
    /\ kind \in {"closed", "notes", "submit"} /\ shown \in AnyTask
    /\ reassigned \in BOOLEAN /\ raced \in BOOLEAN

WindowTypesInv == WindowInv /\ WindowKinds

LEMMA WindowTypesInitInv == WindowInit => WindowTypesInv
<1>1. WindowInit => WindowKinds
    BY DEF WindowInit, WindowKinds, AnyTask
<1> QED  BY <1>1, WindowInitInv DEF WindowTypesInv

LEMMA WindowTypesNextInv == WindowTypesInv /\ [WindowNext]_windowVars => WindowTypesInv'
<1> SUFFICES ASSUME WindowTypesInv, [WindowNext]_windowVars PROVE WindowKinds'
    BY WindowNextInv DEF WindowTypesInv
<1> USE DEF WindowKinds
<1>0. WindowKinds /\ WindowTyped /\ NoTask \in AnyTask /\ Tasks \subseteq AnyTask
    BY DEF WindowTypesInv, WindowInv, AnyTask
<1>1. CASE OpenNotes \/ OpenSubmit \/ CloseWindow
    BY <1>0, <1>1 DEF OpenNotes, OpenSubmit, CloseWindow
<1>2. CASE Refresh \/ Reload \/ TakeFixes \/ StartSubmission \/ SubmissionEnds \/ UNCHANGED windowVars
    BY <1>0, <1>2 DEF Refresh, Reload, TakeFixes, StartSubmission, SubmissionEnds, windowVars
<1>3. ASSUME NEW t \in Tasks, PickTask(t) PROVE WindowKinds'
    BY <1>0, <1>3 DEF PickTask
<1>4. CASE Answer
    <2>1. PICK l \in loads :
              OldAnswer(l) \/ NoTasksLeft(l) \/ ShowTask(l) \/ LoadFails(l) \/ \E t \in Tasks : Reassign(l, t)
        BY <1>4 DEF Answer
    <2>2. CASE OldAnswer(l) \/ LoadFails(l)
        BY <1>0, <2>2 DEF OldAnswer, LoadFails
    <2>3. CASE NoTasksLeft(l)
        <3>1. reassigned' = (shown' # NoTask)
            BY <2>3 DEF NoTasksLeft
        <3>2. reassigned' \in BOOLEAN
            BY <3>1, Zenon
        <3> QED  BY <1>0, <2>3, <3>2 DEF NoTasksLeft
    <2>4. CASE ShowTask(l)
        BY <1>0, <2>4 DEF ShowTask, WindowTyped, AnyLoad
    <2>5. ASSUME NEW t \in Tasks, Reassign(l, t) PROVE WindowKinds'
        <3>1. reassigned' = (shown \notin {t, NoTask})
            BY <2>5 DEF Reassign
        <3>2. reassigned' \in BOOLEAN
            BY <3>1, Zenon
        <3> QED  BY <1>0, <2>5, <3>2 DEF Reassign
    <2> QED  BY <2>1, <2>2, <2>3, <2>4, <2>5
<1>5. CASE Go
    <2>1. raced' = \E l \in loads : l.withTasks /\ l.current
        BY <1>5 DEF Go
    <2>2. raced' \in BOOLEAN
        BY <2>1, Zenon
    <2> QED  BY <1>0, <1>5, <2>2 DEF Go
<1> QED  BY <1>1, <1>2, <1>3, <1>4, <1>5 DEF WindowNext

\* Elements that are all one are at most one.
LEMMA AtMostOne ==
    ASSUME NEW S, \A x, y \in S : x = y
    PROVE  Cardinality(S) <= 1
<1>1. CASE S = {}
    BY <1>1, FS_EmptySet
<1>2. CASE S # {}
    <2>1. PICK x : x \in S
        BY <1>2
    <2>2. S = {x}
        BY <2>1
    <2>3. Cardinality(S) = 1
        BY <2>2, FS_Singleton
    <2> QED  BY <2>3
<1> QED  BY <1>1, <1>2

LEMMA WindowTypes == WindowTypesInv => WindowTypeOK
<1> SUFFICES ASSUME WindowTypesInv PROVE WindowTypeOK
    OBVIOUS
<1>1. Cardinality({l \in loads : l.current}) <= 1
    <2>1. \A l, m \in {k \in loads : k.current} : l = m
        BY DEF WindowTypesInv, WindowInv, LastLoad
    <2> QED  BY <2>1, AtMostOne
<1>2. box \in AnyTask
    BY DEF WindowTypesInv, WindowInv, WindowTyped, ShowsSelectedTask, AnyTask
<1> QED
    BY <1>1, <1>2 DEF WindowTypesInv, WindowInv, WindowTyped, AnyLoad, WindowKinds, WindowTypeOK

\* Types, and one thread at a time.
SharedInv ==
    /\ listed \subseteq SharedTasks
    /\ picked \in Pick
    /\ notes \in [task : Pick, of : Pick, failed : BOOLEAN]
    /\ refreshes \subseteq Running \union Fetched
    /\ \A r, q \in refreshes : r.at = "running" /\ q.at = "running" => r = q

LEMMA SharedTypes == SharedInv => SharedTypeOK
<1> SUFFICES ASSUME SharedInv PROVE SharedTypeOK
    OBVIOUS
<1>1. \A r, q \in {p \in refreshes : p.at = "running"} : r = q
    BY DEF SharedInv
<1>2. Cardinality({r \in refreshes : r.at = "running"}) <= 1
    BY <1>1, AtMostOne
<1> QED  BY <1>2 DEF SharedInv, SharedTypeOK

LEMMA SharedInitInv == SharedInit => SharedInv
BY DEF SharedInit, SharedInv, Pick

\* A result to be stored is typed, a thread that runs too.
LEMMA RefreshTypes ==
    ASSUME SharedInv, NEW r \in refreshes
    PROVE  /\ r.at = "running" => r \in Running
           /\ r.at = "fetched" => r \in Fetched
           /\ r.task \in Pick
BY DEF SharedInv, Running, Fetched

\* The task picked by default is one of the list, or the one before.
LEMMA DefaultTyped ==
    ASSUME NEW tasks, tasks \subseteq SharedTasks, NEW task \in Pick, NEW t \in DefaultTask(tasks, task)
    PROVE  t \in Pick
BY DEF DefaultTask, Pick

LEMMA SharedTypesNextInv == SharedInv /\ [SharedNext]_sharedVars => SharedInv'
<1> SUFFICES ASSUME SharedInv, [SharedNext]_sharedVars PROVE SharedInv'
    OBVIOUS
<1>0. /\ listed \subseteq SharedTasks /\ picked \in Pick
      /\ notes \in [task : Pick, of : Pick, failed : BOOLEAN] /\ NoPick \in Pick
      /\ SharedTasks \subseteq Pick
    BY DEF SharedInv, Pick
<1>1. ASSUME UNCHANGED refreshes, listed' \subseteq SharedTasks, picked' \in Pick,
             notes' \in [task : Pick, of : Pick, failed : BOOLEAN]
      PROVE  SharedInv'
    BY <1>1 DEF SharedInv
<1>a. \A t, of \in Pick : [task |-> t, of |-> of, failed |-> FALSE] \in [task : Pick, of : Pick, failed : BOOLEAN]
    OBVIOUS
<1>b. \A t \in Pick : NotesFailed(t) \in [task : Pick, of : Pick, failed : BOOLEAN]
    BY <1>0 DEF NotesFailed
<1>c. \A t : FetchNotes(t) => notes' \in {[task |-> t, of |-> t, failed |-> FALSE], NotesFailed(t)}
    BY DEF FetchNotes
<1>2. \A t \in Pick : FetchNotes(t) => notes' \in [task : Pick, of : Pick, failed : BOOLEAN]
    <2> SUFFICES ASSUME NEW t \in Pick, FetchNotes(t)
                 PROVE  notes' \in [task : Pick, of : Pick, failed : BOOLEAN]
        OBVIOUS
    <2>1. CASE notes' = [task |-> t, of |-> t, failed |-> FALSE]
        BY <1>a, <2>1
    <2>2. CASE notes' = NotesFailed(t)
        BY <1>b, <2>2
    <2> QED  BY <1>c, <2>1, <2>2
<1>3. ASSUME NEW t \in Pick, RefreshAsync(t) PROVE SharedInv'
    <2>1. PICK w \in BOOLEAN :
              refreshes' = refreshes \union
                  {[task |-> t, withTasks |-> w, polled |-> TRUE, at |-> "running"]}
        BY <1>3 DEF RefreshAsync
    <2>2. PICK new : new = [task |-> t, withTasks |-> w, polled |-> TRUE, at |-> "running"]
        OBVIOUS
    <2>3. new \in Running
        BY <2>2 DEF Running
    <2>4. \A r \in refreshes : r.at # "running"
        BY <1>3 DEF RefreshAsync, IsAlive
    <2>5. refreshes' = refreshes \union {new} /\ UNCHANGED <<listed, picked, notes>>
        BY <1>3, <2>1, <2>2 DEF RefreshAsync
    <2> QED  BY <2>3, <2>4, <2>5 DEF SharedInv
<1>4. ASSUME NEW t \in Pick, OnNotes(t) PROVE SharedInv'
    BY <1>0, <1>1, <1>4 DEF OnNotes
<1>5. ASSUME NEW t \in SharedTasks, PickByHand(t) PROVE SharedInv'
    BY <1>0, <1>1, <1>5 DEF PickByHand
<1>6. CASE WorkerEnds
    <2>1. PICK r \in refreshes, failed \in BOOLEAN, gotTasks \in BOOLEAN, tasks \in SUBSET SharedTasks :
              /\ r.at = "running"
              /\ refreshes' = (refreshes \ {r}) \union
                     IF r.polled THEN {[task |-> r.task, tasks |-> tasks, withTasks |-> gotTasks,
                                        at |-> "fetched", failed |-> failed]} ELSE {}
              /\ UNCHANGED <<listed, picked, notes>>
        BY <1>6 DEF WorkerEnds
    <2>2. PICK got : got = [task |-> r.task, tasks |-> tasks, withTasks |-> gotTasks,
                            at |-> "fetched", failed |-> failed]
        OBVIOUS
    <2>3. got \in Fetched /\ got.at = "fetched"
        BY <2>2, RefreshTypes DEF Fetched
    <2>4. refreshes' = refreshes \ {r} \/ refreshes' = (refreshes \ {r}) \union {got}
        BY <2>1, <2>2
    <2> QED  BY <2>1, <2>3, <2>4 DEF SharedInv
<1>7. CASE PollNotes
    <2>1. PICK r \in refreshes :
              /\ r.at = "fetched"
              /\ listed' = IF r.withTasks THEN r.tasks ELSE listed
              /\ picked' \in IF r.withTasks THEN DefaultTask(r.tasks, picked) ELSE {picked}
              /\ notes' = [task |-> ResultTask(r), failed |-> r.failed,
                           of |-> IF r.failed /\ r.task # NoPick THEN notes.of ELSE r.task]
              /\ refreshes' = refreshes \ {r}
        BY <1>7 DEF PollNotes
    <2>2. r \in Fetched
        BY <2>1, RefreshTypes
    <2>3. r.task \in Pick /\ r.tasks \subseteq SharedTasks /\ r.failed \in BOOLEAN
        BY <2>2 DEF Fetched
    <2>4. listed' \subseteq SharedTasks
        BY <1>0, <2>1, <2>3
    <2>5. picked' \in Pick
        BY <1>0, <2>1, <2>3, DefaultTyped
    <2>6. notes' \in [task : Pick, of : Pick, failed : BOOLEAN]
        BY <1>0, <2>1, <2>3 DEF ResultTask
    <2> QED  BY <2>1, <2>4, <2>5, <2>6 DEF SharedInv
<1>8. CASE ReviewNotes
    <2>1. listed' \subseteq SharedTasks /\ picked' \in DefaultTask(listed', picked)
          /\ FetchNotes(picked') /\ UNCHANGED refreshes
        BY <1>8 DEF ReviewNotes
    <2>2. picked' \in Pick
        BY <1>0, <2>1, DefaultTyped
    <2>3. notes' \in [task : Pick, of : Pick, failed : BOOLEAN]
        BY <1>2, <2>1, <2>2
    <2> QED  BY <1>1, <2>1, <2>2, <2>3
<1>9. CASE FixesSentNow
    <2>1. notes' \in [task : Pick, of : Pick, failed : BOOLEAN]
        BY <1>0, <1>2, <1>9 DEF FixesSentNow
    <2> QED  BY <1>0, <1>1, <1>9, <2>1 DEF FixesSentNow
<1>10. CASE SubmitInvoke
    <2>1. listed' \subseteq SharedTasks /\ picked' \in DefaultTask(listed', picked)
        BY <1>10 DEF SubmitInvoke
    <2>2. picked' \in Pick
        BY <1>0, <2>1, DefaultTyped
    <2> QED  BY <1>0, <1>1, <1>10, <2>1, <2>2 DEF SubmitInvoke
<1>11. CASE OnTasks
    BY <1>0, <1>1, <1>11 DEF OnTasks
<1>12. CASE StatusTasks
    <2>1. listed' \subseteq SharedTasks
        BY <1>0, <1>12 DEF StatusTasks
    <2>2. picked' \in Pick
        BY <1>0, <1>12, <2>1 DEF StatusTasks
    <2> QED  BY <1>0, <1>1, <1>12, <2>1, <2>2 DEF StatusTasks
<1>13. CASE LoadScene
    <2>1. /\ picked' \in listed \union {NoPick} /\ UNCHANGED <<listed, notes>>
          /\ refreshes' = {[r EXCEPT !.polled = FALSE] : r \in {q \in refreshes : q.at = "running"}}
        BY <1>13 DEF LoadScene
    <2>2. \A r \in refreshes : r.at = "running" => [r EXCEPT !.polled = FALSE] \in Running
        BY RefreshTypes DEF Running
    <2>3. refreshes' \subseteq Running
        BY <2>1, <2>2
    <2>4. \A r, q \in refreshes' : r = q
        BY <2>1 DEF SharedInv
    <2>5. picked' \in Pick
        BY <1>0, <2>1
    <2> QED  BY <1>0, <2>1, <2>3, <2>4, <2>5 DEF SharedInv
<1>14. CASE UNCHANGED sharedVars
    BY <1>0, <1>1, <1>14 DEF sharedVars
<1> QED
    BY <1>3, <1>4, <1>5, <1>6, <1>7, <1>8, <1>9, <1>10, <1>11, <1>12, <1>13, <1>14 DEF SharedNext

-----------------------------------------------------------------------------
\* All parts together

\* A step of the whole is, for each part, one of its steps or none.
EachSteps ==
    /\ [RelinkNext]_relinkVars /\ [WindowNext]_windowVars /\ [FixesNext]_fixesVars
    /\ [SharedNext]_sharedVars /\ [StatusNext]_statusVars /\ [ListsNext]_listsVars
    /\ [DialogsNext]_dialogVars /\ [PickerNext]_pickerVars /\ [UiNext]_uiVars
    /\ [ChunkingNext]_chunkVars /\ [ChecksNext]_checksVars /\ [QtNext]_qtVars

LEMMA StepsOfParts == [Next]_vars => EachSteps
<1> SUFFICES ASSUME [Next]_vars PROVE EachSteps
    OBVIOUS
<1> USE DEF Moves, EachSteps
<1>1. ASSUME RelinkNext,
             UNCHANGED <<windowVars, fixesVars, sharedVars, statusVars, listsVars, dialogVars,
                pickerVars, uiVars, chunkVars, checksVars, qtVars>>
      PROVE  EachSteps
    BY <1>1
<1>2. ASSUME WindowNext,
             UNCHANGED <<relinkVars, fixesVars, sharedVars, statusVars, listsVars, dialogVars,
                pickerVars, uiVars, chunkVars, checksVars, qtVars>>
      PROVE  EachSteps
    BY <1>2
<1>3. ASSUME FixesNext,
             UNCHANGED <<relinkVars, windowVars, sharedVars, statusVars, listsVars, dialogVars,
                pickerVars, uiVars, chunkVars, checksVars, qtVars>>
      PROVE  EachSteps
    BY <1>3
<1>4. ASSUME SharedNext,
             UNCHANGED <<relinkVars, windowVars, fixesVars, statusVars, listsVars, dialogVars,
                pickerVars, uiVars, chunkVars, checksVars, qtVars>>
      PROVE  EachSteps
    BY <1>4
<1>5. ASSUME StatusNext,
             UNCHANGED <<relinkVars, windowVars, fixesVars, sharedVars, listsVars, dialogVars,
                pickerVars, uiVars, chunkVars, checksVars, qtVars>>
      PROVE  EachSteps
    BY <1>5
<1>6. ASSUME ListsNext,
             UNCHANGED <<relinkVars, windowVars, fixesVars, sharedVars, statusVars, dialogVars,
                pickerVars, uiVars, chunkVars, checksVars, qtVars>>
      PROVE  EachSteps
    BY <1>6
<1>7. ASSUME DialogsNext,
             UNCHANGED <<relinkVars, windowVars, fixesVars, sharedVars, statusVars, listsVars,
                pickerVars, uiVars, chunkVars, checksVars, qtVars>>
      PROVE  EachSteps
    BY <1>7
<1>8. ASSUME PickerNext,
             UNCHANGED <<relinkVars, windowVars, fixesVars, sharedVars, statusVars, listsVars,
                dialogVars, uiVars, chunkVars, checksVars, qtVars>>
      PROVE  EachSteps
    BY <1>8
<1>9. ASSUME UiNext,
             UNCHANGED <<relinkVars, windowVars, fixesVars, sharedVars, statusVars, listsVars,
                dialogVars, pickerVars, chunkVars, checksVars, qtVars>>
      PROVE  EachSteps
    BY <1>9
<1>10. ASSUME ChunkingNext,
             UNCHANGED <<relinkVars, windowVars, fixesVars, sharedVars, statusVars, listsVars,
                dialogVars, pickerVars, uiVars, checksVars, qtVars>>
      PROVE  EachSteps
    BY <1>10
<1>11. ASSUME ChecksNext,
             UNCHANGED <<relinkVars, windowVars, fixesVars, sharedVars, statusVars, listsVars,
                dialogVars, pickerVars, uiVars, chunkVars, qtVars>>
      PROVE  EachSteps
    BY <1>11
<1>12. ASSUME QtNext,
             UNCHANGED <<relinkVars, windowVars, fixesVars, sharedVars, statusVars, listsVars,
                dialogVars, pickerVars, uiVars, chunkVars, checksVars>>
      PROVE  EachSteps
    BY <1>12
<1>13. CASE UNCHANGED vars
    BY <1>13 DEF vars
<1> QED
    BY <1>1, <1>2, <1>3, <1>4, <1>5, <1>6, <1>7, <1>8, <1>9, <1>10, <1>11, <1>12, <1>13 DEF Next

(***************************************************************************)
(* The parts share no variable, so the invariants of the parts together    *)
(* are inductive: what each needs beside what it promises is its own.      *)
(***************************************************************************)
DesktopInv ==
    /\ RelinkInv /\ WindowTypesInv /\ FixesTypeOK /\ SharedInv /\ StatusInv /\ ListsInv
    /\ BoxesInv /\ PickerInv /\ UiInv /\ ChunkInv /\ ChecksInv /\ QtInv

LEMMA DesktopInitInv == Init => DesktopInv
BY RelinkInitInv, WindowTypesInitInv, FixesInitInv, SharedInitInv, StatusInitInv, ListsInitInv,
   DialogsInitInv, PickerInitInv, UiInitInv, ChunkInitInv, ChecksInitInv, QtInitInv
   DEF Init, DesktopInv

LEMMA DesktopNextInv == DesktopInv /\ [Next]_vars => DesktopInv'
<1> SUFFICES ASSUME DesktopInv, EachSteps PROVE DesktopInv'
    BY StepsOfParts
<1>1. RelinkInv' /\ WindowTypesInv' /\ FixesTypeOK'
    BY RelinkNextInv, WindowTypesNextInv, FixesNextInv DEF DesktopInv, EachSteps
<1>2. SharedInv' /\ StatusInv' /\ ListsInv'
    BY SharedTypesNextInv, StatusNextInv, ListsNextInv DEF DesktopInv, EachSteps
<1>3. BoxesInv' /\ PickerInv' /\ UiInv'
    BY DialogsNextInv, PickerNextInv, UiNextInv DEF DesktopInv, EachSteps
<1>4. ChunkInv' /\ ChecksInv' /\ QtInv'
    BY ChunkNextInv, ChecksNextInv, QtNextInv DEF DesktopInv, EachSteps
<1> QED  BY <1>1, <1>2, <1>3, <1>4 DEF DesktopInv

LEMMA DesktopInvariant == Spec => []DesktopInv
BY DesktopInitInv, DesktopNextInv, PTL DEF Spec

(***************************************************************************)
(* Every variable of every window, list and background thread keeps to its *)
(* type; one request of a review window counts, one refresh of the notes   *)
(* runs.                                                                   *)
(***************************************************************************)
THEOREM DesktopTypesOK == Spec => []TypesOK
<1>1. DesktopInv => TypesOK
    BY WindowTypes, SharedTypes
       DEF DesktopInv, TypesOK, RelinkInv, StatusInv, ListsInv, BoxesInv, PickerInv, UiInv, ChunkInv,
           ChecksInv, QtInv
<1> QED  BY <1>1, DesktopInvariant, PTL

(***************************************************************************)
(* What a review window shows, the ticks it sends and the checks behind    *)
(* its button are those of the task it names, whatever order answers,      *)
(* polls and contexts come in.                                             *)
(***************************************************************************)
THEOREM WindowsAlwaysTellTruth == Spec => []WindowsTellTruth
<1>1. DesktopInv => WindowsTellTruth
    BY DEF DesktopInv, WindowsTellTruth, WindowTypesInv, WindowInv, TaskHeld, ChecksInv
<1> QED  BY <1>1, DesktopInvariant, PTL

(***************************************************************************)
(* A list of the dialogs is not older than the last refresh, nor of        *)
(* another project than the box beside it, whatever threads fetch and      *)
(* whatever fails, but for the races the property names.                   *)
(***************************************************************************)
THEOREM ListsAlwaysAgree == Spec => []ListsAgree
<1>1. DesktopInv => ListsAgree
    BY BoxesInvAgrees DEF DesktopInv, ListsAgree, ListsInv
<1> QED  BY <1>1, DesktopInvariant, PTL

(***************************************************************************)
(* A version is asked for with the representation it was listed with, and  *)
(* a file is published with the DCC that has it open, for any catalogs,    *)
(* DCCs and clicks.                                                        *)
(***************************************************************************)
THEOREM ClicksAlwaysAskForOneThing == Spec => []ClicksAskForOneThing
<1>1. DesktopInv => ClicksAskForOneThing
    BY DEF DesktopInv, ClicksAskForOneThing, PickerInv, UiInv
<1> QED  BY <1>1, DesktopInvariant, PTL
=============================================================================
