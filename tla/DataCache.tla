----------------------------- MODULE DataCache ------------------------------
(***************************************************************************)
(* The cache of lists that the Navigator and the Command Palette share,    *)
(* filled by the threads of their requests and emptied by their refresh    *)
(* buttons (data_source.py, workflows.py).                                 *)
(*                                                                         *)
(* The project list, the assets of a project and the versions of an asset  *)
(* are cached the same way: they are lists.  A list is how many times it   *)
(* had changed when it was fetched, or Failed: a request that fails gives  *)
(* an empty list, and that is cached as well.                              *)
(***************************************************************************)
EXTENDS Naturals, FiniteSets

CONSTANTS ListNames,
          Failed, NoList,  \* an empty list instead of an error; not cached
          Getters,         \* threads of requests
          MaxEdits         \* bound: changes of each list at the server

ASSUME DataCacheAssumption ==
    /\ ListNames # {} /\ MaxEdits \in Nat
    /\ {Failed, NoList} \cap (0..MaxEdits) = {} /\ Failed # NoList

VARIABLES server,   \* how often each list has changed
          cached,   \* _bucket
          gets,     \* what each thread is at: [at, name, list]
          cleared,  \* history: server at the last clear()
          racing    \* history: lists the last clear() met fetched and not stored

listsVars == <<server, cached, gets, cleared, racing>>

Versions == 0..MaxEdits
Idle == [at |-> "idle", name |-> CHOOSE n \in ListNames : TRUE, list |-> Failed]

ListsTypeOK ==
    /\ {server, cleared} \subseteq [ListNames -> Versions]
    /\ cached \in [ListNames -> Versions \union {Failed, NoList}]
    /\ gets \in [Getters -> [at : {"idle", "asked", "fetched"}, name : ListNames,
                             list : Versions \union {Failed}]]
    /\ racing \subseteq ListNames

ListsInit ==
    /\ server = [n \in ListNames |-> 0] /\ cleared = server
    /\ cached = [n \in ListNames |-> NoList]
    /\ gets = [g \in Getters |-> Idle]
    /\ racing = {}

\* Somebody adds a project, an asset or a version.
EditList(n) ==
    /\ server[n] < MaxEdits
    /\ server' = [server EXCEPT ![n] = @ + 1]
    /\ UNCHANGED <<cached, gets, cleared, racing>>

GetList(g, n) ==
    /\ gets[g].at = "idle"
    /\ gets' = [gets EXCEPT ![g] = [Idle EXCEPT !.at = "asked", !.name = n]]
    /\ UNCHANGED <<server, cached, cleared, racing>>

GetCached(g) ==
    /\ gets[g].at = "asked" /\ cached[gets[g].name] # NoList
    /\ gets' = [gets EXCEPT ![g] = Idle]
    /\ UNCHANGED <<server, cached, cleared, racing>>

\* The look-up that misses and the request it leads to; what happens in between
\* only makes the list newer.
FetchList(g) ==
    /\ gets[g].at = "asked" /\ cached[gets[g].name] = NoList
    /\ \E list \in {server[gets[g].name], Failed} :
           gets' = [gets EXCEPT ![g].at = "fetched", ![g].list = list]
    /\ UNCHANGED <<server, cached, cleared, racing>>

StoreList(g) ==
    /\ gets[g].at = "fetched"
    /\ cached' = [cached EXCEPT ![gets[g].name] = gets[g].list]
    /\ gets' = [gets EXCEPT ![g] = Idle]
    /\ UNCHANGED <<server, cleared, racing>>

\* Mutated form of Emptied: one of the lists is forgotten, not all.
EmptiedOne == [cached EXCEPT ![Idle.name] = NoList]

Emptied == [n \in ListNames |-> NoList]

ClearLists ==
    /\ cached' = Emptied
    /\ cleared' = server
    /\ racing' = {gets[g].name : g \in {h \in Getters : gets[h].at = "fetched"}}
    /\ UNCHANGED <<server, gets>>

ListsNext ==
    \/ \E n \in ListNames : EditList(n) \/ \E g \in Getters : GetList(g, n)
    \/ \E g \in Getters : GetCached(g) \/ FetchList(g) \/ StoreList(g)
    \/ ClearLists

(***************************************************************************)
(* After a refresh no list older than it is cached, whatever requests of   *)
(* either dialog were asked before it.  Except for a list that a thread    *)
(* had the answer for and had not stored: the code stores the old one      *)
(* after the refresh, and it stays until the next.                         *)
(***************************************************************************)
RefreshIsFresh ==
    \A n \in ListNames \ racing : cached[n] \in Versions => cached[n] >= cleared[n]
=============================================================================
