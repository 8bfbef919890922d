------------------------- MODULE HubLifecycleProofs -------------------------
(***************************************************************************)
(* Proofs about HubLifecycle for any number of hub processes, clients and  *)
(* ports.  Whatever happens, the types.  When starts overlap and nobody    *)
(* stops or kills a hub, that one of the starts survives.  When they do    *)
(* not overlap, with crashes and stolen ports, that there is one hub, that *)
(* it can be found, and that no hub removes another's session.             *)
(***************************************************************************)
EXTENDS HubLifecycle, TLAPS

\* Where a hub has picked its port: from prepare_session to its exit.
Prepared == {"rename", "pid", "pidRename", "bind"} \union Listening

\* A hub that has picked its port knows it.
PortsInv ==
    \A h \in Hubs : hub[h] \in Prepared => port[h] \in Ports

IInv == TypeOK /\ PortsInv

\* None is no session record, no port, no hub, and neither is Other.
LEMMA NoneFacts ==
    /\ \A x \in Info : x # None /\ x.hub \in Hubs /\ x.port \in Ports
    /\ None \notin Ports /\ None \notin Hubs /\ Other \notin Hubs /\ Other # None
  BY HubAssumption DEF Info

-----------------------------------------------------------------------------

\* The initial states satisfy the invariant.
LEMMA InitInv == Init => IInv
<1> SUFFICES ASSUME Init PROVE IInv OBVIOUS
<1>1. TypeOK
  BY DEF Init, TypeOK, Listening, Serving
<1>2. PortsInv
  BY DEF Init, PortsInv, Prepared, Listening, Serving
<1> QED BY <1>1, <1>2 DEF IInv

\* The exit of a process closes its sockets and nobody else's.
LEMMA ExitInv ==
    ASSUME IInv, NEW h \in Hubs, Exit(h), UNCHANGED <<files, clientVars>>,
           outage' \in BOOLEAN
    PROVE  IInv'
<1> USE NoneFacts DEF IInv
<1>1. TypeOK'
  <2>1. \A g \in Hubs : hub'[g] \in Listening => port'[g] \in Ports /\ listener'[port'[g]] = g
    BY DEF TypeOK, Exit, HubGoto, Listening, Serving, Starting
  <2> QED BY <2>1 DEF TypeOK, Exit, HubGoto, files, clientVars
<1>2. PortsInv'
  BY DEF TypeOK, PortsInv, Exit, HubGoto, Prepared, Listening, Serving
<1> QED BY <1>1, <1>2

\* A step of a hub that goes on.
LEMMA HubStepInv ==
    ASSUME IInv, NEW h \in Hubs, HubStep(h)
    PROVE  IInv'
<1> USE NoneFacts DEF IInv, HubAt
<1> USE DEF PortsInv, Prepared, Listening, Serving, Starting, HubGoto, files, clientVars
<1>1. CASE ReadExisting(h)
  BY <1>1 DEF ReadExisting, TypeOK
<1>2. CASE Refuse(h)
  BY <1>2, ExitInv DEF Refuse, TypeOK
<1>3. CASE IgnoreStale(h)
  BY <1>3 DEF IgnoreStale, TypeOK
<1>4. CASE WriteTmp(h)
  <2> PICK n \in Ports : /\ listener[n] = None
                         /\ port' = [port EXCEPT ![h] = n]
                         /\ tmp' = [hub |-> h, port |-> n]
    BY <1>4 DEF WriteTmp
  <2>1. tmp' \in Info
    BY DEF Info
  <2>2. TypeOK'
    BY <1>4, <2>1 DEF WriteTmp, TypeOK
  <2>3. PortsInv'
    BY <1>4 DEF WriteTmp, TypeOK
  <2> QED BY <2>2, <2>3
<1>5. CASE RenameSession(h)
  BY <1>5 DEF RenameSession, TypeOK
<1>6. CASE WritePidTmp(h)
  BY <1>6 DEF WritePidTmp, TypeOK
<1>7. CASE RenamePid(h)
  BY <1>7 DEF RenamePid, TypeOK
<1>8. CASE RenameFails(h)
  BY <1>8, ExitInv DEF RenameFails, TypeOK
<1>9. CASE Bind(h)
  <2>1. TypeOK'
    BY <1>9 DEF Bind, TypeOK
  <2>2. PortsInv'
    BY <1>9 DEF Bind, TypeOK
  <2> QED BY <2>1, <2>2
<1>10. CASE BindFails(h)
  BY <1>10, ExitInv DEF BindFails, TypeOK
<1>11. CASE StopServing(h)
  BY <1>11 DEF StopServing, TypeOK
<1>12. CASE ClearSession(h)
  BY <1>12 DEF ClearSession, TypeOK
<1>13. CASE Leave(h)
  BY <1>13, ExitInv DEF Leave, TypeOK
<1> QED
  BY <1>1, <1>2, <1>3, <1>4, <1>5, <1>6, <1>7, <1>8, <1>9, <1>10, <1>11, <1>12, <1>13
  DEF HubStep

\* A step of a client: only spawning touches a hub.
LEMMA ClientInv ==
    ASSUME IInv, NEW t \in Clients,
           Call(t) \/ Lookup(t) \/ GiveUp(t) \/ Detach(t)
    PROVE  IInv'
<1> USE NoneFacts DEF IInv
<1> USE DEF PortsInv, Prepared, Listening, Serving, Starting, HubGoto, files, hubVars
<1>1. CASE Call(t)
  BY <1>1 DEF Call, TypeOK
<1>2. CASE ReadSession(t)
  BY <1>2 DEF ReadSession, NotFound, TypeOK
<1>3. CASE AskHealth(t)
  BY <1>3 DEF AskHealth, NotFound, TypeOK
<1>4. CASE Spawn(t)
  <2> PICK h \in Hubs : Unused(h) /\ HubGoto(h, "check")
    BY <1>4 DEF Spawn
  <2>1. TypeOK'
    BY <1>4 DEF Spawn, TypeOK
  <2>2. PortsInv'
    BY <1>4 DEF Spawn, TypeOK
  <2> QED BY <2>1, <2>2
<1>5. CASE GiveUp(t)
  BY <1>5 DEF GiveUp, TypeOK
<1>6. CASE Detach(t)
  BY <1>6 DEF Detach, TypeOK
<1>7. CASE AnswerGarbled(t)
  BY <1>7 DEF AnswerGarbled, TypeOK
<1> QED BY <1>1, <1>2, <1>3, <1>4, <1>5, <1>6, <1>7 DEF Lookup

\* What happens from outside.
LEMMA OutsideInv ==
    ASSUME IInv, Disturbance \/ \E n \in Ports : ReleasePort(n)
    PROVE  IInv'
<1> USE NoneFacts DEF IInv, HubAt
<1> USE DEF PortsInv, Prepared, Listening, Serving, Starting, HubGoto, files, clientVars, hubVars
<1>1. ASSUME NEW h \in Hubs, RequestStop(h) PROVE IInv'
  BY <1>1 DEF RequestStop, TypeOK
<1>2. ASSUME NEW h \in Hubs, Crash(h) PROVE IInv'
  BY <1>2, ExitInv DEF Crash, TypeOK
<1>3. ASSUME NEW n \in Ports, TakePort(n) PROVE IInv'
  BY <1>3 DEF TakePort, TypeOK
<1>4. ASSUME NEW n \in Ports, ReleasePort(n) PROVE IInv'
  BY <1>4 DEF ReleasePort, TypeOK
<1> QED BY <1>1, <1>2, <1>3, <1>4 DEF Disturbance

\* Nothing happens.
LEMMA StutterInv == IInv /\ UNCHANGED vars => IInv'
  BY DEF IInv, TypeOK, PortsInv, vars, files, hubVars, clientVars

\* The invariant holds in every reachable state.
THEOREM Invariance == Spec => []IInv
<1>1. Init => IInv
  BY InitInv
<1>2. IInv /\ [Next]_vars => IInv'
  BY HubStepInv, ClientInv, OutsideInv, StutterInv DEF Next
<1> QED BY <1>1, <1>2, PTL DEF Spec

-----------------------------------------------------------------------------

(***************************************************************************)
(* Type correctness: in particular a hub that listens owns its port.       *)
(***************************************************************************)
THEOREM HubTypeCorrect == Spec => []TypeOK
<1>1. IInv => TypeOK
  BY DEF IInv
<1> QED BY Invariance, <1>1, PTL

-----------------------------------------------------------------------------
\* Starts that overlap, with nobody to stop a hub or to take its port

\* Only hubs listen, each on the port it serves.
OwnListeners == \A n \in Ports : listener[n] # None =>
                    listener[n] \in Hubs /\ hub[listener[n]] \in Serving

\* The exit of a hub that has lost its temporary file or its port leaves the
\* winner in place.
LEMMA LoserExits ==
    ASSUME TypeOK, OwnListeners, NEW g \in Hubs, Winner(g), NEW h \in Hubs, h # g,
           hub[h] \notin Serving, Exit(h), UNCHANGED files
    PROVE  OwnListeners' /\ RaceHasWinner'
<1>1. OwnListeners'
  BY NoneFacts DEF OwnListeners, Exit, HubGoto, TypeOK
<1>2. Winner(g)'
  BY DEF Winner, Exit, HubGoto, TypeOK, files
<1> QED BY <1>1, <1>2 DEF RaceHasWinner

\* So does the exit of a hub when nothing has been written yet.
LEMMA NobodyExits ==
    ASSUME TypeOK, OwnListeners, session = None, tmp = None, NEW h \in Hubs,
           hub[h] \notin Serving, Exit(h), UNCHANGED files
    PROVE  OwnListeners' /\ RaceHasWinner'
  BY NoneFacts DEF OwnListeners, Exit, HubGoto, TypeOK, RaceHasWinner, files

\* A hub that takes no part in the race exits.
LEMMA OutsiderExits ==
    ASSUME TypeOK, OwnListeners, RaceHasWinner, NEW h \in Hubs, ~Winner(h),
           hub[h] \notin Serving, Exit(h), UNCHANGED files
    PROVE  OwnListeners' /\ RaceHasWinner'
<1>1. CASE session = None /\ tmp = None
  BY <1>1, NobodyExits
<1>2. CASE session # None \/ tmp # None
  <2> PICK g \in Hubs : Winner(g) BY <1>2 DEF RaceHasWinner
  <2> QED BY LoserExits
<1> QED BY <1>1, <1>2

\* A step of a hub keeps a winner in the race.
LEMMA RaceHubStep ==
    ASSUME ~Stops, IInv, OwnListeners, RaceHasWinner, NEW h \in Hubs, HubStep(h),
           \A g \in Hubs : hub[g] \notin {"stopping", "closing", "exiting"}
    PROVE  OwnListeners' /\ RaceHasWinner'
<1> TypeOK BY DEF IInv
<1> USE NoneFacts DEF HubAt, HubGoto, files
<1>1. CASE ReadExisting(h)
  <2>1. \A g \in Hubs : Winner(g) => Winner(g)' BY <1>1 DEF ReadExisting, Winner, TypeOK, Serving
  <2>2. OwnListeners' BY <1>1 DEF ReadExisting, OwnListeners, TypeOK, Serving
  <2> QED BY <1>1, <2>1, <2>2 DEF ReadExisting, RaceHasWinner
<1>2. CASE Refuse(h)
  BY <1>2, OutsiderExits DEF Refuse, Winner, Serving
<1>3. CASE IgnoreStale(h)
  <2>1. \A g \in Hubs : Winner(g) => Winner(g)' BY <1>3 DEF IgnoreStale, Winner, TypeOK, Serving
  <2>2. OwnListeners' BY <1>3 DEF IgnoreStale, OwnListeners, TypeOK, Serving
  <2> QED BY <1>3, <2>1, <2>2 DEF IgnoreStale, RaceHasWinner
<1>4. CASE WriteTmp(h)
  <2>1. tmp' # None /\ hub'[h] = "rename"
    <3> PICK n \in Ports : tmp' = [hub |-> h, port |-> n] BY <1>4 DEF WriteTmp
    <3>1. tmp' \in Info BY DEF Info
    <3> QED BY <1>4, <3>1 DEF WriteTmp, TypeOK
  <2>2. OwnListeners' BY <1>4 DEF WriteTmp, OwnListeners, TypeOK, Serving
  <2> QED BY <2>1, <2>2 DEF RaceHasWinner, Winner
<1>5. CASE RenameSession(h)
  <2>1. Winner(h)' BY <1>5 DEF RenameSession, TypeOK, Winner
  <2>2. OwnListeners' BY <1>5 DEF RenameSession, OwnListeners, TypeOK, Serving
  <2> QED BY <2>1, <2>2 DEF RaceHasWinner
<1>6. CASE WritePidTmp(h)
  <2>1. Winner(h)' BY <1>6 DEF WritePidTmp, TypeOK, Winner
  <2>2. OwnListeners' BY <1>6 DEF WritePidTmp, OwnListeners, TypeOK, Serving
  <2> QED BY <2>1, <2>2 DEF RaceHasWinner
<1>7. CASE RenamePid(h)
  <2>1. Winner(h)' BY <1>7 DEF RenamePid, TypeOK, Winner
  <2>2. OwnListeners' BY <1>7 DEF RenamePid, OwnListeners, TypeOK, Serving
  <2> QED BY <2>1, <2>2 DEF RaceHasWinner
<1>8. CASE RenameFails(h)
  BY <1>8, OutsiderExits DEF RenameFails, Winner, Serving
<1>9. CASE Bind(h)
  <2>1. Winner(h)' BY <1>9 DEF Bind, TypeOK, Winner, Serving
  <2>2. OwnListeners' BY <1>9 DEF Bind, OwnListeners, TypeOK, Serving
  <2> QED BY <2>1, <2>2 DEF RaceHasWinner
<1>10. CASE BindFails(h)
  <2>1. port[h] \in Ports BY <1>10 DEF BindFails, IInv, PortsInv, Prepared
  <2>2. PICK g \in Hubs : g = listener[port[h]] /\ hub[g] \in Serving
    BY <1>10, <2>1 DEF BindFails, OwnListeners
  <2>3. Winner(g) BY <2>2 DEF Winner
  <2> QED BY <1>10, <2>2, <2>3, LoserExits DEF BindFails, Serving
<1>11. CASE StopServing(h) \/ ClearSession(h) \/ Leave(h)
  BY <1>11 DEF StopServing, ClearSession, Leave
<1> QED
  BY <1>1, <1>2, <1>3, <1>4, <1>5, <1>6, <1>7, <1>8, <1>9, <1>10, <1>11 DEF HubStep

\* Nobody shuts down.
NoStop == \A g \in Hubs : hub[g] \notin {"stopping", "closing", "exiting"}

RaceInv == NoStop /\ OwnListeners /\ RaceHasWinner

\* No hub begins to stop by itself.
LEMMA NoStopHubStep ==
    ASSUME IInv, NoStop, NEW h \in Hubs, HubStep(h)
    PROVE  NoStop'
  BY DEF IInv, TypeOK, NoStop, HubStep, HubAt, HubGoto, Exit, ReadExisting, Refuse, IgnoreStale,
         WriteTmp, RenameSession, WritePidTmp, RenamePid, RenameFails, Bind, BindFails,
         StopServing, ClearSession, Leave

\* Clients take no part, and nothing happens from outside.
LEMMA RaceOthers ==
    ASSUME ~Stops, ~Crashes, ~PortsTaken, IInv, RaceInv,
           \/ \E t \in Clients : Call(t) \/ Lookup(t) \/ GiveUp(t) \/ Detach(t)
           \/ \E n \in Ports : ReleasePort(n)
           \/ Disturbance
           \/ UNCHANGED vars
    PROVE  RaceInv'
<1> TypeOK BY DEF IInv
<1>1. ASSUME NEW t \in Clients, Spawn(t) PROVE RaceInv'
  <2> PICK h \in Hubs : hub[h] = "off" /\ HubGoto(h, "check")
    BY <1>1 DEF Spawn, Unused
  <2>1. UNCHANGED <<files, listener>> BY <1>1 DEF Spawn
  <2>2. \A g \in Hubs : Winner(g) => Winner(g)'
    BY <2>1 DEF Winner, HubGoto, TypeOK, Serving, files
  <2>3. NoStop' BY DEF RaceInv, NoStop, HubGoto, TypeOK
  <2>4. OwnListeners' BY <2>1 DEF RaceInv, OwnListeners, HubGoto, TypeOK, Serving
  <2>5. RaceHasWinner' BY <2>1, <2>2 DEF RaceInv, RaceHasWinner, files
  <2> QED BY <2>3, <2>4, <2>5 DEF RaceInv
<1>2. ASSUME NEW n \in Ports, ReleasePort(n) PROVE FALSE
  BY <1>2, NoneFacts DEF ReleasePort, RaceInv, OwnListeners
<1>3. ~Disturbance
  BY DEF Disturbance, RequestStop, Crash, TakePort
<1>4. CASE UNCHANGED <<files, listener, hub>>
  BY <1>4 DEF RaceInv, NoStop, OwnListeners, RaceHasWinner, Winner, files
<1> QED
  BY <1>1, <1>2, <1>3, <1>4
  DEF Lookup, Call, ReadSession, AskHealth, AnswerGarbled, GiveUp, Detach, hubVars, vars

(***************************************************************************)
(* However many hubs start at once, sharing the names of their temporary   *)
(* files and picking ports that another one may take, one of them survives *)
(* prepare_session and its bind, as long as nobody stops or kills a hub    *)
(* and no other program takes the port.                                    *)
(***************************************************************************)
THEOREM RaceAlwaysHasWinner ==
    ~Stops /\ ~Crashes /\ ~PortsTaken => (Spec => []RaceHasWinner)
<1> SUFFICES ASSUME ~Stops, ~Crashes, ~PortsTaken PROVE Spec => []RaceHasWinner OBVIOUS
<1>1. Init => RaceInv
  BY DEF Init, RaceInv, NoStop, OwnListeners, RaceHasWinner
<1>2. IInv /\ RaceInv /\ [Next]_vars => RaceInv'
  <2> SUFFICES ASSUME IInv, RaceInv, [Next]_vars PROVE RaceInv' OBVIOUS
  <2>1. ASSUME NEW h \in Hubs, HubStep(h) PROVE RaceInv'
    BY <2>1, RaceHubStep, NoStopHubStep DEF RaceInv, NoStop
  <2> QED BY <2>1, RaceOthers DEF Next
<1>3. RaceInv => RaceHasWinner
  BY DEF RaceInv
<1> QED BY <1>1, <1>2, <1>3, Invariance, PTL DEF Spec

-----------------------------------------------------------------------------
\* Starts that do not overlap

\* From the check of an existing session to the socket.
Committed == {"prepare", "rename", "pid", "pidRename", "bind"}

\* From the rename of session.json to its removal.
Published == {"pid", "pidRename", "bind"} \union Serving \union {"closing"}

Record(h) == [hub |-> h, port |-> port[h]]

\* One hub starts at a time.
OneStarts == \A g, h \in Hubs : hub[g] \in Starting /\ hub[h] \in Starting => g = h

\* A hub that has got past the check is alone, but for one about to exit.
CommittedAlone ==
    \A g, h \in Hubs : hub[g] \in Committed => hub[h] \notin Serving \union {"closing"}

\* A hub that is checking has read the session of the one that serves.
ProbesServing ==
    \A g, h \in Hubs :
        hub[g] = "probe" /\ hub[h] \in Serving \union {"closing"} => found[g] = Record(h)

\* The files hold what their writer wrote.
OwnRecords ==
    \A h \in Hubs : /\ hub[h] \in Published => session = Record(h)
                    /\ hub[h] = "rename" => tmp = Record(h)

SerialInv == OneStarts /\ CommittedAlone /\ ProbesServing /\ OwnRecords

\* The initial states satisfy the serial invariant.
LEMMA SerialInit == Init => SerialInv
  BY DEF Init, SerialInv, OneStarts, CommittedAlone, ProbesServing, OwnRecords,
         Starting, Committed, Published, Serving

\* The exit of a process keeps the serial invariant.
LEMMA SerialExit ==
    ASSUME TypeOK, SerialInv, NEW h \in Hubs, Exit(h), UNCHANGED files
    PROVE  SerialInv'
<1> USE DEF TypeOK, SerialInv, OneStarts, CommittedAlone, ProbesServing, OwnRecords,
            Starting, Committed, Published, Serving, Record, Exit, HubGoto, files
<1>1. OneStarts' OBVIOUS
<1>2. CommittedAlone' OBVIOUS
<1>3. ProbesServing' OBVIOUS
<1>4. OwnRecords' OBVIOUS
<1> QED BY <1>1, <1>2, <1>3, <1>4

\* A step of a hub keeps the serial invariant.
LEMMA SerialHubStep ==
    ASSUME IInv, SerialInv, NEW h \in Hubs, HubStep(h)
    PROVE  SerialInv'
<1> TypeOK /\ PortsInv
  BY DEF IInv
<1> USE DEF HubAt, HubGoto, files
<1> USE DEF SerialInv, OneStarts, CommittedAlone, ProbesServing, OwnRecords
<1> USE DEF Starting, Committed, Published, Serving, Record
<1>1. CASE ReadExisting(h)
  <2>1. \A g \in Hubs : hub[g] \in Serving \union {"closing"} => session # None
    BY NoneFacts DEF TypeOK, PortsInv, Prepared, Listening, Info
  <2>2. OneStarts' BY <1>1 DEF ReadExisting, TypeOK
  <2>3. CommittedAlone' BY <1>1, <2>1 DEF ReadExisting, TypeOK
  <2>4. ProbesServing' BY <1>1 DEF ReadExisting, TypeOK
  <2>5. OwnRecords' BY <1>1 DEF ReadExisting, TypeOK
  <2> QED BY <2>2, <2>3, <2>4, <2>5
<1>2. CASE Refuse(h)
  BY <1>2, SerialExit DEF Refuse
<1>3. CASE IgnoreStale(h)
  <2>1. \A g \in Hubs : hub[g] \notin Serving \union {"closing"}
    <3> SUFFICES ASSUME NEW g \in Hubs, hub[g] \in Serving \union {"closing"}
                 PROVE  Occupied(found[h])
      BY <1>3 DEF IgnoreStale
    <3>1. found[h] = Record(g)
      BY <1>3 DEF IgnoreStale
    <3>2. listener[port[g]] = g /\ hub[g] # "off"
      BY DEF TypeOK, Listening
    <3> QED BY <3>1, <3>2, NoneFacts DEF Occupied
  <2>2. OneStarts' BY <1>3 DEF IgnoreStale, TypeOK
  <2>3. CommittedAlone' BY <1>3, <2>1 DEF IgnoreStale, TypeOK
  <2>4. ProbesServing' BY <1>3, <2>1 DEF IgnoreStale, TypeOK
  <2>5. OwnRecords' BY <1>3 DEF IgnoreStale, TypeOK
  <2> QED BY <2>2, <2>3, <2>4, <2>5
<1>4. CASE WriteTmp(h)
  <2> PICK n \in Ports : /\ port' = [port EXCEPT ![h] = n]
                         /\ tmp' = [hub |-> h, port |-> n]
    BY <1>4 DEF WriteTmp
  <2>1. OneStarts' BY <1>4 DEF WriteTmp, TypeOK
  <2>2. CommittedAlone' BY <1>4 DEF WriteTmp, TypeOK
  <2>3. ProbesServing' BY <1>4 DEF WriteTmp, TypeOK
  <2>4. OwnRecords' BY <1>4 DEF WriteTmp, TypeOK
  <2> QED BY <2>1, <2>2, <2>3, <2>4
<1>5. CASE RenameSession(h)
  <2>1. OneStarts' BY <1>5 DEF RenameSession, TypeOK
  <2>2. CommittedAlone' BY <1>5 DEF RenameSession, TypeOK
  <2>3. ProbesServing' BY <1>5 DEF RenameSession, TypeOK
  <2>4. OwnRecords' BY <1>5 DEF RenameSession, TypeOK
  <2> QED BY <2>1, <2>2, <2>3, <2>4
<1>6. CASE WritePidTmp(h) BY <1>6 DEF WritePidTmp, TypeOK
<1>7. CASE RenamePid(h) BY <1>7 DEF RenamePid, TypeOK
<1>8. CASE RenameFails(h)
  BY <1>8, SerialExit DEF RenameFails
<1>9. CASE Bind(h) BY <1>9 DEF Bind, TypeOK
<1>10. CASE BindFails(h)
  BY <1>10, SerialExit DEF BindFails
<1>11. CASE StopServing(h) BY <1>11 DEF StopServing, TypeOK
<1>12. CASE ClearSession(h)
  <2>1. \A g \in Hubs \ {h} : hub[g] \notin Published
    BY <1>12 DEF ClearSession
  <2> QED BY <1>12, <2>1 DEF ClearSession, TypeOK
<1>13. CASE Leave(h)
  BY <1>13, SerialExit DEF Leave
<1> QED
  BY <1>1, <1>2, <1>3, <1>4, <1>5, <1>6, <1>7, <1>8, <1>9, <1>10, <1>11, <1>12, <1>13
  DEF HubStep

\* Clients and other programs keep it, as long as they do not spawn a hub while
\* another one starts.
LEMMA SerialOthers ==
    ASSUME ~Overlap, IInv, SerialInv,
           \/ \E t \in Clients : Call(t) \/ Lookup(t) \/ GiveUp(t) \/ Detach(t)
           \/ \E n \in Ports : ReleasePort(n)
           \/ Disturbance
           \/ UNCHANGED vars
    PROVE  SerialInv'
<1> TypeOK
  BY DEF IInv
<1> USE DEF SerialInv, OneStarts, CommittedAlone, ProbesServing, OwnRecords
<1> USE DEF Starting, Committed, Published, Serving, Record, files, hubVars
<1>1. ASSUME NEW t \in Clients, Spawn(t) PROVE SerialInv'
  <2> PICK h \in Hubs : Unused(h) /\ HubGoto(h, "check")
    BY <1>1 DEF Spawn
  <2>1. \A g \in Hubs : hub[g] \notin Starting
    BY <1>1 DEF Spawn
  <2>2. OneStarts' BY <1>1, <2>1 DEF Spawn, TypeOK, HubGoto
  <2>3. CommittedAlone' BY <1>1 DEF Spawn, TypeOK, HubGoto
  <2>4. ProbesServing' BY <1>1 DEF Spawn, TypeOK, HubGoto
  <2>5. OwnRecords' BY <1>1 DEF Spawn, TypeOK, HubGoto
  <2> QED BY <2>2, <2>3, <2>4, <2>5
<1>2. ASSUME NEW h \in Hubs, RequestStop(h) PROVE SerialInv'
  BY <1>2 DEF RequestStop, TypeOK, HubGoto, HubAt
<1>3. ASSUME NEW h \in Hubs, Crash(h) PROVE SerialInv'
  BY <1>3, SerialExit DEF Crash
<1>4. CASE UNCHANGED <<files, hubVars>>
  BY <1>4
<1> QED
  BY <1>1, <1>2, <1>3, <1>4
  DEF Lookup, Disturbance, Call, ReadSession, AskHealth, AnswerGarbled, GiveUp, Detach, TakePort,
      ReleasePort, vars

\* The serial invariant holds when starts do not overlap.
THEOREM SerialInvariance == ~Overlap => (Spec => []SerialInv)
<1> SUFFICES ASSUME ~Overlap PROVE Spec => []SerialInv OBVIOUS
<1>1. Init => SerialInv
  BY SerialInit
<1>2. IInv /\ SerialInv /\ [Next]_vars => SerialInv'
  BY SerialHubStep, SerialOthers DEF Next
<1> QED BY <1>1, <1>2, Invariance, PTL DEF Spec

(***************************************************************************)
(* When starts do not overlap, a hub that serves is the one in             *)
(* session.json, so that discover_session finds it.                        *)
(***************************************************************************)
THEOREM SerialHubReachable == ~Overlap => (Spec => []ReachableHub)
<1> SUFFICES ASSUME ~Overlap PROVE Spec => []ReachableHub OBVIOUS
<1>1. SerialInv => ReachableHub
  BY DEF SerialInv, OwnRecords, ReachableHub, Record, Published
<1> QED BY SerialInvariance, <1>1, PTL

(***************************************************************************)
(* When starts do not overlap, two hubs never serve: runtime.py:99 is kept *)
(* in the regime it was written for.                                       *)
(***************************************************************************)
THEOREM SerialSingleHub == ~Overlap => (Spec => []SingleHub)
<1> SUFFICES ASSUME ~Overlap PROVE Spec => []SingleHub OBVIOUS
<1>1. SerialInv => SingleHub
  BY DEF SerialInv, OwnRecords, SingleHub, Record, Published
<1> QED BY SerialInvariance, <1>1, PTL

(***************************************************************************)
(* When starts do not overlap, clear_session removes no session file but   *)
(* the caller's own.                                                       *)
(***************************************************************************)
THEOREM SerialClearsOwn == ~Overlap => (Spec => ClearsOwnSession)
<1> SUFFICES ASSUME ~Overlap PROVE Spec => ClearsOwnSession OBVIOUS
<1>1. SerialInv /\ [Next]_vars =>
         [session # None /\ session' = None => hub[session.hub] = "closing"]_vars
  <2> SUFFICES ASSUME SerialInv, [Next]_vars, session # None, session' = None
               PROVE  hub[session.hub] = "closing"
    OBVIOUS
  <2>1. PICK h \in Hubs : ClearSession(h)
    BY DEF Next, HubStep, Lookup, Disturbance, ReadExisting, Refuse, IgnoreStale, WriteTmp,
       RenameSession, WritePidTmp, RenamePid, RenameFails, Bind, BindFails, StopServing,
       Leave, Call, ReadSession, AskHealth, AnswerGarbled, Spawn, GiveUp, Detach, RequestStop, Crash,
       TakePort, ReleasePort, vars, files
  <2> QED BY <2>1 DEF ClearSession, HubAt, SerialInv, OwnRecords, Record, Published
<1> QED BY SerialInvariance, <1>1, PTL DEF Spec, ClearsOwnSession
=============================================================================
