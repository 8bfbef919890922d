---------------------------- MODULE HubLifecycle ----------------------------
(***************************************************************************)
(* The life of the resident hub process and how DCC clients find it:       *)
(* chimera_hub/__main__.py and runtime.py (start, session.json, shutdown), *)
(* zeno_thin/client.py and blender/chimera_zeno/hub_bridge.py (discovery   *)
(* and spawning).                                                          *)
(*                                                                         *)
(* session.json names the host, port, token and pid of the hub.  Every hub *)
(* process draws a fresh token, so the identity of a process stands for    *)
(* its token and its pid; an identity is used again only when nothing      *)
(* refers to it any more.  A pid is not reused while its session is on     *)
(* disk, and an interpreter to spawn the hub with is configured.           *)
(***************************************************************************)
EXTENDS Integers, FiniteSets

CONSTANTS Hubs,        \* identities of hub processes
          Clients,     \* DCC processes that look for a hub
          Ports,       \* ephemeral ports
          Overlap,     \* a hub may be spawned while another one is starting
          Stops,       \* a hub may be told to shut down
          Crashes,     \* a hub may die at any time
          PortsTaken,  \* another program may listen on a free port
          None, Other

ASSUME HubAssumption ==
    /\ {Overlap, Stops, Crashes, PortsTaken} \subseteq BOOLEAN
    /\ None \notin [hub : Hubs, port : Ports] \union Ports \union Hubs
    /\ Other \notin Hubs \union {None}

VARIABLES session,    \* contents of session.json, or None
          tmp,        \* contents of session.json.tmp, or None
          pidTmp,     \* session.pid.tmp exists
          listener,   \* who listens on each port: a hub, another program, None
          hub,        \* where each hub process is in main()
          port,       \* the port prepare_session chose for it
          found,      \* the session existing_session read
          client,     \* where each client is in get_hub_client
          try,        \* which of the lookups of get_hub_client it is in
          read,       \* the session its lookup read
          attached,   \* the session its ThinHubClient uses
          outage      \* history: flips when a hub is stopped or killed, or a
                      \* port taken, by somebody outside

files == <<session, tmp, pidTmp>>
hubVars == <<hub, port, found>>
clientVars == <<client, try, read, attached>>
vars == <<files, listener, hubVars, clientVars, outage>>

Info == [hub : Hubs, port : Ports]
Starting == {"check", "probe", "prepare", "rename", "pid", "pidRename", "bind"}
Serving == {"serving", "stopping"}
Listening == Serving \union {"closing", "exiting"}

\* Every variable has its type; a hub listens exactly while its socket is open.
TypeOK ==
    /\ session \in Info \union {None}
    /\ tmp \in Info \union {None}
    /\ pidTmp \in BOOLEAN
    /\ listener \in [Ports -> Hubs \union {Other, None}]
    /\ hub \in [Hubs -> {"off"} \union Starting \union Listening]
    /\ port \in [Hubs -> Ports \union {None}]
    /\ found \in [Hubs -> Info \union {None}]
    /\ client \in [Clients -> {"idle", "read", "ask", "spawn", "attached", "raised"}]
    /\ try \in [Clients -> {"discover", "ensure", "poll"}]
    /\ read \in [Clients -> Info \union {None}]
    /\ attached \in [Clients -> Info \union {None}]
    /\ outage \in BOOLEAN
    /\ \A h \in Hubs : hub[h] \in Listening => port[h] \in Ports /\ listener[port[h]] = h

Init ==
    /\ session = None /\ tmp = None /\ pidTmp = FALSE
    /\ listener = [n \in Ports |-> None]
    /\ hub = [h \in Hubs |-> "off"]
    /\ port = [h \in Hubs |-> None]
    /\ found = [h \in Hubs |-> None]
    /\ client = [t \in Clients |-> "idle"]
    /\ try = [t \in Clients |-> "discover"]
    /\ read = [t \in Clients |-> None]
    /\ attached = [t \in Clients |-> None]
    /\ outage = FALSE

HubAt(h, from) == hub[h] = from
HubGoto(h, to) == hub' = [hub EXCEPT ![h] = to]

\* The process is gone: the system closes its socket, its files stay.
Exit(h) ==
    /\ HubGoto(h, "off")
    /\ port' = [port EXCEPT ![h] = None]
    /\ found' = [found EXCEPT ![h] = None]
    /\ listener' = [n \in Ports |-> IF listener[n] = h THEN None ELSE listener[n]]

-----------------------------------------------------------------------------
\* main(): acquire_single_instance_or_die

ReadExisting(h) ==
    /\ HubAt(h, "check")
    /\ found' = [found EXCEPT ![h] = session]
    /\ HubGoto(h, IF session = None THEN "prepare" ELSE "probe")
    /\ UNCHANGED <<files, listener, port, clientVars, outage>>

\* The process of the session lives and something accepts on its port.
Occupied(info) == hub[info.hub] # "off" /\ listener[info.port] # None

Refuse(h) ==
    /\ HubAt(h, "probe")
    /\ Occupied(found[h])
    /\ Exit(h)
    /\ UNCHANGED <<files, clientVars, outage>>

\* Mutated form of IgnoreStale: a session that cannot be verified is refused.
IgnoreStaleNever(h) ==
    /\ HubAt(h, "probe")
    /\ ~Occupied(found[h])
    /\ Exit(h)
    /\ UNCHANGED <<files, clientVars, outage>>

\* A stale session: dead process, or nothing on its port.
IgnoreStale(h) ==
    /\ HubAt(h, "probe")
    /\ ~Occupied(found[h])
    /\ found' = [found EXCEPT ![h] = None]
    /\ HubGoto(h, "prepare")
    /\ UNCHANGED <<files, listener, port, clientVars, outage>>

-----------------------------------------------------------------------------
\* main(): prepare_session, where the two atomic writes use one .tmp name for
\* every process

\* pick_ephemeral_port binds and closes; then session.json.tmp is written.
WriteTmp(h) ==
    /\ HubAt(h, "prepare")
    /\ \E n \in Ports : /\ listener[n] = None
                        /\ port' = [port EXCEPT ![h] = n]
                        /\ tmp' = [hub |-> h, port |-> n]
    /\ HubGoto(h, "rename")
    /\ UNCHANGED <<session, pidTmp, listener, found, clientVars, outage>>

\* Mutated form of RenameSession: a hub that finds it has published another
\* one's session leaves the field to it.
RenameSessionYields(h) ==
    /\ HubAt(h, "rename")
    /\ tmp # None
    /\ session' = tmp
    /\ tmp' = None
    /\ IF tmp.hub = h
       THEN HubGoto(h, "pid") /\ UNCHANGED <<port, found, listener>>
       ELSE Exit(h)
    /\ UNCHANGED <<pidTmp, clientVars, outage>>

\* os.replace publishes whatever the temporary file holds now.
RenameSession(h) ==
    /\ HubAt(h, "rename")
    /\ tmp # None
    /\ session' = tmp
    /\ tmp' = None
    /\ HubGoto(h, "pid")
    /\ UNCHANGED <<pidTmp, listener, port, found, clientVars, outage>>

WritePidTmp(h) ==
    /\ HubAt(h, "pid")
    /\ pidTmp' = TRUE
    /\ HubGoto(h, "pidRename")
    /\ UNCHANGED <<session, tmp, listener, port, found, clientVars, outage>>

RenamePid(h) ==
    /\ HubAt(h, "pidRename")
    /\ pidTmp
    /\ pidTmp' = FALSE
    /\ HubGoto(h, "bind")
    /\ UNCHANGED <<session, tmp, listener, port, found, clientVars, outage>>

\* Another process renamed the temporary file away: FileNotFoundError ends
\* main() before its try block.
RenameFails(h) ==
    /\ \/ HubAt(h, "rename") /\ tmp = None
       \/ HubAt(h, "pidRename") /\ ~pidTmp
    /\ Exit(h)
    /\ UNCHANGED <<files, clientVars, outage>>

-----------------------------------------------------------------------------
\* main(): serving and shutting down

Bind(h) ==
    /\ HubAt(h, "bind")
    /\ listener[port[h]] = None
    /\ listener' = [listener EXCEPT ![port[h]] = h]
    /\ HubGoto(h, "serving")
    /\ UNCHANGED <<files, port, found, clientVars, outage>>

\* The port was taken since it was picked: OSError, session.json stays.
BindFails(h) ==
    /\ HubAt(h, "bind")
    /\ listener[port[h]] # None
    /\ Exit(h)
    /\ UNCHANGED <<files, clientVars, outage>>

\* Mutated form of RequestStop: the session is cleared before the server stops.
RequestStopClears(h) ==
    /\ Stops
    /\ HubAt(h, "serving")
    /\ session' = None
    /\ HubGoto(h, "stopping")
    /\ outage' = ~outage
    /\ UNCHANGED <<tmp, pidTmp, listener, port, found, clientVars>>

\* SIGINT, SIGTERM or POST /v1/shutdown sets stop_event.
RequestStop(h) ==
    /\ Stops
    /\ HubAt(h, "serving")
    /\ HubGoto(h, "stopping")
    /\ outage' = ~outage
    /\ UNCHANGED <<files, listener, port, found, clientVars>>

\* Mutated form of StopServing: the socket is closed with the loop.
StopServingAndClose(h) ==
    /\ HubAt(h, "stopping")
    /\ listener' = [listener EXCEPT ![port[h]] = None]
    /\ HubGoto(h, "closing")
    /\ UNCHANGED <<files, port, found, clientVars, outage>>

\* server.shutdown() ends the serving loop; the socket is never closed, so the
\* port accepts connections until the process is gone.
StopServing(h) ==
    /\ HubAt(h, "stopping")
    /\ HubGoto(h, "closing")
    /\ UNCHANGED <<files, listener, port, found, clientVars, outage>>

\* clear_session unlinks session.json whoever wrote it.
ClearSession(h) ==
    /\ HubAt(h, "closing")
    /\ session' = None
    /\ HubGoto(h, "exiting")
    /\ UNCHANGED <<tmp, pidTmp, listener, port, found, clientVars, outage>>

Leave(h) ==
    /\ HubAt(h, "exiting")
    /\ Exit(h)
    /\ UNCHANGED <<files, clientVars, outage>>

Crash(h) ==
    /\ Crashes
    /\ ~HubAt(h, "off")
    /\ Exit(h)
    /\ outage' = ~outage
    /\ UNCHANGED <<files, clientVars>>

-----------------------------------------------------------------------------
\* get_hub_client: discover_session, then ensure_hub_running, which looks again,
\* spawns a hub and polls until its deadline

Call(t) ==
    /\ client[t] \in {"idle", "raised"}
    /\ client' = [client EXCEPT ![t] = "read"]
    /\ try' = [try EXCEPT ![t] = "discover"]
    /\ UNCHANGED <<files, listener, hubVars, read, attached, outage>>

\* A lookup that found nothing: look again, spawn a hub, or keep polling.
NotFound(t) ==
    /\ read' = [read EXCEPT ![t] = None]
    /\ \/ /\ try[t] = "discover"
          /\ try' = [try EXCEPT ![t] = "ensure"]
          /\ client' = [client EXCEPT ![t] = "read"]
       \/ /\ try[t] = "ensure"
          /\ client' = [client EXCEPT ![t] = "spawn"]
          /\ UNCHANGED try
       \/ /\ try[t] = "poll"
          /\ client' = [client EXCEPT ![t] = "read"]
          /\ UNCHANGED try

ReadSession(t) ==
    /\ client[t] = "read"
    /\ IF session = None
       THEN NotFound(t)
       ELSE /\ read' = [read EXCEPT ![t] = session]
            /\ client' = [client EXCEPT ![t] = "ask"]
            /\ UNCHANGED try
    /\ UNCHANGED <<files, listener, hubVars, attached, outage>>

\* GET /v1/health answers 200 to the token of the hub that serves the port;
\* any other hub says 401, a hub that is closing lets the request time out.
Healthy(info) == listener[info.port] = info.hub /\ hub[info.hub] \in Serving

\* Another program on the port of the session may answer anything.
Foreign(info) == listener[info.port] = Other

\* A status of 200 makes the listener the hub, whoever it is.
AskHealth(t) ==
    /\ client[t] = "ask"
    /\ \/ /\ Healthy(read[t]) \/ Foreign(read[t])
          /\ attached' = [attached EXCEPT ![t] = read[t]]
          /\ client' = [client EXCEPT ![t] = "attached"]
          /\ read' = [read EXCEPT ![t] = None]
          /\ UNCHANGED try
       \/ /\ ~Healthy(read[t])
          /\ NotFound(t)
          /\ UNCHANGED attached
    /\ UNCHANGED <<files, listener, hubVars, outage>>

\* An answer that is not HTTP is no OSError: http.client.BadStatusLine leaves
\* discover_session.  Thrown by the first lookup it leaves get_hub_client too;
\* from ensure_hub_running it is caught and the caller goes on without the hub.
AnswerGarbled(t) ==
    /\ client[t] = "ask"
    /\ Foreign(read[t])
    /\ client' = [client EXCEPT ![t] = IF try[t] = "discover" THEN "raised" ELSE "idle"]
    /\ try' = [try EXCEPT ![t] = "discover"]
    /\ read' = [read EXCEPT ![t] = None]
    /\ UNCHANGED <<files, listener, hubVars, attached, outage>>

\* Nothing refers to the identity of a process that is gone.
Unused(h) ==
    /\ hub[h] = "off"
    /\ \A x \in {session, tmp} : x # None => x.hub # h
    /\ \A t \in Clients : \A x \in {read[t], attached[t]} : x # None => x.hub # h
    /\ \A g \in Hubs : found[g] # None => found[g].hub # h

Spawn(t) ==
    /\ client[t] = "spawn"
    /\ Overlap \/ \A h \in Hubs : hub[h] \notin Starting
    /\ \E h \in Hubs : Unused(h) /\ HubGoto(h, "check")
    /\ client' = [client EXCEPT ![t] = "read"]
    /\ try' = [try EXCEPT ![t] = "poll"]
    /\ UNCHANGED <<files, listener, port, found, read, attached, outage>>

\* HubNotRunning: the caller goes on without the hub.
GiveUp(t) ==
    /\ try[t] = "poll" /\ client[t] \in {"read", "ask"}
    /\ client' = [client EXCEPT ![t] = "idle"]
    /\ try' = [try EXCEPT ![t] = "discover"]
    /\ read' = [read EXCEPT ![t] = None]
    /\ UNCHANGED <<files, listener, hubVars, attached, outage>>

\* The caller is done with its ThinHubClient, whether the hub answered or not.
Detach(t) ==
    /\ client[t] = "attached"
    /\ client' = [client EXCEPT ![t] = "idle"]
    /\ try' = [try EXCEPT ![t] = "discover"]
    /\ attached' = [attached EXCEPT ![t] = None]
    /\ UNCHANGED <<files, listener, hubVars, read, outage>>

-----------------------------------------------------------------------------
\* Other programs

\* They never take the last port.
TakePort(n) ==
    /\ PortsTaken
    /\ listener[n] = None
    /\ \E m \in Ports \ {n} : listener[m] # Other
    /\ listener' = [listener EXCEPT ![n] = Other]
    /\ outage' = ~outage
    /\ UNCHANGED <<files, hubVars, clientVars>>

ReleasePort(n) ==
    /\ listener[n] = Other
    /\ listener' = [listener EXCEPT ![n] = None]
    /\ UNCHANGED <<files, hubVars, clientVars, outage>>

-----------------------------------------------------------------------------

HubStep(h) ==
    \/ ReadExisting(h) \/ Refuse(h) \/ IgnoreStale(h)
    \/ WriteTmp(h) \/ RenameSession(h) \/ WritePidTmp(h) \/ RenamePid(h) \/ RenameFails(h)
    \/ Bind(h) \/ BindFails(h)
    \/ StopServing(h) \/ ClearSession(h) \/ Leave(h)

Lookup(t) == ReadSession(t) \/ AskHealth(t) \/ AnswerGarbled(t) \/ Spawn(t)

\* What ends or prevents a hub from outside.
Disturbance ==
    \/ \E h \in Hubs : RequestStop(h) \/ Crash(h)
    \/ \E n \in Ports : TakePort(n)

Next ==
    \/ \E h \in Hubs : HubStep(h)
    \/ \E t \in Clients : Call(t) \/ Lookup(t) \/ GiveUp(t) \/ Detach(t)
    \/ \E n \in Ports : ReleasePort(n)
    \/ Disturbance

\* Processes run, polling reaches its deadline; other programs need not end.
Fairness ==
    /\ \A h \in Hubs : WF_vars(HubStep(h))
    /\ \A t \in Clients : WF_vars(Lookup(t)) /\ WF_vars(GiveUp(t)) /\ WF_vars(Detach(t))

Spec == Init /\ [][Next]_vars
FairSpec == Spec /\ Fairness

-----------------------------------------------------------------------------

(***************************************************************************)
(* One hub per CHIMERA_ROOT: runtime.py:99.                                *)
(***************************************************************************)
SingleHub == \A g, h \in Hubs : hub[g] \in Serving /\ hub[h] \in Serving => g = h

(***************************************************************************)
(* A hub that serves can be found: session.json holds its port and token   *)
(* from before it answers its first request until it has stopped answering.*)
(***************************************************************************)
ReachableHub ==
    \A h \in Hubs : hub[h] \in Serving => session = [hub |-> h, port |-> port[h]]

(***************************************************************************)
(* However many hubs start at the same time, taking each other's temporary *)
(* files away and picking the same port, they do not all die of it: from   *)
(* the first write to session.json on, one of them serves or has nothing   *)
(* left that can fail but for a port another one serves on.  Which of them *)
(* session.json names is left open: it may be one that died.               *)
(***************************************************************************)
Winner(h) ==
    \/ hub[h] \in {"pid", "bind"} \union Serving
    \/ hub[h] = "rename" /\ tmp # None
    \/ hub[h] = "pidRename" /\ pidTmp

RaceHasWinner == session # None \/ tmp # None => \E h \in Hubs : Winner(h)

(***************************************************************************)
(* A hub that shuts down removes no session file but its own.              *)
(***************************************************************************)
ClearsOwnSession ==
    [][session # None /\ session' = None => hub[session.hub] = "closing"]_vars

(***************************************************************************)
(* Whatever hubs died, were stopped or lost their port before, a client    *)
(* that keeps asking gets a hub that serves once that has ceased: stale    *)
(* files never keep a new hub from starting or from being found.  The      *)
(* exception is a program that goes on listening on the port session.json  *)
(* names: it is taken for the hub, or its answer ends the call.            *)
(***************************************************************************)
Served(t) == client[t] = "attached" /\ hub[attached[t].hub] \in Serving

ClientsServed ==
    /\ <>[][UNCHANGED outage]_vars
    /\ <>[](session # None => listener[session.port] # Other)
    => \A t \in Clients : []<>(client[t] \notin {"idle", "raised"}) => []<>Served(t)
=============================================================================
