---------------------------- MODULE PortRegistry ----------------------------
(***************************************************************************)
(* The servers plctap opens on local ports: ListenerRegistry               *)
(* (listener.py) and ProxyRegistry (proxy.py), which manage ports, servers *)
(* and client tasks alike.  What differs is how a client's task begins and *)
(* ends: a listener serves at once, inside a try whose finally closes the  *)
(* client's connection and waits until it is closed; a proxy first         *)
(* connects to the device, outside such a try, and closes without waiting. *)
(*                                                                         *)
(* start and stop are tool calls, that is tasks; a step is the code        *)
(* between two suspension points.  Module Relay has what a client's task   *)
(* does with the bytes it receives.                                        *)
(***************************************************************************)
EXTENDS Integers, FiniteSets

CONSTANTS
  Starts,           \* the calls of start; each makes at most one server
  Stops,            \* the calls of stop
  Clients,          \* connections from clients
  Hosts, Ports,     \* local addresses and the ports of each
  Registries,       \* the registries considered: "listener", "proxy"
  Pythons,          \* the versions of asyncio considered: "3.11", "3.12"
  Nothing

ASSUME NothingAssumption  == Nothing \notin Starts
ASSUME PortsAssumption    == Ports \subseteq Nat \ {0}
ASSUME RegistryAssumption == Registries \subseteq {"listener", "proxy"}
ASSUME PythonAssumption   == Pythons \subseteq {"3.11", "3.12"}

VARIABLES
  kind,      \* which of the two registries this is; it never changes
  python,    \* the version of asyncio it runs on; it never changes
  starting,  \* per start: idle, binding (suspended in start_server), done, failed
  host,      \* per start: the host asked for
  port,      \* per start: the port asked for, 0 for any, then the port it got
  server,    \* per start: none, open or closed
  registry,  \* self._listeners, self._proxies
  stopping,  \* per stop: idle, gathering, closing, done
  victim,    \* per stop: the server it closes
  awaited,   \* per stop: the client tasks it waits for
  session,   \* per client: none, accepted, spawned, connecting, serving; closing (its task waits for
             \* the transport); lingering (its task has ended, the transport flushes); closed, leaked
  owner,     \* per client: the server that accepted it
  clogged,   \* per client: it has stopped reading while bytes for it are not flushed
  cancelled, \* per client: a cancellation of its task is due
  deaf,      \* history: the cancellation of its task was lost
  late       \* history: the client was accepted but had no task when stop ran

startVars   == <<starting, host, port, server>>
stopVars    == <<stopping, victim, awaited>>
sessionVars == <<session, owner, clogged, cancelled, deaf, late>>
vars        == <<kind, python, startVars, registry, stopVars, sessionVars>>

TypeOK ==
  /\ kind \in Registries
  /\ python \in Pythons
  /\ starting \in [Starts -> {"idle", "binding", "done", "failed"}]
  /\ host \in [Starts -> Hosts]
  /\ port \in [Starts -> Ports \cup {0}]
  /\ server \in [Starts -> {"none", "open", "closed"}]
  /\ \A s \in Starts : server[s] # "none" => port[s] \in Ports
  /\ registry \in [Ports -> Starts \cup {Nothing}]
  /\ stopping \in [Stops -> {"idle", "gathering", "closing", "done"}]
  /\ victim \in [Stops -> Starts \cup {Nothing}]
  /\ awaited \in [Stops -> SUBSET Clients]
  /\ session \in [Clients -> {"none", "accepted", "spawned", "connecting",
                              "serving", "closing", "lingering", "closed", "leaked"}]
  /\ owner \in [Clients -> Starts \cup {Nothing}]
  /\ clogged \in [Clients -> BOOLEAN]
  /\ cancelled \in [Clients -> BOOLEAN]
  /\ deaf \in [Clients -> BOOLEAN]
  /\ late \in [Clients -> BOOLEAN]

Init ==
  /\ kind \in Registries
  /\ python \in Pythons
  /\ starting = [s \in Starts |-> "idle"]
  /\ host \in [Starts -> Hosts]
  /\ port = [s \in Starts |-> 0]
  /\ server = [s \in Starts |-> "none"]
  /\ registry = [p \in Ports |-> Nothing]
  /\ stopping = [t \in Stops |-> "idle"]
  /\ victim = [t \in Stops |-> Nothing]
  /\ awaited = [t \in Stops |-> {}]
  /\ session = [x \in Clients |-> "none"]
  /\ owner = [x \in Clients |-> Nothing]
  /\ clogged = [x \in Clients |-> FALSE]
  /\ cancelled = [x \in Clients |-> FALSE]
  /\ deaf = [x \in Clients |-> FALSE]
  /\ late = [x \in Clients |-> FALSE]

-----------------------------------------------------------------------------
(* start                                                                    *)

\* The check at the head of start; port 0 is in no registry.
IsTaken(p) == p # 0 /\ registry[p] # Nothing

\* Up to the suspension in asyncio.start_server.
Start(s, p) ==
  /\ starting[s] = "idle"
  /\ starting' = [starting EXCEPT ![s] = IF IsTaken(p) THEN "failed" ELSE "binding"]
  /\ port' = [port EXCEPT ![s] = p]
  /\ UNCHANGED <<kind, python, host, server, registry, stopVars, sessionVars>>

\* The operating system lets one open server have an address.
CanBind(h, p) == \A s \in Starts : server[s] = "open" => <<host[s], port[s]>> # <<h, p>>

\* Mutated form: the server is registered under the port asked for.
RegisterRequested(s, p) ==
  registry' = IF port[s] = 0 THEN registry ELSE [registry EXCEPT ![p] = s]
Register(s, p) == registry' = [registry EXCEPT ![p] = s]

ActualPort(s, p) == p

\* start_server returns: the actual port is registered, whoever had it before.
Bind(s, p) ==
  /\ starting[s] = "binding"
  /\ port[s] \in {0, p}
  /\ CanBind(host[s], p)
  /\ starting' = [starting EXCEPT ![s] = "done"]
  /\ server'   = [server EXCEPT ![s] = "open"]
  /\ port'     = [port EXCEPT ![s] = ActualPort(s, p)]
  /\ Register(s, p)
  /\ UNCHANGED <<kind, python, host, stopVars, sessionVars>>

\* start_server raises: the address is in use, or not ours.
BindFails(s) ==
  /\ starting[s] = "binding"
  /\ starting' = [starting EXCEPT ![s] = "failed"]
  /\ UNCHANGED <<kind, python, host, port, server, registry, stopVars, sessionVars>>

-----------------------------------------------------------------------------
(* A client's task                                                          *)

\* The event loop accepts a client; the callback that makes its task is due.
Accept(x, s) ==
  /\ session[x] = "none"
  /\ server[s] = "open"
  /\ session' = [session EXCEPT ![x] = "accepted"]
  /\ owner'   = [owner EXCEPT ![x] = s]
  /\ UNCHANGED <<kind, python, startVars, registry, stopVars, clogged, cancelled, deaf, late>>

Becomes(x, state) ==
  /\ session' = [session EXCEPT ![x] = state]
  /\ UNCHANGED <<kind, python, startVars, registry, stopVars, owner, clogged, deaf, late>>

\* _spawn makes the task and puts it into tasks.
Spawn(x) == session[x] = "accepted" /\ Becomes(x, "spawned") /\ UNCHANGED cancelled

\* The task takes its first step, unless it was cancelled before: then no line
\* of it runs, and nobody closes the client's connection.
BeginTask(x) ==
  /\ session[x] = "spawned"
  /\ Becomes(x, IF cancelled[x] THEN "leaked"
                ELSE IF kind = "proxy" THEN "connecting" ELSE "serving")
  /\ UNCHANGED cancelled

\* Proxy: the device is reached, or not; a cancellation is not among the
\* exceptions of this try, and the finally comes later.
ReachDevice(x) ==
  /\ session[x] = "connecting"
  /\ \/ cancelled[x] /\ Becomes(x, "leaked")
     \/ ~cancelled[x] /\ Becomes(x, "serving")
     \/ ~cancelled[x] /\ Becomes(x, "lingering")
  /\ UNCHANGED cancelled

\* EOF, an error, the idle timeout; or the cancellation, which is spent with it:
\* the finally closes, and that of a listener then suspends in wait_closed.
EndServing(x) ==
  /\ session[x] = "serving"
  /\ Becomes(x, IF kind = "listener" THEN "closing" ELSE "lingering")
  /\ cancelled' = [cancelled EXCEPT ![x] = FALSE]

\* A cancellation that finds the task in wait_closed ends the wait, not the transport.
AbandonClose(x) ==
  /\ session[x] = "closing" /\ cancelled[x]
  /\ Becomes(x, "lingering")
  /\ UNCHANGED cancelled

\* The transport has sent what it had and is detached from the server; that wakes
\* wait_closed.
Detach(x) ==
  /\ session[x] \in {"closing", "lingering"} /\ ~clogged[x]
  /\ Becomes(x, "closed")
  /\ UNCHANGED cancelled

\* A client that is served stops reading; it reads on, or goes away.
Clog(x) ==
  /\ clogged[x] \/ session[x] = "serving"
  /\ clogged' = [clogged EXCEPT ![x] = ~@]
  /\ UNCHANGED <<kind, python, startVars, registry, stopVars, session, owner, cancelled, deaf, late>>

-----------------------------------------------------------------------------
(* stop                                                                     *)

\* The tasks of a server that have not ended.
TasksOf(s) == {x \in Clients : owner[x] = s /\ session[x] \in {"spawned", "connecting", "serving", "closing"}}

\* Every await of a client task before its finally is an asyncio.wait_for.  In Python
\* 3.11 it loses a cancellation that comes after what it waits for has been completed.
MayMiss(x) == python = "3.11" /\ session[x] \in {"connecting", "serving"}

\* Mutated form: the tasks are awaited, but not cancelled.
CancelNone(S) == UNCHANGED <<cancelled, deaf>>
Cancel(S) ==
  \E missed \in SUBSET {x \in S : MayMiss(x)} :
    /\ cancelled' = [x \in Clients |-> cancelled[x] \/ x \in S \ missed]
    /\ deaf'      = [x \in Clients |-> deaf[x] \/ x \in missed]

\* Mutated form: the tasks are cancelled, but not awaited.
AwaitNone(S) == {}
AwaitedTasks(S) == S

Unregister(p) == registry' = [registry EXCEPT ![p] = Nothing]

\* Up to the suspension in asyncio.gather.  (Without a server on p, stop raises
\* and changes nothing.)
Stop(t, p) ==
  LET s == registry[p] IN
  /\ stopping[t] = "idle"
  /\ s # Nothing
  /\ Unregister(p)
  /\ server'   = [server EXCEPT ![s] = "closed"]
  /\ Cancel(TasksOf(s))
  /\ stopping' = [stopping EXCEPT ![t] = "gathering"]
  /\ victim'   = [victim EXCEPT ![t] = s]
  /\ awaited'  = [awaited EXCEPT ![t] = AwaitedTasks(TasksOf(s))]
  /\ late'     = [x \in Clients |-> late[x] \/ (owner[x] = s /\ session[x] = "accepted")]
  /\ UNCHANGED <<kind, python, starting, host, port, session, owner, clogged>>

Ended(x) == session[x] \in {"lingering", "closed", "leaked"}

Gathered(t) ==
  /\ stopping[t] = "gathering"
  /\ \A x \in awaited[t] : Ended(x)
  /\ stopping' = [stopping EXCEPT ![t] = "closing"]
  /\ UNCHANGED <<kind, python, startVars, registry, victim, awaited, sessionVars>>

\* Since Python 3.12 Server.wait_closed waits until every transport is detached.
Stopped(t) ==
  /\ stopping[t] = "closing"
  /\ python = "3.12" => \A x \in Clients : owner[x] = victim[t] => session[x] = "closed"
  /\ stopping' = [stopping EXCEPT ![t] = "done"]
  /\ UNCHANGED <<kind, python, startVars, registry, victim, awaited, sessionVars>>

-----------------------------------------------------------------------------
Next ==
  \/ \E s \in Starts :
       \/ \E p \in Ports \cup {0} : Start(s, p)
       \/ \E p \in Ports : Bind(s, p)
       \/ BindFails(s)
       \/ \E x \in Clients : Accept(x, s)
  \/ \E x \in Clients :
       \/ Spawn(x) \/ BeginTask(x) \/ ReachDevice(x) \/ EndServing(x)
       \/ AbandonClose(x) \/ Detach(x) \/ Clog(x)
  \/ \E t \in Stops :
       \/ \E p \in Ports : Stop(t, p)
       \/ Gathered(t) \/ Stopped(t)

Spec == Init /\ [][Next]_vars

\* The event loop runs what is ready: callbacks, new tasks, cancelled tasks, and
\* transports whose clients read.  A client that is served may stay for ever, and may
\* never read again; so may its attempt to reach a device stay, until it is cancelled.
FairSpec ==
  /\ Spec
  /\ \A x \in Clients :
       /\ WF_vars(Spawn(x)) /\ WF_vars(BeginTask(x)) /\ WF_vars(Detach(x))
       /\ WF_vars(cancelled[x] /\ (ReachDevice(x) \/ EndServing(x) \/ AbandonClose(x)))
  /\ \A t \in Stops : WF_vars(Gathered(t)) /\ WF_vars(Stopped(t))

-----------------------------------------------------------------------------
(* Properties                                                               *)

\* Every open server can be stopped: it is registered under its port, unless a
\* start for the same port on another host was registered over it (the check of
\* start precedes its await, and the registry knows ports only).
OpenIsRegistered ==
  \A s \in Starts : server[s] = "open" =>
    \/ registry[port[s]] = s
    \/ \E t \in Starts \ {s} :
         starting[t] = "done" /\ port[t] = port[s] /\ host[t] # host[s]

\* The registry offers no server that is gone: a port in it is being listened on.
RegisteredIsOpen ==
  \A p \in Ports : registry[p] # Nothing => server[registry[p]] = "open" /\ port[registry[p]] = p

\* When stop has returned, no task serves a client of its server any more, except
\* for clients that had been accepted, but had no task yet, when stop ran.
StopEndsTasks ==
  \A t \in Stops : \A x \in Clients :
    (stopping[t] = "done" /\ owner[x] = victim[t]) => Ended(x) \/ late[x]

\* What keeps stop waiting for a client: its task has lost its cancellation (3.11);
\* or its task waits for a transport that cannot be flushed (listener); or, since
\* 3.12, its transport cannot be flushed, or is open and nobody will close it.
HeldUp(t) ==
  \E x \in Clients :
    /\ owner[x] = victim[t] /\ session[x] # "closed"
    /\ \/ deaf[x]
       \/ clogged[x] /\ (session[x] = "closing" \/ python = "3.12")
       \/ python = "3.12" /\ (late[x] \/ session[x] = "leaked")

\* stop returns although clients keep talking, since it cancels what it waits for:
\* one that goes on for ever is held up for ever, by a client out of its reach.
StopReturns ==
  \A t \in Stops : []<>(stopping[t] \in {"idle", "done"} \/ HeldUp(t))

\* A server belongs to a start that has returned.
ServersAreMade ==
  \A s \in Starts : starting[s] = "done" <=> server[s] # "none"

\* Whom a stop closes, and which clients it leaves behind.
StopsAreComplete ==
  /\ \A x \in Clients : session[x] = "none" <=> owner[x] = Nothing
  /\ \A t \in Stops : stopping[t] # "idle" =>
       /\ victim[t] \in Starts
       /\ server[victim[t]] = "closed"
       /\ \A x \in Clients : owner[x] = victim[t] =>
            \/ Ended(x)
            \/ late[x]
            \/ stopping[t] = "gathering" /\ x \in awaited[t]

\* The inductive invariant: what makes the properties above provable.
PortInv ==
  /\ TypeOK
  /\ ServersAreMade
  /\ RegisteredIsOpen
  /\ OpenIsRegistered
  /\ StopsAreComplete
=============================================================================
