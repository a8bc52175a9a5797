------------------------- MODULE PortRegistryProofs -------------------------
(***************************************************************************)
(* Theorems about PortRegistry, for any number of starts, stops, clients,  *)
(* hosts and ports.  PortInv is inductive; the safety properties follow.   *)
(***************************************************************************)
EXTENDS PortRegistry, TLAPS

USE NothingAssumption, PortsAssumption, RegistryAssumption, PythonAssumption

\* PortInv holds before anything has been started.
LEMMA PortInit == Init => PortInv
BY DEF Init, PortInv, TypeOK, ServersAreMade, RegisteredIsOpen, OpenIsRegistered, StopsAreComplete

-----------------------------------------------------------------------------
(* start                                                                    *)

\* A start that sets out or fails has no server, and no stop has one of it.
LEMMA StartKeeps ==
  ASSUME PortInv, NEW s \in Starts, NEW p \in Ports \cup {0}, Start(s, p) \/ BindFails(s)
  PROVE  PortInv'
<1> USE DEF PortInv
<1>1. server[s] = "none"
  BY DEF ServersAreMade, Start, BindFails
<1>2. TypeOK'
  BY <1>1 DEF TypeOK, Start, BindFails, startVars, stopVars, sessionVars
<1>3. ServersAreMade'
  BY DEF ServersAreMade, TypeOK, Start, BindFails
<1>4. RegisteredIsOpen'
  BY <1>1 DEF RegisteredIsOpen, TypeOK, Start, BindFails
<1>5. OpenIsRegistered'
  <2> SUFFICES ASSUME NEW u \in Starts, server'[u] = "open"
               PROVE  \/ registry'[port'[u]] = u
                      \/ \E t \in Starts \ {u} :
                           starting'[t] = "done" /\ port'[t] = port'[u] /\ host'[t] # host'[u]
    BY DEF OpenIsRegistered
  <2>1. u # s /\ server[u] = "open" /\ port'[u] = port[u]
    BY <1>1 DEF TypeOK, Start, BindFails
  <2>2. registry' = registry /\ host' = host
    BY DEF Start, BindFails
  <2>3. CASE registry[port[u]] = u
    BY <2>1, <2>2, <2>3
  <2>4. CASE \E t \in Starts \ {u} : starting[t] = "done" /\ port[t] = port[u] /\ host[t] # host[u]
    <3>1. PICK t \in Starts \ {u} : starting[t] = "done" /\ port[t] = port[u] /\ host[t] # host[u]
      BY <2>4
    <3>2. t # s /\ starting'[t] = "done" /\ port'[t] = port[t]
      BY <3>1 DEF TypeOK, Start, BindFails
    <3> QED BY <2>1, <2>2, <3>1, <3>2
  <2> QED BY <2>1, <2>3, <2>4 DEF OpenIsRegistered
<1>6. StopsAreComplete'
  BY DEF StopsAreComplete, Ended, TypeOK, Start, BindFails, stopVars, sessionVars
<1> QED BY <1>2, <1>3, <1>4, <1>5, <1>6

\* A start that returns takes its port over only from servers on other hosts.
LEMMA BindKeeps ==
  ASSUME PortInv, NEW s \in Starts, NEW p \in Ports, Bind(s, p)
  PROVE  PortInv'
<1> USE DEF PortInv
<1>0. /\ starting[s] = "binding" /\ server[s] = "none" /\ CanBind(host[s], p)
      /\ starting' = [starting EXCEPT ![s] = "done"]
      /\ server' = [server EXCEPT ![s] = "open"]
      /\ port' = [port EXCEPT ![s] = p]
      /\ registry' = [registry EXCEPT ![p] = s]
      /\ UNCHANGED <<kind, python, host, stopVars, sessionVars>>
  BY DEF Bind, ActualPort, Register, ServersAreMade
<1>2. TypeOK'
  BY <1>0 DEF TypeOK, stopVars, sessionVars
<1>3. ServersAreMade'
  BY <1>0 DEF ServersAreMade, TypeOK
<1>4. RegisteredIsOpen'
  BY <1>0 DEF RegisteredIsOpen, TypeOK
<1>5. OpenIsRegistered'
  <2> SUFFICES ASSUME NEW u \in Starts, server'[u] = "open"
               PROVE  \/ registry'[port'[u]] = u
                      \/ \E t \in Starts \ {u} :
                           starting'[t] = "done" /\ port'[t] = port'[u] /\ host'[t] # host'[u]
    BY DEF OpenIsRegistered
  <2>1. CASE u = s
    BY <1>0, <2>1 DEF TypeOK
  <2>2. CASE u # s /\ port[u] = p
    <3>1. server[u] = "open" /\ host[u] # host[s]
      BY <1>0, <2>2 DEF CanBind, TypeOK
    <3>2. s \in Starts \ {u} /\ starting'[s] = "done" /\ port'[s] = p /\ port'[u] = p
      BY <1>0, <2>2 DEF TypeOK
    <3> QED BY <1>0, <3>1, <3>2
  <2>3. CASE u # s /\ port[u] # p
    <3>1. server[u] = "open" /\ port'[u] = port[u] /\ port[u] \in Ports
      BY <1>0, <2>3 DEF TypeOK
    <3>2. CASE registry[port[u]] = u
      BY <1>0, <2>3, <3>1, <3>2 DEF TypeOK
    <3>3. CASE \E t \in Starts \ {u} : starting[t] = "done" /\ port[t] = port[u] /\ host[t] # host[u]
      <4>1. PICK t \in Starts \ {u} : starting[t] = "done" /\ port[t] = port[u] /\ host[t] # host[u]
        BY <3>3
      <4>2. t # s /\ starting'[t] = "done" /\ port'[t] = port[t]
        BY <1>0, <4>1 DEF TypeOK
      <4> QED BY <1>0, <3>1, <4>1, <4>2
    <3> QED BY <3>1, <3>2, <3>3 DEF OpenIsRegistered
  <2> QED BY <2>1, <2>2, <2>3
<1>6. StopsAreComplete'
  BY <1>0 DEF StopsAreComplete, Ended, TypeOK, stopVars, sessionVars
<1> QED BY <1>2, <1>3, <1>4, <1>5, <1>6

-----------------------------------------------------------------------------
(* Client tasks                                                             *)

\* Nothing a client's task does touches servers or ports; a client of a stopped
\* server that moves on was awaited, or late, and stays so until it has ended.
LEMMA ClientKeeps ==
  ASSUME PortInv, NEW x \in Clients,
         \/ Spawn(x) \/ BeginTask(x) \/ ReachDevice(x) \/ EndServing(x)
         \/ AbandonClose(x) \/ Detach(x)
  PROVE  PortInv'
<1> USE DEF PortInv
<1> DEFINE ended == {"lingering", "closed", "leaked"}
<1>0. PICK state \in {"spawned", "connecting", "serving", "closing", "lingering", "closed", "leaked"} :
        session[x] \notin {"none", "closed", "leaked"} /\ (Ended(x) => state \in ended) /\ Becomes(x, state)
  BY DEF Spawn, BeginTask, ReachDevice, EndServing, AbandonClose, Detach, Ended
<1>1. UNCHANGED <<kind, python, startVars, registry, stopVars, owner, clogged, deaf, late>>
  BY <1>0 DEF Becomes
<1>2. cancelled' \in [Clients -> BOOLEAN]
  BY DEF Spawn, BeginTask, ReachDevice, EndServing, AbandonClose, Detach, TypeOK
<1>3. TypeOK'
  <2>1. session' = [session EXCEPT ![x] = state]
    BY <1>0 DEF Becomes
  <2>2. session' \in [Clients -> {"none", "accepted", "spawned", "connecting", "serving",
                                  "closing", "lingering", "closed", "leaked"}]
    BY <1>0, <2>1 DEF TypeOK
  <2> QED BY <1>1, <1>2, <2>2 DEF TypeOK, startVars, stopVars
<1>4. ServersAreMade' /\ RegisteredIsOpen' /\ OpenIsRegistered'
  BY <1>1 DEF ServersAreMade, RegisteredIsOpen, OpenIsRegistered, startVars
<1>5. \A y \in Clients : Ended(y) => Ended(y)'
  BY <1>0 DEF Ended, Becomes, TypeOK
<1>6. \A y \in Clients : session'[y] = "none" <=> session[y] = "none"
  BY <1>0 DEF Becomes, TypeOK
<1>7. StopsAreComplete'
  BY <1>1, <1>5, <1>6 DEF StopsAreComplete, startVars, stopVars
<1> QED BY <1>3, <1>4, <1>7

\* Whether a client reads is nobody's business here.
LEMMA ClogKeeps ==
  ASSUME PortInv, NEW x \in Clients, Clog(x)
  PROVE  PortInv'
<1> USE DEF PortInv
<1>1. TypeOK'
  BY DEF TypeOK, Clog, startVars, stopVars
<1>2. ServersAreMade' /\ RegisteredIsOpen' /\ OpenIsRegistered'
  <2>1. UNCHANGED <<startVars, registry>>
    BY DEF Clog
  <2> QED BY <2>1 DEF ServersAreMade, RegisteredIsOpen, OpenIsRegistered, startVars
<1>3. StopsAreComplete'
  BY DEF StopsAreComplete, Ended, Clog, startVars, stopVars
<1> QED BY <1>1, <1>2, <1>3

\* Only open servers accept clients, so a stop has all it will ever have to end.
LEMMA AcceptKeeps ==
  ASSUME PortInv, NEW x \in Clients, NEW s \in Starts, Accept(x, s)
  PROVE  PortInv'
<1> USE DEF PortInv
<1>1. TypeOK'
  BY DEF TypeOK, Accept, startVars, stopVars
<1>2. ServersAreMade' /\ RegisteredIsOpen' /\ OpenIsRegistered'
  <2>1. UNCHANGED <<startVars, registry>>
    BY DEF Accept
  <2> QED BY <2>1 DEF ServersAreMade, RegisteredIsOpen, OpenIsRegistered, startVars
<1>3. StopsAreComplete'
  BY DEF StopsAreComplete, Ended, Accept, TypeOK, startVars, stopVars
<1> QED BY <1>1, <1>2, <1>3

-----------------------------------------------------------------------------
(* stop                                                                     *)

\* stop takes one server out of the registry and closes it; whatever client of it
\* has not ended is either awaited or had no task yet.
LEMMA StopKeeps ==
  ASSUME PortInv, NEW t \in Stops, NEW p \in Ports, Stop(t, p)
  PROVE  PortInv'
<1> USE DEF PortInv
<1> DEFINE s == registry[p]
<1>0. /\ s \in Starts /\ server[s] = "open" /\ port[s] = p
      /\ stopping[t] = "idle"
      /\ registry' = [registry EXCEPT ![p] = Nothing]
      /\ server' = [server EXCEPT ![s] = "closed"]
      /\ cancelled' \in [Clients -> BOOLEAN] /\ deaf' \in [Clients -> BOOLEAN]
      /\ stopping' = [stopping EXCEPT ![t] = "gathering"]
      /\ victim' = [victim EXCEPT ![t] = s]
      /\ awaited' = [awaited EXCEPT ![t] = TasksOf(s)]
      /\ late' = [x \in Clients |-> late[x] \/ (owner[x] = s /\ session[x] = "accepted")]
      /\ UNCHANGED <<kind, python, starting, host, port, session, owner, clogged>>
  BY DEF Stop, Unregister, Cancel, AwaitedTasks, RegisteredIsOpen, TypeOK
<1>2. TypeOK'
  BY <1>0 DEF TypeOK, TasksOf
<1>3. ServersAreMade'
  BY <1>0 DEF ServersAreMade, TypeOK
<1>4. RegisteredIsOpen'
  BY <1>0 DEF RegisteredIsOpen, TypeOK
<1>5. OpenIsRegistered'
  BY <1>0 DEF OpenIsRegistered, TypeOK
<1>6. StopsAreComplete'
  <2>1. \A x \in Clients : session'[x] = "none" <=> owner'[x] = Nothing
    BY <1>0 DEF StopsAreComplete
  <2>2. ASSUME NEW x \in Clients, owner[x] = s
        PROVE  Ended(x) \/ late'[x] \/ x \in TasksOf(s)
    <3>1. session[x] # "none"
      BY <1>0, <2>2 DEF StopsAreComplete
    <3>2. session[x] \in {"accepted", "spawned", "connecting", "serving", "closing",
                          "lingering", "closed", "leaked"}
      BY <3>1 DEF TypeOK
    <3>3. CASE session[x] = "accepted"
      BY <1>0, <2>2, <3>3
    <3>4. CASE session[x] # "accepted"
      BY <2>2, <3>2, <3>4 DEF TasksOf, Ended
    <3> QED BY <3>3, <3>4
  <2> SUFFICES ASSUME NEW u \in Stops, stopping'[u] # "idle"
               PROVE  /\ victim'[u] \in Starts
                      /\ server'[victim'[u]] = "closed"
                      /\ \A x \in Clients : owner'[x] = victim'[u] =>
                           \/ Ended(x)'
                           \/ late'[x]
                           \/ stopping'[u] = "gathering" /\ x \in awaited'[u]
    BY <2>1 DEF StopsAreComplete
  <2>3. CASE u = t
    BY <1>0, <2>2, <2>3 DEF TypeOK, Ended
  <2>4. CASE u # t
    BY <1>0, <2>4 DEF StopsAreComplete, TypeOK, Ended
  <2> QED BY <2>3, <2>4
<1> QED BY <1>2, <1>3, <1>4, <1>5, <1>6

\* When gather has returned, the tasks stop awaited have ended.
LEMMA StopEndKeeps ==
  ASSUME PortInv, NEW t \in Stops, Gathered(t) \/ Stopped(t)
  PROVE  PortInv'
<1> USE DEF PortInv
<1>1. TypeOK'
  BY DEF TypeOK, Gathered, Stopped, startVars, sessionVars
<1>2. ServersAreMade' /\ RegisteredIsOpen' /\ OpenIsRegistered'
  <2>1. UNCHANGED <<startVars, registry>>
    BY DEF Gathered, Stopped
  <2> QED BY <2>1 DEF ServersAreMade, RegisteredIsOpen, OpenIsRegistered, startVars
<1>3. StopsAreComplete'
  <2>1. /\ UNCHANGED <<victim, awaited, startVars, sessionVars>>
        /\ \A u \in Stops : stopping'[u] # "idle" => stopping[u] # "idle"
        /\ \A u \in Stops : stopping[u] = "gathering" =>
             stopping'[u] = "gathering" \/ \A x \in awaited[u] : Ended(x)
    BY DEF Gathered, Stopped, TypeOK
  <2> QED BY <2>1 DEF StopsAreComplete, Ended, startVars, sessionVars
<1> QED BY <1>1, <1>2, <1>3

\* Every step preserves the invariant.
LEMMA PortStep == PortInv /\ [Next]_vars => PortInv'
<1> SUFFICES ASSUME PortInv, [Next]_vars PROVE PortInv'
  OBVIOUS
<1>1. CASE UNCHANGED vars
  BY <1>1 DEF vars, startVars, stopVars, sessionVars, PortInv, TypeOK, ServersAreMade,
              RegisteredIsOpen, OpenIsRegistered, StopsAreComplete, Ended
<1>2. CASE Next
  BY <1>2, StartKeeps, BindKeeps, AcceptKeeps, ClientKeeps, ClogKeeps, StopKeeps, StopEndKeeps DEF Next
<1> QED BY <1>1, <1>2

-----------------------------------------------------------------------------
(* Theorems                                                                 *)

\* PortInv holds in every reachable state.
THEOREM PortInvHolds == Spec => []PortInv
BY PortInit, PortStep, PTL DEF Spec

\* Type correctness: servers, tasks and stops are what the model says.
THEOREM TypeOKHolds == Spec => []TypeOK
<1>1. PortInv => TypeOK
  BY DEF PortInv
<1> QED BY <1>1, PortInvHolds, PTL

\* Every open server is registered under its port, or was overtaken by a start for
\* the same port on another host: no other history loses a server.
THEOREM OpenIsRegisteredHolds == Spec => []OpenIsRegistered
<1>1. PortInv => OpenIsRegistered
  BY DEF PortInv
<1> QED BY <1>1, PortInvHolds, PTL

\* The registry never offers a port nobody listens on.
THEOREM RegisteredIsOpenHolds == Spec => []RegisteredIsOpen
<1>1. PortInv => RegisteredIsOpen
  BY DEF PortInv
<1> QED BY <1>1, PortInvHolds, PTL

\* A stop that has returned has left no client task behind, but late ones.
THEOREM StopEndsTasksHolds == Spec => []StopEndsTasks
<1>1. PortInv => StopEndsTasks
  BY DEF PortInv, StopsAreComplete, StopEndsTasks
<1> QED BY <1>1, PortInvHolds, PTL
=============================================================================
