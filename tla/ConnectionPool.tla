--------------------------- MODULE ConnectionPool ---------------------------
(***************************************************************************)
(* The TCP connection pool of plctap (src/plctap/conn/manager.py) together *)
(* with the skeleton every protocol adapter wraps around it:               *)
(*                                                                         *)
(*   async with pool.lock_for(key):                                        *)
(*       conn = await pool.acquire(key, timeout)                           *)
(*       try:      <talk to the device>                                    *)
(*       except <the exceptions the adapter lists>:  pool.discard(conn)    *)
(*       else:     pool.release(conn)                                      *)
(*                                                                         *)
(* A call is an asyncio task that addresses one target; a key stands for   *)
(* (protocol, host, port, unit).  The steps are the code between two       *)
(* suspension points.  What travels on a connection is left to module      *)
(* Exchange; here an exchange just ends in one of the ways the code has.   *)
(***************************************************************************)
EXTENDS Integers, Sequences, FiniteSets

CONSTANTS
  Calls,         \* the tasks that use the pool
  Keys,          \* the pool keys (targets)
  KeyOf,         \* the key each task addresses
  Conns,         \* identities of PooledConnection objects
  MaxPerTarget,  \* pool.max_per_target
  MaxLost,       \* bound: exchanges per target that end in an unlisted exception
  Closing,       \* TRUE when the owner of the pool may call close_all
  NoCall,
  NoConn

ASSUME CallsAssumption   == NoCall \notin Calls
ASSUME ConnsAssumption   == NoConn \notin Conns
ASSUME KeyOfAssumption   == KeyOf \in [Calls -> Keys]
ASSUME CapAssumption     == MaxPerTarget \in Nat \ {0}
ASSUME MaxLostAssumption == MaxLost \in Nat
ASSUME ClosingAssumption == Closing \in BOOLEAN

VARIABLES
  pc,         \* where each task is: out, queued for the lock, connecting, using
  waiters,    \* the FIFO of tasks suspended in asyncio.Lock.acquire, per key
  holder,     \* the task inside "async with pool.lock_for(key)", per key
  planned,    \* acquire's local "ephemeral", computed before open_connection
  held,       \* the connection a task got from acquire
  idle,       \* pool._idle
  active,     \* pool._active
  sock,       \* the transport of each connection as our side sees it
  connKey,    \* conn.key
  ephemeral,  \* conn.ephemeral
  expired,    \* now - conn.last_used > idle_timeout_sec
  sweeper,    \* pool._sweeper
  lost        \* history: exchanges per key that left neither by release nor discard

lockVars == <<pc, waiters, holder>>
connVars == <<sock, connKey, ephemeral, expired>>
vars     == <<lockVars, planned, held, idle, active, connVars, sweeper, lost>>

(***************************************************************************)
(* "open" is an established transport, "eof" one whose peer has sent FIN:  *)
(* asyncio keeps such a transport open (eof_received returns True), so     *)
(* writer.is_closing() is still False.  "closed" is is_closing() = True,   *)
(* and also the state of an identity no connection bears.                  *)
(***************************************************************************)
Closed(x)     == sock[x] = "closed"
Live(x)       == ~Closed(x)
IdleConns(k)  == {idle[k][i] : i \in DOMAIN idle[k]}
Users(k)      == {c \in Calls : pc[c] = "using" /\ KeyOf[c] = k}
Referenced(x) == (\E c \in Calls : held[c] = x) \/ (\E k \in Keys : x \in IdleConns(k))
Fresh         == {x \in Conns : Closed(x) /\ ~Referenced(x)}

TypeOK ==
  /\ pc        \in [Calls -> {"out", "queued", "connecting", "using"}]
  /\ waiters   \in [Keys -> Seq(Calls)]
  /\ holder    \in [Keys -> Calls \cup {NoCall}]
  /\ planned   \in [Calls -> BOOLEAN]
  /\ held      \in [Calls -> Conns \cup {NoConn}]
  /\ idle      \in [Keys -> Seq(Conns)]
  /\ active    \in [Keys -> Nat]
  /\ sock      \in [Conns -> {"open", "eof", "closed"}]
  /\ connKey   \in [Conns -> Keys]
  /\ ephemeral \in [Conns -> BOOLEAN]
  /\ expired   \in [Conns -> BOOLEAN]
  /\ sweeper   \in {"none", "running", "stopping"}
  /\ lost      \in [Keys -> 0..MaxLost]

Init ==
  /\ pc        = [c \in Calls |-> "out"]
  /\ waiters   = [k \in Keys |-> <<>>]
  /\ holder    = [k \in Keys |-> NoCall]
  /\ planned   = [c \in Calls |-> FALSE]
  /\ held      = [c \in Calls |-> NoConn]
  /\ idle      = [k \in Keys |-> <<>>]
  /\ active    = [k \in Keys |-> 0]
  /\ sock      = [x \in Conns |-> "closed"]
  /\ connKey   \in [Conns -> Keys]
  /\ ephemeral = [x \in Conns |-> FALSE]
  /\ expired   = [x \in Conns |-> FALSE]
  /\ sweeper   = "none"
  /\ lost      = [k \in Keys |-> 0]

-----------------------------------------------------------------------------
(* acquire, up to its return or its only suspension point                  *)

\* Mutated form: acquire looks at the last idle connection without popping it.
RemainingUnpopped(k, i) == SubSeq(idle[k], 1, i)
\* What is left of an idle list after popping down to its i-th entry.
Remaining(k, i) == SubSeq(idle[k], 1, i - 1)

\* Mutated form: the cap counts the connection about to be made.
AtCapOffByOne(k) == active[k] + 1 >= MaxPerTarget
AtCap(k) == active[k] >= MaxPerTarget

\* The while loop of acquire: pop from the end, drop what is closing, stop at
\* the first connection that is not.
TakeIdle(c) ==
  LET k == KeyOf[c] IN
  \E i \in DOMAIN idle[k] :
    /\ Live(idle[k][i])
    /\ \A j \in (i + 1)..Len(idle[k]) : Closed(idle[k][j])
    /\ held'    = [held EXCEPT ![c] = idle[k][i]]
    /\ expired' = [expired EXCEPT ![idle[k][i]] = FALSE]
    /\ idle'    = [idle EXCEPT ![k] = Remaining(k, i)]
    /\ active'  = [active EXCEPT ![k] = @ + 1]
    /\ pc'      = [pc EXCEPT ![c] = "using"]
    /\ UNCHANGED <<planned, sock, connKey, ephemeral>>

\* The loop emptied the list: decide whether the new connection is ephemeral
\* and suspend in open_connection.
BeginConnect(c) ==
  LET k == KeyOf[c] IN
  /\ \A x \in IdleConns(k) : Closed(x)
  /\ idle'    = [idle EXCEPT ![k] = <<>>]
  /\ planned' = [planned EXCEPT ![c] = AtCap(k)]
  /\ pc'      = [pc EXCEPT ![c] = "connecting"]
  /\ UNCHANGED <<held, active, connVars>>

Acquire(c) == TakeIdle(c) \/ BeginConnect(c)

-----------------------------------------------------------------------------
(* The lock of the target (asyncio.Lock: FIFO, woken one at a time)         *)

\* Mutated form: lock_for makes a new lock every time.
AlwaysANewLock(k) == TRUE
LockIsFree(k) == holder[k] = NoCall /\ waiters[k] = <<>>

\* A task calls an adapter and finds the lock free, with nobody before it.
Enter(c) ==
  LET k == KeyOf[c] IN
  /\ pc[c] = "out"
  /\ LockIsFree(k)
  /\ holder' = [holder EXCEPT ![k] = c]
  /\ Acquire(c)
  /\ UNCHANGED <<waiters, sweeper, lost>>

\* A task calls an adapter and has to wait for the lock.
Queue(c) ==
  LET k == KeyOf[c] IN
  /\ pc[c] = "out"
  /\ ~LockIsFree(k)
  /\ waiters' = [waiters EXCEPT ![k] = Append(@, c)]
  /\ pc' = [pc EXCEPT ![c] = "queued"]
  /\ UNCHANGED <<holder, planned, held, idle, active, connVars, sweeper, lost>>

\* The task at the head of the queue resumes, takes the lock and goes on.
Grant(k) ==
  /\ holder[k] = NoCall
  /\ waiters[k] # <<>>
  /\ holder'  = [holder EXCEPT ![k] = Head(waiters[k])]
  /\ waiters' = [waiters EXCEPT ![k] = Tail(@)]
  /\ Acquire(Head(waiters[k]))
  /\ UNCHANGED <<sweeper, lost>>

\* A queue without its i-th entry.
Without(s, i) == SubSeq(s, 1, i - 1) \o SubSeq(s, i + 1, Len(s))

\* The MCP client cancels a tool call that is still waiting for the lock.
CancelQueued(c) ==
  LET k == KeyOf[c] IN
  /\ pc[c] = "queued"
  /\ \E i \in DOMAIN waiters[k] :
       /\ waiters[k][i] = c
       /\ waiters' = [waiters EXCEPT ![k] = Without(@, i)]
  /\ pc' = [pc EXCEPT ![c] = "out"]
  /\ UNCHANGED <<holder, planned, held, idle, active, connVars, sweeper, lost>>

\* Mutated form: the lock is not freed on the way out.
LeaveLocked(c) ==
  /\ pc' = [pc EXCEPT ![c] = "out"]
  /\ UNCHANGED holder

\* The task leaves "async with": the lock is free, its result is delivered.
Leave(c) ==
  /\ holder' = [holder EXCEPT ![KeyOf[c]] = NoCall]
  /\ pc'     = [pc EXCEPT ![c] = "out"]

-----------------------------------------------------------------------------
(* acquire, after open_connection                                           *)

\* Refused, unreachable, timed out or cancelled: nothing was counted yet.
ConnectFails(c) ==
  /\ pc[c] = "connecting"
  /\ Leave(c)
  /\ UNCHANGED <<waiters, planned, held, idle, active, connVars, sweeper, lost>>

\* Mutated form: acquire does not start the sweeper.
NoSweeper == UNCHANGED sweeper
\* _ensure_sweeper: a task being cancelled is not done yet, so it is kept.
EnsureSweeper == sweeper' = IF sweeper = "none" THEN "running" ELSE sweeper

ConnectSucceeds(c) ==
  LET k == KeyOf[c] IN
  /\ pc[c] = "connecting"
  /\ \E x \in Fresh :
       /\ held'      = [held EXCEPT ![c] = x]
       /\ sock'      = [sock EXCEPT ![x] = "open"]
       /\ connKey'   = [connKey EXCEPT ![x] = k]
       /\ ephemeral' = [ephemeral EXCEPT ![x] = planned[c]]
       /\ expired'   = [expired EXCEPT ![x] = FALSE]
  /\ active' = [active EXCEPT ![k] = @ + 1]
  /\ EnsureSweeper
  /\ pc' = [pc EXCEPT ![c] = "using"]
  /\ UNCHANGED <<waiters, holder, planned, idle, lost>>

-----------------------------------------------------------------------------
(* release and discard                                                      *)

\* Mutated form: release does not count.
NeverDecrement(n) == n
Decrement(n) == IF n > 0 THEN n - 1 ELSE 0

Poolable(x, healthy) == healthy /\ ~ephemeral[x] /\ Live(x)

\* What release does to the connection itself: back to the pool, or closed.
PutBack(x, healthy) ==
  LET k == connKey[x] IN
  \/ /\ Poolable(x, healthy)
     /\ idle'    = [idle EXCEPT ![k] = Append(@, x)]
     /\ expired' = [expired EXCEPT ![x] = FALSE]
     /\ UNCHANGED sock
  \/ /\ ~Poolable(x, healthy)
     /\ sock' = [sock EXCEPT ![x] = "closed"]
     /\ UNCHANGED <<idle, expired>>

\* The exchange ends normally: pool.release, then the lock.
Finish(c) ==
  /\ pc[c] = "using"
  /\ PutBack(held[c], TRUE)
  /\ active' = [active EXCEPT ![connKey[held[c]]] = Decrement(@)]
  /\ held'   = [held EXCEPT ![c] = NoConn]
  /\ Leave(c)
  /\ UNCHANGED <<waiters, planned, connKey, ephemeral, sweeper, lost>>

\* The exchange ends in an exception the adapter lists: pool.discard.
Fail(c) ==
  /\ pc[c] = "using"
  /\ PutBack(held[c], FALSE)
  /\ active' = [active EXCEPT ![connKey[held[c]]] = Decrement(@)]
  /\ held'   = [held EXCEPT ![c] = NoConn]
  /\ Leave(c)
  /\ UNCHANGED <<waiters, planned, connKey, ephemeral, sweeper, lost>>

\* S7: _ensure_handshake discards the connection and raises ProtocolError,
\* which makes _exchange discard the same connection a second time.
FailTwice(c) ==
  /\ pc[c] = "using"
  /\ PutBack(held[c], FALSE)
  /\ active' = [active EXCEPT ![connKey[held[c]]] = Decrement(Decrement(@))]
  /\ held'   = [held EXCEPT ![c] = NoConn]
  /\ Leave(c)
  /\ UNCHANGED <<waiters, planned, connKey, ephemeral, sweeper, lost>>

\* Mutated form: "finally: pool.release(conn)" around the exchange.
ReleaseInFinally(c) == Finish(c)
\* The exchange ends in an exception the adapter does not list (a ValueError
\* of a frame builder or of a handshake parser, the CancelledError of a
\* cancelled tool call): the lock is released, the connection is not.
Lose(c) ==
  LET k == KeyOf[c] IN
  /\ pc[c] = "using"
  /\ lost[k] < MaxLost
  /\ lost' = [lost EXCEPT ![k] = @ + 1]
  /\ held' = [held EXCEPT ![c] = NoConn]
  /\ Leave(c)
  /\ UNCHANGED <<waiters, planned, idle, active, connVars, sweeper>>

-----------------------------------------------------------------------------
(* The sweeper, close_all, the peers and the clock                          *)

\* Some idle connection has not been used for idle_timeout_sec.
Expire(x) ==
  /\ \E k \in Keys : x \in IdleConns(k)
  /\ ~expired[x]
  /\ expired' = [expired EXCEPT ![x] = TRUE]
  /\ UNCHANGED <<lockVars, planned, held, idle, active, sock, connKey,
                 ephemeral, sweeper, lost>>

Sweepable(x) == expired[x] \/ Closed(x)

\* Mutated form: the inner loop's list is thrown away.
KeepsNothing(t, s) == t = <<>>
\* t is what the inner loop keeps of s: the other connections, in their order.
IsKept(t, s) ==
  \E f \in [DOMAIN t -> DOMAIN s] :
    /\ \A i \in DOMAIN t : t[i] = s[f[i]] /\ ~Sweepable(s[f[i]])
    /\ \A i, j \in DOMAIN t : i < j => f[i] < f[j]
    /\ \A n \in DOMAIN s : ~Sweepable(s[n]) => \E i \in DOMAIN t : f[i] = n

\* The sequences no longer than s over its elements.
Sublists(s) ==
  UNION {[1..n -> {s[i] : i \in DOMAIN s}] : n \in 0..Len(s)}

\* One pass of _sweep_loop; it has no suspension point.
Sweep ==
  /\ sweeper = "running"
  /\ \E keep \in [Keys -> UNION {Sublists(idle[k]) : k \in Keys}] :
       /\ \A k \in Keys : IsKept(keep[k], idle[k])
       /\ idle' = keep
  /\ sock' = [x \in Conns |->
                IF Sweepable(x) /\ \E k \in Keys : x \in IdleConns(k)
                THEN "closed" ELSE sock[x]]
  /\ UNCHANGED <<lockVars, planned, held, active, connKey, ephemeral, expired,
                 sweeper, lost>>

\* close_all cancels the sweeper and waits for it to end ...
CloseAllBegins ==
  /\ Closing
  /\ sweeper = "running"
  /\ sweeper' = "stopping"
  /\ UNCHANGED <<lockVars, planned, held, idle, active, connVars, lost>>

\* ... and then closes every idle connection.
CloseAllEnds ==
  /\ Closing
  /\ sweeper # "running"
  /\ sweeper' = "none"
  /\ sock' = [x \in Conns |->
                IF \E k \in Keys : x \in IdleConns(k) THEN "closed" ELSE sock[x]]
  /\ idle' = [k \in Keys |-> <<>>]
  /\ UNCHANGED <<lockVars, planned, held, active, connKey, ephemeral, expired, lost>>

\* The device closes its side: our transport stays open, reads will meet EOF.
PeerCloses(x) ==
  /\ sock[x] = "open"
  /\ sock' = [sock EXCEPT ![x] = "eof"]
  /\ UNCHANGED <<lockVars, planned, held, idle, active, connKey, ephemeral,
                 expired, sweeper, lost>>

\* The device resets the connection.  After EOF the transport no longer reads,
\* so it notices a reset only when a task writes to it.
PeerResets(x) ==
  /\ \/ sock[x] = "open"
     \/ sock[x] = "eof" /\ \E c \in Calls : held[c] = x
  /\ sock' = [sock EXCEPT ![x] = "closed"]
  /\ UNCHANGED <<lockVars, planned, held, idle, active, connKey, ephemeral,
                 expired, sweeper, lost>>

-----------------------------------------------------------------------------
Connect(c) == ConnectFails(c) \/ ConnectSucceeds(c)
Talk(c)    == Finish(c) \/ Fail(c) \/ FailTwice(c) \/ Lose(c)

Next ==
  \/ \E c \in Calls : Enter(c) \/ Queue(c) \/ CancelQueued(c) \/ Connect(c) \/ Talk(c)
  \/ \E k \in Keys : Grant(k)
  \/ \E x \in Conns : Expire(x) \/ PeerCloses(x) \/ PeerResets(x)
  \/ Sweep \/ CloseAllBegins \/ CloseAllEnds

Spec == Init /\ [][Next]_vars

(***************************************************************************)
(* Fairness.  Every await of a task that owns the lock is wrapped in       *)
(* asyncio.wait_for, so a connection attempt and an exchange end (the one  *)
(* exchange whose number of waits the device decides is the interrogation  *)
(* of module Iec104Session, which states its own assumption); a woken      *)
(* waiter is a ready task of the event loop; the clock advances; and the   *)
(* sweeper is a timer loop.  Nothing is assumed of the devices, or of      *)
(* calls being made or cancelled.                                          *)
(***************************************************************************)
Fairness ==
  /\ \A c \in Calls : WF_vars(Connect(c)) /\ WF_vars(Talk(c))
  /\ \A k \in Keys : WF_vars(Grant(k))
  /\ \A x \in Conns : WF_vars(Expire(x))
  /\ WF_vars(Sweep)

FairSpec == Spec /\ Fairness

-----------------------------------------------------------------------------
(* Properties                                                               *)

\* The target lock (lock_for) covers a whole exchange: of the tasks that
\* address one target at most one is connecting to it or talking to it.
OneExchangePerTarget ==
  \A c, d \in Calls :
    /\ c # d
    /\ KeyOf[c] = KeyOf[d]
    /\ pc[c] \in {"connecting", "using"}
    => pc[d] \notin {"connecting", "using"}

\* acquire hands a connection to one task at a time: what a task holds is held
\* by no other task, waits in no idle list, and leads to the task's own target.
LeaseIsExclusive ==
  \A c \in Calls : held[c] # NoConn =>
    /\ \A d \in Calls : d # c => held[d] # held[c]
    /\ \A k \in Keys : held[c] \notin IdleConns(k)
    /\ connKey[held[c]] = KeyOf[c]

\* What the lock makes of the pool: at most one reusable connection exists per
\* target, idle or in use, so the idle list never grows beyond one entry.
OneConnectionPerTarget ==
  \A k \in Keys : Len(idle[k]) + Cardinality(Users(k)) <= 1

\* _active never undercounts the tasks that hold a connection, even after the
\* second discard of S7, and overcounts them by at most the lost exchanges.
CountIsBounded ==
  \A k \in Keys :
    /\ Cardinality(Users(k)) <= active[k]
    /\ active[k] <= Cardinality(Users(k)) + lost[k]

\* The ephemeral branch of acquire is reached only after max_per_target lost
\* exchanges with that target: without them the lock keeps the count below it.
EphemeralOnlyAfterLoss ==
  \A x \in Conns : Live(x) /\ ephemeral[x] => lost[connKey[x]] >= MaxPerTarget

\* An idle connection is one that release may put there: of the list's target
\* and not ephemeral.
IdleIsPoolable ==
  \A k \in Keys : \A x \in IdleConns(k) : connKey[x] = k /\ ~ephemeral[x]

\* What makes the properties above inductive.  A task past the lock holds it and
\* has emptied its target's idle list; it has a connection exactly while it uses
\* one; and it queues for the lock of its own target.
LockDiscipline ==
  /\ \A c \in Calls : pc[c] \in {"connecting", "using"} =>
       holder[KeyOf[c]] = c /\ idle[KeyOf[c]] = <<>>
  /\ \A c \in Calls : pc[c] = "using" <=> held[c] # NoConn
  /\ \A k \in Keys : \A i \in DOMAIN waiters[k] : KeyOf[waiters[k][i]] = k

\* The inductive invariant behind the safety theorems: the discipline of the
\* lock, at most one idle connection per target, and exclusive leases.
PoolInv ==
  /\ TypeOK
  /\ LockDiscipline
  /\ \A k \in Keys : Len(idle[k]) <= 1
  /\ LeaseIsExclusive
  /\ IdleIsPoolable

\* Its counting part: _active against the connections in use and those lost, and
\* the ephemeral verdict of a task that is still connecting.
CountInv ==
  /\ \A k \in Keys : active[k] <= lost[k] \/ (Users(k) # {} /\ active[k] = lost[k] + 1)
  /\ \A k \in Keys : Users(k) # {} => active[k] > 0
  /\ \A c \in Calls : pc[c] = "connecting" /\ planned[c] => lost[KeyOf[c]] >= MaxPerTarget
  /\ EphemeralOnlyAfterLoss

\* Every socket that is open is idle in the pool, held by a task, or was left
\* behind by a lost exchange with its target.
Strays(k) == {x \in Conns : Live(x) /\ connKey[x] = k /\ ~Referenced(x)}
SocketsAccounted == \A k \in Keys : Cardinality(Strays(k)) <= lost[k]

\* Every call that was made returns, whatever the devices do: the lock is freed
\* on every way out of an exchange and its queue is served in order.
CallsReturn ==
  \A c \in Calls : pc[c] # "out" ~> pc[c] = "out"

\* The sweeper does its work: a connection does not stay idle for ever.
IdleIsReaped ==
  \A x \in Conns : \A k \in Keys : x \in IdleConns(k) ~> x \notin IdleConns(k)

-----------------------------------------------------------------------------
(* The pool implements the leases of module ConnectionLease.                *)

LeaseState(x) ==
  IF Closed(x) THEN "absent"
  ELSE IF \E c \in Calls : held[c] = x THEN "leased"
  ELSE IF \E k \in Keys : x \in IdleConns(k) THEN "spare"
  ELSE "stray"

Lease == INSTANCE ConnectionLease WITH
           state <- [x \in Conns |-> LeaseState(x)], target <- connKey, lease <- held

\* Seen through their leases, the connections of the pool behave as module
\* ConnectionLease says: one task per target, no connection shared, and a
\* discarded or abandoned connection never handed out again.
LeaseSpec == Lease!Spec
=============================================================================
