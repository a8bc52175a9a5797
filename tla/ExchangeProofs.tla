---------------------------- MODULE ExchangeProofs ----------------------------
(***************************************************************************)
(* Proofs about module Exchange, for every set of tasks, targets and       *)
(* connections, every choice of adapters and every bound on what is on the *)
(* way: what a task on a connection waits for is all there is on it.       *)
(***************************************************************************)
EXTENDS Exchange, ConnectionPoolProofs

USE CallsAssumption, ConnsAssumption, KeyOfAssumption

Requests == [to : Tags, part : {"none", "first"}]
Pieces   == [to : Tags, form : Forms]

\* The types of what the adapters keep, for tasks and for connections.
CallTypes ==
  /\ adapter \in Adapters
  /\ kind    \in [Calls -> {"read", "write", "raw"}]
  /\ stage   \in [Calls -> {"begin", "hello", "ask"}]
  /\ outcome \in [Calls -> {"none", "own", "foreign", "raw", "error"}]
  /\ audited \in [Calls -> BOOLEAN]
WireDomains ==
  /\ hello = [x \in Conns |-> hello[x]] /\ device = [x \in Conns |-> device[x]]
  /\ inbox = [x \in Conns |-> inbox[x]] /\ rawUsed = [x \in Conns |-> rawUsed[x]]

\* What the invariant says, without repeating the types of the connections.
Orderly ==
  /\ CallTypes /\ WireDomains
  /\ \A x \in Conns : WireOK(x)
  /\ \A c \in Calls : CallOK(c)
  /\ IdleIsInStep

\* A connection on which nothing has happened but to its two ends.
Carried(y) ==
  /\ sock'[y] = "closed" => hello'[y] = 0 /\ device'[y] = <<>> /\ inbox'[y] = <<>>
  /\ sock'[y] # "closed" => hello'[y] = hello[y] /\ inbox'[y] = inbox[y]
                            /\ (rawUsed[y] => rawUsed'[y])
  /\ device'[y] = device[y] \/ device'[y] = <<>>
  /\ sock'[y] # "open" => device'[y] = <<>>
  /\ rawUsed'[y] \in BOOLEAN

-----------------------------------------------------------------------------
(* Facts about one connection                                               *)

\* The number of handshake rounds is a number, and none for Modbus.
LEMMA RoundsType ==
  HelloRounds \in Nat /\ (adapter \in {"modbus", "modbus_rtu"} => HelloRounds = 0)
BY DEF HelloRounds

\* The tags are told apart.
LEMMA TagsDiffer == "hello" \notin Calls /\ "late" \notin Calls /\ Tags = Calls \cup {"late", "hello"}
BY TagsAssumption DEF Tags

\* ExchangeInv and its form without repetitions.
LEMMA InvIsOrderly == ExchangeInv /\ TypeOK <=> Orderly /\ TypeOK
BY DEF ExchangeInv, Orderly, ExchangeTypeOK, CallTypes, WireDomains, WireOK

\* A connection on which nothing happened is as much in order as it was.
LEMMA CarriedKeeps ==
  ASSUME NEW y \in Conns, WireOK(y), Carried(y), adapter' = adapter,
         sock'[y] \in {"open", "eof", "closed"}
  PROVE  /\ WireOK(y)'
         /\ \A t : Tagged(y, t)' => Tagged(y, t)
         /\ Bare(y) => Bare(y)'
         /\ \A t : OnlyDue(y, t) => OnlyDue(y, t)'
         /\ MayBeStale(y) => MayBeStale(y)' \/ Bare(y)'
<1>1. \A t : Tagged(y, t)' => Tagged(y, t)
  BY DEF Carried, Tagged
<1>2. Bare(y) => Bare(y)'
  BY DEF Carried, Bare
<1>3. MayBeStale(y) => MayBeStale(y)' \/ Bare(y)'
  BY DEF Carried, Bare, MayBeStale
<1>4. \A t : OnlyDue(y, t) => OnlyDue(y, t)'
  <2> SUFFICES ASSUME NEW t, OnlyDue(y, t) PROVE OnlyDue(y, t)'
    OBVIOUS
  <2>1. CASE sock'[y] = "closed"
    BY <2>1 DEF Carried, OnlyDue, Bare
  <2>2. CASE sock'[y] # "closed" /\ device'[y] = device[y]
    BY <2>2 DEF Carried, OnlyDue, Bare
  <2>3. CASE sock'[y] # "closed" /\ device'[y] = <<>>
    BY <2>3 DEF Carried, OnlyDue, Bare
  <2> QED BY <2>1, <2>2, <2>3 DEF Carried
<1>5. WireOK(y)'
  <2>1. HelloRounds' = HelloRounds /\ HelloRounds \in Nat
    BY RoundsType DEF HelloRounds
  <2>2. HelloFirst(y)'
    <3>1. CASE sock'[y] = "closed"
      <4>1. \A t : ~Tagged(y, t)'
        BY <3>1 DEF Carried, Tagged
      <4> QED BY <2>1, <3>1, <4>1 DEF Carried, HelloFirst
    <3>2. CASE sock'[y] # "closed"
      <4>1. hello'[y] = hello[y]
        BY <3>2 DEF Carried
      <4> QED BY <1>1, <2>1, <4>1 DEF HelloFirst, WireOK
    <3> QED BY <3>1, <3>2
  <2>3. hello'[y] \in 0..HelloRounds /\ rawUsed'[y] \in BOOLEAN
    BY <2>1 DEF Carried, WireOK
  <2>5. /\ device'[y] \in Seq([to : Tags, part : {"none", "first"}])
        /\ inbox'[y] \in Seq([to : Tags, form : Forms])
    <3>1. \A S : <<>> \in Seq(S)
      OBVIOUS
    <3> QED BY <3>1 DEF Carried, WireOK
  <2>4. /\ Closed(y)' => hello'[y] = 0 /\ Bare(y)'
        /\ sock'[y] = "eof" => device'[y] = <<>>
    BY DEF Carried, Closed, Bare
  <2> QED BY <2>1, <2>2, <2>3, <2>4, <2>5 DEF WireOK
<1> QED BY <1>1, <1>2, <1>3, <1>4, <1>5

\* Where the wires are kept, nothing happens but to the ends of connections.
LEMMA KeptIsCarried ==
  ASSUME Orderly, TypeOK', KeepWires
  PROVE  adapter' = adapter /\ WireDomains' /\ \A y \in Conns : Carried(y)
<1>1. adapter' = adapter /\ WireDomains'
  BY DEF KeepWires, Wires, WireDomains
<1>2. ASSUME NEW y \in Conns
      PROVE  Carried(y)
  <2>1. sock'[y] \in {"open", "eof", "closed"} /\ rawUsed[y] \in BOOLEAN
    BY DEF TypeOK, Orderly, WireOK
  <2> QED BY <2>1 DEF KeepWires, Wires, Carried
<1> QED BY <1>1, <1>2

-----------------------------------------------------------------------------
(* Steps that keep the wires                                                *)

\* A task that takes an idle connection, or a fresh one, finds it in step; what
\* else happens to tasks that are not on a connection does not matter to it.
LEMMA OrderlyKept ==
  ASSUME Orderly, TypeOK', CallTypes', adapter' = adapter, WireDomains',
         \A y \in Conns : Carried(y),
         stage' = stage,
         \A c \in Calls : stage[c] # "begin" => pc'[c] = "using" /\ held'[c] = held[c],
         \A c \in Calls : pc'[c] = "using" =>
           \/ pc[c] = "using" /\ held'[c] = held[c]
           \/ stage[c] = "begin" /\ \E z \in Conns : z = held'[c] /\ (Bare(z) \/ MayBeStale(z)),
         \A c \in Calls : /\ kind'[c] = "raw" => audited'[c]
                          /\ stage[c] = "ask" => kind'[c] = kind[c] /\ audited'[c] = audited[c]
                          /\ outcome'[c] = "foreign" => outcome[c] = "foreign",
         \A k \in Keys : IdleConns(k)' \subseteq IdleConns(k)
  PROVE  Orderly'
<1>1. ASSUME NEW y \in Conns
      PROVE  /\ WireOK(y)'
             /\ \A t : Tagged(y, t)' => Tagged(y, t)
             /\ Bare(y) => Bare(y)'
             /\ \A t : OnlyDue(y, t) => OnlyDue(y, t)'
             /\ MayBeStale(y) => MayBeStale(y)' \/ Bare(y)'
  <2>1. WireOK(y) /\ Carried(y) /\ sock'[y] \in {"open", "eof", "closed"}
    BY DEF Orderly, TypeOK
  <2> QED BY <2>1, CarriedKeeps
<1>2. ASSUME NEW c \in Calls
      PROVE  CallOK(c)'
  <2>1. CallOK(c)
    BY DEF Orderly
  <2>2. /\ stage'[c] # "begin" => pc'[c] = "using"
        /\ kind'[c] = "raw" \/ (kind'[c] = "write" /\ stage'[c] = "ask") => audited'[c]
        /\ outcome'[c] = "foreign" => adapter' = "modbus_rtu"
    BY <2>1 DEF CallOK
  <2>3. \A x \in Conns : Tagged(x, c)' => held'[c] = x /\ stage'[c] = "ask"
    BY <1>1, <2>1 DEF CallOK
  <2>4. ASSUME pc'[c] = "using"
        PROVE  \E x \in Conns :
                 /\ held'[c] = x
                 /\ \/ MayBeStale(x)' /\ stage'[c] # "hello"
                    \/ stage'[c] = "begin" /\ Bare(x)'
                    \/ stage'[c] = "hello" /\ OnlyDue(x, "hello")'
                    \/ stage'[c] = "ask" /\ OnlyDue(x, c)'
    <3>1. \A x \in Conns, t \in Calls : Bare(x)' => OnlyDue(x, t)'
      BY DEF OnlyDue
    <3>2. stage[c] \in {"begin", "hello", "ask"}
      BY DEF Orderly, CallTypes
    <3>3. CASE pc[c] = "using" /\ held'[c] = held[c]
      <4>1. PICK x \in Conns :
              /\ held[c] = x
              /\ \/ MayBeStale(x) /\ stage[c] # "hello"
                 \/ stage[c] = "begin" /\ Bare(x)
                 \/ stage[c] = "hello" /\ OnlyDue(x, "hello")
                 \/ stage[c] = "ask" /\ OnlyDue(x, c)
        BY <2>1, <3>3 DEF CallOK
      <4> QED BY <1>1, <3>1, <3>2, <3>3, <4>1
    <3>4. CASE stage[c] = "begin" /\ \E z \in Conns : z = held'[c] /\ (Bare(z) \/ MayBeStale(z))
      BY <1>1, <3>4
    <3> QED BY <2>4, <3>3, <3>4
  <2> QED BY <2>2, <2>3, <2>4 DEF CallOK
<1>3. IdleIsInStep'
  <2>1. ASSUME NEW k \in Keys, NEW x \in IdleConns(k)'
        PROVE  Bare(x)' \/ MayBeStale(x)'
    <3>1. x \in Conns
      BY DEF IdleConns, TypeOK
    <3>2. Bare(x) \/ MayBeStale(x)
      BY DEF Orderly, IdleIsInStep, Bare, MayBeStale
    <3> QED BY <1>1, <3>1, <3>2
  <2> QED BY <2>1 DEF IdleIsInStep, Bare, MayBeStale
<1> QED BY <1>1, <1>2, <1>3 DEF Orderly

\* acquire, up to its suspension, gives a task that was not on a connection an
\* idle one or none, and leaves the others theirs.
LEMMA AcquireGives ==
  ASSUME PoolInv, Orderly, NEW c \in Calls, Acquire(c), pc[c] # "using"
  PROVE  /\ \A d \in Calls : stage[d] # "begin" => pc'[d] = "using" /\ held'[d] = held[d]
         /\ \A d \in Calls : pc'[d] = "using" =>
              \/ pc[d] = "using" /\ held'[d] = held[d]
              \/ stage[d] = "begin" /\ \E z \in Conns : z = held'[d] /\ (Bare(z) \/ MayBeStale(z))
         /\ \A k \in Keys : IdleConns(k)' \subseteq IdleConns(k)
<1>1. /\ pc \in [Calls -> {"out", "queued", "connecting", "using"}]
      /\ held \in [Calls -> Conns \cup {NoConn}] /\ idle \in [Keys -> Seq(Conns)]
      /\ KeyOf[c] \in Keys
  BY DEF PoolInv, TypeOK
<1>2. \A d \in Calls : stage[d] # "begin" => pc[d] = "using"
  BY DEF Orderly, CallOK
<1>3. stage[c] = "begin"
  BY <1>2
<1>4. idle' = [idle EXCEPT ![KeyOf[c]] = <<>>]
  BY AcquireEffect
<1>5. \A k \in Keys : IdleConns(k)' \subseteq IdleConns(k)
  BY <1>1, <1>4, IdleConnsShort DEF IdleConns
<1>6. CASE \E x \in Conns : /\ x \in IdleConns(KeyOf[c]) /\ held' = [held EXCEPT ![c] = x]
                            /\ pc' = [pc EXCEPT ![c] = "using"]
  <2>1. PICK x \in Conns : /\ x \in IdleConns(KeyOf[c]) /\ held' = [held EXCEPT ![c] = x]
                           /\ pc' = [pc EXCEPT ![c] = "using"]
    BY <1>6
  <2>2. Bare(x) \/ MayBeStale(x)
    BY <1>1, <2>1 DEF Orderly, IdleIsInStep, Bare, MayBeStale
  <2> QED BY <1>1, <1>2, <1>3, <1>5, <2>1, <2>2
<1>7. CASE pc' = [pc EXCEPT ![c] = "connecting"] /\ UNCHANGED held
  BY <1>1, <1>2, <1>3, <1>5, <1>7
<1>8. \/ \E x \in Conns : /\ x \in IdleConns(KeyOf[c]) /\ held' = [held EXCEPT ![c] = x]
                          /\ pc' = [pc EXCEPT ![c] = "using"]
      \/ pc' = [pc EXCEPT ![c] = "connecting"] /\ UNCHANGED held
  BY AcquireEffect
<1> QED BY <1>6, <1>7, <1>8

\* A call begins: nothing of an earlier call of the task is on any connection.
LEMMA BeginKeeps ==
  ASSUME PoolInv, Orderly, TypeOK', NEW c \in Calls, Begin(c)
  PROVE  Orderly'
<1>1. /\ adapter' = adapter /\ WireDomains' /\ \A y \in Conns : Carried(y)
  BY KeptIsCarried DEF Begin
<1>2. pc[c] = "out" /\ stage[c] = "begin" /\ stage' = stage
  BY DEF Begin, Enter, Queue, Orderly, CallOK
<1>3. CallTypes'
  <2>1. Kinds \subseteq {"read", "write", "raw"}
    BY DEF Kinds
  <2>2. CallTypes
    BY DEF Orderly
  <2> QED BY <1>1, <2>1, <2>2 DEF Begin, CallTypes
<1>4. \A d \in Calls : /\ kind'[d] = "raw" => audited'[d]
                       /\ stage[d] = "ask" => kind'[d] = kind[d] /\ audited'[d] = audited[d]
                       /\ outcome'[d] = "foreign" => outcome[d] = "foreign"
  <2>1. ASSUME NEW d \in Calls
        PROVE  kind[d] = "raw" => audited[d]
    BY DEF Orderly, CallOK
  <2> QED BY <1>2, <2>1 DEF Begin, Orderly, CallTypes
<1>5. CASE Enter(c)
  <2>1. Acquire(c) /\ pc[c] # "using"
    BY <1>2, <1>5 DEF Enter
  <2> QED BY <1>1, <1>2, <1>3, <1>4, <2>1, AcquireGives, OrderlyKept
<1>6. CASE Queue(c)
  <2>1. /\ UNCHANGED <<held, idle>> /\ pc' = [pc EXCEPT ![c] = "queued"]
        /\ pc \in [Calls -> {"out", "queued", "connecting", "using"}]
    BY <1>6 DEF Queue, PoolInv, TypeOK
  <2>2. \A d \in Calls : stage[d] # "begin" => pc[d] = "using"
    BY DEF Orderly, CallOK
  <2>3. \A k \in Keys : IdleConns(k)' \subseteq IdleConns(k)
    BY <2>1 DEF IdleConns
  <2> QED BY <1>1, <1>2, <1>3, <1>4, <2>1, <2>2, <2>3, OrderlyKept
<1> QED BY <1>5, <1>6 DEF Begin

\* Steps that leave the calls' variables alone need to be looked at for the
\* connections and the idle lists only.
LEMMA CallsKept ==
  ASSUME PoolInv, Orderly, TypeOK', UNCHANGED <<kind, stage, audited>>, KeepWires,
         outcome' = outcome \/ \E c \in Calls : outcome' = [outcome EXCEPT ![c] = "error"],
         \A d \in Calls : stage[d] # "begin" => pc'[d] = "using" /\ held'[d] = held[d],
         \A d \in Calls : pc'[d] = "using" =>
           \/ pc[d] = "using" /\ held'[d] = held[d]
           \/ stage[d] = "begin" /\ \E z \in Conns : z = held'[d] /\ (Bare(z) \/ MayBeStale(z)),
         \A k \in Keys : IdleConns(k)' \subseteq IdleConns(k)
  PROVE  Orderly'
<1>1. /\ adapter' = adapter /\ WireDomains' /\ \A y \in Conns : Carried(y)
  BY KeptIsCarried
<1>2. CallTypes'
  BY <1>1 DEF Orderly, CallTypes
<1>3. \A d \in Calls : /\ kind'[d] = "raw" => audited'[d]
                       /\ stage[d] = "ask" => kind'[d] = kind[d] /\ audited'[d] = audited[d]
                       /\ outcome'[d] = "foreign" => outcome[d] = "foreign"
  <2>1. ASSUME NEW d \in Calls
        PROVE  kind[d] = "raw" => audited[d]
    BY DEF Orderly, CallOK
  <2> QED BY <2>1 DEF Orderly, CallTypes
<1> QED BY <1>1, <1>2, <1>3, OrderlyKept

\* A task that waited for the lock goes on.
LEMMA ResumeKeeps ==
  ASSUME PoolInv, Orderly, TypeOK', NEW k \in Keys, Resume(k)
  PROVE  Orderly'
<1> DEFINE c == Head(waiters[k])
<1>1. /\ holder[k] = NoCall /\ waiters[k] # <<>> /\ Acquire(c) /\ waiters[k] \in Seq(Calls)
      /\ UNCHANGED <<kind, stage, audited>> /\ outcome' = outcome /\ KeepWires
  BY DEF Resume, Grant, PoolInv, TypeOK, callVars
<1>2. c = waiters[k][1] /\ c \in Calls /\ 1 \in DOMAIN waiters[k]
  BY <1>1
<1>3. KeyOf[c] = k
  BY <1>2 DEF PoolInv, LockDiscipline
<1> HIDE DEF c
<1>4. pc[c] # "using"
  BY <1>1, <1>2, <1>3 DEF PoolInv, LockDiscipline
<1> QED BY <1>1, <1>2, <1>4, AcquireGives, CallsKept

\* A fresh connection was closed, so nothing is on it.
LEMMA ConnectedKeeps ==
  ASSUME PoolInv, Orderly, TypeOK', NEW c \in Calls, Connected(c)
  PROVE  Orderly'
<1>1. PICK x \in Conns : Closed(x) /\ held' = [held EXCEPT ![c] = x]
  BY DEF Connected, ConnectSucceeds, Fresh
<1>2. /\ pc[c] = "connecting" /\ pc' = [pc EXCEPT ![c] = "using"] /\ UNCHANGED idle
      /\ UNCHANGED <<kind, stage, audited>> /\ outcome' = outcome /\ KeepWires
      /\ pc \in [Calls -> {"out", "queued", "connecting", "using"}]
      /\ held \in [Calls -> Conns \cup {NoConn}]
  BY DEF Connected, ConnectSucceeds, callVars, PoolInv, TypeOK
<1>3. Bare(x)
  BY <1>1 DEF Orderly, WireOK
<1>4. \A d \in Calls : stage[d] # "begin" => pc[d] = "using"
  BY DEF Orderly, CallOK
<1>5. \A k \in Keys : IdleConns(k)' \subseteq IdleConns(k)
  BY <1>2 DEF IdleConns
<1> QED BY <1>1, <1>2, <1>3, <1>4, <1>5, CallsKept

\* A task that does not get to a connection leaves the others theirs.
LEMMA GiveUpKeeps ==
  ASSUME PoolInv, Orderly, TypeOK', NEW c \in Calls, GiveUp(c)
  PROVE  Orderly'
<1>1. /\ pc[c] # "using" /\ pc' = [pc EXCEPT ![c] = "out"] /\ UNCHANGED <<held, idle>>
      /\ UNCHANGED <<kind, stage, audited>> /\ outcome' = [outcome EXCEPT ![c] = "error"]
      /\ KeepWires /\ pc \in [Calls -> {"out", "queued", "connecting", "using"}]
  BY DEF GiveUp, CancelQueued, ConnectFails, Leave, PoolInv, TypeOK
<1>2. \A d \in Calls : stage[d] # "begin" => pc[d] = "using"
  BY DEF Orderly, CallOK
<1>3. \A k \in Keys : IdleConns(k)' \subseteq IdleConns(k)
  BY <1>1 DEF IdleConns
<1> QED BY <1>1, <1>2, <1>3, CallsKept

\* Devices, the clock and the sweeper take from connections, and give nothing.
LEMMA ElsewhereKeeps ==
  ASSUME PoolInv, Orderly, TypeOK', Elsewhere
  PROVE  Orderly'
<1>1. /\ UNCHANGED <<pc, held>> /\ UNCHANGED <<kind, stage, audited>> /\ outcome' = outcome
      /\ KeepWires
  BY DEF Elsewhere, Expire, PeerCloses, PeerResets, Sweep, lockVars, callVars
<1>2. \A k \in Keys : IdleConns(k)' \subseteq IdleConns(k)
  <2>1. CASE Sweep
    BY <2>1, IdleShrinks
  <2>2. CASE UNCHANGED idle
    BY <2>2 DEF IdleConns
  <2> QED BY <2>1, <2>2 DEF Elsewhere, Expire, PeerCloses, PeerResets
<1>3. \A d \in Calls : stage[d] # "begin" => pc[d] = "using"
  BY DEF Orderly, CallOK
<1> QED BY <1>1, <1>2, <1>3, CallsKept

-----------------------------------------------------------------------------
(* Steps on one connection                                                  *)

\* What is left of a queue was in it.
LEMMA RestOf ==
  ASSUME NEW S, NEW s \in Seq(S), NEW n \in 1..Len(s)
  PROVE  /\ SubSeq(s, n + 1, Len(s)) \in Seq(S)
         /\ \A i \in DOMAIN SubSeq(s, n + 1, Len(s)) :
              \E j \in DOMAIN s : SubSeq(s, n + 1, Len(s))[i] = s[j]
<1> DEFINE r == SubSeq(s, n + 1, Len(s))
<1>1. Len(s) \in Nat /\ DOMAIN s = 1..Len(s)
  OBVIOUS
<1>2. /\ r \in Seq(S) /\ DOMAIN r = 1..(Len(s) - n)
      /\ \A i \in 1..(Len(s) - n) : r[i] = s[n + i]
  BY <1>1, SubSeqProperties
<1>3. \A i \in 1..(Len(s) - n) : n + i \in DOMAIN s
  BY <1>1
<1> QED BY <1>2, <1>3

\* So was what is left without the head.
LEMMA TailOf ==
  ASSUME NEW S, NEW s \in Seq(S), s # <<>>
  PROVE  Tail(s) \in Seq(S) /\ \A i \in DOMAIN Tail(s) : \E j \in DOMAIN s : Tail(s)[i] = s[j]
<1>1. /\ Tail(s) \in Seq(S) /\ DOMAIN Tail(s) = 1..(Len(s) - 1)
      /\ \A i \in 1..(Len(s) - 1) : Tail(s)[i] = s[i + 1]
  OBVIOUS
<1>2. \A i \in 1..(Len(s) - 1) : i + 1 \in DOMAIN s
  OBVIOUS
<1> QED BY <1>1, <1>2

\* The tags of a queue that grows, and of what is left of one.
LEMMA QueueTags ==
  ASSUME NEW S, NEW s \in Seq(S)
  PROVE  /\ \A e \in S : Append(s, e) \in Seq(S) /\ \A i \in DOMAIN Append(s, e) :
              Append(s, e)[i] = e \/ \E j \in DOMAIN s : Append(s, e)[i] = s[j]
         /\ \A n \in 1..Len(s) : LET r == SubSeq(s, n + 1, Len(s)) IN
              r \in Seq(S) /\ \A i \in DOMAIN r : \E j \in DOMAIN s : r[i] = s[j]
         /\ s # <<>> => Tail(s) \in Seq(S) /\ \A i \in DOMAIN Tail(s) :
              \E j \in DOMAIN s : Tail(s)[i] = s[j]
<1>1. Len(s) \in Nat /\ DOMAIN s = 1..Len(s)
  OBVIOUS
<1>2. ASSUME NEW e \in S
      PROVE  /\ Append(s, e) \in Seq(S)
             /\ \A i \in DOMAIN Append(s, e) :
                  Append(s, e)[i] = e \/ \E j \in DOMAIN s : Append(s, e)[i] = s[j]
  OBVIOUS
<1> QED BY <1>2, RestOf, TailOf

\* A connection is used by one task at a time.
LEMMA OneUser ==
  ASSUME PoolInv, NEW c \in Calls, pc[c] = "using"
  PROVE  /\ held[c] \in Conns
         /\ \A d \in Calls : held[d] = held[c] => d = c
         /\ \A k \in Keys : held[c] \notin IdleConns(k)
BY DEF PoolInv, LockDiscipline, LeaseIsExclusive, TypeOK

\* A step on the connection x leaves everything else as it is.
LEMMA OneWire ==
  ASSUME PoolInv, Orderly, TypeOK', NEW x \in Conns,
         UNCHANGED <<pc, held, idle, kind, outcome>>, CallTypes', adapter' = adapter, WireDomains',
         \A y \in Conns : y # x => Carried(y),
         WireOK(x)',
         \A d \in Calls : audited[d] => audited'[d],
         \A d \in Calls : held[d] # x => stage'[d] = stage[d],
         \A d \in Calls : held[d] = x =>
           /\ pc[d] = "using"
           /\ \/ MayBeStale(x)' /\ stage'[d] # "hello"
              \/ stage'[d] = "begin" /\ Bare(x)'
              \/ stage'[d] = "hello" /\ OnlyDue(x, "hello")'
              \/ stage'[d] = "ask" /\ OnlyDue(x, d)'
           /\ stage'[d] = "ask" /\ kind[d] = "write" => audited'[d],
         \A d \in Calls : Tagged(x, d)' => held[d] = x /\ stage'[d] = "ask",
         (\E k \in Keys : x \in IdleConns(k)) => Bare(x)' \/ MayBeStale(x)'
  PROVE  Orderly'
<1>1. ASSUME NEW y \in Conns, y # x
      PROVE  /\ WireOK(y)'
             /\ \A t : Tagged(y, t)' => Tagged(y, t)
             /\ Bare(y) => Bare(y)'
             /\ \A t : OnlyDue(y, t) => OnlyDue(y, t)'
             /\ MayBeStale(y) => MayBeStale(y)' \/ Bare(y)'
  <2>1. WireOK(y) /\ Carried(y) /\ sock'[y] \in {"open", "eof", "closed"}
    BY <1>1 DEF Orderly, TypeOK
  <2> QED BY <2>1, CarriedKeeps
<1>2. ASSUME NEW d \in Calls
      PROVE  CallOK(d)'
  <2>1. CallOK(d)
    BY DEF Orderly
  <2>2. \A y \in Conns : Tagged(y, d)' => held'[d] = y /\ stage'[d] = "ask"
    BY <1>1, <2>1 DEF CallOK
  <2>3. /\ kind'[d] = "raw" \/ (kind'[d] = "write" /\ stage'[d] = "ask") => audited'[d]
        /\ outcome'[d] = "foreign" => adapter' = "modbus_rtu"
        /\ stage'[d] # "begin" => pc'[d] = "using"
    BY <2>1 DEF CallOK
  <2>4. ASSUME pc'[d] = "using"
        PROVE  \E y \in Conns :
                 /\ held'[d] = y
                 /\ \/ MayBeStale(y)' /\ stage'[d] # "hello"
                    \/ stage'[d] = "begin" /\ Bare(y)'
                    \/ stage'[d] = "hello" /\ OnlyDue(y, "hello")'
                    \/ stage'[d] = "ask" /\ OnlyDue(y, d)'
    <3>1. CASE held[d] = x
      BY <3>1
    <3>2. CASE held[d] # x
      <4>1. PICK y \in Conns :
              /\ held[d] = y
              /\ \/ MayBeStale(y) /\ stage[d] # "hello"
                 \/ stage[d] = "begin" /\ Bare(y)
                 \/ stage[d] = "hello" /\ OnlyDue(y, "hello")
                 \/ stage[d] = "ask" /\ OnlyDue(y, d)
        BY <2>1, <2>4 DEF CallOK
      <4>2. Bare(y)' => OnlyDue(y, d)'
        BY DEF OnlyDue
      <4>3. stage[d] \in {"begin", "hello", "ask"}
        BY DEF Orderly, CallTypes
      <4> QED BY <1>1, <3>2, <4>1, <4>2, <4>3
    <3> QED BY <3>1, <3>2
  <2> QED BY <2>2, <2>3, <2>4 DEF CallOK
<1>3. IdleIsInStep'
  <2>1. ASSUME NEW k \in Keys, NEW y \in IdleConns(k)'
        PROVE  Bare(y)' \/ MayBeStale(y)'
    <3>1. y \in Conns /\ y \in IdleConns(k)
      BY DEF IdleConns, TypeOK
    <3>2. Bare(y) \/ MayBeStale(y)
      BY <3>1 DEF Orderly, IdleIsInStep, Bare, MayBeStale
    <3> QED BY <1>1, <3>1, <3>2
  <2> QED BY <2>1 DEF IdleIsInStep, Bare, MayBeStale
<1> QED BY <1>1, <1>2, <1>3 DEF Orderly

\* The first request of a handshake round.
LEMMA SayHelloKeeps ==
  ASSUME PoolInv, Orderly, TypeOK', NEW c \in Calls, SayHello(c)
  PROVE  Orderly'
<1>0. PICK x \in Conns : x = held[c]
  BY OneUser DEF SayHello
<1>1. /\ pc[c] = "using" /\ stage[c] = "begin" /\ hello[x] # HelloRounds
      /\ stage' = [stage EXCEPT ![c] = "hello"]
      /\ UNCHANGED <<pc, held, idle, sock, kind, outcome, audited>> /\ adapter' = adapter
      /\ sock[x] \in {"open", "eof", "closed"}
  BY <1>0 DEF SayHello, Introduced, Wires, vars, lockVars, connVars, TypeOK
<1>2. hello[x] < HelloRounds /\ Bare(x) /\ HelloRounds \in Nat /\ hello[x] \in 0..HelloRounds
  <2>1. hello[x] < HelloRounds /\ HelloRounds \in Nat /\ hello[x] \in 0..HelloRounds
    BY <1>1, RoundsType DEF Orderly, WireOK, HelloFirst
  <2>2. ~MayBeStale(x)
    BY <2>1, RoundsType DEF MayBeStale
  <2>3. CallOK(c)
    BY DEF Orderly
  <2> QED BY <1>0, <1>1, <2>1, <2>2, <2>3 DEF CallOK
<1>3. /\ hello'[x] = (IF sock[x] = "closed" THEN 0 ELSE hello[x]) /\ inbox'[x] = <<>>
      /\ device'[x] = <<>> \/ device'[x] = <<[to |-> "hello", part |-> "none"]>>
      /\ sock[x] # "open" => device'[x] = <<>>
      /\ rawUsed'[x] \in BOOLEAN
  <2>1. Send(x, "hello")[x] = <<[to |-> "hello", part |-> "none"]>>
    <3>1. device = [y \in Conns |-> device[y]] /\ device[x] = <<>>
      BY <1>2 DEF Orderly, WireDomains, Bare
    <3> QED BY <3>1 DEF Send
  <2> QED BY <1>0, <1>1, <1>2, <2>1 DEF SayHello, Wires, Bare
<1>4. ASSUME NEW y \in Conns, y # x
      PROVE  Carried(y)
  <2>1. Send(x, "hello")[y] = device[y]
    BY <1>4 DEF Send, Orderly, WireDomains
  <2>2. sock[y] \in {"open", "eof", "closed"} /\ WireOK(y)
    BY DEF Orderly, PoolInv, TypeOK
  <2> QED BY <1>0, <1>1, <2>1, <2>2 DEF SayHello, Wires, Carried, WireOK, Closed, Bare
<1>5. \A t : Tagged(x, t)' => t = "hello"
  BY <1>3 DEF Tagged
<1>6. WireOK(x)'
  <2>1. HelloRounds' = HelloRounds
    BY <1>1 DEF HelloRounds
  <2>2. hello'[x] < HelloRounds /\ hello'[x] \in 0..HelloRounds
    BY <1>2, <1>3
  <2>3. HelloFirst(x)'
    BY <1>5, <2>1, <2>2 DEF HelloFirst
  <2>4. device'[x] \in Seq(Requests) /\ inbox'[x] \in Seq(Pieces)
    <3>1. [to |-> "hello", part |-> "none"] \in Requests
      BY TagsDiffer DEF Requests
    <3>2. <<[to |-> "hello", part |-> "none"]>> \in Seq(Requests) /\ \A S : <<>> \in Seq(S)
      BY <3>1
    <3> QED BY <1>3, <3>2
  <2>5. /\ Closed(x)' => hello'[x] = 0 /\ Bare(x)'
        /\ sock'[x] = "eof" => device'[x] = <<>>
    BY <1>1, <1>3 DEF Closed, Bare
  <2> QED BY <1>3, <2>1, <2>2, <2>3, <2>4, <2>5 DEF WireOK, Requests, Pieces
<1>7. OnlyDue(x, "hello")'
  BY <1>3 DEF OnlyDue, Bare
<1>8. WireDomains' /\ CallTypes'
  BY <1>1 DEF SayHello, Wires, WireDomains, Orderly, CallTypes
<1>9. \A d \in Calls : held[d] = x => d = c
  BY <1>0, <1>1, OneUser
<1>10. \A k \in Keys : x \notin IdleConns(k)
  BY <1>0, <1>1, OneUser
<1>11. stage'[c] = "hello" /\ \A d \in Calls : d # c => stage'[d] = stage[d]
  BY <1>1 DEF Orderly, CallTypes
<1>12. /\ \A d \in Calls : held[d] # x => stage'[d] = stage[d]
       /\ \A d \in Calls : held[d] = x =>
            pc[d] = "using" /\ stage'[d] = "hello" /\ OnlyDue(x, "hello")'
       /\ \A d \in Calls : ~Tagged(x, d)'
  BY <1>0, <1>1, <1>5, <1>7, <1>9, <1>11, TagsDiffer
<1> QED BY <1>1, <1>4, <1>6, <1>8, <1>10, <1>12, OneWire

\* The request of the call itself: the handshake is over, and nothing is left on
\* the connection unless a raw Modbus frame was there before.
LEMMA AskKeeps ==
  ASSUME PoolInv, Orderly, TypeOK', NEW c \in Calls, Ask(c)
  PROVE  Orderly'
<1>0. PICK x \in Conns : x = held[c]
  BY OneUser DEF Ask
<1>1. /\ pc[c] = "using" /\ stage[c] = "begin" /\ hello[x] = HelloRounds
      /\ stage' = [stage EXCEPT ![c] = "ask"]
      /\ audited' = [audited EXCEPT ![c] = @ \/ (kind[c] = "write")]
      /\ UNCHANGED <<pc, held, idle, sock, kind, outcome>> /\ adapter' = adapter
      /\ sock[x] \in {"open", "eof", "closed"}
  BY <1>0 DEF Ask, AuditOnBuild, Introduced, Wires, vars, lockVars, connVars, TypeOK
<1>2. /\ HelloRounds \in Nat /\ ~Tagged(x, "hello")
      /\ Bare(x) \/ MayBeStale(x)
      /\ device[x] \in Seq(Requests) /\ inbox[x] \in Seq(Pieces) /\ rawUsed[x] \in BOOLEAN
      /\ Closed(x) => hello[x] = 0 /\ Bare(x)
  <2>1. CallOK(c) /\ WireOK(x)
    BY DEF Orderly
  <2> QED BY <1>0, <1>1, <2>1, RoundsType DEF CallOK, WireOK, HelloFirst, Requests, Pieces
<1>3. /\ hello'[x] = hello[x]
      /\ inbox'[x] = IF sock[x] = "closed" THEN <<>> ELSE inbox[x]
      /\ device'[x] = IF sock[x] = "open" THEN Append(device[x], [to |-> c, part |-> "none"])
                      ELSE <<>>
      /\ rawUsed'[x] \in BOOLEAN /\ (sock[x] # "closed" /\ rawUsed[x] => rawUsed'[x])
  <2>1. Send(x, c)[x] = Append(device[x], [to |-> c, part |-> "none"])
    BY DEF Orderly, WireDomains, Send
  <2> QED BY <1>0, <1>1, <1>2, <2>1 DEF Ask, Wires, Closed
<1>4. ASSUME NEW y \in Conns, y # x
      PROVE  Carried(y)
  <2>1. Send(x, c)[y] = device[y]
    BY <1>4 DEF Send, Orderly, WireDomains
  <2>2. sock[y] \in {"open", "eof", "closed"} /\ WireOK(y)
    BY DEF Orderly, PoolInv, TypeOK
  <2> QED BY <1>0, <1>1, <2>1, <2>2 DEF Ask, Wires, Carried, WireOK, Closed, Bare
<1>5. [to |-> c, part |-> "none"] \in Requests
  BY TagsDiffer DEF Requests
<1>6. \A t : Tagged(x, t)' => t = c \/ Tagged(x, t)
  <2>1. \A i \in DOMAIN device'[x] : device'[x][i].to = c \/ \E j \in DOMAIN device[x] : device'[x][i] = device[x][j]
    BY <1>2, <1>3, <1>5, QueueTags
  <2>2. inbox'[x] = inbox[x] \/ inbox'[x] = <<>>
    BY <1>3
  <2> QED BY <2>1, <2>2 DEF Tagged
<1>7. WireOK(x)'
  <2>1. HelloRounds' = HelloRounds
    BY <1>1 DEF HelloRounds
  <2>2. HelloFirst(x)'
    <3>1. ~Tagged(x, "hello")'
      BY <1>2, <1>6, TagsDiffer
    <3> QED BY <1>1, <1>3, <2>1, <3>1 DEF HelloFirst
  <2>3. hello'[x] \in 0..HelloRounds
    BY <1>1, <1>2, <1>3
  <2>4. device'[x] \in Seq(Requests) /\ inbox'[x] \in Seq(Pieces)
    BY <1>2, <1>3, <1>5
  <2>5. /\ Closed(x)' => hello'[x] = 0 /\ Bare(x)'
        /\ sock'[x] = "eof" => device'[x] = <<>>
    BY <1>1, <1>2, <1>3 DEF Closed, Bare
  <2> QED BY <1>3, <2>1, <2>2, <2>3, <2>4, <2>5 DEF WireOK, Requests, Pieces
<1>8. OnlyDue(x, c)' \/ MayBeStale(x)'
  <2>1. CASE Bare(x)
    <3>1. device'[x] = <<>> \/ device'[x] = <<[to |-> c, part |-> "none"]>>
      BY <1>3, <2>1 DEF Bare
    <3> QED BY <1>3, <2>1, <3>1 DEF OnlyDue, Bare
  <2>2. CASE MayBeStale(x) /\ sock[x] # "closed"
    BY <1>1, <1>3, <2>2 DEF MayBeStale
  <2>3. CASE sock[x] = "closed"
    BY <1>3, <2>3 DEF OnlyDue, Bare
  <2> QED BY <1>2, <2>1, <2>2, <2>3
<1>9. WireDomains' /\ CallTypes'
  BY <1>1 DEF Ask, Wires, WireDomains, Orderly, CallTypes
<1>10. \A d \in Calls : held[d] = x => d = c
  BY <1>0, <1>1, OneUser
<1>11. \A k \in Keys : x \notin IdleConns(k)
  BY <1>0, <1>1, OneUser
<1>12. /\ stage'[c] = "ask" /\ \A d \in Calls : d # c => stage'[d] = stage[d]
       /\ audited'[c] = (audited[c] \/ kind[c] = "write")
       /\ \A d \in Calls : d # c => audited'[d] = audited[d]
  BY <1>1 DEF Orderly, CallTypes
<1>13. \A d \in Calls : Tagged(x, d)' => d = c
  <2> SUFFICES ASSUME NEW d \in Calls, Tagged(x, d), d # c PROVE FALSE
    BY <1>6
  <2> QED BY <1>10 DEF Orderly, CallOK
<1>14. /\ \A d \in Calls : held[d] # x => stage'[d] = stage[d]
       /\ \A d \in Calls : audited[d] => audited'[d]
       /\ \A d \in Calls : held[d] = x =>
            /\ pc[d] = "using" /\ stage'[d] = "ask"
            /\ OnlyDue(x, d)' \/ MayBeStale(x)'
            /\ kind[d] = "write" => audited'[d]
       /\ \A d \in Calls : Tagged(x, d)' => held[d] = x /\ stage'[d] = "ask"
  BY <1>0, <1>1, <1>8, <1>10, <1>12, <1>13
<1> QED BY <1>1, <1>4, <1>7, <1>9, <1>11, <1>14, OneWire

\* When the only reply that is due is complete, it is all that is there.
LEMMA FrameOfDue ==
  ASSUME NEW x \in Conns, NEW t, OnlyDue(x, t), HeadFrame(x) > 0
  PROVE  /\ device[x] = <<>> /\ inbox[x] # <<>> /\ Head(inbox[x]).to = t /\ Tagged(x, t)
         /\ AfterFrame(x, HeadFrame(x)) = <<>>
<1>1. inbox[x] # <<>>
  BY DEF HeadFrame
<1>2. CASE \E f \in {"whole", "bad", "first"} : inbox[x] = <<[to |-> t, form |-> f]>>
  <2>1. PICK f \in {"whole", "bad", "first"} : inbox[x] = <<[to |-> t, form |-> f]>>
    BY <1>2
  <2>2. Head(inbox[x]) = [to |-> t, form |-> f] /\ Len(inbox[x]) = 1 /\ inbox[x][1].to = t /\ 1 \in DOMAIN inbox[x]
    BY <2>1
  <2>3. f = "whole" /\ HeadFrame(x) = 1
    BY <1>1, <2>2 DEF HeadFrame
  <2>4. device[x] = <<>>
    BY <1>1, <2>1, <2>3 DEF OnlyDue, Bare
  <2>5. AfterFrame(x, 1) = <<>>
    BY <2>1, <2>2 DEF AfterFrame
  <2> QED BY <1>1, <2>2, <2>3, <2>4, <2>5 DEF Tagged
<1>3. CASE inbox[x] = <<[to |-> t, form |-> "first"], [to |-> t, form |-> "rest"]>>
  <2>1. Head(inbox[x]) = [to |-> t, form |-> "first"] /\ Len(inbox[x]) = 2 /\ inbox[x][1].to = t /\ 1 \in DOMAIN inbox[x]
    BY <1>3
  <2>2. HeadFrame(x) = 2
    BY <1>1, <2>1 DEF HeadFrame
  <2>3. device[x] = <<>>
    BY <1>1, <1>3, <2>1 DEF OnlyDue, Bare
  <2>4. AfterFrame(x, 2) = <<>>
    BY <1>3, <2>1 DEF AfterFrame
  <2> QED BY <1>1, <2>1, <2>2, <2>3, <2>4 DEF Tagged
<1> QED BY <1>1, <1>2, <1>3 DEF OnlyDue, Bare

\* A handshake reply: nothing else was on the connection, and now nothing is.
LEMMA HearHelloKeeps ==
  ASSUME PoolInv, Orderly, TypeOK', NEW c \in Calls, HearHello(c)
  PROVE  Orderly'
<1>0. PICK x \in Conns : x = held[c]
  BY OneUser DEF HearHello, Awaits
<1>1. /\ pc[c] = "using" /\ stage[c] = "hello" /\ HeadFrame(x) > 0
      /\ stage' = [stage EXCEPT ![c] = "begin"]
      /\ UNCHANGED <<pc, held, idle, sock, kind, outcome, audited>> /\ adapter' = adapter
      /\ sock[x] \in {"open", "eof", "closed"}
  BY <1>0 DEF HearHello, Awaits, Wires, vars, lockVars, connVars, TypeOK
<1>2. WireOK(x) /\ CallOK(c)
  BY DEF Orderly
<1>3. OnlyDue(x, "hello")
  BY <1>0, <1>1, <1>2 DEF CallOK
<1>4. device[x] = <<>> /\ inbox[x] # <<>> /\ Tagged(x, "hello") /\ AfterFrame(x, HeadFrame(x)) = <<>>
  BY <1>1, <1>3, FrameOfDue
<1>5. sock[x] # "closed" /\ HelloRounds \in Nat /\ hello[x] \in 0..HelloRounds /\ hello[x] < HelloRounds
  BY <1>2, <1>4, RoundsType DEF WireOK, HelloFirst, Closed, Bare
<1>6. hello'[x] = hello[x] + 1 /\ device'[x] = <<>> /\ inbox'[x] = <<>> /\ rawUsed'[x] \in BOOLEAN
  <2>1. [hello EXCEPT ![x] = @ + 1][x] = hello[x] + 1
        /\ [inbox EXCEPT ![x] = AfterFrame(x, HeadFrame(x))][x] = <<>>
    BY <1>4 DEF Orderly, WireDomains
  <2> QED BY <1>0, <1>1, <1>4, <1>5, <2>1 DEF HearHello, Wires
<1>7. ASSUME NEW y \in Conns, y # x
      PROVE  Carried(y)
  <2>1. sock[y] \in {"open", "eof", "closed"} /\ WireOK(y)
    BY DEF Orderly, PoolInv, TypeOK
  <2>2. [hello EXCEPT ![x] = @ + 1][y] = hello[y]
        /\ [inbox EXCEPT ![x] = AfterFrame(x, HeadFrame(x))][y] = inbox[y]
    BY <1>7 DEF Orderly, WireDomains
  <2> QED BY <1>0, <1>1, <2>1, <2>2 DEF HearHello, Wires, Carried, WireOK, Closed, Bare
<1>8. Bare(x)' /\ \A t : ~Tagged(x, t)'
  BY <1>6 DEF Bare, Tagged
<1>9. WireOK(x)'
  <2>1. HelloRounds' = HelloRounds
    BY <1>1 DEF HelloRounds
  <2>2. \A S : <<>> \in Seq(S)
    OBVIOUS
  <2>3. ~Closed(x)'
    BY <1>1, <1>5 DEF Closed
  <2>4. hello'[x] \in 0..HelloRounds /\ (hello'[x] < HelloRounds \/ hello'[x] = HelloRounds)
    BY <1>5, <1>6
  <2> QED BY <1>6, <1>8, <2>1, <2>2, <2>3, <2>4 DEF WireOK, HelloFirst
<1>10. WireDomains' /\ CallTypes'
  BY <1>1 DEF HearHello, Wires, WireDomains, Orderly, CallTypes
<1>11. /\ \A d \in Calls : held[d] = x => d = c
       /\ \A k \in Keys : x \notin IdleConns(k)
  BY <1>0, <1>1, OneUser
<1>12. stage'[c] = "begin" /\ \A d \in Calls : d # c => stage'[d] = stage[d]
  BY <1>1 DEF Orderly, CallTypes
<1>13. /\ \A d \in Calls : held[d] # x => stage'[d] = stage[d]
       /\ \A d \in Calls : held[d] = x => pc[d] = "using" /\ stage'[d] = "begin" /\ Bare(x)'
  BY <1>0, <1>1, <1>8, <1>11, <1>12
<1> QED BY <1>1, <1>7, <1>8, <1>9, <1>10, <1>11, <1>13, OneWire

\* A pair, built from its parts.
LEMMA AppendPair ==
  ASSUME NEW a, NEW b
  PROVE  Append(<<a>>, b) = <<a, b>>
<1> DEFINE S == {a, b}
           s == <<a>>
           t == <<a, b>>
<1>1. /\ b \in S /\ s \in Seq(S) /\ Len(s) = 1 /\ s[1] = a
      /\ t \in Seq(S) /\ Len(t) = 2 /\ t[1] = a /\ t[2] = b
  OBVIOUS
<1> SUFFICES Append(s, b) = t
  OBVIOUS
<1> HIDE DEF S, s, t
<1>2. /\ Append(s, b) \in Seq(S) /\ Len(Append(s, b)) = 2
      /\ Append(s, b)[1] = a /\ Append(s, b)[2] = b
  <2>1. b \in S /\ s \in Seq(S)
    BY <1>1
  <2>2. /\ Append(s, b) \in Seq(S) /\ Len(Append(s, b)) = Len(s) + 1
        /\ \A n \in 1..Len(s) : Append(s, b)[n] = s[n]
        /\ Append(s, b)[Len(s) + 1] = b
    BY ONLY <2>1, AppendProperties
  <2> QED BY <1>1, <2>2
<1>3. \A n \in 1..2 : Append(s, b)[n] = t[n]
  BY <1>1, <1>2
<1> QED BY <1>1, <1>2, <1>3, SeqEqual

\* What the device may do with its oldest request.
DeviceDoes(x, d, i) ==
  \/ \E form \in {"whole", "bad"} :
       /\ device[x][1].part = "none"
       /\ d = Tail(device[x]) /\ i = Append(inbox[x], [to |-> device[x][1].to, form |-> form])
  \/ /\ device[x][1].part = "none"
     /\ d = [device[x] EXCEPT ![1].part = "first"]
     /\ i = Append(inbox[x], [to |-> device[x][1].to, form |-> "first"])
  \/ /\ device[x][1].part = "first"
     /\ d = Tail(device[x]) /\ i = Append(inbox[x], [to |-> device[x][1].to, form |-> "rest"])
  \/ /\ device[x][1].part = "none"
     /\ d = Tail(device[x]) /\ i = inbox[x]

\* It is one of these, on a connection that is open at both ends.
LEMMA DeviceStep ==
  ASSUME PoolInv, Orderly, NEW x \in Conns, Reply(x) \/ Ignore(x)
  PROVE  /\ device[x] # <<>> /\ sock[x] = "open"
         /\ UNCHANGED <<pc, held, idle, sock, kind, stage, outcome, audited>> /\ adapter' = adapter
         /\ hello'[x] = hello[x] /\ rawUsed'[x] \in BOOLEAN /\ (rawUsed[x] => rawUsed'[x])
         /\ WireDomains'
         /\ DeviceDoes(x, device'[x], inbox'[x])
         /\ \A y \in Conns : y # x => Carried(y)
<1>1. WireOK(x) /\ WireDomains /\ device[x] # <<>> /\ sock[x] \in {"open", "eof", "closed"}
  BY DEF Orderly, Reply, Ignore, PoolInv, TypeOK
<1>2. sock[x] = "open"
  BY <1>1 DEF WireOK, Closed, Bare
<1>3. UNCHANGED <<pc, held, idle, sock, kind, stage, outcome, audited>>
  BY DEF Reply, Ignore, vars, lockVars, connVars, callVars
<1>4. PICK d, i : /\ Wires(hello, [device EXCEPT ![x] = d], [inbox EXCEPT ![x] = i])
                  /\ DeviceDoes(x, d, i)
  <2>1. Head(device[x]) = device[x][1]
    BY <1>1 DEF WireOK
  <2>2. [inbox EXCEPT ![x] = inbox[x]] = inbox
    BY <1>1 DEF WireDomains
  <2>3. [device EXCEPT ![x][1].part = "first"] = [device EXCEPT ![x] = [device[x] EXCEPT ![1].part = "first"]]
    OBVIOUS
  <2>4. CASE Ignore(x)
    BY <2>1, <2>2, <2>4 DEF Ignore, DeviceDoes
  <2>5. CASE Reply(x)
    BY <2>1, <2>3, <2>5 DEF Reply, DeviceDoes
  <2> QED BY <2>4, <2>5
<1>5. /\ device'[x] = d /\ inbox'[x] = i /\ hello'[x] = hello[x] /\ adapter' = adapter
      /\ rawUsed'[x] \in BOOLEAN /\ (rawUsed[x] => rawUsed'[x]) /\ WireDomains'
  <2>1. [device EXCEPT ![x] = d][x] = d /\ [inbox EXCEPT ![x] = i][x] = i
    BY <1>1 DEF WireDomains
  <2>2. sock'[x] = "open"
    BY <1>2, <1>3
  <2>3. rawUsed[x] \in BOOLEAN
    BY <1>1 DEF WireOK
  <2> QED BY <1>4, <2>1, <2>2, <2>3 DEF Wires, WireDomains
<1>6. ASSUME NEW y \in Conns, y # x
      PROVE  Carried(y)
  <2>1. [device EXCEPT ![x] = d][y] = device[y] /\ [inbox EXCEPT ![x] = i][y] = inbox[y]
    BY <1>1, <1>6 DEF WireDomains
  <2>2. sock[y] \in {"open", "eof", "closed"} /\ WireOK(y)
    BY DEF Orderly, PoolInv, TypeOK
  <2> QED BY <1>3, <1>4, <2>1, <2>2 DEF Wires, Carried, WireOK, Closed, Bare
<1> QED BY <1>1, <1>2, <1>3, <1>4, <1>5, <1>6

\* It adds no tag, and keeps a single reply a single reply.
LEMMA DeviceFacts ==
  ASSUME NEW x \in Conns, NEW d, NEW i, DeviceDoes(x, d, i), device[x] # <<>>,
         device[x] \in Seq(Requests), inbox[x] \in Seq(Pieces)
  PROVE  /\ d \in Seq(Requests) /\ i \in Seq(Pieces)
         /\ \A n \in DOMAIN d : \E j \in DOMAIN device[x] : d[n].to = device[x][j].to
         /\ \A n \in DOMAIN i : \/ i[n].to = device[x][1].to
                                \/ \E j \in DOMAIN inbox[x] : i[n] = inbox[x][j]
<1>1. device[x][1] \in Requests /\ 1 \in DOMAIN device[x] /\ device[x][1].to \in Tags
      /\ device[x][1].part \in {"none", "first"}
  <2>1. device[x][1] \in Requests /\ 1 \in DOMAIN device[x]
    OBVIOUS
  <2> QED BY <2>1 DEF Requests
<1>2. /\ Tail(device[x]) \in Seq(Requests)
      /\ \A n \in DOMAIN Tail(device[x]) : \E j \in DOMAIN device[x] : Tail(device[x])[n] = device[x][j]
  BY QueueTags
<1>3. DEFINE f == [device[x] EXCEPT ![1].part = "first"]
<1>4. /\ f \in Seq(Requests)
      /\ \A n \in DOMAIN f : \E j \in DOMAIN device[x] : f[n].to = device[x][j].to
  <2>1. f = [device[x] EXCEPT ![1] = [to |-> device[x][1].to, part |-> "first"]]
    BY <1>1 DEF Requests
  <2>2. [to |-> device[x][1].to, part |-> "first"] \in Requests
    BY <1>1 DEF Requests
  <2>3. f \in Seq(Requests) /\ DOMAIN f = DOMAIN device[x]
    BY <1>1, <2>1, <2>2
  <2>4. \A n \in DOMAIN f : f[n].to = device[x][n].to
    BY <1>1, <2>1
  <2> QED BY <2>3, <2>4
<1>5. ASSUME NEW form \in {"whole", "bad", "first", "rest"}
      PROVE  LET p == [to |-> device[x][1].to, form |-> form] IN
             /\ Append(inbox[x], p) \in Seq(Pieces)
             /\ \A n \in DOMAIN Append(inbox[x], p) :
                  \/ Append(inbox[x], p)[n].to = device[x][1].to
                  \/ \E j \in DOMAIN inbox[x] : Append(inbox[x], p)[n] = inbox[x][j]
  <2> DEFINE p == [to |-> device[x][1].to, form |-> form]
  <2>1. p \in Pieces /\ p.to = device[x][1].to
    BY <1>1, <1>5 DEF Pieces, Forms
  <2> HIDE DEF p
  <2>2. /\ Append(inbox[x], p) \in Seq(Pieces)
        /\ \A n \in DOMAIN Append(inbox[x], p) :
              Append(inbox[x], p)[n] = p \/ \E j \in DOMAIN inbox[x] : Append(inbox[x], p)[n] = inbox[x][j]
    BY <2>1, QueueTags
  <2>3. /\ Append(inbox[x], p) \in Seq(Pieces)
        /\ \A n \in DOMAIN Append(inbox[x], p) :
             \/ Append(inbox[x], p)[n].to = device[x][1].to
             \/ \E j \in DOMAIN inbox[x] : Append(inbox[x], p)[n] = inbox[x][j]
    BY <2>1, <2>2
  <2> QED BY <2>3 DEF p
<1> HIDE DEF f
<1>6. /\ d = Tail(device[x]) \/ d = f
      /\ \/ i = inbox[x]
         \/ \E form \in {"whole", "bad", "first", "rest"} :
              i = Append(inbox[x], [to |-> device[x][1].to, form |-> form])
  BY DEF DeviceDoes, f
<1>7. /\ d \in Seq(Requests)
      /\ \A n \in DOMAIN d : \E j \in DOMAIN device[x] : d[n].to = device[x][j].to
  <2>1. CASE d = Tail(device[x])
    BY <1>2, <2>1
  <2>2. CASE d = f
    BY <1>4, <2>2
  <2> QED BY <1>6, <2>1, <2>2
<1>8. /\ i \in Seq(Pieces)
      /\ \A n \in DOMAIN i : \/ i[n].to = device[x][1].to
                             \/ \E j \in DOMAIN inbox[x] : i[n] = inbox[x][j]
  <2>1. CASE i = inbox[x]
    BY <2>1
  <2>2. ASSUME NEW form \in {"whole", "bad", "first", "rest"},
               i = Append(inbox[x], [to |-> device[x][1].to, form |-> form])
        PROVE  <1>8
    BY <1>5, <2>2
  <2> QED BY <1>6, <2>1, <2>2
<1> QED BY <1>7, <1>8

\* A reply that is due becomes a reply that arrives.
LEMMA DeviceAnswers ==
  ASSUME NEW x \in Conns, NEW d, NEW i, NEW t, DeviceDoes(x, d, i), device[x] # <<>>,
         OnlyDue(x, t), d = device'[x], i = inbox'[x]
  PROVE  OnlyDue(x, t)'
<1>1. CASE device[x] = <<[to |-> t, part |-> "none"]>> /\ inbox[x] = <<>>
  <2>1. /\ device[x][1] = [to |-> t, part |-> "none"] /\ Tail(device[x]) = <<>>
        /\ [device[x] EXCEPT ![1].part = "first"] = <<[to |-> t, part |-> "first"]>>
        /\ \A p : Append(inbox[x], p) = <<p>>
    BY <1>1
  <2>2. \/ \E f \in {"whole", "bad"} : d = <<>> /\ i = <<[to |-> t, form |-> f]>>
        \/ d = <<[to |-> t, part |-> "first"]>> /\ i = <<[to |-> t, form |-> "first"]>>
        \/ d = <<>> /\ i = <<>>
    BY <1>1, <2>1 DEF DeviceDoes
  <2> QED BY <2>2 DEF OnlyDue, Bare
<1>2. CASE /\ device[x] = <<[to |-> t, part |-> "first"]>>
           /\ inbox[x] = <<[to |-> t, form |-> "first"]>>
  <2> DEFINE p == [to |-> t, form |-> "rest"]
  <2>1. /\ device[x][1] = [to |-> t, part |-> "first"] /\ Tail(device[x]) = <<>>
        /\ device[x][1].part = "first" /\ device[x][1].to = t
    BY <1>2
  <2>2. d = <<>> /\ i = Append(inbox[x], p)
    BY <2>1 DEF DeviceDoes
  <2>3. \A a, b : Append(<<a>>, b) = <<a, b>>
    BY AppendPair
  <2>4. i = <<[to |-> t, form |-> "first"], p>>
    BY <1>2, <2>2, <2>3
  <2> QED BY <2>2, <2>4 DEF OnlyDue, Bare
<1> QED BY <1>1, <1>2 DEF OnlyDue, Bare

\* The device answers or drops its oldest request.
LEMMA DeviceKeeps ==
  ASSUME PoolInv, Orderly, TypeOK', NEW x \in Conns, Reply(x) \/ Ignore(x)
  PROVE  Orderly'
<1>1. /\ device[x] # <<>> /\ sock[x] = "open"
      /\ UNCHANGED <<pc, held, idle, sock, kind, stage, outcome, audited>> /\ adapter' = adapter
      /\ hello'[x] = hello[x] /\ rawUsed'[x] \in BOOLEAN /\ (rawUsed[x] => rawUsed'[x])
      /\ WireDomains'
      /\ DeviceDoes(x, device'[x], inbox'[x])
      /\ \A y \in Conns : y # x => Carried(y)
  BY DeviceStep
<1>2. /\ hello[x] \in 0..HelloRounds /\ HelloFirst(x)
      /\ device[x] \in Seq(Requests) /\ inbox[x] \in Seq(Pieces)
  BY DEF Orderly, WireOK, Requests, Pieces
<1>3. PICK d, i : d = device'[x] /\ i = inbox'[x]
  OBVIOUS
<1>4. /\ d \in Seq(Requests) /\ i \in Seq(Pieces)
      /\ \A n \in DOMAIN d : \E j \in DOMAIN device[x] : d[n].to = device[x][j].to
      /\ \A n \in DOMAIN i : \/ i[n].to = device[x][1].to
                             \/ \E j \in DOMAIN inbox[x] : i[n] = inbox[x][j]
  <2>1. DeviceDoes(x, d, i)
    BY <1>1, <1>3
  <2> QED BY <1>1, <1>2, <2>1, DeviceFacts
<1>5. \A t : Tagged(x, t)' => Tagged(x, t)
  <2>1. 1 \in DOMAIN device[x]
    BY <1>1, <1>2
  <2> QED BY <1>3, <1>4, <2>1 DEF Tagged
<1>6. \A t : OnlyDue(x, t) => OnlyDue(x, t)'
  <2> SUFFICES ASSUME NEW t, OnlyDue(x, t) PROVE OnlyDue(x, t)'
    OBVIOUS
  <2>1. DeviceDoes(x, d, i)
    BY <1>1, <1>3
  <2> QED BY <1>1, <1>3, <2>1, DeviceAnswers
<1>7. WireOK(x)'
  <2>1. HelloRounds' = HelloRounds
    BY <1>1 DEF HelloRounds
  <2>2. HelloFirst(x)'
    BY <1>1, <1>2, <1>5, <2>1 DEF HelloFirst
  <2>3. ~Closed(x)' /\ sock'[x] # "eof"
    BY <1>1 DEF Closed
  <2> QED BY <1>1, <1>2, <1>3, <1>4, <2>1, <2>2, <2>3 DEF WireOK, Requests, Pieces
<1>8. CallTypes'
  BY <1>1 DEF Orderly, CallTypes
<1>9. MayBeStale(x) => MayBeStale(x)'
  BY <1>1 DEF MayBeStale
<1>10. \A k \in Keys : x \in IdleConns(k) => MayBeStale(x)'
  BY <1>1, <1>9 DEF Orderly, IdleIsInStep, MayBeStale
<1>11. ASSUME NEW c \in Calls
       PROVE  /\ held[c] = x =>
                   /\ pc[c] = "using"
                   /\ \/ MayBeStale(x)' /\ stage'[c] # "hello"
                      \/ stage'[c] = "begin" /\ Bare(x)'
                      \/ stage'[c] = "hello" /\ OnlyDue(x, "hello")'
                      \/ stage'[c] = "ask" /\ OnlyDue(x, c)'
                   /\ stage'[c] = "ask" /\ kind[c] = "write" => audited'[c]
              /\ Tagged(x, c)' => held[c] = x /\ stage'[c] = "ask"
  <2>1. CallOK(c)
    BY DEF Orderly
  <2>2. Tagged(x, c)' => held[c] = x /\ stage'[c] = "ask"
    BY <1>1, <1>5, <2>1 DEF CallOK
  <2>3. stage'[c] = "ask" /\ kind[c] = "write" => audited'[c]
    BY <1>1, <2>1 DEF CallOK
  <2>4. ASSUME held[c] = x
        PROVE  /\ pc[c] = "using"
               /\ \/ MayBeStale(x)' /\ stage'[c] # "hello"
                  \/ stage'[c] = "hello" /\ OnlyDue(x, "hello")'
                  \/ stage'[c] = "ask" /\ OnlyDue(x, c)'
    <3>1. pc[c] = "using"
      BY <2>4, ConnsAssumption DEF PoolInv, LockDiscipline
    <3>2. ~Bare(x)
      BY <1>1 DEF Bare
    <3> QED BY <1>1, <1>6, <1>9, <2>1, <2>4, <3>1, <3>2 DEF CallOK
  <2> QED BY <2>2, <2>3, <2>4
<1> QED BY <1>1, <1>7, <1>8, <1>10, <1>11, OneWire

-----------------------------------------------------------------------------
(* The end of a call                                                        *)

\* What a call leaves behind belongs to nobody, and to no handshake either.
LEMMA OrphanFacts ==
  ASSUME NEW S, S = Requests \/ S = Pieces, NEW s \in Seq(S), NEW c \in Calls
  PROVE  /\ Orphan(s, c) \in Seq(S) /\ DOMAIN Orphan(s, c) = DOMAIN s
         /\ \A i \in DOMAIN s : Orphan(s, c)[i].to = IF s[i].to = c THEN "late" ELSE s[i].to
<1>1. "late" \in Tags /\ DOMAIN s = 1..Len(s) /\ Len(s) \in Nat
  BY TagsDiffer
<1>2. ASSUME NEW i \in DOMAIN s
      PROVE  /\ Orphan(s, c)[i] \in S
             /\ Orphan(s, c)[i].to = IF s[i].to = c THEN "late" ELSE s[i].to
  <2>1. s[i] \in S
    BY <1>1
  <2>2. Orphan(s, c)[i] = IF s[i].to = c THEN [s[i] EXCEPT !.to = "late"] ELSE s[i]
    BY DEF Orphan
  <2>3. CASE S = Requests
    BY <1>1, <2>1, <2>2, <2>3 DEF Requests
  <2>4. CASE S = Pieces
    BY <1>1, <2>1, <2>2, <2>4 DEF Pieces
  <2> QED BY <2>3, <2>4
<1>3. Orphan(s, c) \in [1..Len(s) -> S]
  BY <1>1, <1>2 DEF Orphan
<1> QED BY <1>1, <1>2, <1>3 DEF Orphan

\* What the end of a call does to the calls, and to its connection.
EndsOn(c, x, result, rest) ==
  /\ outcome' = [outcome EXCEPT ![c] = result]
  /\ stage' = [stage EXCEPT ![c] = "begin"]
  /\ UNCHANGED <<kind, audited>>
  /\ Wires(hello, [device EXCEPT ![x] = Orphan(@, c)], [inbox EXCEPT ![x] = Orphan(rest, c)])

\* What is left unread was there before; and what may be pooled again is clean, or
\* has carried a raw Modbus frame.
Remains(x, rest) == \A n \in DOMAIN rest : \E j \in DOMAIN inbox[x] : rest[n] = inbox[x][j]
MayReturn(c, x, rest) ==
  \/ device[x] = <<>> /\ rest = <<>>
  \/ /\ adapter \in {"modbus", "modbus_rtu"}
     /\ rawUsed[x] \/ (stage[c] = "ask" /\ kind[c] = "raw")

\* A call ends.  Its connection goes back to the pool only if nothing is left on
\* it, or if it has carried a raw Modbus frame.
LEMMA EndKeeps ==
  ASSUME PoolInv, Orderly, TypeOK', NEW c \in Calls, Talk(c), NEW x \in Conns, x = held[c],
         NEW result \in {"own", "foreign", "raw", "error"}, NEW rest \in Seq(Pieces),
         EndsOn(c, x, result, rest),
         Remains(x, rest),
         result = "foreign" => adapter = "modbus_rtu",
         UNCHANGED idle \/ MayReturn(c, x, rest)
  PROVE  Orderly'
<1>0. /\ outcome' = [outcome EXCEPT ![c] = result] /\ stage' = [stage EXCEPT ![c] = "begin"]
      /\ UNCHANGED <<kind, audited>>
      /\ Wires(hello, [device EXCEPT ![x] = Orphan(@, c)], [inbox EXCEPT ![x] = Orphan(rest, c)])
  BY DEF EndsOn
<1>1. /\ pc[c] = "using" /\ pc' = [pc EXCEPT ![c] = "out"] /\ held' = [held EXCEPT ![c] = NoConn]
      /\ UNCHANGED idle \/ idle' = [idle EXCEPT ![KeyOf[c]] = <<x>>]
      /\ pc \in [Calls -> {"out", "queued", "connecting", "using"}]
      /\ held \in [Calls -> Conns \cup {NoConn}] /\ idle \in [Keys -> Seq(Conns)] /\ KeyOf[c] \in Keys
      /\ sock'[x] \in {"open", "eof", "closed"}
  BY TalkEffect DEF PoolInv, TypeOK
<1>2. adapter' = adapter /\ WireDomains' /\ WireDomains /\ CallTypes'
  BY <1>0 DEF Wires, WireDomains, Orderly, CallTypes
<1>3. /\ hello[x] \in 0..HelloRounds /\ HelloRounds \in Nat /\ HelloFirst(x)
      /\ device[x] \in Seq(Requests) /\ inbox[x] \in Seq(Pieces) /\ rawUsed[x] \in BOOLEAN
  BY RoundsType DEF Orderly, WireOK, Requests, Pieces
<1>4. PICK d, i : d = Orphan(device[x], c) /\ i = Orphan(rest, c)
  OBVIOUS
<1>5. /\ d \in Seq(Requests) /\ DOMAIN d = DOMAIN device[x]
      /\ \A n \in DOMAIN d : d[n].to = IF device[x][n].to = c THEN "late" ELSE device[x][n].to
      /\ i \in Seq(Pieces) /\ DOMAIN i = DOMAIN rest
      /\ \A n \in DOMAIN i : i[n].to = IF rest[n].to = c THEN "late" ELSE rest[n].to
  BY <1>3, <1>4, OrphanFacts
<1>6. /\ hello'[x] = IF sock'[x] = "closed" THEN 0 ELSE hello[x]
      /\ device'[x] = IF sock'[x] = "open" THEN d ELSE <<>>
      /\ inbox'[x] = IF sock'[x] = "closed" THEN <<>> ELSE i
      /\ rawUsed'[x] \in BOOLEAN
      /\ rawUsed'[x] <=> /\ sock'[x] # "closed"
                         /\ \/ rawUsed[x]
                            \/ \E e \in Calls : held[e] = x /\ stage[e] = "ask" /\ kind[e] = "raw"
  <2>1. [device EXCEPT ![x] = Orphan(@, c)][x] = d /\ [inbox EXCEPT ![x] = Orphan(rest, c)][x] = i
    BY <1>2, <1>4 DEF WireDomains
  <2>2. rawUsed'[x] = (/\ sock'[x] # "closed"
                       /\ \/ rawUsed[x]
                          \/ \E e \in Calls : held[e] = x /\ stage[e] = "ask" /\ kind[e] = "raw")
    BY <1>0 DEF Wires
  <2>3. /\ hello'[x] = IF sock'[x] = "closed" THEN 0 ELSE hello[x]
        /\ device'[x] = IF sock'[x] = "open" THEN d ELSE <<>>
        /\ inbox'[x] = IF sock'[x] = "closed" THEN <<>> ELSE i
    BY <1>0, <2>1 DEF Wires
  <2> QED BY <1>3, <2>2, <2>3
<1>7. ASSUME NEW y \in Conns, y # x
      PROVE  /\ WireOK(y)'
             /\ \A t : Tagged(y, t)' => Tagged(y, t)
             /\ Bare(y) => Bare(y)'
             /\ \A t : OnlyDue(y, t) => OnlyDue(y, t)'
             /\ MayBeStale(y) => MayBeStale(y)' \/ Bare(y)'
  <2>1. sock'[y] \in {"open", "eof", "closed"} /\ WireOK(y)
    BY DEF Orderly, TypeOK
  <2>2. [device EXCEPT ![x] = Orphan(@, c)][y] = device[y] /\ [inbox EXCEPT ![x] = Orphan(rest, c)][y] = inbox[y]
    BY <1>2, <1>7 DEF WireDomains
  <2>3. Carried(y)
    BY <1>0, <2>1, <2>2 DEF Wires, Carried, WireOK
  <2> QED BY <1>2, <2>1, <2>3, CarriedKeeps
<1>8. ASSUME NEW t, Tagged(x, t)'
      PROVE  t # c /\ (Tagged(x, t) \/ (t = "late" /\ Tagged(x, c)))
  <2>1. \/ \E n \in DOMAIN d : d[n].to = t
        \/ \E n \in DOMAIN i : i[n].to = t
    BY <1>6, <1>8 DEF Tagged
  <2>2. ASSUME NEW n \in DOMAIN d, d[n].to = t
        PROVE  t # c /\ (Tagged(x, t) \/ (t = "late" /\ Tagged(x, c)))
    BY <1>5, <2>2, TagsDiffer DEF Tagged
  <2>3. ASSUME NEW n \in DOMAIN i, i[n].to = t
        PROVE  t # c /\ (Tagged(x, t) \/ (t = "late" /\ Tagged(x, c)))
    <3>1. PICK j \in DOMAIN inbox[x] : rest[n] = inbox[x][j]
      BY <1>5 DEF Remains
    <3> QED BY <1>5, <2>3, <3>1, TagsDiffer DEF Tagged
  <2> QED BY <2>1, <2>2, <2>3
<1>9. WireOK(x)'
  <2>1. HelloRounds' = HelloRounds
    BY <1>2 DEF HelloRounds
  <2>2. HelloFirst(x)'
    <3>1. CASE sock'[x] = "closed"
      <4>1. \A t : ~Tagged(x, t)'
        BY <1>6, <3>1 DEF Tagged
      <4> QED BY <1>3, <1>6, <2>1, <3>1, <4>1 DEF HelloFirst
    <3>2. CASE sock'[x] # "closed"
      <4>1. CASE hello[x] < HelloRounds
        <5>1. \A t \in Tags \ {"hello"} : ~Tagged(x, t)
          BY <1>3, <4>1 DEF HelloFirst
        <5>2. \A t \in Tags \ {"hello"} : ~Tagged(x, t)'
          BY <1>8, <5>1, TagsDiffer
        <5> QED BY <1>6, <2>1, <3>2, <4>1, <5>2 DEF HelloFirst
      <4>2. CASE hello[x] = HelloRounds
        <5>1. ~Tagged(x, "hello")
          BY <1>3, <4>2 DEF HelloFirst
        <5>2. ~Tagged(x, "hello")'
          BY <1>8, <5>1
        <5> QED BY <1>6, <2>1, <3>2, <4>2, <5>2 DEF HelloFirst
      <4> QED BY <1>3, <4>1, <4>2
    <3> QED BY <3>1, <3>2
  <2>3. hello'[x] \in 0..HelloRounds
    BY <1>3, <1>6
  <2>4. device'[x] \in Seq(Requests) /\ inbox'[x] \in Seq(Pieces)
    BY <1>5, <1>6
  <2>5. /\ Closed(x)' => hello'[x] = 0 /\ Bare(x)'
        /\ sock'[x] = "eof" => device'[x] = <<>>
    BY <1>6 DEF Closed, Bare
  <2> QED BY <1>6, <2>1, <2>2, <2>3, <2>4, <2>5 DEF WireOK, Requests, Pieces
<1>10. \A e \in Calls : held[e] = x => e = c
  BY <1>1, OneUser
<1>11. ASSUME NEW e \in Calls
       PROVE  CallOK(e)'
  <2>1. CallOK(e) /\ CallTypes
    BY DEF Orderly
  <2>2. \A y \in Conns : Tagged(y, e)' => held'[e] = y /\ stage'[e] = "ask"
    <3> SUFFICES ASSUME NEW y \in Conns, Tagged(y, e)' PROVE held'[e] = y /\ stage'[e] = "ask"
      OBVIOUS
    <3>1. CASE y = x
      <4>1. e # c /\ Tagged(x, e)
        BY <1>8, <3>1, TagsDiffer
      <4> QED BY <1>10, <2>1, <4>1 DEF CallOK
    <3>2. CASE y # x
      <4>1. held[e] = y /\ stage[e] = "ask"
        BY <1>7, <2>1, <3>2 DEF CallOK
      <4> QED BY <1>0, <1>1, <2>1, <3>2, <4>1 DEF CallTypes
    <3> QED BY <3>1, <3>2
  <2>3. /\ kind'[e] = "raw" \/ (kind'[e] = "write" /\ stage'[e] = "ask") => audited'[e]
        /\ outcome'[e] = "foreign" => adapter' = "modbus_rtu"
        /\ stage'[e] # "begin" => pc'[e] = "using"
    BY <1>0, <1>1, <1>2, <2>1 DEF CallOK, CallTypes
  <2>4. ASSUME pc'[e] = "using"
        PROVE  \E y \in Conns :
                 /\ held'[e] = y
                 /\ \/ MayBeStale(y)' /\ stage'[e] # "hello"
                    \/ stage'[e] = "begin" /\ Bare(y)'
                    \/ stage'[e] = "hello" /\ OnlyDue(y, "hello")'
                    \/ stage'[e] = "ask" /\ OnlyDue(y, e)'
    <3>1. e # c /\ pc[e] = "using" /\ held'[e] = held[e] /\ stage'[e] = stage[e] /\ held[e] # x
      BY <1>0, <1>1, <1>10, <2>1, <2>4 DEF CallTypes
    <3>2. PICK y \in Conns :
            /\ held[e] = y
            /\ \/ MayBeStale(y) /\ stage[e] # "hello"
               \/ stage[e] = "begin" /\ Bare(y)
               \/ stage[e] = "hello" /\ OnlyDue(y, "hello")
               \/ stage[e] = "ask" /\ OnlyDue(y, e)
      BY <2>1, <3>1 DEF CallOK
    <3>3. Bare(y)' => OnlyDue(y, e)'
      BY DEF OnlyDue
    <3>4. stage[e] \in {"begin", "hello", "ask"}
      BY <2>1 DEF CallTypes
    <3> QED BY <1>7, <3>1, <3>2, <3>3, <3>4
  <2> QED BY <2>2, <2>3, <2>4 DEF CallOK
<1>12. idle' # idle => Bare(x)' \/ MayBeStale(x)'
  <2>1. CASE device[x] = <<>> /\ rest = <<>>
    <3>1. d = <<>> /\ i = <<>>
      BY <1>5, <2>1
    <3> QED BY <1>6, <3>1 DEF Bare
  <2>2. CASE /\ adapter \in {"modbus", "modbus_rtu"}
             /\ (rawUsed[x] \/ (stage[c] = "ask" /\ kind[c] = "raw"))
    <3>1. sock'[x] # "closed" => rawUsed'[x]
      BY <1>6, <2>2
    <3>2. sock'[x] = "closed" => Bare(x)'
      BY <1>6 DEF Bare
    <3> QED BY <1>2, <2>2, <3>1, <3>2 DEF MayBeStale
  <2> QED BY <2>1, <2>2 DEF MayReturn
<1>13. IdleIsInStep'
  <2>1. ASSUME NEW k \in Keys, NEW y \in IdleConns(k)'
        PROVE  Bare(y)' \/ MayBeStale(y)'
    <3>1. y \in Conns
      BY DEF IdleConns, TypeOK
    <3>2. CASE y \in IdleConns(k) /\ y # x
      <4>1. Bare(y) \/ MayBeStale(y)
        BY <3>2 DEF Orderly, IdleIsInStep, Bare, MayBeStale
      <4> QED BY <1>7, <3>1, <3>2, <4>1
    <3>3. CASE y = x /\ idle' # idle
      BY <1>12, <3>3
    <3>4. (y \in IdleConns(k) /\ y # x) \/ (y = x /\ idle' # idle)
      <4>1. x \notin IdleConns(k)
        BY <1>1, OneUser
      <4>2. IdleConns(k)' = IdleConns(k) \/ (idle' # idle /\ IdleConns(k)' = {x})
        <5>1. CASE idle' = idle
          BY <5>1 DEF IdleConns
        <5>2. CASE idle' # idle /\ k = KeyOf[c]
          <6>1. idle'[k] = <<x>>
            BY <1>1, <5>2
          <6> QED BY <5>2, <6>1, IdleConnsShort DEF IdleConns
        <5>3. CASE idle' # idle /\ k # KeyOf[c]
          BY <1>1, <5>3 DEF IdleConns
        <5> QED BY <5>1, <5>2, <5>3
      <4> QED BY <4>1, <4>2
    <3> QED BY <3>2, <3>3, <3>4
  <2> QED BY <2>1 DEF IdleIsInStep, Bare, MayBeStale
<1> QED BY <1>2, <1>7, <1>9, <1>11, <1>13 DEF Orderly

\* A connection that is discarded or lost does not return to the pool.
LEMMA AbandonKeeps ==
  ASSUME PoolInv, Orderly, TypeOK', NEW c \in Calls, Fail(c) \/ FailTwice(c) \/ Lose(c),
         End(c, "error", inbox[held[c]]) \/ End(c, "error", <<>>)
  PROVE  Orderly'
<1>1. Talk(c) /\ UNCHANGED idle
  BY DEF Talk, Fail, FailTwice, Lose, PutBack, Poolable
<1>2. PICK x \in Conns : x = held[c]
  BY <1>1, TalkEffect
<1>3. inbox[x] \in Seq(Pieces)
  BY DEF Orderly, WireOK, Pieces
<1>4. PICK rest \in Seq(Pieces) :
        Remains(x, rest) /\ EndsOn(c, x, "error", rest)
  <2>1. CASE End(c, "error", inbox[held[c]])
    <3>1. EndsOn(c, x, "error", inbox[x])
      BY <1>2, <2>1 DEF End, EndsOn
    <3> QED BY <1>3, <3>1 DEF Remains
  <2>2. CASE End(c, "error", <<>>)
    <3>1. EndsOn(c, x, "error", <<>>)
      BY <1>2, <2>2 DEF End, EndsOn
    <3>2. <<>> \in Seq(Pieces) /\ DOMAIN <<>> = {}
      OBVIOUS
    <3> QED BY <3>1, <3>2 DEF Remains
  <2> QED BY <2>1, <2>2
<1> QED BY <1>1, <1>2, <1>4, EndKeeps

\* A connection that is released was read empty, or has carried a raw Modbus frame.
LEMMA FinishKeeps ==
  ASSUME PoolInv, Orderly, TypeOK', NEW c \in Calls, Finish(c), NEW x \in Conns, x = held[c],
         NEW result \in {"own", "foreign", "raw", "error"}, NEW rest \in Seq(Pieces),
         End(c, result, rest),
         Remains(x, rest),
         result = "foreign" => adapter = "modbus_rtu",
         MayReturn(c, x, rest)
  PROVE  Orderly'
<1>1. EndsOn(c, x, result, rest)
  BY DEF End, EndsOn
<1>2. Talk(c)
  BY DEF Talk
<1> QED BY <1>1, <1>2, EndKeeps

\* What a task that asked finds on its connection.
LEMMA AskedFinds ==
  ASSUME PoolInv, Orderly, NEW c \in Calls, Awaits(c, "ask")
  PROVE  \E x \in Conns : /\ x = held[c] /\ pc[c] = "using" /\ stage[c] = "ask"
                          /\ inbox[x] \in Seq(Pieces) /\ (OnlyDue(x, c) \/ MayBeStale(x))
<1>1. pc[c] = "using" /\ stage[c] = "ask" /\ CallOK(c)
  BY DEF Awaits, Orderly
<1>2. PICK x \in Conns : held[c] = x /\ (OnlyDue(x, c) \/ MayBeStale(x))
  BY <1>1 DEF CallOK
<1>3. inbox[x] \in Seq(Pieces)
  BY DEF Orderly, WireOK, Pieces
<1> QED BY <1>1, <1>2, <1>3

\* A reply of the right form is read and the connection released.
LEMMA HearReplyKeeps ==
  ASSUME PoolInv, Orderly, TypeOK', NEW c \in Calls, HearReply(c)
  PROVE  Orderly'
<1>1. PICK x \in Conns : /\ x = held[c] /\ pc[c] = "using" /\ stage[c] = "ask"
                         /\ inbox[x] \in Seq(Pieces) /\ (OnlyDue(x, c) \/ MayBeStale(x))
  BY AskedFinds DEF HearReply
<1> DEFINE tag == Head(inbox[x]).to
           rest == AfterFrame(x, HeadFrame(x))
           result == IF ~Accepts(c, tag) THEN "error" ELSE IF kind[c] = "raw" THEN "raw"
                     ELSE IF tag = c THEN "own" ELSE "foreign"
<1>2. HeadFrame(x) > 0 /\ Finish(c) /\ End(c, result, rest) /\ ReadsFrame(c)
  BY <1>1 DEF HearReply
<1>3. HeadFrame(x) \in 1..Len(inbox[x])
  <2>1. inbox[x] # <<>> /\ Len(inbox[x]) \in Nat /\ Len(inbox[x]) >= 1
    BY <1>1, <1>2 DEF HeadFrame
  <2>2. HeadFrame(x) = 1 \/ (HeadFrame(x) = 2 /\ Len(inbox[x]) > 1)
    BY <1>2, <2>1 DEF HeadFrame
  <2> QED BY <2>1, <2>2
<1>4. rest \in Seq(Pieces) /\ Remains(x, rest)
  <2>1. PICK s, m : s = inbox[x] /\ m = HeadFrame(x)
    OBVIOUS
  <2>2. s \in Seq(Pieces) /\ m \in 1..Len(s)
    BY <1>1, <1>3, <2>1
  <2>3. LET r == SubSeq(s, m + 1, Len(s)) IN
          r \in Seq(Pieces) /\ \A n \in DOMAIN r : \E j \in DOMAIN s : r[n] = s[j]
    BY ONLY <2>2, RestOf
  <2> QED BY <2>1, <2>3 DEF AfterFrame, Remains
<1>5. CASE OnlyDue(x, c)
  <2>1. device[x] = <<>> /\ tag = c /\ rest = <<>>
    BY <1>2, <1>5, FrameOfDue
  <2>2. result \in {"own", "raw", "error"}
    BY <2>1
  <2>3. MayReturn(c, x, rest)
    BY <2>1 DEF MayReturn
  <2> HIDE DEF tag, rest, result
  <2> QED BY <1>1, <1>2, <1>4, <2>1, <2>2, <2>3, FinishKeeps
<1>6. CASE MayBeStale(x)
  <2>1. result = "foreign" => adapter = "modbus_rtu"
    BY <1>2, <1>6 DEF MayBeStale, Accepts, ChecksId, ReadsFrame
  <2>2. result \in {"own", "foreign", "raw", "error"}
    OBVIOUS
  <2>3. adapter \in {"modbus", "modbus_rtu"} /\ rawUsed[x]
    BY <1>6 DEF MayBeStale
  <2>4. MayReturn(c, x, rest)
    BY <2>3 DEF MayReturn
  <2> HIDE DEF tag, rest, result
  <2> QED BY <1>1, <1>2, <1>4, <2>1, <2>2, <2>4, FinishKeeps
<1> QED BY <1>1, <1>5, <1>6

\* The middle of a reply heads an inbox only where a raw frame left it.
LEMMA RestIsStale ==
  ASSUME NEW x, NEW t, OnlyDue(x, t), inbox[x] # <<>>
  PROVE  Head(inbox[x]).form # "rest"
BY DEF OnlyDue, Bare

\* Bytes that make no frame.
LEMMA HearNonsenseKeeps ==
  ASSUME PoolInv, Orderly, TypeOK', NEW c \in Calls, HearNonsense(c)
  PROVE  Orderly'
<1>1. PICK x \in Conns : /\ x = held[c] /\ pc[c] = "using" /\ stage[c] = "ask"
                         /\ inbox[x] \in Seq(Pieces) /\ (OnlyDue(x, c) \/ MayBeStale(x))
  BY AskedFinds DEF HearNonsense
<1>2. CASE (Fail(c) \/ Lose(c)) /\ End(c, "error", inbox[held[c]])
  BY <1>2, AbandonKeeps
<1>3. CASE /\ Head(inbox[held[c]]).form = "rest"
           /\ Finish(c)
           /\ End(c, "error", Tail(inbox[held[c]]))
  <2>1. inbox[x] # <<>>
    BY <1>1 DEF HearNonsense, HeadIsWrong
  <2>2. MayBeStale(x)
    BY <1>1, <1>3, <2>1, RestIsStale
  <2>3. PICK rest : rest = Tail(inbox[x])
    OBVIOUS
  <2>4. rest \in Seq(Pieces) /\ Remains(x, rest)
    <3>1. PICK s : s = inbox[x]
      OBVIOUS
    <3>2. s \in Seq(Pieces) /\ s # <<>>
      BY <1>1, <2>1, <3>1
    <3>3. Tail(s) \in Seq(Pieces) /\ \A n \in DOMAIN Tail(s) : \E j \in DOMAIN s : Tail(s)[n] = s[j]
      BY ONLY <3>2, TailOf
    <3> QED BY <2>3, <3>1, <3>3 DEF Remains
  <2>5. MayReturn(c, x, rest)
    BY <2>2 DEF MayBeStale, MayReturn
  <2>6. End(c, "error", rest)
    BY <1>1, <1>3, <2>3
  <2> QED BY <1>1, <1>3, <2>4, <2>5, <2>6, FinishKeeps
<1> QED BY <1>2, <1>3 DEF HearNonsense

\* The readers of the raw Modbus frames return whatever has arrived.
LEMMA RawReadsKeep ==
  ASSUME PoolInv, Orderly, TypeOK', NEW c \in Calls, ReadOnce(c) \/ ReadUntilDone(c)
  PROVE  Orderly'
<1>1. PICK x \in Conns : /\ x = held[c] /\ pc[c] = "using" /\ stage[c] = "ask"
                         /\ inbox[x] \in Seq(Pieces) /\ (OnlyDue(x, c) \/ MayBeStale(x))
  BY AskedFinds DEF ReadOnce, ReadUntilDone
<1>2. kind[c] = "raw" /\ adapter \in {"modbus", "modbus_rtu"}
  BY DEF ReadOnce, ReadUntilDone, ReadsOnce, ReadsUntilDone
<1>3. CASE Fail(c) /\ End(c, "error", <<>>)
  BY <1>3, AbandonKeeps
<1>4. CASE Finish(c) /\ End(c, "raw", <<>>)
  <2>1. <<>> \in Seq(Pieces) /\ Remains(x, <<>>)
    <3>1. DOMAIN <<>> = {}
      OBVIOUS
    <3> QED BY <3>1 DEF Remains
  <2>2. MayReturn(c, x, <<>>)
    BY <1>1, <1>2 DEF MayReturn
  <2> QED BY <1>1, <1>2, <1>4, <2>1, <2>2, FinishKeeps
<1> QED BY <1>3, <1>4 DEF ReadOnce, ReadUntilDone, OnTimeout

-----------------------------------------------------------------------------
(* The theorems                                                             *)

\* The steps of Exchange are steps of the pool, or do not touch it.
LEMMA PoolSteps == [ExchangeNext]_xvars => [Next]_vars
<1> SUFFICES ASSUME ExchangeNext PROVE [Next]_vars
  BY DEF xvars
<1>1. ASSUME NEW c \in Calls,
             \/ Begin(c) \/ Connected(c) \/ GiveUp(c) \/ HelloRefused(c) \/ CannotBuild(c)
             \/ HearReply(c) \/ HearNonsense(c) \/ HearNothing(c)
             \/ ReadOnce(c) \/ ReadUntilDone(c) \/ Cancel(c)
      PROVE  Enter(c) \/ Queue(c) \/ CancelQueued(c) \/ Connect(c) \/ Talk(c)
  BY <1>1 DEF Begin, Connected, GiveUp, HelloRefused, CannotBuild, HearReply, HearNonsense,
              HearNothing, ReadOnce, ReadUntilDone, Cancel, OnTimeout, Connect, Talk
<1>2. ASSUME NEW c \in Calls, SayHello(c) \/ HearHello(c) \/ Ask(c)
      PROVE  UNCHANGED vars
  BY <1>2 DEF SayHello, HearHello, Ask
<1>3. ASSUME NEW x \in Conns, Reply(x) \/ Ignore(x)
      PROVE  UNCHANGED vars
  BY <1>3 DEF Reply, Ignore
<1> QED BY <1>1, <1>2, <1>3 DEF ExchangeNext, Resume, Elsewhere, Next

\* At first there is nothing on any connection.
LEMMA ExchangeStarts == ExchangeInit => PoolInv /\ Orderly
<1> SUFFICES ASSUME ExchangeInit PROVE PoolInv /\ Orderly
  OBVIOUS
<1>1. PoolInv
  BY PoolInit DEF ExchangeInit
<1>2. ASSUME NEW x \in Conns
      PROVE  WireOK(x) /\ Bare(x) /\ \A t : ~Tagged(x, t)
  <2>1. Bare(x) /\ hello[x] = 0 /\ rawUsed[x] = FALSE /\ sock[x] = "closed"
    BY DEF ExchangeInit, Init, Bare
  <2>2. \A t : ~Tagged(x, t)
    BY <2>1 DEF Bare, Tagged
  <2>3. \A S : <<>> \in Seq(S)
    OBVIOUS
  <2>4. hello[x] \in 0..HelloRounds /\ (hello[x] < HelloRounds \/ hello[x] = HelloRounds)
    BY <2>1, RoundsType
  <2>5. HelloFirst(x)
    BY <2>2, <2>4 DEF HelloFirst
  <2>6. /\ device[x] \in Seq([to : Tags, part : {"none", "first"}])
        /\ inbox[x] \in Seq([to : Tags, form : Forms])
    BY <2>1, <2>3 DEF Bare
  <2>7. (Closed(x) => hello[x] = 0 /\ Bare(x)) /\ (sock[x] = "eof" => device[x] = <<>>)
    BY <2>1
  <2> QED BY <2>1, <2>2, <2>4, <2>5, <2>6, <2>7 DEF WireOK
<1>3. ASSUME NEW c \in Calls
      PROVE  CallOK(c)
  <2>1. /\ stage[c] = "begin" /\ pc[c] = "out" /\ kind[c] = "read" /\ outcome[c] = "none"
    BY DEF ExchangeInit, Init
  <2> QED BY <1>2, <2>1 DEF CallOK
<1>4. \A k \in Keys : IdleConns(k) = {}
  BY IdleConnsShort DEF ExchangeInit, Init, IdleConns
<1>5. CallTypes /\ WireDomains
  BY DEF ExchangeInit, CallTypes, WireDomains
<1> QED BY <1>1, <1>2, <1>3, <1>4, <1>5 DEF Orderly, IdleIsInStep

\* Every step keeps it.
LEMMA ExchangeStep == PoolInv /\ Orderly /\ [ExchangeNext]_xvars => (PoolInv /\ Orderly)'
<1> SUFFICES ASSUME PoolInv, Orderly, [ExchangeNext]_xvars PROVE PoolInv' /\ Orderly'
  OBVIOUS
<1>1. PoolInv'
  BY PoolSteps, PoolStep
<1>2. TypeOK'
  BY <1>1 DEF PoolInv
<1>3. ASSUME NEW c \in Calls,
             Begin(c) \/ Connected(c) \/ GiveUp(c) \/ SayHello(c) \/ HearHello(c) \/ Ask(c)
      PROVE  Orderly'
  BY <1>2, <1>3, BeginKeeps, ConnectedKeeps, GiveUpKeeps, SayHelloKeeps, HearHelloKeeps, AskKeeps
<1>4. ASSUME NEW c \in Calls,
             HelloRefused(c) \/ CannotBuild(c) \/ HearNothing(c) \/ Cancel(c)
      PROVE  Orderly'
  BY <1>2, <1>4, AbandonKeeps DEF HelloRefused, CannotBuild, HearNothing, Cancel, OnTimeout
<1>5. ASSUME NEW c \in Calls,
             HearReply(c) \/ HearNonsense(c) \/ ReadOnce(c) \/ ReadUntilDone(c)
      PROVE  Orderly'
  BY <1>2, <1>5, HearReplyKeeps, HearNonsenseKeeps, RawReadsKeep
<1>6. ASSUME NEW k \in Keys, Resume(k) PROVE Orderly'
  BY <1>2, <1>6, ResumeKeeps
<1>7. ASSUME NEW x \in Conns, Reply(x) \/ Ignore(x) PROVE Orderly'
  BY <1>2, <1>7, DeviceKeeps
<1>8. ASSUME Elsewhere PROVE Orderly'
  BY <1>2, <1>8, ElsewhereKeeps
<1>9. ASSUME UNCHANGED xvars PROVE Orderly'
  <2>1. /\ UNCHANGED <<pc, held, idle, sock>> /\ UNCHANGED <<adapter, kind, stage, outcome, audited>>
        /\ UNCHANGED <<hello, device, inbox, rawUsed>>
    BY <1>9 DEF xvars, vars, lockVars, connVars, callVars, wireVars
  <2>2. CallTypes' /\ WireDomains'
    BY <2>1 DEF Orderly, CallTypes, WireDomains
  <2>3. ASSUME NEW x \in Conns
        PROVE  WireOK(x)'
    <3>1. WireOK(x)
      BY DEF Orderly
    <3> QED BY <2>1, <3>1 DEF WireOK, HelloFirst, HelloRounds, Closed, Bare, Tagged
  <2>4. ASSUME NEW c \in Calls
        PROVE  CallOK(c)'
    <3>1. CallOK(c)
      BY DEF Orderly
    <3> QED BY <2>1, <3>1 DEF CallOK, Tagged, Bare, OnlyDue, MayBeStale
  <2>5. IdleIsInStep'
    BY <2>1 DEF Orderly, IdleIsInStep, IdleConns
  <2> QED BY <2>2, <2>3, <2>4, <2>5 DEF Orderly
<1> QED BY <1>1, <1>3, <1>4, <1>5, <1>6, <1>7, <1>8, <1>9 DEF ExchangeNext

\* The inductive invariant of the exchanges, together with that of the pool.
THEOREM ExchangeInvHolds == ExchangeSpec => [](PoolInv /\ ExchangeInv)
<1>1. PoolInv /\ Orderly => PoolInv /\ ExchangeInv
  BY InvIsOrderly DEF PoolInv
<1> QED BY <1>1, ExchangeStarts, ExchangeStep, PTL DEF ExchangeSpec

\* Type correctness of pool and exchanges together.
THEOREM ExchangeTypeOKHolds == ExchangeSpec => []ExchangeTypeOK
<1>1. PoolInv /\ ExchangeInv => ExchangeTypeOK
  BY DEF ExchangeInv
<1> QED BY <1>1, ExchangeInvHolds, PTL

\* No read or write takes the reply to another request for its own, except where
\* a raw frame of Modbus RTU over TCP left one behind.
THEOREM NoForeignAnswerHolds == ExchangeSpec => []NoForeignAnswer
<1>1. PoolInv /\ ExchangeInv => NoForeignAnswer
  BY DEF ExchangeInv, CallOK, NoForeignAnswer, AnswersAreOwn
<1> QED BY <1>1, ExchangeInvHolds, PTL

\* What waits in the pool carries nothing, unless it carried a raw Modbus frame.
THEOREM IdleIsInStepHolds == ExchangeSpec => []IdleIsInStep
<1>1. PoolInv /\ ExchangeInv => IdleIsInStep
  BY DEF ExchangeInv
<1> QED BY <1>1, ExchangeInvHolds, PTL

\* The handshake is complete before the first request, and is made once.
THEOREM HandshakeComesFirstHolds == ExchangeSpec => []HandshakeComesFirst
<1>1. PoolInv /\ ExchangeInv => HandshakeComesFirst
  <2> SUFFICES ASSUME ExchangeInv, NEW x \in Conns
               PROVE  \/ /\ hello[x] < HelloRounds
                         /\ \A i \in DOMAIN device[x] : device[x][i].to = "hello"
                         /\ \A i \in DOMAIN inbox[x] : inbox[x][i].to = "hello"
                      \/ /\ hello[x] = HelloRounds
                         /\ \A i \in DOMAIN device[x] : device[x][i].to # "hello"
                         /\ \A i \in DOMAIN inbox[x] : inbox[x][i].to # "hello"
    BY DEF HandshakeComesFirst
  <2>1. HelloFirst(x) /\ device[x] \in Seq(Requests) /\ inbox[x] \in Seq(Pieces)
    BY DEF ExchangeInv, WireOK, Requests, Pieces
  <2>2. \A i \in DOMAIN device[x] : device[x][i] \in Requests
    BY <2>1
  <2>3. \A i \in DOMAIN inbox[x] : inbox[x][i] \in Pieces
    BY <2>1
  <2>4. /\ \A i \in DOMAIN device[x] : device[x][i].to \in Tags
        /\ \A i \in DOMAIN inbox[x] : inbox[x][i].to \in Tags
    BY <2>2, <2>3 DEF Requests, Pieces
  <2> QED BY <2>1, <2>4 DEF HelloFirst, Tagged
<1> QED BY <1>1, ExchangeInvHolds, PTL

\* What an adapter sends on behalf of a write or a raw frame is in the audit log.
THEOREM AuditBeforeSendHolds == ExchangeSpec => []AuditBeforeSend
<1>1. PoolInv /\ ExchangeInv => AuditBeforeSend
  <2> SUFFICES ASSUME ExchangeInv, NEW c \in Calls, NEW x \in Conns, NEW i \in DOMAIN device[x],
                      device[x][i].to = c, kind[c] # "read"
               PROVE  audited[c]
    BY DEF AuditBeforeSend
  <2>1. Tagged(x, c)
    BY DEF Tagged
  <2>2. CallOK(c) /\ kind[c] \in {"read", "write", "raw"}
    BY DEF ExchangeInv, ExchangeTypeOK
  <2> QED BY <2>1, <2>2 DEF CallOK
<1> QED BY <1>1, ExchangeInvHolds, PTL

-----------------------------------------------------------------------------
(* What the pool promises, with the adapters on top of it                   *)

\* The adapters use the pool as its specification says: what they do with it, in
\* whatever order handshakes, replies and timeouts come, is a behaviour of the pool.
THEOREM PoolSpecHolds == ExchangeSpec => Spec
<1>1. ExchangeInit => Init
  BY DEF ExchangeInit
<1> QED BY <1>1, PoolSteps, PTL DEF ExchangeSpec, Spec

\* So the leases of ConnectionLease are implemented underneath every adapter.
THEOREM ExchangeLeaseSpecHolds == ExchangeSpec => LeaseSpec
BY PoolSpecHolds, LeaseSpecHolds

\* One request-response exchange at a time for a target, whichever adapter runs,
\* and no connection in two hands.
THEOREM ExchangeIsExclusiveHolds == ExchangeSpec => [](OneExchangePerTarget /\ LeaseIsExclusive)
BY PoolSpecHolds, OneExchangePerTargetHolds, LeaseIsExclusiveHolds, PTL

\* No adapter leaves a socket behind but by an exchange it lost, one for each.
THEOREM ExchangeSocketsAccountedHolds == ExchangeSpec => [](CountIsBounded /\ SocketsAccounted)
BY PoolSpecHolds, CountIsBoundedHolds, SocketsAccountedHolds, PTL
=============================================================================
