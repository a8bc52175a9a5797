------------------------ MODULE ConnectionPoolProofs ------------------------
(***************************************************************************)
(* Theorems about ConnectionPool, for every set of tasks, targets and      *)
(* connections and every cap.  PoolInv and CountInv are inductive; the     *)
(* safety properties of the pool are read off from them.                   *)
(***************************************************************************)
EXTENDS ConnectionPool, FiniteSetTheorems, SequenceTheorems, TLAPS

USE CallsAssumption, ConnsAssumption, KeyOfAssumption, CapAssumption,
    MaxLostAssumption, ClosingAssumption

-----------------------------------------------------------------------------
(* Idle lists of at most one connection                                     *)

\* A sequence no longer than one is empty or holds one element.
LEMMA ShortSeq ==
  ASSUME NEW S, NEW s \in Seq(S), Len(s) <= 1
  PROVE  s = <<>> \/ \E x \in S : s = <<x>>
<1>1. CASE Len(s) = 0
  BY <1>1
<1>2. CASE Len(s) = 1
  <2>1. s[1] \in S
    BY <1>2, ElementOfSeq
  <2>2. s = <<s[1]>>
    BY <1>2, <2>1, SeqEqual
  <2> QED BY <2>1, <2>2
<1>3. Len(s) = 0 \/ Len(s) = 1
  <2>1. \A n \in Nat : n <= 1 => n = 0 \/ n = 1
    OBVIOUS
  <2>2. Len(s) \in Nat
    BY LenProperties
  <2> QED BY <2>1, <2>2, Zenon
<1> QED BY <1>1, <1>2, <1>3

\* Taking the connection out of such a list leaves nothing.
LEMMA TakenFromShort ==
  ASSUME NEW k \in Keys, NEW i \in DOMAIN idle[k], idle[k] \in Seq(Conns), Len(idle[k]) <= 1
  PROVE  Remaining(k, i) = <<>>
<1>1. i = 1
  OBVIOUS
<1> QED BY <1>1 DEF Remaining

\* What a sweep keeps of an idle list comes from that list and is no longer.
LEMMA KeptFromShort ==
  ASSUME NEW t, NEW s \in Seq(Conns), Len(s) <= 1,
         t \in Seq(Conns), IsKept(t, s)
  PROVE  /\ Len(t) <= 1
         /\ \A i \in DOMAIN t : \E j \in DOMAIN s : t[i] = s[j]
         /\ s = <<>> => t = <<>>
<1> PICK f \in [DOMAIN t -> DOMAIN s] :
      /\ \A i \in DOMAIN t : t[i] = s[f[i]] /\ ~Sweepable(s[f[i]])
      /\ \A i, j \in DOMAIN t : i < j => f[i] < f[j]
  BY DEF IsKept
<1>1. \A i \in DOMAIN t : f[i] = 1
  OBVIOUS
<1>2. Len(t) <= 1
  BY <1>1
<1> QED BY <1>2

\* Deleting an entry of a sequence adds no element to it.
LEMMA RemovalKeeps ==
  ASSUME NEW S, NEW s \in Seq(S), NEW j \in DOMAIN s
  PROVE  /\ Without(s, j) \in Seq(S)
         /\ \A i \in DOMAIN Without(s, j) : \E n \in DOMAIN s : Without(s, j)[i] = s[n]
<1> DEFINE a == SubSeq(s, 1, j - 1)
           b == SubSeq(s, j + 1, Len(s))
<1>1. Len(s) \in Nat /\ j \in 1..Len(s) /\ \A n \in 1..Len(s) : s[n] \in S
  BY LenProperties, ElementOfSeq
<1>2. /\ a \in Seq(S) /\ Len(a) = j - 1
      /\ \A i \in 1..(j - 1) : a[i] = s[i]
  <2>1. \A i \in 1..(j - 1) : s[i] \in S
    BY <1>1
  <2> QED BY <1>1, <2>1, SubSeqProperties
<1>3. /\ b \in Seq(S) /\ Len(b) = Len(s) - j
      /\ \A i \in 1..(Len(s) - j) : b[i] = s[j + i]
  <2>1. \A i \in (j + 1)..Len(s) : s[i] \in S
    BY <1>1
  <2> QED BY <1>1, <2>1, SubSeqProperties
<1> HIDE DEF a, b
<1>4. a \o b \in Seq(S) /\ Len(a \o b) = Len(a) + Len(b)
  BY <1>2, <1>3, ConcatProperties
<1>5. \A i \in 1..(Len(a) + Len(b)) :
         (a \o b)[i] = IF i <= Len(a) THEN a[i] ELSE b[i - Len(a)]
  <2>1. a \in Seq(S) /\ b \in Seq(S)
    BY <1>2, <1>3
  <2> QED BY <2>1, ConcatProperties, Zenon
<1>6. ASSUME NEW i \in 1..(Len(a) + Len(b))
      PROVE  \E n \in 1..Len(s) : (a \o b)[i] = s[n]
  <2>1. CASE i <= j - 1
    <3>1. i \in 1..(j - 1) /\ i \in 1..Len(s)
      BY <1>1, <2>1
    <3>2. (a \o b)[i] = s[i]
      BY <1>2, <1>5, <2>1, <3>1
    <3> QED BY <3>1, <3>2
  <2>2. CASE i > j - 1
    <3>1. i - (j - 1) \in 1..(Len(s) - j) /\ i + 1 \in 1..Len(s)
      BY <1>1, <1>2, <1>3, <2>2
    <3>2. (a \o b)[i] = b[i - (j - 1)]
      BY <1>1, <1>2, <1>5, <2>2
    <3>3. b[i - (j - 1)] = s[j + (i - (j - 1))] /\ j + (i - (j - 1)) = i + 1
      BY <1>1, <1>3, <3>1
    <3> QED BY <3>1, <3>2, <3>3
  <2> QED BY <1>1, <2>1, <2>2
<1>7. DOMAIN (a \o b) = 1..(Len(a) + Len(b)) /\ DOMAIN s = 1..Len(s)
  BY <1>4, LenProperties
<1>8. Without(s, j) = a \o b
  BY DEF Without, a, b
<1> QED BY <1>4, <1>6, <1>7, <1>8

-----------------------------------------------------------------------------
(* Types                                                                    *)

LEMMA TypeInit == Init => TypeOK
BY DEF Init, TypeOK

\* The lists a sweep may keep are lists of connections.
LEMMA SublistsType ==
  ASSUME idle \in [Keys -> Seq(Conns)],
         NEW keep \in [Keys -> UNION {Sublists(idle[k]) : k \in Keys}]
  PROVE  keep \in [Keys -> Seq(Conns)]
<1> SUFFICES ASSUME NEW k \in Keys PROVE keep[k] \in Seq(Conns)
  OBVIOUS
<1>1. PICK m \in Keys : keep[k] \in Sublists(idle[m])
  OBVIOUS
<1>2. PICK n \in 0..Len(idle[m]) :
        keep[k] \in [1..n -> {idle[m][i] : i \in DOMAIN idle[m]}]
  BY <1>1 DEF Sublists
<1>3. {idle[m][i] : i \in DOMAIN idle[m]} \subseteq Conns
  OBVIOUS
<1>4. keep[k] \in [1..n -> Conns]
  BY <1>2, <1>3
<1>5. n \in Nat
  BY <1>2
<1> QED BY <1>4, <1>5

LEMMA TypeAcquire ==
  ASSUME TypeOK, NEW c \in Calls, Acquire(c)
  PROVE  /\ pc' \in [Calls -> {"out", "queued", "connecting", "using"}]
         /\ planned'   \in [Calls -> BOOLEAN]
         /\ held'      \in [Calls -> Conns \cup {NoConn}]
         /\ idle'      \in [Keys -> Seq(Conns)]
         /\ active'    \in [Keys -> Nat]
         /\ sock'      \in [Conns -> {"open", "eof", "closed"}]
         /\ connKey'   \in [Conns -> Keys]
         /\ ephemeral' \in [Conns -> BOOLEAN]
         /\ expired'   \in [Conns -> BOOLEAN]
<1> DEFINE k == KeyOf[c]
<1>1. CASE TakeIdle(c)
  <2> PICK i \in DOMAIN idle[k] :
        /\ held'    = [held EXCEPT ![c] = idle[k][i]]
        /\ expired' = [expired EXCEPT ![idle[k][i]] = FALSE]
        /\ idle'    = [idle EXCEPT ![k] = Remaining(k, i)]
        /\ active'  = [active EXCEPT ![k] = @ + 1]
        /\ pc'      = [pc EXCEPT ![c] = "using"]
        /\ UNCHANGED <<planned, sock, connKey, ephemeral>>
    BY <1>1 DEF TakeIdle
  <2>1. idle[k] \in Seq(Conns) /\ idle[k][i] \in Conns
    BY DEF TypeOK
  <2>2. Remaining(k, i) \in Seq(Conns)
    BY <2>1 DEF Remaining
  <2>3. idle' \in [Keys -> Seq(Conns)]
    BY <2>2 DEF TypeOK
  <2>4. held' \in [Calls -> Conns \cup {NoConn}]
    BY <2>1 DEF TypeOK
  <2>5. active' \in [Keys -> Nat]
    BY DEF TypeOK
  <2>6. pc' \in [Calls -> {"out", "queued", "connecting", "using"}]
    BY DEF TypeOK
  <2> QED BY <2>3, <2>4, <2>5, <2>6 DEF TypeOK
<1>2. CASE BeginConnect(c)
  BY <1>2 DEF BeginConnect, AtCap, connVars, TypeOK
<1> QED BY <1>1, <1>2 DEF Acquire

LEMMA TypePutBack ==
  ASSUME TypeOK, NEW x \in Conns, NEW b \in BOOLEAN, PutBack(x, b)
  PROVE  /\ idle'    \in [Keys -> Seq(Conns)]
         /\ sock'    \in [Conns -> {"open", "eof", "closed"}]
         /\ expired' \in [Conns -> BOOLEAN]
<1> DEFINE k == connKey[x]
<1>1. k \in Keys /\ Append(idle[k], x) \in Seq(Conns)
  BY DEF TypeOK
<1>2. CASE Poolable(x, b)
  <2>1. /\ idle'    = [idle EXCEPT ![k] = Append(@, x)]
        /\ expired' = [expired EXCEPT ![x] = FALSE]
        /\ UNCHANGED sock
    BY <1>2 DEF PutBack
  <2>2. idle' \in [Keys -> Seq(Conns)]
    BY <1>1, <2>1 DEF TypeOK
  <2> QED BY <2>1, <2>2 DEF TypeOK
<1>3. CASE ~Poolable(x, b)
  BY <1>3 DEF PutBack, TypeOK
<1> QED BY <1>2, <1>3

LEMMA TypeStep ==
  ASSUME TypeOK, LockDiscipline, [Next]_vars
  PROVE  TypeOK'
<1> USE DEF TypeOK, connVars, lockVars, Leave
<1>1. ASSUME NEW c \in Calls, Enter(c) PROVE TypeOK'
  BY <1>1, TypeAcquire DEF Enter
<1>2. ASSUME NEW c \in Calls, Queue(c) PROVE TypeOK'
  BY <1>2 DEF Queue
<1>3. ASSUME NEW k \in Keys, Grant(k) PROVE TypeOK'
  <2>1. Head(waiters[k]) \in Calls /\ Tail(waiters[k]) \in Seq(Calls)
    BY <1>3 DEF Grant
  <2>2. Acquire(Head(waiters[k])) /\ UNCHANGED <<sweeper, lost>>
    BY <1>3 DEF Grant
  <2>3. waiters' \in [Keys -> Seq(Calls)] /\ holder' \in [Keys -> Calls \cup {NoCall}]
    BY <1>3, <2>1 DEF Grant
  <2> QED BY <2>1, <2>2, <2>3, TypeAcquire
<1>4. ASSUME NEW c \in Calls, CancelQueued(c) PROVE TypeOK'
  <2> DEFINE k == KeyOf[c]
  <2>1. PICK i \in DOMAIN waiters[k] : waiters' = [waiters EXCEPT ![k] = Without(@, i)]
    BY <1>4 DEF CancelQueued
  <2>2. Without(waiters[k], i) \in Seq(Calls)
    BY RemovalKeeps
  <2>3. waiters' \in [Keys -> Seq(Calls)]
    BY <2>1, <2>2
  <2> QED BY <1>4, <2>3 DEF CancelQueued
<1>5. ASSUME NEW c \in Calls, ConnectFails(c) PROVE TypeOK'
  BY <1>5 DEF ConnectFails
<1>6. ASSUME NEW c \in Calls, ConnectSucceeds(c) PROVE TypeOK'
  BY <1>6 DEF ConnectSucceeds, EnsureSweeper, Fresh
<1>7. ASSUME NEW c \in Calls, Finish(c) \/ Fail(c) \/ FailTwice(c) PROVE TypeOK'
  <2>1. pc[c] = "using"
    BY <1>7 DEF Finish, Fail, FailTwice
  <2>2. held[c] \in Conns
    BY <2>1 DEF LockDiscipline
  <2>3. PICK b \in BOOLEAN : PutBack(held[c], b)
    BY <1>7 DEF Finish, Fail, FailTwice
  <2>4. active' \in [Keys -> Nat]
    <3>1. connKey[held[c]] \in Keys
      BY <2>2
    <3>2. /\ Decrement(active[connKey[held[c]]]) \in Nat
          /\ Decrement(Decrement(active[connKey[held[c]]])) \in Nat
      BY <3>1 DEF Decrement
    <3>3. \/ active' = [active EXCEPT ![connKey[held[c]]] = Decrement(@)]
          \/ active' = [active EXCEPT ![connKey[held[c]]] = Decrement(Decrement(@))]
      BY <1>7 DEF Finish, Fail, FailTwice
    <3> QED BY <3>1, <3>2, <3>3
  <2>5. /\ held' = [held EXCEPT ![c] = NoConn]
        /\ holder' = [holder EXCEPT ![KeyOf[c]] = NoCall]
        /\ pc' = [pc EXCEPT ![c] = "out"]
        /\ UNCHANGED <<waiters, planned, connKey, ephemeral, sweeper, lost>>
    BY <1>7 DEF Finish, Fail, FailTwice
  <2> QED BY <2>2, <2>3, <2>4, <2>5, TypePutBack
<1>8. ASSUME NEW c \in Calls, Lose(c) PROVE TypeOK'
  BY <1>8 DEF Lose
<1>9. ASSUME Sweep PROVE TypeOK'
  BY <1>9, SublistsType DEF Sweep
<1>10. ASSUME NEW x \in Conns, Expire(x) \/ PeerCloses(x) \/ PeerResets(x) PROVE TypeOK'
  BY <1>10 DEF Expire, PeerCloses, PeerResets
<1>11. ASSUME CloseAllBegins \/ CloseAllEnds PROVE TypeOK'
  <2>1. <<>> \in Seq(Conns)
    OBVIOUS
  <2>2. CASE CloseAllBegins
    BY <2>2 DEF CloseAllBegins
  <2>3. CASE CloseAllEnds
    BY <2>1, <2>3 DEF CloseAllEnds
  <2> QED BY <1>11, <2>2, <2>3
<1>12. ASSUME UNCHANGED vars PROVE TypeOK'
  BY <1>12 DEF vars
<1> QED BY <1>1, <1>2, <1>3, <1>4, <1>5, <1>6, <1>7, <1>8, <1>9, <1>10, <1>11, <1>12
        DEF Next, Connect, Talk

-----------------------------------------------------------------------------
(* What the steps do, once the lists are short                              *)

\* The connections of an idle list of no or one entry.
LEMMA IdleConnsShort ==
  /\ {<<>>[i] : i \in DOMAIN <<>>} = {}
  /\ \A x : {<<x>>[i] : i \in DOMAIN <<x>>} = {x}
OBVIOUS

\* acquire, up to its suspension, leaves the target's idle list empty; the task
\* has got the list's connection or is connecting.
LEMMA AcquireEffect ==
  ASSUME PoolInv, NEW c \in Calls, Acquire(c)
  PROVE  /\ idle' = [idle EXCEPT ![KeyOf[c]] = <<>>]
         /\ UNCHANGED <<sock, connKey, ephemeral>>
         /\ \/ \E x \in Conns :
                 /\ x \in IdleConns(KeyOf[c])
                 /\ held' = [held EXCEPT ![c] = x]
                 /\ active' = [active EXCEPT ![KeyOf[c]] = @ + 1]
                 /\ pc' = [pc EXCEPT ![c] = "using"]
                 /\ UNCHANGED planned
            \/ /\ pc' = [pc EXCEPT ![c] = "connecting"]
               /\ planned' = [planned EXCEPT ![c] = AtCap(KeyOf[c])]
               /\ UNCHANGED <<held, active>>
<1> DEFINE k == KeyOf[c]
<1>1. k \in Keys /\ idle[k] \in Seq(Conns) /\ Len(idle[k]) <= 1
  BY DEF PoolInv, TypeOK
<1>2. CASE TakeIdle(c)
  <2> PICK i \in DOMAIN idle[k] :
        /\ held'    = [held EXCEPT ![c] = idle[k][i]]
        /\ idle'    = [idle EXCEPT ![k] = Remaining(k, i)]
        /\ active'  = [active EXCEPT ![k] = @ + 1]
        /\ pc'      = [pc EXCEPT ![c] = "using"]
        /\ UNCHANGED <<planned, sock, connKey, ephemeral>>
    BY <1>2 DEF TakeIdle
  <2>1. Remaining(k, i) = <<>>
    BY <1>1, TakenFromShort
  <2>2. idle[k][i] \in IdleConns(k) /\ idle[k][i] \in Conns
    BY <1>1 DEF IdleConns
  <2> QED BY <2>1, <2>2
<1>3. CASE BeginConnect(c)
  BY <1>3 DEF BeginConnect, connVars
<1> QED BY <1>2, <1>3 DEF Acquire

\* However an exchange ends, its task is out and holds nothing; its connection
\* is the only one of the target's idle list, or is not in it.
LEMMA TalkEffect ==
  ASSUME PoolInv, NEW c \in Calls, Talk(c)
  PROVE  /\ pc[c] = "using" /\ held[c] \in Conns
         /\ holder[KeyOf[c]] = c /\ idle[KeyOf[c]] = <<>> /\ connKey[held[c]] = KeyOf[c]
         /\ pc'     = [pc EXCEPT ![c] = "out"]
         /\ holder' = [holder EXCEPT ![KeyOf[c]] = NoCall]
         /\ held'   = [held EXCEPT ![c] = NoConn]
         /\ UNCHANGED <<waiters, planned, connKey, ephemeral, sweeper>>
         /\ \/ UNCHANGED idle
            \/ /\ idle' = [idle EXCEPT ![KeyOf[c]] = <<held[c]>>]
               /\ ~ephemeral[held[c]]
<1>1. /\ pc[c] = "using"
      /\ pc'     = [pc EXCEPT ![c] = "out"]
      /\ holder' = [holder EXCEPT ![KeyOf[c]] = NoCall]
      /\ held'   = [held EXCEPT ![c] = NoConn]
      /\ UNCHANGED <<waiters, planned, connKey, ephemeral, sweeper>>
  BY DEF Talk, Finish, Fail, FailTwice, Lose, Leave, connVars
<1>2. /\ held[c] \in Conns
      /\ holder[KeyOf[c]] = c /\ idle[KeyOf[c]] = <<>>
  BY <1>1 DEF PoolInv, LockDiscipline, TypeOK
<1>3. connKey[held[c]] = KeyOf[c]
  BY <1>2 DEF PoolInv, LeaseIsExclusive
<1>4. \/ UNCHANGED idle
      \/ /\ idle' = [idle EXCEPT ![KeyOf[c]] = <<held[c]>>]
         /\ ~ephemeral[held[c]]
  <2>1. CASE Lose(c)
    BY <2>1 DEF Lose
  <2>2. ASSUME NEW b \in BOOLEAN, PutBack(held[c], b) PROVE <1>4
    <3>1. Append(<<>>, held[c]) = <<held[c]>>
      OBVIOUS
    <3> QED BY <1>2, <1>3, <2>2, <3>1 DEF PutBack, Poolable, PoolInv, TypeOK
  <2> QED BY <2>1, <2>2 DEF Talk, Finish, Fail, FailTwice
<1> QED BY <1>1, <1>2, <1>3, <1>4

\* The sweeper and close_all only take connections out of idle lists.
LEMMA IdleShrinks ==
  ASSUME PoolInv, Sweep \/ CloseAllEnds, NEW k \in Keys
  PROVE  /\ Len(idle'[k]) <= 1
         /\ IdleConns(k)' \subseteq IdleConns(k)
         /\ idle[k] = <<>> => idle'[k] = <<>>
<1>1. CASE CloseAllEnds
  BY <1>1, IdleConnsShort DEF CloseAllEnds, IdleConns
<1>2. CASE Sweep
  <2>1. PICK keep \in [Keys -> UNION {Sublists(idle[m]) : m \in Keys}] :
          IsKept(keep[k], idle[k]) /\ idle' = keep
    BY <1>2 DEF Sweep
  <2>2. keep[k] \in Seq(Conns) /\ idle[k] \in Seq(Conns) /\ Len(idle[k]) <= 1
    <3>1. idle \in [Keys -> Seq(Conns)] /\ Len(idle[k]) <= 1
      BY DEF PoolInv, TypeOK
    <3>2. keep \in [Keys -> Seq(Conns)]
      BY <3>1, SublistsType
    <3> QED BY <3>1, <3>2
  <2> QED BY <2>1, <2>2, KeptFromShort DEF IdleConns
<1> QED BY <1>1, <1>2

-----------------------------------------------------------------------------
(* PoolInv is inductive                                                     *)

LEMMA PoolInit == Init => PoolInv
<1> SUFFICES ASSUME Init PROVE PoolInv
  OBVIOUS
<1>1. TypeOK
  BY TypeInit
<1>2. \A k \in Keys : Len(idle[k]) = 0 /\ IdleConns(k) = {}
  BY IdleConnsShort DEF Init, IdleConns
<1> QED BY <1>1, <1>2
        DEF Init, PoolInv, LockDiscipline, LeaseIsExclusive, IdleIsPoolable

\* A task that finds the lock free takes it and runs acquire.
LEMMA AcquireKeeps ==
  ASSUME PoolInv, TypeOK', NEW c \in Calls, Acquire(c),
         holder[KeyOf[c]] = NoCall, holder' = [holder EXCEPT ![KeyOf[c]] = c],
         \A k \in Keys : \A i \in DOMAIN waiters'[k] : KeyOf[waiters'[k][i]] = k
  PROVE  PoolInv'
<1> DEFINE k == KeyOf[c]
<1>1. k \in Keys /\ idle' = [idle EXCEPT ![k] = <<>>] /\ UNCHANGED <<connKey, ephemeral>>
  BY AcquireEffect
<1>2. idle'[k] = <<>> /\ \A m \in Keys : m # k => idle'[m] = idle[m]
  BY <1>1 DEF PoolInv, TypeOK
<1>3. IdleConns(k)' = {} /\ \A m \in Keys : m # k => IdleConns(m)' = IdleConns(m)
  BY <1>2, IdleConnsShort DEF IdleConns
<1>4. \A d \in Calls : KeyOf[d] = k => pc[d] \notin {"connecting", "using"} /\ held[d] = NoConn
  BY DEF PoolInv, LockDiscipline
<1>9. /\ \A d \in Calls : d # c => pc'[d] = pc[d] /\ held'[d] = held[d]
      /\ \/ pc'[c] = "using" /\ held'[c] # NoConn
         \/ pc'[c] = "connecting" /\ held'[c] = held[c]
  <2>1. pc \in [Calls -> {"out", "queued", "connecting", "using"}]
        /\ held \in [Calls -> Conns \cup {NoConn}]
    BY DEF PoolInv, TypeOK
  <2>2. CASE pc' = [pc EXCEPT ![c] = "connecting"] /\ UNCHANGED held
    BY <2>1, <2>2
  <2>3. ASSUME NEW x \in Conns, held' = [held EXCEPT ![c] = x],
               pc' = [pc EXCEPT ![c] = "using"]
        PROVE  <1>9
    BY <2>1, <2>3
  <2> QED BY <2>2, <2>3, AcquireEffect
<1>5. \A m \in Keys : Len(idle'[m]) <= 1
  BY <1>2 DEF PoolInv
<1>6. IdleIsPoolable'
  BY <1>1, <1>3 DEF PoolInv, IdleIsPoolable
<1>7. LockDiscipline'
  <2>1. ASSUME NEW d \in Calls, pc'[d] \in {"connecting", "using"}
        PROVE  holder'[KeyOf[d]] = d /\ idle'[KeyOf[d]] = <<>>
    <3>1. CASE d = c
      BY <1>2, <3>1 DEF PoolInv, TypeOK
    <3>2. CASE d # c
      <4>1. pc[d] \in {"connecting", "using"}
        BY <2>1, <3>2, <1>9
      <4> QED BY <1>2, <1>4, <4>1 DEF PoolInv, LockDiscipline, TypeOK
    <3> QED BY <3>1, <3>2
  <2>2. ASSUME NEW d \in Calls PROVE pc'[d] = "using" <=> held'[d] # NoConn
    BY <1>4, <1>9 DEF PoolInv, LockDiscipline
  <2> QED BY <2>1, <2>2 DEF LockDiscipline
<1>8. LeaseIsExclusive'
  <2>1. CASE UNCHANGED held
    BY <1>1, <1>3, <2>1 DEF PoolInv, LeaseIsExclusive
  <2>2. ASSUME NEW x \in Conns, x \in IdleConns(k), held' = [held EXCEPT ![c] = x]
        PROVE  LeaseIsExclusive'
    <3>1. connKey[x] = k /\ \A d \in Calls : held[d] # x
      BY <2>2 DEF PoolInv, LeaseIsExclusive, IdleIsPoolable
    <3>2. \A m \in Keys : m # k => x \notin IdleConns(m)
      BY <3>1 DEF PoolInv, IdleIsPoolable
    <3>3. held'[c] = x /\ \A d \in Calls : d # c => held'[d] = held[d]
      BY <2>2 DEF PoolInv, TypeOK
    <3> QED BY <1>1, <1>3, <3>1, <3>2, <3>3 DEF PoolInv, LeaseIsExclusive
  <2> QED BY <2>1, <2>2, AcquireEffect
<1> QED BY <1>5, <1>6, <1>7, <1>8 DEF PoolInv

\* A task that gives up its connection, or loses it, leaves everything in order.
LEMMA TalkKeeps ==
  ASSUME PoolInv, TypeOK', NEW c \in Calls, Talk(c)
  PROVE  PoolInv'
<1> DEFINE k == KeyOf[c]
           x == held[c]
<1>1. /\ k \in Keys /\ x \in Conns /\ pc[c] = "using"
      /\ holder[k] = c /\ idle[k] = <<>> /\ connKey[x] = k
      /\ pc'     = [pc EXCEPT ![c] = "out"]
      /\ holder' = [holder EXCEPT ![k] = NoCall]
      /\ held'   = [held EXCEPT ![c] = NoConn]
      /\ UNCHANGED <<waiters, connKey, ephemeral>>
  BY TalkEffect
<1>2. /\ \A m \in Keys : m # k => idle'[m] = idle[m]
      /\ idle'[k] = <<>> \/ (idle'[k] = <<x>> /\ ~ephemeral[x])
  <2>1. idle \in [Keys -> Seq(Conns)]
    BY DEF PoolInv, TypeOK
  <2>2. \/ UNCHANGED idle
        \/ idle' = [idle EXCEPT ![k] = <<x>>] /\ ~ephemeral[x]
    BY TalkEffect
  <2> QED BY <1>1, <2>1, <2>2
<1>3. /\ \A m \in Keys : m # k => IdleConns(m)' = IdleConns(m)
      /\ IdleConns(k)' = {} \/ (IdleConns(k)' = {x} /\ ~ephemeral[x])
  BY <1>2, IdleConnsShort DEF IdleConns
<1>4. held'[c] = NoConn /\ \A d \in Calls : d # c => held'[d] = held[d]
  BY <1>1 DEF PoolInv, TypeOK
<1>5. \A m \in Keys : Len(idle'[m]) <= 1
  <2>1. Len(<<x>>) <= 1 /\ Len(<<>>) <= 1
    OBVIOUS
  <2> SUFFICES ASSUME NEW m \in Keys PROVE Len(idle'[m]) <= 1
    OBVIOUS
  <2>2. CASE m = k
    BY <1>2, <2>1, <2>2, Zenon
  <2>3. CASE m # k
    BY <1>2, <2>3 DEF PoolInv
  <2> QED BY <2>2, <2>3
<1>6. IdleIsPoolable'
  BY <1>1, <1>3 DEF PoolInv, IdleIsPoolable
<1>7. LeaseIsExclusive'
  BY <1>1, <1>3, <1>4 DEF PoolInv, LeaseIsExclusive
<1>8. LockDiscipline'
  <2>1. \A d \in Calls : d # c /\ pc'[d] \in {"connecting", "using"} =>
          pc[d] \in {"connecting", "using"} /\ KeyOf[d] # k /\ KeyOf[d] \in Keys
    BY <1>1 DEF PoolInv, LockDiscipline, TypeOK
  <2>2. \A d \in Calls : d # c => pc'[d] = pc[d]
    BY <1>1 DEF PoolInv, TypeOK
  <2>3. pc'[c] = "out"
    BY <1>1 DEF PoolInv, TypeOK
  <2>4. \A m \in Keys : m # k => holder'[m] = holder[m]
    BY <1>1 DEF PoolInv, TypeOK
  <2>5. ASSUME NEW d \in Calls, pc'[d] \in {"connecting", "using"}
        PROVE  holder'[KeyOf[d]] = d /\ idle'[KeyOf[d]] = <<>>
    BY <1>2, <2>1, <2>3, <2>4, <2>5 DEF PoolInv, LockDiscipline
  <2>6. ASSUME NEW d \in Calls PROVE pc'[d] = "using" <=> held'[d] # NoConn
    BY <1>4, <2>2, <2>3 DEF PoolInv, LockDiscipline
  <2> QED BY <1>1, <2>5, <2>6 DEF PoolInv, LockDiscipline
<1> QED BY <1>5, <1>6, <1>7, <1>8 DEF PoolInv

\* So does open_connection, whether it brings a connection or not.
LEMMA ConnectKeeps ==
  ASSUME PoolInv, TypeOK', NEW c \in Calls, Connect(c)
  PROVE  PoolInv'
<1> DEFINE k == KeyOf[c]
<1>1. /\ pc[c] = "connecting" /\ k \in Keys /\ UNCHANGED <<waiters, idle>>
      /\ holder[k] = c /\ idle[k] = <<>> /\ held[c] = NoConn
  BY DEF Connect, ConnectFails, ConnectSucceeds, connVars, PoolInv, LockDiscipline, TypeOK
<1>2. \A m \in Keys : IdleConns(m)' = IdleConns(m)
  BY <1>1 DEF IdleConns
<1>3. CASE ConnectFails(c)
  <2>1. /\ pc' = [pc EXCEPT ![c] = "out"]
        /\ holder' = [holder EXCEPT ![k] = NoCall]
        /\ UNCHANGED <<held, connKey, ephemeral>>
    BY <1>3 DEF ConnectFails, Leave, connVars
  <2>2. \A d \in Calls : d # c /\ pc[d] \in {"connecting", "using"} => KeyOf[d] # k
    BY <1>1 DEF PoolInv, LockDiscipline
  <2>3. /\ pc'[c] = "out" /\ \A d \in Calls : d # c => pc'[d] = pc[d]
        /\ \A m \in Keys : m # k => holder'[m] = holder[m]
    BY <2>1 DEF PoolInv, TypeOK
  <2>4. LockDiscipline'
    <3>1. ASSUME NEW d \in Calls, pc'[d] \in {"connecting", "using"}
          PROVE  holder'[KeyOf[d]] = d /\ idle'[KeyOf[d]] = <<>>
      BY <1>1, <2>2, <2>3, <3>1 DEF PoolInv, LockDiscipline
    <3>2. ASSUME NEW d \in Calls PROVE pc'[d] = "using" <=> held'[d] # NoConn
      BY <1>1, <2>1, <2>3 DEF PoolInv, LockDiscipline
    <3> QED BY <1>1, <3>1, <3>2 DEF PoolInv, LockDiscipline
  <2> QED BY <1>1, <1>2, <2>1, <2>4 DEF PoolInv, LeaseIsExclusive, IdleIsPoolable
<1>4. CASE ConnectSucceeds(c)
  <2>1. PICK x \in Fresh :
          /\ held'      = [held EXCEPT ![c] = x]
          /\ connKey'   = [connKey EXCEPT ![x] = k]
          /\ ephemeral' = [ephemeral EXCEPT ![x] = planned[c]]
          /\ pc' = [pc EXCEPT ![c] = "using"]
          /\ UNCHANGED holder
    BY <1>4 DEF ConnectSucceeds
  <2>2. /\ x \in Conns /\ x # NoConn
        /\ \A d \in Calls : held[d] # x
        /\ \A m \in Keys : x \notin IdleConns(m)
    BY DEF Fresh, Referenced
  <2>3. /\ held'[c] = x /\ pc'[c] = "using" /\ connKey'[x] = k
        /\ \A d \in Calls : d # c => held'[d] = held[d] /\ pc'[d] = pc[d]
        /\ \A y \in Conns : y # x => connKey'[y] = connKey[y] /\ ephemeral'[y] = ephemeral[y]
    BY <2>1, <2>2 DEF PoolInv, TypeOK
  <2>4. LockDiscipline'
    <3>1. ASSUME NEW d \in Calls, pc'[d] \in {"connecting", "using"}
          PROVE  holder'[KeyOf[d]] = d /\ idle'[KeyOf[d]] = <<>>
      BY <1>1, <2>1, <2>3, <3>1 DEF PoolInv, LockDiscipline
    <3>2. ASSUME NEW d \in Calls PROVE pc'[d] = "using" <=> held'[d] # NoConn
      BY <1>1, <2>2, <2>3 DEF PoolInv, LockDiscipline
    <3> QED BY <1>1, <3>1, <3>2 DEF PoolInv, LockDiscipline
  <2>5. \A m \in Keys : IdleConns(m) \subseteq Conns
    BY DEF IdleConns, PoolInv, TypeOK
  <2>6. IdleIsPoolable'
    BY <1>2, <2>2, <2>3, <2>5 DEF PoolInv, IdleIsPoolable
  <2>7. LeaseIsExclusive'
    <3>1. ASSUME NEW d \in Calls, d # c, held'[d] # NoConn
          PROVE  held[d] \in Conns /\ held[d] # x /\ held'[d] = held[d]
      BY <2>2, <2>3, <3>1 DEF PoolInv, TypeOK
    <3> QED BY <1>2, <2>2, <2>3, <3>1 DEF PoolInv, LeaseIsExclusive
  <2> QED BY <1>1, <2>4, <2>6, <2>7 DEF PoolInv
<1> QED BY <1>3, <1>4 DEF Connect

\* The sweeper and close_all.
LEMMA SweepKeeps ==
  ASSUME PoolInv, TypeOK', Sweep \/ CloseAllEnds
  PROVE  PoolInv'
<1>1. UNCHANGED <<pc, waiters, holder, held, connKey, ephemeral>>
  BY DEF Sweep, CloseAllEnds, lockVars
<1>2. ASSUME NEW k \in Keys
      PROVE  /\ Len(idle'[k]) <= 1 /\ IdleConns(k)' \subseteq IdleConns(k)
             /\ idle[k] = <<>> => idle'[k] = <<>>
  BY IdleShrinks
<1>3. LockDiscipline'
  BY <1>1, <1>2 DEF PoolInv, LockDiscipline
<1>4. LeaseIsExclusive' /\ IdleIsPoolable'
  BY <1>1, <1>2 DEF PoolInv, LeaseIsExclusive, IdleIsPoolable
<1> QED BY <1>2, <1>3, <1>4 DEF PoolInv

\* The steps that concern neither locks in use, nor leases, nor idle lists.
LEMMA OthersKeep ==
  ASSUME PoolInv, TypeOK',
         \/ \E c \in Calls : Queue(c) \/ CancelQueued(c)
         \/ \E x \in Conns : Expire(x) \/ PeerCloses(x) \/ PeerResets(x)
         \/ CloseAllBegins
         \/ UNCHANGED vars
  PROVE  PoolInv'
<1>1. UNCHANGED <<holder, held, idle, connKey, ephemeral>>
  BY DEF Queue, CancelQueued, Expire, PeerCloses, PeerResets, CloseAllBegins,
         vars, lockVars, connVars
<1>2. \A k \in Keys : IdleConns(k)' = IdleConns(k) /\ Len(idle'[k]) <= 1
  BY <1>1 DEF IdleConns, PoolInv
<1>3. \A d \in Calls : pc'[d] \in {"connecting", "using"} \/ pc[d] \in {"connecting", "using"}
        => pc'[d] = pc[d]
  <2>1. ASSUME NEW c \in Calls, Queue(c) PROVE <1>3
    BY <2>1 DEF Queue, PoolInv, TypeOK
  <2>2. ASSUME NEW c \in Calls, CancelQueued(c) PROVE <1>3
    BY <2>2 DEF CancelQueued, PoolInv, TypeOK
  <2> QED BY <2>1, <2>2 DEF Expire, PeerCloses, PeerResets, CloseAllBegins, vars, lockVars
<1>4. \A k \in Keys : \A i \in DOMAIN waiters'[k] : KeyOf[waiters'[k][i]] = k
  <2> DEFINE Waiting(w) == \A k \in Keys : \A i \in DOMAIN w[k] : KeyOf[w[k][i]] = k
  <2>1. ASSUME NEW c \in Calls, Queue(c) PROVE Waiting(waiters')
    <3> DEFINE m == KeyOf[c]
    <3>1. /\ waiters' = [waiters EXCEPT ![m] = Append(@, c)]
          /\ waiters \in [Keys -> Seq(Calls)] /\ m \in Keys
          /\ Waiting(waiters)
      BY <2>1 DEF Queue, PoolInv, TypeOK, LockDiscipline
    <3>2. \A i \in DOMAIN Append(waiters[m], c) : KeyOf[Append(waiters[m], c)[i]] = m
      BY <3>1
    <3> QED BY <3>1, <3>2
  <2>2. ASSUME NEW c \in Calls, CancelQueued(c) PROVE Waiting(waiters')
    <3> DEFINE m == KeyOf[c]
    <3>1. PICK j \in DOMAIN waiters[m] : waiters' = [waiters EXCEPT ![m] = Without(@, j)]
      BY <2>2 DEF CancelQueued
    <3>2. waiters \in [Keys -> Seq(Calls)] /\ m \in Keys /\ Waiting(waiters)
      BY DEF PoolInv, TypeOK, LockDiscipline
    <3>3. \A i \in DOMAIN Without(waiters[m], j) :
            \E n \in DOMAIN waiters[m] : Without(waiters[m], j)[i] = waiters[m][n]
      BY <3>2, RemovalKeeps
    <3>4. \A i \in DOMAIN waiters'[m] : KeyOf[waiters'[m][i]] = m
      BY <3>1, <3>2, <3>3
    <3> QED BY <3>1, <3>2, <3>4
  <2> QED BY <2>1, <2>2 DEF Expire, PeerCloses, PeerResets, CloseAllBegins, vars, lockVars,
             PoolInv, LockDiscipline
<1>5. LockDiscipline'
  BY <1>1, <1>3, <1>4 DEF PoolInv, LockDiscipline
<1>6. LeaseIsExclusive' /\ IdleIsPoolable'
  BY <1>1, <1>2 DEF PoolInv, LeaseIsExclusive, IdleIsPoolable
<1> QED BY <1>2, <1>5, <1>6 DEF PoolInv

LEMMA PoolStep == PoolInv /\ [Next]_vars => PoolInv'
<1> SUFFICES ASSUME PoolInv, [Next]_vars PROVE PoolInv'
  OBVIOUS
<1>1. TypeOK'
  BY TypeStep DEF PoolInv
<1>2. ASSUME NEW c \in Calls, Enter(c) PROVE PoolInv'
  BY <1>1, <1>2, AcquireKeeps DEF Enter, LockIsFree, PoolInv, LockDiscipline
<1>3. ASSUME NEW k \in Keys, Grant(k) PROVE PoolInv'
  <2> DEFINE c == Head(waiters[k])
  <2>1. /\ waiters \in [Keys -> Seq(Calls)] /\ waiters[k] # <<>>
        /\ \A m \in Keys : \A i \in DOMAIN waiters[m] : KeyOf[waiters[m][i]] = m
    BY <1>3 DEF Grant, PoolInv, TypeOK, LockDiscipline
  <2>2. c \in Calls /\ KeyOf[c] = k
    <3>1. c = waiters[k][1] /\ 1 \in DOMAIN waiters[k]
      BY <2>1
    <3> QED BY <2>1, <3>1
  <2>3. \A i \in DOMAIN Tail(waiters[k]) : KeyOf[Tail(waiters[k])[i]] = k
    BY <2>1
  <2>4. \A m \in Keys : \A i \in DOMAIN waiters'[m] : KeyOf[waiters'[m][i]] = m
    BY <1>3, <2>1, <2>3 DEF Grant
  <2>5. holder[k] = NoCall /\ holder' = [holder EXCEPT ![k] = c] /\ Acquire(c)
    BY <1>3 DEF Grant
  <2> QED BY <1>1, <2>2, <2>4, <2>5, AcquireKeeps
<1>4. ASSUME NEW c \in Calls, Connect(c) PROVE PoolInv'
  BY <1>1, <1>4, ConnectKeeps
<1>5. ASSUME NEW c \in Calls, Talk(c) PROVE PoolInv'
  BY <1>1, <1>5, TalkKeeps
<1>6. ASSUME Sweep \/ CloseAllEnds PROVE PoolInv'
  BY <1>1, <1>6, SweepKeeps
<1>7. ASSUME \/ \E c \in Calls : Queue(c) \/ CancelQueued(c)
             \/ \E x \in Conns : Expire(x) \/ PeerCloses(x) \/ PeerResets(x)
             \/ CloseAllBegins
             \/ UNCHANGED vars
      PROVE  PoolInv'
  BY <1>1, <1>7, OthersKeep
<1> QED BY <1>2, <1>3, <1>4, <1>5, <1>6, <1>7 DEF Next

\* PoolInv, and with it every part of it, holds in every reachable state.
THEOREM PoolInvHolds == Spec => []PoolInv
BY PoolInit, PoolStep, PTL DEF Spec

\* The states of the pool are well typed for every set of tasks, targets and
\* connections.
THEOREM TypeOKHolds == Spec => []TypeOK
<1>1. PoolInv => TypeOK
  BY DEF PoolInv
<1> QED BY <1>1, PoolInvHolds, PTL

-----------------------------------------------------------------------------
(* What PoolInv says to the adapters                                        *)

\* The lock of a target lets one task at a time connect or talk to it.
THEOREM OneExchangePerTargetHolds == Spec => []OneExchangePerTarget
<1>1. PoolInv => OneExchangePerTarget
  BY DEF PoolInv, LockDiscipline, OneExchangePerTarget
<1> QED BY <1>1, PoolInvHolds, PTL

\* No connection is ever shared, and each leads to its task's own target.
THEOREM LeaseIsExclusiveHolds == Spec => []LeaseIsExclusive
<1>1. PoolInv => LeaseIsExclusive
  BY DEF PoolInv
<1> QED BY <1>1, PoolInvHolds, PTL

\* An idle connection leads to its list's target and is not ephemeral.
THEOREM IdleIsPoolableHolds == Spec => []IdleIsPoolable
<1>1. PoolInv => IdleIsPoolable
  BY DEF PoolInv
<1> QED BY <1>1, PoolInvHolds, PTL

\* A target has no user, or exactly one and then no idle connection.
LEMMA UsersAreFew ==
  ASSUME PoolInv, NEW k \in Keys
  PROVE  \/ Users(k) = {} /\ Cardinality(Users(k)) = 0
         \/ \E c \in Calls : /\ Users(k) = {c} /\ Cardinality(Users(k)) = 1
                            /\ holder[k] = c /\ idle[k] = <<>>
<1>1. CASE Users(k) = {}
  BY <1>1, FS_EmptySet
<1>2. ASSUME NEW c \in Users(k)
      PROVE  /\ c \in Calls /\ Users(k) = {c} /\ Cardinality(Users(k)) = 1
             /\ holder[k] = c /\ idle[k] = <<>>
  <2>1. \A d \in Users(k) : d \in Calls /\ holder[k] = d /\ idle[k] = <<>>
    BY DEF Users, PoolInv, LockDiscipline
  <2>2. Users(k) = {c}
    BY <2>1
  <2> QED BY <2>1, <2>2, FS_Singleton
<1> QED BY <1>1, <1>2

\* A target has at most one reusable connection, idle or in use.
THEOREM OneConnectionPerTargetHolds == Spec => []OneConnectionPerTarget
<1>1. PoolInv => OneConnectionPerTarget
  <2> SUFFICES ASSUME PoolInv, NEW k \in Keys
               PROVE  Len(idle[k]) + Cardinality(Users(k)) <= 1
    BY DEF OneConnectionPerTarget
  <2>1. Len(idle[k]) \in Nat /\ Len(idle[k]) <= 1
    BY LenProperties DEF PoolInv, TypeOK
  <2>2. CASE Cardinality(Users(k)) = 0
    BY <2>1, <2>2
  <2>3. CASE Cardinality(Users(k)) = 1 /\ idle[k] = <<>>
    BY <2>3
  <2> QED BY <2>2, <2>3, UsersAreFew
<1> QED BY <1>1, PoolInvHolds, PTL

-----------------------------------------------------------------------------
(* The count of _active: CountInv is inductive relative to PoolInv          *)

LEMMA CountInit == Init => CountInv
<1> SUFFICES ASSUME Init PROVE CountInv
  OBVIOUS
<1>1. \A k \in Keys : active[k] = 0 /\ lost[k] = 0 /\ Users(k) = {}
  BY DEF Init, Users
<1> QED BY <1>1 DEF Init, CountInv, EphemeralOnlyAfterLoss, Live, Closed

\* With the lock free, or held by a task that is still connecting, nobody uses
\* a connection to the target.
LEMMA NobodyUses ==
  ASSUME PoolInv, NEW k \in Keys,
         holder[k] = NoCall \/ \E c \in Calls : holder[k] = c /\ pc[c] # "using"
  PROVE  Users(k) = {}
<1>1. \A d \in Users(k) : d \in Calls /\ pc[d] = "using" /\ holder[k] = d
  BY DEF Users, PoolInv, LockDiscipline
<1> QED BY <1>1

\* Getting an idle connection counts it; otherwise the cap is looked at, and it
\* can only be reached by connections that were lost.
LEMMA AcquireCounts ==
  ASSUME PoolInv, CountInv, NEW c \in Calls, Acquire(c), holder[KeyOf[c]] = NoCall,
         UNCHANGED lost
  PROVE  CountInv'
<1> DEFINE k == KeyOf[c]
<1>1. /\ pc \in [Calls -> {"out", "queued", "connecting", "using"}] /\ active \in [Keys -> Nat]
      /\ lost \in [Keys -> Nat] /\ planned \in [Calls -> BOOLEAN] /\ k \in Keys
  BY DEF PoolInv, TypeOK
<1>2. Users(k) = {} /\ active[k] <= lost[k]
  BY <1>1, NobodyUses DEF CountInv
<1>3. UNCHANGED <<sock, connKey, ephemeral>>
  BY AcquireEffect
<1>4. EphemeralOnlyAfterLoss'
  BY <1>3 DEF CountInv, EphemeralOnlyAfterLoss, Live, Closed
<1>5. ASSUME /\ active' = [active EXCEPT ![k] = @ + 1]
             /\ pc' = [pc EXCEPT ![c] = "using"]
             /\ UNCHANGED planned
      PROVE  CountInv'
  <2>1. c \in Users(k)' /\ \A m \in Keys : m # k => Users(m)' = Users(m)
    BY <1>1, <1>5 DEF Users
  <2>2. /\ active'[k] = active[k] + 1 /\ \A m \in Keys : m # k => active'[m] = active[m]
        /\ active[k] \in Nat /\ lost[k] \in Nat
    BY <1>1, <1>5
  <2>3. \A m \in Keys : \/ active'[m] <= lost'[m]
                        \/ Users(m)' # {} /\ active'[m] = lost'[m] + 1
    <3> SUFFICES ASSUME NEW m \in Keys
                 PROVE  \/ active'[m] <= lost'[m]
                        \/ Users(m)' # {} /\ active'[m] = lost'[m] + 1
      OBVIOUS
    <3>1. CASE m = k
      BY <1>2, <2>1, <2>2, <3>1
    <3>2. CASE m # k
      BY <2>1, <2>2, <3>2 DEF CountInv
    <3> QED BY <3>1, <3>2
  <2>4. \A m \in Keys : Users(m)' # {} => active'[m] > 0
    BY <2>1, <2>2 DEF CountInv
  <2>5. \A d \in Calls : pc'[d] = "connecting" /\ planned'[d] => lost'[KeyOf[d]] >= MaxPerTarget
    BY <1>1, <1>5 DEF CountInv
  <2> QED BY <1>4, <2>3, <2>4, <2>5 DEF CountInv
<1>6. ASSUME /\ pc' = [pc EXCEPT ![c] = "connecting"]
             /\ planned' = [planned EXCEPT ![c] = AtCap(k)]
             /\ UNCHANGED active
      PROVE  CountInv'
  <2>1. \A m \in Keys : Users(m)' = Users(m)
    <3>1. c \notin Users(k)
      BY <1>2
    <3> QED BY <1>1, <1>6, <3>1 DEF Users
  <2>2. AtCap(k) => lost[k] >= MaxPerTarget
    BY <1>1, <1>2 DEF AtCap
  <2>3. \A d \in Calls : pc'[d] = "connecting" /\ planned'[d] => lost'[KeyOf[d]] >= MaxPerTarget
    BY <1>1, <1>6, <2>2 DEF CountInv
  <2> QED BY <1>4, <1>6, <2>1, <2>3 DEF CountInv
<1> QED BY <1>5, <1>6, AcquireEffect

\* A new connection is counted when open_connection returns.
LEMMA ConnectCounts ==
  ASSUME PoolInv, CountInv, NEW c \in Calls, Connect(c)
  PROVE  CountInv'
<1> DEFINE k == KeyOf[c]
<1>1. /\ pc \in [Calls -> {"out", "queued", "connecting", "using"}] /\ active \in [Keys -> Nat]
      /\ lost \in [Keys -> Nat] /\ k \in Keys
      /\ pc[c] = "connecting" /\ holder[k] = c /\ UNCHANGED <<planned, lost>>
  BY DEF Connect, ConnectFails, ConnectSucceeds, PoolInv, TypeOK, LockDiscipline
<1>2. Users(k) = {} /\ active[k] <= lost[k]
  BY <1>1, NobodyUses DEF CountInv
<1>3. CASE ConnectFails(c)
  <2>1. pc' = [pc EXCEPT ![c] = "out"] /\ UNCHANGED <<active, connVars>>
    BY <1>3 DEF ConnectFails, Leave
  <2>2. \A m \in Keys : Users(m)' = Users(m)
    BY <1>1, <2>1 DEF Users
  <2>3. \A d \in Calls : pc'[d] = "connecting" => pc[d] = "connecting"
    BY <1>1, <2>1
  <2> QED BY <1>1, <2>1, <2>2, <2>3
          DEF CountInv, EphemeralOnlyAfterLoss, Live, Closed, connVars
<1>4. CASE ConnectSucceeds(c)
  <2>1. PICK x \in Conns :
          /\ connKey'   = [connKey EXCEPT ![x] = k]
          /\ ephemeral' = [ephemeral EXCEPT ![x] = planned[c]]
          /\ sock'      = [sock EXCEPT ![x] = "open"]
          /\ active' = [active EXCEPT ![k] = @ + 1]
          /\ pc' = [pc EXCEPT ![c] = "using"]
    BY <1>4 DEF ConnectSucceeds, Fresh
  <2>2. c \in Users(k)' /\ \A m \in Keys : m # k => Users(m)' = Users(m)
    BY <1>1, <2>1 DEF Users
  <2>3. /\ active'[k] = active[k] + 1 /\ \A m \in Keys : m # k => active'[m] = active[m]
        /\ active[k] \in Nat /\ lost[k] \in Nat
    BY <1>1, <2>1
  <2>4. ASSUME NEW m \in Keys
        PROVE  \/ active'[m] <= lost'[m]
               \/ Users(m)' # {} /\ active'[m] = lost'[m] + 1
    <3>1. CASE m = k
      BY <1>1, <1>2, <2>2, <2>3, <3>1
    <3>2. CASE m # k
      BY <1>1, <2>2, <2>3, <3>2 DEF CountInv
    <3> QED BY <3>1, <3>2
  <2>5. \A m \in Keys : Users(m)' # {} => active'[m] > 0
    BY <2>2, <2>3 DEF CountInv
  <2>6. \A d \in Calls : pc'[d] = "connecting" => pc[d] = "connecting"
    BY <1>1, <2>1
  <2>7. EphemeralOnlyAfterLoss'
    <3>1. /\ connKey'[x] = k /\ ephemeral'[x] = planned[c]
          /\ \A y \in Conns : y # x => /\ connKey'[y] = connKey[y] /\ sock'[y] = sock[y]
                                      /\ ephemeral'[y] = ephemeral[y]
      BY <2>1 DEF PoolInv, TypeOK
    <3>2. planned[c] => lost[k] >= MaxPerTarget
      BY <1>1 DEF CountInv
    <3> QED BY <1>1, <3>1, <3>2 DEF CountInv, EphemeralOnlyAfterLoss, Live, Closed
  <2> QED BY <1>1, <2>4, <2>5, <2>6, <2>7 DEF CountInv
<1> QED BY <1>3, <1>4 DEF Connect

\* Every end of an exchange either counts the connection out or is a lost one.
LEMMA TalkCounts ==
  ASSUME PoolInv, CountInv, NEW c \in Calls, Talk(c)
  PROVE  CountInv'
<1> DEFINE k == KeyOf[c]
<1>1. /\ pc \in [Calls -> {"out", "queued", "connecting", "using"}] /\ active \in [Keys -> Nat]
      /\ lost \in [Keys -> Nat] /\ k \in Keys /\ sock \in [Conns -> {"open", "eof", "closed"}]
      /\ pc[c] = "using" /\ holder[k] = c /\ held[c] \in Conns /\ connKey[held[c]] = k
      /\ pc' = [pc EXCEPT ![c] = "out"] /\ UNCHANGED <<planned, connKey, ephemeral>>
  BY TalkEffect DEF PoolInv, TypeOK
<1>2. c \in Users(k) /\ Users(k) = {c}
  BY <1>1, UsersAreFew DEF Users
<1>3. Users(k)' = {} /\ \A m \in Keys : m # k => Users(m)' = Users(m)
  BY <1>1, <1>2 DEF Users
<1>4. active[k] > 0 /\ active[k] <= lost[k] + 1
  <2>1. /\ active[k] > 0
        /\ active[k] <= lost[k] \/ active[k] = lost[k] + 1
    BY <1>1, <1>2 DEF CountInv
  <2> QED BY <1>1, <2>1
<1>5. /\ active'[k] <= lost'[k]
      /\ \A m \in Keys : m # k => active'[m] = active[m] /\ lost'[m] = lost[m]
      /\ lost'[k] >= lost[k]
  <2>1. CASE Lose(c)
    BY <1>1, <1>4, <2>1 DEF Lose
  <2>2. ASSUME active' = [active EXCEPT ![k] = Decrement(@)], UNCHANGED lost PROVE <1>5
    BY <1>1, <1>4, <2>2 DEF Decrement
  <2>3. ASSUME active' = [active EXCEPT ![k] = Decrement(Decrement(@))], UNCHANGED lost PROVE <1>5
    <3>1. Decrement(Decrement(active[k])) <= lost[k]
      BY <1>1, <1>4 DEF Decrement
    <3> QED BY <1>1, <2>3, <3>1
  <2> QED BY <1>1, <2>1, <2>2, <2>3 DEF Talk, Finish, Fail, FailTwice
<1>6. \A x \in Conns : Live(x)' => Live(x)
  <2>1. \A x \in Conns : sock'[x] = sock[x] \/ sock'[x] = "closed"
    BY <1>1 DEF Talk, Finish, Fail, FailTwice, Lose, PutBack, connVars
  <2> QED BY <2>1 DEF Live, Closed
<1>7. EphemeralOnlyAfterLoss'
  <2>1. connKey \in [Conns -> Keys]
    BY DEF PoolInv, TypeOK
  <2>2. \A m \in Keys : lost'[m] >= lost[m] /\ lost[m] \in Nat
    BY <1>1, <1>5
  <2>3. \A m \in Keys : lost'[m] \in Nat
    <3>1. UNCHANGED lost \/ lost' = [lost EXCEPT ![k] = @ + 1]
      BY DEF Talk, Lose, Finish, Fail, FailTwice
    <3> QED BY <1>1, <3>1
  <2> QED BY <1>1, <1>6, <2>1, <2>2, <2>3 DEF CountInv, EphemeralOnlyAfterLoss
<1>8. \A d \in Calls : pc'[d] = "connecting" => pc[d] = "connecting" /\ KeyOf[d] # k
  BY <1>1 DEF PoolInv, LockDiscipline
<1> QED BY <1>1, <1>3, <1>5, <1>7, <1>8 DEF CountInv

\* No other step moves the count.
LEMMA OthersCount ==
  ASSUME PoolInv, CountInv,
         \/ \E c \in Calls : Queue(c) \/ CancelQueued(c)
         \/ \E x \in Conns : Expire(x) \/ PeerCloses(x) \/ PeerResets(x)
         \/ Sweep \/ CloseAllBegins \/ CloseAllEnds
         \/ UNCHANGED vars
  PROVE  CountInv'
<1>1. UNCHANGED <<planned, active, lost, connKey, ephemeral>>
  BY DEF Queue, CancelQueued, Expire, PeerCloses, PeerResets, Sweep, CloseAllBegins,
         CloseAllEnds, vars, lockVars, connVars
<1>2. \A d \in Calls : pc'[d] \in {"connecting", "using"} \/ pc[d] \in {"connecting", "using"}
        => pc'[d] = pc[d]
  <2>1. ASSUME NEW c \in Calls, Queue(c) PROVE <1>2
    BY <2>1 DEF Queue, PoolInv, TypeOK
  <2>2. ASSUME NEW c \in Calls, CancelQueued(c) PROVE <1>2
    BY <2>2 DEF CancelQueued, PoolInv, TypeOK
  <2> QED BY <2>1, <2>2
          DEF Expire, PeerCloses, PeerResets, Sweep, CloseAllBegins, CloseAllEnds, vars, lockVars
<1>3. \A m \in Keys : Users(m)' = Users(m)
  BY <1>2 DEF Users
<1>4. \A x \in Conns : Live(x)' => Live(x)
  BY DEF PoolInv, TypeOK, Live, Closed, Queue, CancelQueued, Expire, PeerCloses, PeerResets,
         Sweep, CloseAllBegins, CloseAllEnds, vars, connVars
<1> QED BY <1>1, <1>2, <1>3, <1>4 DEF CountInv, EphemeralOnlyAfterLoss

LEMMA CountStep == PoolInv /\ CountInv /\ [Next]_vars => CountInv'
<1> SUFFICES ASSUME PoolInv, CountInv, [Next]_vars PROVE CountInv'
  OBVIOUS
<1>1. ASSUME NEW c \in Calls, Enter(c) PROVE CountInv'
  BY <1>1, AcquireCounts DEF Enter, LockIsFree
<1>2. ASSUME NEW k \in Keys, Grant(k) PROVE CountInv'
  <2>1. Head(waiters[k]) \in Calls /\ KeyOf[Head(waiters[k])] = k
    <3>1. waiters[k] \in Seq(Calls) /\ waiters[k] # <<>>
      BY <1>2 DEF Grant, PoolInv, TypeOK
    <3>2. Head(waiters[k]) = waiters[k][1] /\ 1 \in DOMAIN waiters[k]
      BY <3>1
    <3> QED BY <3>1, <3>2 DEF PoolInv, LockDiscipline
  <2> QED BY <1>2, <2>1, AcquireCounts DEF Grant
<1> QED BY <1>1, <1>2, ConnectCounts, TalkCounts, OthersCount DEF Next

\* CountInv holds in every reachable state.
THEOREM CountInvHolds == Spec => []CountInv
BY PoolInit, PoolStep, CountInit, CountStep, PTL DEF Spec

\* _active is at least the number of tasks that hold a connection to the target
\* and exceeds it by no more than the exchanges that were lost.
THEOREM CountIsBoundedHolds == Spec => []CountIsBounded
<1>1. PoolInv /\ CountInv => CountIsBounded
  <2> SUFFICES ASSUME PoolInv, CountInv, NEW k \in Keys
               PROVE  /\ Cardinality(Users(k)) <= active[k]
                      /\ active[k] <= Cardinality(Users(k)) + lost[k]
    BY DEF CountIsBounded
  <2>1. active[k] \in Nat /\ lost[k] \in Nat
    BY DEF PoolInv, TypeOK
  <2>2. CASE Users(k) = {} /\ Cardinality(Users(k)) = 0
    BY <2>1, <2>2 DEF CountInv
  <2>3. CASE Users(k) # {} /\ Cardinality(Users(k)) = 1
    BY <2>1, <2>3 DEF CountInv
  <2> QED BY <2>2, <2>3, UsersAreFew
<1> QED BY <1>1, PoolInvHolds, CountInvHolds, PTL

\* acquire makes an ephemeral connection only after max_per_target exchanges
\* with the target were lost.
THEOREM EphemeralOnlyAfterLossHolds == Spec => []EphemeralOnlyAfterLoss
<1>1. CountInv => EphemeralOnlyAfterLoss
  BY DEF CountInv
<1> QED BY <1>1, CountInvHolds, PTL

-----------------------------------------------------------------------------
(* The pool implements the leases of ConnectionLease, and no socket is       *)
(* forgotten except by a lost exchange.                                     *)

Held(x)  == \E c \in Calls : held[c] = x
Spare(x) == \E k \in Keys : x \in IdleConns(k)

-----------------------------------------------------------------------------
(* The state of a connection                                                *)

\* The state of a connection, in terms of who refers to it.
LEMMA StateByUse ==
  ASSUME NEW x
  PROVE  /\ LeaseState(x) = IF Closed(x) THEN "absent" ELSE IF Held(x) THEN "leased"
                            ELSE IF Spare(x) THEN "spare" ELSE "stray"
         /\ Referenced(x) <=> Held(x) \/ Spare(x)
BY DEF LeaseState, Held, Spare, Referenced

\* What is referred to as before, and as open, is in the state it was in.
LEMMA StateStays ==
  ASSUME NEW x, Closed(x)' <=> Closed(x), Held(x)' <=> Held(x), Spare(x)' <=> Spare(x)
  PROVE  LeaseState(x)' = LeaseState(x)
BY DEF LeaseState, Held, Spare

\* A connection that is held is not in an idle list, and is held by one task.
LEMMA HeldIsNotSpare ==
  ASSUME PoolInv, NEW c \in Calls, held[c] # NoConn
  PROVE  /\ held[c] \in Conns /\ ~Spare(held[c])
         /\ \A d \in Calls : held[d] = held[c] => d = c
BY DEF PoolInv, LeaseIsExclusive, TypeOK, Spare

\* While the lock of a target is free, nobody holds a connection to it; while a
\* task is connecting to it, nobody does either.
LEMMA NobodyHolds ==
  ASSUME PoolInv, NEW c \in Calls,
         holder[KeyOf[c]] = NoCall \/ (holder[KeyOf[c]] = c /\ pc[c] = "connecting")
  PROVE  \A d \in Calls : KeyOf[d] = KeyOf[c] => held[d] = NoConn
<1> SUFFICES ASSUME NEW d \in Calls, KeyOf[d] = KeyOf[c], held[d] # NoConn PROVE FALSE
  OBVIOUS
<1>1. pc[d] = "using" /\ holder[KeyOf[d]] = d
  BY DEF PoolInv, LockDiscipline
<1> QED BY <1>1

\* A list without its only entry.
LEMMA IdleEmptied ==
  ASSUME PoolInv, NEW k \in Keys, idle' = [idle EXCEPT ![k] = <<>>]
  PROVE  \A x : Spare(x)' <=> \E m \in Keys : m # k /\ x \in IdleConns(m)
<1>1. idle \in [Keys -> Seq(Conns)]
  BY DEF PoolInv, TypeOK
<1>2. IdleConns(k)' = {} /\ \A m \in Keys : m # k => IdleConns(m)' = IdleConns(m)
  BY <1>1, IdleConnsShort DEF IdleConns
<1> QED BY <1>2 DEF Spare

-----------------------------------------------------------------------------
(* The steps of the pool are steps of the leases                            *)

\* acquire leases the idle connection, or does nothing that shows.
LEMMA AcquireLeases ==
  ASSUME PoolInv, NEW c \in Calls, Acquire(c), holder[KeyOf[c]] = NoCall
  PROVE  (\E x \in Conns : Lease!Reuse(c, x)) \/ UNCHANGED Lease!vars
<1> DEFINE k == KeyOf[c]
<1>1. /\ k \in Keys /\ idle[k] \in Seq(Conns) /\ Len(idle[k]) <= 1
      /\ held \in [Calls -> Conns \cup {NoConn}]
      /\ idle' = [idle EXCEPT ![k] = <<>>] /\ UNCHANGED <<sock, connKey, ephemeral>>
  <2>1. idle' = [idle EXCEPT ![k] = <<>>] /\ UNCHANGED <<sock, connKey, ephemeral>>
    BY AcquireEffect
  <2> QED BY <2>1 DEF PoolInv, TypeOK
<1>2. \A x : Spare(x)' <=> \E m \in Keys : m # k /\ x \in IdleConns(m)
  BY <1>1, IdleEmptied
<1>3. \A x : Closed(x)' <=> Closed(x)
  BY <1>1 DEF Closed
<1>4. \A d \in Calls : KeyOf[d] = k => held[d] = NoConn
  BY NobodyHolds
<1>5. CASE TakeIdle(c)
  <2>1. PICK i \in DOMAIN idle[k] : Live(idle[k][i]) /\ held' = [held EXCEPT ![c] = idle[k][i]]
    BY <1>5 DEF TakeIdle
  <2>2. PICK x \in Conns : idle[k] = <<x>>
    BY <1>1, <2>1, ShortSeq
  <2>3. Live(x) /\ held' = [held EXCEPT ![c] = x] /\ IdleConns(k) = {x}
    <3>1. i = 1 /\ idle[k][i] = x
      BY <2>1, <2>2
    <3>2. IdleConns(k) = {x}
      BY <2>2, IdleConnsShort DEF IdleConns
    <3> QED BY <2>1, <3>1, <3>2
  <2>4. Spare(x) /\ ~Held(x) /\ connKey[x] = k
    <3>1. Spare(x)
      BY <1>1, <2>3 DEF Spare
    <3>2. ~Held(x)
      BY <2>3, <3>1, HeldIsNotSpare DEF Held
    <3>3. connKey[x] = k
      BY <1>1, <2>3 DEF PoolInv, IdleIsPoolable
    <3> QED BY <3>1, <3>2, <3>3
  <2>5. LeaseState(x) = "spare"
    BY <2>3, <2>4, StateByUse DEF Live
  <2>6. LeaseState(x)' = "leased"
    <3>1. Held(x)' /\ ~Closed(x)'
      BY <1>1, <1>3, <2>3 DEF Held, Live
    <3> QED BY <3>1 DEF LeaseState, Held
  <2>7. ASSUME NEW y \in Conns, y # x
        PROVE  LeaseState(y)' = LeaseState(y)
    <3>1. Held(y)' <=> Held(y)
      BY <1>1, <1>4, <2>3, <2>7 DEF Held
    <3>2. Spare(y)' <=> Spare(y)
      BY <1>1, <1>2, <2>3, <2>7 DEF Spare
    <3> QED BY <1>3, <3>1, <3>2, StateStays
  <2>8. Lease!Reuse(c, x)
    <3>1. [y \in Conns |-> LeaseState(y)]' = [[y \in Conns |-> LeaseState(y)] EXCEPT ![x] = "leased"]
      BY <2>6, <2>7
    <3> QED BY <1>1, <1>4, <2>3, <2>4, <2>5, <3>1 DEF Lease!Reuse, Lease!TargetIsFree
  <2> QED BY <2>8
<1>6. CASE BeginConnect(c)
  <2>1. UNCHANGED held /\ \A x \in IdleConns(k) : Closed(x)
    BY <1>6 DEF BeginConnect
  <2>2. ASSUME NEW y \in Conns
        PROVE  LeaseState(y)' = LeaseState(y)
    <3>1. Held(y)' <=> Held(y)
      BY <2>1 DEF Held
    <3>2. CASE Closed(y)
      BY <1>3, <3>2 DEF LeaseState
    <3>3. CASE ~Closed(y)
      <4>1. Spare(y)' <=> Spare(y)
        BY <1>2, <2>1, <3>3 DEF Spare
      <4> QED BY <1>3, <3>1, <4>1, StateStays
    <3> QED BY <3>2, <3>3
  <2> QED BY <1>1, <2>1, <2>2 DEF Lease!vars
<1> QED BY <1>5, <1>6 DEF Acquire

\* open_connection returns: a lease on a connection that was absent.
LEMMA ConnectLeases ==
  ASSUME PoolInv, NEW c \in Calls, ConnectSucceeds(c)
  PROVE  \E x \in Conns : Lease!Open(c, x)
<1> DEFINE k == KeyOf[c]
<1>1. PICK x \in Fresh : /\ held' = [held EXCEPT ![c] = x]
                         /\ sock' = [sock EXCEPT ![x] = "open"]
                         /\ connKey' = [connKey EXCEPT ![x] = k]
  BY DEF ConnectSucceeds
<1>2. /\ k \in Keys /\ pc[c] = "connecting" /\ holder[k] = c /\ UNCHANGED idle
      /\ held \in [Calls -> Conns \cup {NoConn}] /\ sock \in [Conns -> {"open", "eof", "closed"}]
      /\ connKey \in [Conns -> Keys]
  <2>1. pc[c] = "connecting" /\ UNCHANGED idle
    BY DEF ConnectSucceeds
  <2>2. holder[k] = c
    BY <2>1 DEF PoolInv, LockDiscipline
  <2> QED BY <2>1, <2>2 DEF PoolInv, TypeOK
<1>3. x \in Conns /\ Closed(x) /\ ~Held(x) /\ ~Spare(x)
  BY StateByUse DEF Fresh
<1>4. \A d \in Calls : KeyOf[d] = k => held[d] = NoConn
  BY <1>2, NobodyHolds
<1>5. LeaseState(x) = "absent"
  BY <1>3 DEF LeaseState
<1>6. LeaseState(x)' = "leased"
  <2>1. Held(x)' /\ ~Closed(x)'
    BY <1>1, <1>2, <1>3 DEF Held, Closed
  <2> QED BY <2>1 DEF LeaseState, Held
<1>7. ASSUME NEW y \in Conns, y # x
      PROVE  LeaseState(y)' = LeaseState(y)
  <2>1. Held(y)' <=> Held(y)
    BY <1>1, <1>2, <1>4, <1>7 DEF Held
  <2>2. Spare(y)' <=> Spare(y)
    BY <1>2 DEF Spare, IdleConns
  <2>3. Closed(y)' <=> Closed(y)
    BY <1>1, <1>2, <1>7 DEF Closed
  <2> QED BY <2>1, <2>2, <2>3, StateStays
<1>8. Lease!Open(c, x)
  <2>1. [y \in Conns |-> LeaseState(y)]' = [[y \in Conns |-> LeaseState(y)] EXCEPT ![x] = "leased"]
    BY <1>6, <1>7
  <2>2. \A d \in Calls : held[d] # x
    BY <1>3 DEF Held
  <2> QED BY <1>1, <1>3, <1>4, <1>5, <2>1, <2>2 DEF Lease!Open, Lease!TargetIsFree
<1> QED BY <1>3, <1>8

\* An exchange ends: its connection is spare, closed, or abandoned.
LEMMA TalkReturns ==
  ASSUME PoolInv, NEW c \in Calls, Talk(c)
  PROVE  Lease!Return(c)
<1> DEFINE k == KeyOf[c]
<1>0. PICK x \in Conns : x = held[c]
  BY TalkEffect
<1>1. /\ k \in Keys /\ x \in Conns /\ x # NoConn
      /\ held' = [held EXCEPT ![c] = NoConn] /\ connKey' = connKey
      /\ idle[k] = <<>> /\ connKey[x] = k
      /\ idle' = idle \/ idle' = [idle EXCEPT ![k] = <<x>>]
  BY <1>0, TalkEffect
<1>2. /\ held \in [Calls -> Conns \cup {NoConn}] /\ idle \in [Keys -> Seq(Conns)]
      /\ sock \in [Conns -> {"open", "eof", "closed"}]
  BY DEF PoolInv, TypeOK
<1>3. \/ sock' = sock
      \/ sock' = [sock EXCEPT ![x] = "closed"]
  BY <1>0 DEF Talk, Finish, Fail, FailTwice, Lose, PutBack, connVars
<1>4. \A d \in Calls : held[d] = x => d = c
  BY <1>0, <1>1, HeldIsNotSpare
<1>5. Held(x) /\ ~Held(x)'
  BY <1>0, <1>1, <1>2, <1>4 DEF Held
<1>6. ASSUME NEW y \in Conns, y # x
      PROVE  LeaseState(y)' = LeaseState(y)
  <2>1. Held(y)' <=> Held(y)
    BY <1>0, <1>1, <1>2, <1>6 DEF Held
  <2>2. Spare(y)' <=> Spare(y)
    <3>1. CASE idle' = idle
      BY <3>1 DEF Spare, IdleConns
    <3>2. CASE idle' = [idle EXCEPT ![k] = <<x>>]
      <4>1. IdleConns(k) = {} /\ IdleConns(k)' = {x} /\ \A m \in Keys : m # k => IdleConns(m)' = IdleConns(m)
        BY <1>1, <1>2, <3>2, IdleConnsShort DEF IdleConns
      <4> QED BY <1>1, <1>6, <4>1 DEF Spare
    <3> QED BY <1>1, <3>1, <3>2
  <2>3. Closed(y)' <=> Closed(y)
    BY <1>2, <1>3, <1>6 DEF Closed
  <2> QED BY <2>1, <2>2, <2>3, StateStays
<1>7. CASE Closed(x)
  <2>1. Closed(x)'
    BY <1>2, <1>3, <1>7 DEF Closed
  <2>2. LeaseState(x) = "absent" /\ LeaseState(x)' = "absent"
    BY <1>7, <2>1 DEF LeaseState
  <2>3. [y \in Conns |-> LeaseState(y)]' = [y \in Conns |-> LeaseState(y)]
    BY <1>6, <2>2
  <2> QED BY <1>0, <1>1, <2>2, <2>3 DEF Lease!Return
<1>8. CASE ~Closed(x)
  <2>1. LeaseState(x) = "leased"
    BY <1>5, <1>8 DEF LeaseState, Held
  <2>2. LeaseState(x)' \in {"spare", "absent", "stray"}
    BY <1>5 DEF LeaseState, Held
  <2>3. [y \in Conns |-> LeaseState(y)]' = [[y \in Conns |-> LeaseState(y)] EXCEPT ![x] = LeaseState(x)']
    BY <1>6
  <2> QED BY <1>0, <1>1, <2>1, <2>2, <2>3 DEF Lease!Return
<1> QED BY <1>7, <1>8

\* What a sweep does not find expired or closed stays in its list.
LEMMA SweepSpares ==
  ASSUME PoolInv, Sweep, NEW x, Spare(x), ~Sweepable(x)
  PROVE  Spare(x)'
<1>1. PICK k \in Keys : x \in IdleConns(k)
  BY DEF Spare
<1>2. PICK keep \in [Keys -> UNION {Sublists(idle[m]) : m \in Keys}] :
        IsKept(keep[k], idle[k]) /\ idle' = keep
  BY DEF Sweep
<1>3. PICK n \in DOMAIN idle[k] : x = idle[k][n]
  BY <1>1 DEF IdleConns
<1>4. PICK f \in [DOMAIN keep[k] -> DOMAIN idle[k]] :
        /\ \A i \in DOMAIN keep[k] : keep[k][i] = idle[k][f[i]]
        /\ \A m \in DOMAIN idle[k] : ~Sweepable(idle[k][m]) => \E i \in DOMAIN keep[k] : f[i] = m
  BY <1>2 DEF IsKept
<1>5. PICK i \in DOMAIN keep[k] : f[i] = n
  BY <1>3, <1>4
<1>6. keep[k][i] = x
  BY <1>3, <1>4, <1>5
<1>7. x \in IdleConns(k)'
  BY <1>2, <1>6 DEF IdleConns
<1> QED BY <1>7 DEF Spare

\* A sweep, or close_all, retires spare connections and no others.
LEMMA SweepBreaks ==
  ASSUME PoolInv, Sweep \/ CloseAllEnds
  PROVE  \E S \in SUBSET {x \in Conns : LeaseState(x) = "spare"} : Lease!Break(S)
<1> DEFINE S == {x \in Conns : LeaseState(x) = "spare" /\ (Sweep => Sweepable(x))}
<1>1. UNCHANGED <<held, connKey>>
  BY DEF Sweep, CloseAllEnds
<1>2. \A x : Held(x)' <=> Held(x)
  BY <1>1 DEF Held
<1>3. \A x : Spare(x)' => Spare(x)
  BY IdleShrinks DEF Spare
<1>4. sock' = [x \in Conns |-> IF Spare(x) /\ (Sweep => Sweepable(x)) THEN "closed" ELSE sock[x]]
  <2>1. CASE Sweep
    BY <2>1 DEF Sweep, Spare
  <2>2. CASE ~Sweep /\ CloseAllEnds
    BY <2>2 DEF CloseAllEnds, Spare
  <2> QED BY <2>1, <2>2
<1>5. ASSUME NEW x \in Conns
      PROVE  LeaseState(x)' = IF x \in S THEN "absent" ELSE LeaseState(x)
  <2>1. CASE x \in S
    <3>1. Spare(x)
      BY <2>1, StateByUse
    <3>2. Closed(x)'
      BY <1>4, <2>1, <3>1 DEF Closed
    <3> QED BY <2>1, <3>2 DEF LeaseState
  <2>2. CASE x \notin S /\ Closed(x)
    <3>1. Closed(x)'
      BY <1>4, <2>2 DEF Closed
    <3> QED BY <2>2, <3>1 DEF LeaseState
  <2>3. CASE x \notin S /\ ~Closed(x) /\ ~Spare(x)
    <3>1. ~Closed(x)' /\ ~Spare(x)'
      BY <1>3, <1>4, <2>3 DEF Closed
    <3> QED BY <1>2, <2>3, <3>1, StateStays
  <2>4. CASE x \notin S /\ ~Closed(x) /\ Spare(x)
    <3>1. ~Held(x)
      BY <2>4, HeldIsNotSpare, ConnsAssumption DEF Held
    <3>2. LeaseState(x) = "spare"
      BY <2>4, <3>1, StateByUse
    <3>3. Sweep /\ ~Sweepable(x)
      BY <2>4, <3>2
    <3>4. Spare(x)'
      BY <2>4, <3>3, SweepSpares
    <3>5. ~Closed(x)'
      BY <1>4, <2>4, <3>3 DEF Closed
    <3> QED BY <1>2, <2>4, <3>4, <3>5, StateStays
  <2> QED BY <2>1, <2>2, <2>3, <2>4
<1>6. Lease!Break(S)
  <2>1. [x \in Conns |-> LeaseState(x)]'
          = [x \in Conns |-> IF x \in S THEN "absent" ELSE [y \in Conns |-> LeaseState(y)][x]]
    BY <1>5
  <2> QED BY <1>1, <2>1 DEF Lease!Break
<1> QED BY <1>6

\* A device resets a connection.
LEMMA ResetBreaks ==
  ASSUME PoolInv, NEW x \in Conns, PeerResets(x)
  PROVE  Lease!Break({x})
<1>1. UNCHANGED <<held, idle, connKey>> /\ sock' = [sock EXCEPT ![x] = "closed"]
  BY DEF PeerResets
<1>2. sock \in [Conns -> {"open", "eof", "closed"}]
  BY DEF PoolInv, TypeOK
<1>3. ASSUME NEW y \in Conns
      PROVE  LeaseState(y)' = IF y \in {x} THEN "absent" ELSE LeaseState(y)
  <2>1. CASE y = x
    BY <1>1, <1>2, <2>1 DEF LeaseState, Closed
  <2>2. CASE y # x
    <3>1. Closed(y)' <=> Closed(y)
      BY <1>1, <1>2, <2>2 DEF Closed
    <3>2. (Held(y)' <=> Held(y)) /\ (Spare(y)' <=> Spare(y))
      BY <1>1 DEF Held, Spare, IdleConns
    <3> QED BY <2>2, <3>1, <3>2, StateStays
  <2> QED BY <2>1, <2>2
<1>4. [y \in Conns |-> LeaseState(y)]'
        = [y \in Conns |-> IF y \in {x} THEN "absent" ELSE [z \in Conns |-> LeaseState(z)][y]]
  BY <1>3
<1> QED BY <1>1, <1>4 DEF Lease!Break

\* Steps that do not show in the leases.
LEMMA OthersStutter ==
  ASSUME PoolInv,
         \/ \E c \in Calls : Queue(c) \/ CancelQueued(c) \/ ConnectFails(c)
         \/ \E x \in Conns : Expire(x) \/ PeerCloses(x)
         \/ CloseAllBegins
         \/ UNCHANGED vars
  PROVE  UNCHANGED Lease!vars
<1>1. UNCHANGED <<held, idle, connKey>>
  BY DEF Queue, CancelQueued, ConnectFails, Expire, PeerCloses, CloseAllBegins, vars, connVars
<1>2. \A y \in Conns : Closed(y)' <=> Closed(y)
  <2>1. sock \in [Conns -> {"open", "eof", "closed"}]
    BY DEF PoolInv, TypeOK
  <2>2. UNCHANGED sock \/ \E x \in Conns : sock[x] = "open" /\ sock' = [sock EXCEPT ![x] = "eof"]
    BY DEF Queue, CancelQueued, ConnectFails, Expire, PeerCloses, CloseAllBegins, vars, connVars
  <2> QED BY <2>1, <2>2 DEF Closed
<1>3. \A y : (Held(y)' <=> Held(y)) /\ (Spare(y)' <=> Spare(y))
  BY <1>1 DEF Held, Spare, IdleConns
<1>4. \A y \in Conns : LeaseState(y)' = LeaseState(y)
  BY <1>2, <1>3, StateStays
<1> QED BY <1>1, <1>4 DEF Lease!vars

\* At first all connections are absent.
LEMMA LeaseInit == Init => Lease!Init
<1> SUFFICES ASSUME Init PROVE Lease!Init
  OBVIOUS
<1>1. \A x \in Conns : LeaseState(x) = "absent"
  BY DEF Init, LeaseState, Closed
<1> QED BY <1>1 DEF Init, Lease!Init

\* Every step of the pool ends a lease, begins one, breaks connections, or does
\* not show in the leases.
LEMMA LeaseStepByKind ==
  ASSUME PoolInv, [Next]_vars
  PROVE  \/ \E c \in Calls : Talk(c) /\ Lease!Return(c)
         \/ \E c \in Calls, x \in Conns : Lease!Open(c, x) \/ Lease!Reuse(c, x)
         \/ \E x \in Conns : Lease!Break({x})
         \/ \E S \in SUBSET {x \in Conns : LeaseState(x) = "spare"} : Lease!Break(S)
         \/ UNCHANGED Lease!vars
<1> DEFINE Kinds ==
      \/ \E c \in Calls : Talk(c) /\ Lease!Return(c)
      \/ \E c \in Calls, x \in Conns : Lease!Open(c, x) \/ Lease!Reuse(c, x)
      \/ \E x \in Conns : Lease!Break({x})
      \/ \E S \in SUBSET {x \in Conns : LeaseState(x) = "spare"} : Lease!Break(S)
      \/ UNCHANGED Lease!vars
<1>1. ASSUME NEW c \in Calls, Enter(c) PROVE Kinds
  BY <1>1, AcquireLeases DEF Enter, LockIsFree
<1>2. ASSUME NEW k \in Keys, Grant(k) PROVE Kinds
  <2> DEFINE c == Head(waiters[k])
  <2>1. /\ holder[k] = NoCall /\ waiters[k] # <<>> /\ Acquire(c) /\ waiters[k] \in Seq(Calls)
    BY <1>2 DEF Grant, PoolInv, TypeOK
  <2>2. c = waiters[k][1] /\ c \in Calls /\ 1 \in DOMAIN waiters[k]
    BY <2>1
  <2>3. KeyOf[c] = k
    BY <2>2 DEF PoolInv, LockDiscipline
  <2> HIDE DEF c
  <2> QED BY <2>1, <2>2, <2>3, AcquireLeases
<1>3. ASSUME NEW c \in Calls, ConnectSucceeds(c) PROVE Kinds
  BY <1>3, ConnectLeases
<1>4. ASSUME NEW c \in Calls, Talk(c) PROVE Kinds
  BY <1>4, TalkReturns
<1>5. CASE Sweep \/ CloseAllEnds
  BY <1>5, SweepBreaks
<1>6. ASSUME NEW x \in Conns, PeerResets(x) PROVE Kinds
  BY <1>6, ResetBreaks
<1>7. CASE \/ \E c \in Calls : Queue(c) \/ CancelQueued(c) \/ ConnectFails(c)
           \/ \E x \in Conns : Expire(x) \/ PeerCloses(x)
           \/ CloseAllBegins
           \/ UNCHANGED vars
  BY <1>7, OthersStutter
<1>8. CASE \E c \in Calls : Enter(c) \/ ConnectSucceeds(c) \/ Talk(c)
  BY <1>1, <1>3, <1>4, <1>8
<1>9. CASE \E k \in Keys : Grant(k)
  BY <1>2, <1>9
<1>10. CASE \E x \in Conns : PeerResets(x)
  BY <1>6, <1>10
<1> QED BY <1>5, <1>7, <1>8, <1>9, <1>10 DEF Next, Connect

\* Every step of the pool is a step of the leases, or does not show in them.
LEMMA LeaseStep == PoolInv /\ [Next]_vars => [Lease!Next]_(Lease!vars)
<1> SUFFICES ASSUME PoolInv, [Next]_vars PROVE Lease!Next \/ UNCHANGED Lease!vars
  OBVIOUS
<1>1. ASSUME NEW S \in SUBSET {x \in Conns : LeaseState(x) = "spare"}, Lease!Break(S)
      PROVE  Lease!Next
  <2>1. S \in SUBSET {x \in Conns : [y \in Conns |-> LeaseState(y)][x] = "spare"}
    OBVIOUS
  <2> QED BY <1>1, <2>1 DEF Lease!Next
<1> QED BY <1>1, LeaseStepByKind DEF Lease!Next

\* The pool implements the leases: whatever tasks, devices, the sweeper and
\* close_all do, seen through its leases it is a behaviour of ConnectionLease.
THEOREM LeaseSpecHolds == Spec => LeaseSpec
<1> QED BY LeaseInit, LeaseStep, PoolInvHolds, PTL DEF Spec, LeaseSpec, Lease!Spec

-----------------------------------------------------------------------------
(* Sockets that are neither idle nor held                                   *)

\* Inductive, unlike SocketsAccounted: a cardinality says something only of a
\* finite set.
StrayInv == \A k \in Keys : IsFiniteSet(Strays(k)) /\ Cardinality(Strays(k)) <= lost[k]

\* The sockets left behind are those whose lease was abandoned.
LEMMA StraysByState ==
  ASSUME NEW k \in Keys
  PROVE  /\ Strays(k) = {x \in Conns : connKey[x] = k /\ LeaseState(x) = "stray"}
         /\ Strays(k)' = {x \in Conns : connKey'[x] = k /\ LeaseState(x)' = "stray"}
<1>1. ASSUME NEW x \in Conns
      PROVE  /\ Live(x) /\ ~Referenced(x) <=> LeaseState(x) = "stray"
             /\ Live(x)' /\ ~Referenced(x)' <=> LeaseState(x)' = "stray"
  BY DEF Live, Referenced, LeaseState
<1> QED BY <1>1 DEF Strays

\* Nothing is left behind when a lease begins, when connections break, or when
\* a step does not show in the leases.
LEMMA StraysShrink ==
  ASSUME PoolInv, NEW k \in Keys,
         \/ \E c \in Calls, x \in Conns : Lease!Open(c, x) \/ Lease!Reuse(c, x)
         \/ \E S \in SUBSET Conns : Lease!Break(S)
         \/ UNCHANGED Lease!vars
  PROVE  Strays(k)' \subseteq Strays(k)
<1> DEFINE st == [x \in Conns |-> LeaseState(x)]
<1>1. ASSUME NEW x \in Conns, connKey'[x] = k, st'[x] = "stray"
      PROVE  connKey[x] = k /\ st[x] = "stray"
  <2>1. ASSUME NEW c \in Calls, NEW y \in Conns, Lease!Open(c, y)
        PROVE  connKey[x] = k /\ st[x] = "stray"
    <3>1. st' = [st EXCEPT ![y] = "leased"] /\ connKey' = [connKey EXCEPT ![y] = KeyOf[c]]
      BY <2>1 DEF Lease!Open
    <3>2. DOMAIN st = Conns /\ connKey \in [Conns -> Keys]
      BY DEF PoolInv, TypeOK
    <3> HIDE DEF st
    <3>3. x # y
      BY <1>1, <3>1, <3>2
    <3> QED BY <1>1, <3>1, <3>2, <3>3
  <2>2. ASSUME NEW c \in Calls, NEW y \in Conns, Lease!Reuse(c, y)
        PROVE  connKey[x] = k /\ st[x] = "stray"
    <3>1. st' = [st EXCEPT ![y] = "leased"] /\ connKey' = connKey
      BY <2>2 DEF Lease!Reuse
    <3>2. DOMAIN st = Conns
      OBVIOUS
    <3> HIDE DEF st
    <3> QED BY <1>1, <3>1, <3>2
  <2>3. ASSUME NEW S \in SUBSET Conns, Lease!Break(S)
        PROVE  connKey[x] = k /\ st[x] = "stray"
    <3>1. st' = [y \in Conns |-> IF y \in S THEN "absent" ELSE st[y]] /\ connKey' = connKey
      BY <2>3 DEF Lease!Break
    <3> HIDE DEF st
    <3> QED BY <1>1, <3>1
  <2>4. CASE UNCHANGED Lease!vars
    BY <1>1, <2>4 DEF Lease!vars
  <2> QED BY <2>1, <2>2, <2>3, <2>4
<1>2. ASSUME NEW x \in Strays(k)'
      PROVE  x \in Strays(k)
  <2>1. x \in Conns /\ connKey'[x] = k /\ LeaseState(x)' = "stray"
    BY <1>2, StraysByState
  <2>2. connKey[x] = k /\ LeaseState(x) = "stray"
    BY <1>1, <2>1
  <2> QED BY <2>1, <2>2, StraysByState
<1> QED BY <1>2

\* As long as no set of them grows and no count falls, they are accounted for.
LEMMA StraysCounted ==
  ASSUME StrayInv, UNCHANGED lost, \A k \in Keys : Strays(k)' \subseteq Strays(k), PoolInv
  PROVE  StrayInv'
<1> SUFFICES ASSUME NEW k \in Keys
             PROVE  IsFiniteSet(Strays(k)') /\ Cardinality(Strays(k)') <= lost[k]
  BY DEF StrayInv
<1>1. /\ IsFiniteSet(Strays(k)) /\ Cardinality(Strays(k)) <= lost[k]
      /\ Cardinality(Strays(k)) \in Nat /\ lost[k] \in Nat
  BY FS_CardinalityType DEF StrayInv, PoolInv, TypeOK
<1>2. IsFiniteSet(Strays(k)') /\ Cardinality(Strays(k)') <= Cardinality(Strays(k))
  BY <1>1, FS_Subset
<1>3. Cardinality(Strays(k)') \in Nat
  BY <1>2, FS_CardinalityType
<1> QED BY <1>1, <1>2, <1>3

\* A connection that is released or discarded is idle or closed; only a lost
\* exchange leaves its socket behind, and it is counted.
LEMMA TalkStrays ==
  ASSUME PoolInv, StrayInv, NEW c \in Calls, Talk(c)
  PROVE  StrayInv'
<1>0. PICK x \in Conns : x = held[c]
  BY TalkEffect
<1>1. /\ connKey[x] = KeyOf[c] /\ connKey' = connKey /\ Lease!Return(c)
      /\ held' = [held EXCEPT ![c] = NoConn]
  BY <1>0, TalkEffect, TalkReturns
<1>2. ASSUME NEW y \in Conns, y # x
      PROVE  LeaseState(y)' = LeaseState(y)
  <2> DEFINE st == [z \in Conns |-> LeaseState(z)]
  <2>1. st' = st \/ \E s : st' = [st EXCEPT ![x] = s]
    BY <1>0, <1>1 DEF Lease!Return
  <2>2. DOMAIN st = Conns
    OBVIOUS
  <2>3. st'[y] = st[y]
    <3> HIDE DEF st
    <3> QED BY <1>2, <2>1, <2>2
  <2> QED BY <2>3
<1>3. ASSUME NEW k \in Keys
      PROVE  /\ Strays(k)' \subseteq Strays(k) \cup {x}
             /\ k # KeyOf[c] => Strays(k)' \subseteq Strays(k)
  <2> QED BY <1>1, <1>2, StraysByState
<1>4. CASE Lose(c)
  <2>1. lost' = [lost EXCEPT ![KeyOf[c]] = @ + 1] /\ lost \in [Keys -> Nat] /\ KeyOf[c] \in Keys
    BY <1>4 DEF Lose, PoolInv, TypeOK
  <2>2. ASSUME NEW k \in Keys
        PROVE  IsFiniteSet(Strays(k)') /\ Cardinality(Strays(k)') <= lost'[k]
    <3>1. /\ IsFiniteSet(Strays(k)) /\ Cardinality(Strays(k)) <= lost[k]
          /\ Cardinality(Strays(k)) \in Nat
      BY FS_CardinalityType DEF StrayInv
    <3>2. CASE k = KeyOf[c]
      <4>1. /\ IsFiniteSet(Strays(k) \cup {x})
            /\ Cardinality(Strays(k) \cup {x}) \in {Cardinality(Strays(k)), Cardinality(Strays(k)) + 1}
        BY <3>1, FS_AddElement
      <4>2. IsFiniteSet(Strays(k)') /\ Cardinality(Strays(k)') <= Cardinality(Strays(k) \cup {x})
        BY <1>3, <4>1, FS_Subset
      <4>3. Cardinality(Strays(k)') \in Nat
        BY <4>2, FS_CardinalityType
      <4>4. lost'[k] = lost[k] + 1 /\ lost[k] \in Nat
        BY <2>1, <3>2
      <4> QED BY <3>1, <4>1, <4>2, <4>3, <4>4
    <3>3. CASE k # KeyOf[c]
      <4>1. IsFiniteSet(Strays(k)') /\ Cardinality(Strays(k)') <= Cardinality(Strays(k))
        BY <1>3, <3>1, <3>3, FS_Subset
      <4>2. Cardinality(Strays(k)') \in Nat
        BY <4>1, FS_CardinalityType
      <4>3. lost'[k] = lost[k] /\ lost[k] \in Nat
        BY <2>1, <3>3
      <4> QED BY <3>1, <4>1, <4>2, <4>3
    <3> QED BY <3>2, <3>3
  <2> QED BY <2>2 DEF StrayInv
<1>5. CASE Finish(c) \/ Fail(c) \/ FailTwice(c)
  <2>1. LeaseState(x)' # "stray"
    <3>1. /\ idle[KeyOf[c]] \in Seq(Conns) /\ KeyOf[c] \in Keys /\ idle \in [Keys -> Seq(Conns)]
          /\ idle[KeyOf[c]] = <<>>
          /\ sock \in [Conns -> {"open", "eof", "closed"}]
      BY TalkEffect DEF PoolInv, TypeOK
    <3>2. PutBack(x, TRUE) \/ PutBack(x, FALSE)
      BY <1>0, <1>5 DEF Finish, Fail, FailTwice
    <3>3. sock' = [sock EXCEPT ![x] = "closed"] \/ idle' = [idle EXCEPT ![KeyOf[c]] = <<x>>]
      <4>1. Append(<<>>, x) = <<x>>
        OBVIOUS
      <4> QED BY <1>1, <3>1, <3>2, <4>1 DEF PutBack
    <3>4. CASE sock' = [sock EXCEPT ![x] = "closed"]
      BY <3>1, <3>4 DEF LeaseState, Closed
    <3>5. CASE idle' = [idle EXCEPT ![KeyOf[c]] = <<x>>]
      <4>1. idle'[KeyOf[c]] = <<x>>
        BY <3>1, <3>5
      <4>2. IdleConns(KeyOf[c])' = {x}
        BY <4>1, IdleConnsShort DEF IdleConns
      <4> QED BY <3>1, <4>2 DEF LeaseState
    <3> QED BY <3>3, <3>4, <3>5
  <2>2. UNCHANGED lost
    BY <1>5 DEF Finish, Fail, FailTwice
  <2>3. ASSUME NEW k \in Keys
        PROVE  Strays(k)' \subseteq Strays(k)
    <3>1. x \notin Strays(k)'
      BY <2>1, StraysByState
    <3> QED BY <1>3, <3>1
  <2> QED BY <2>2, <2>3, StraysCounted
<1> QED BY <1>4, <1>5 DEF Talk

\* At first there are no open sockets.
LEMMA StrayInit == Init => StrayInv
<1> SUFFICES ASSUME Init, NEW k \in Keys PROVE IsFiniteSet(Strays(k)) /\ Cardinality(Strays(k)) <= lost[k]
  BY DEF StrayInv
<1>1. Strays(k) = {} /\ lost[k] = 0
  BY DEF Init, Strays, Live, Closed
<1> QED BY <1>1, FS_EmptySet

\* No step but a lost exchange leaves a socket behind.
LEMMA StrayStep == PoolInv /\ StrayInv /\ [Next]_vars => StrayInv'
<1> SUFFICES ASSUME PoolInv, StrayInv, [Next]_vars PROVE StrayInv'
  OBVIOUS
<1>1. CASE \E c \in Calls : Talk(c)
  BY <1>1, TalkStrays
<1>2. CASE ~\E c \in Calls : Talk(c)
  <2>1. UNCHANGED lost
    BY <1>2 DEF Next, Enter, Queue, CancelQueued, Connect, ConnectFails, ConnectSucceeds, Grant,
                Expire, PeerCloses, PeerResets, Sweep, CloseAllBegins, CloseAllEnds, vars
  <2>2. \/ \E c \in Calls, x \in Conns : Lease!Open(c, x) \/ Lease!Reuse(c, x)
        \/ \E S \in SUBSET Conns : Lease!Break(S)
        \/ UNCHANGED Lease!vars
    BY <1>2, LeaseStepByKind
  <2>3. \A k \in Keys : Strays(k)' \subseteq Strays(k)
    BY <2>2, StraysShrink
  <2> QED BY <2>1, <2>3, StraysCounted
<1> QED BY <1>1, <1>2

\* The pool loses no socket but those of exchanges that ended in an exception
\* no adapter lists: every other open socket is idle or held by a task.
THEOREM SocketsAccountedHolds == Spec => []SocketsAccounted
<1>1. StrayInv => SocketsAccounted
  BY DEF StrayInv, SocketsAccounted
<1> QED BY <1>1, StrayInit, StrayStep, PoolInvHolds, PTL DEF Spec
=============================================================================
