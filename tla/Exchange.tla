------------------------------ MODULE Exchange ------------------------------
(***************************************************************************)
(* What travels on the pooled connections: the request-response exchanges  *)
(* of the adapters (modbus, modbus_rtu, fins, melsec, s7, enip) on top of  *)
(* module ConnectionPool, and a device that answers in the order it was    *)
(* asked, in one or two TCP segments, wrongly, late or never.              *)
(*                                                                         *)
(* A reply is told apart by the request it belongs to: the handshake       *)
(* ("hello"), the call that is still waiting for it, or a call that has    *)
(* gone ("late").  Frame contents are left out; so are exception replies,  *)
(* which the adapters raise only after the connection was given back.      *)
(***************************************************************************)
EXTENDS ConnectionPool

CONSTANTS
  Adapters,  \* the protocols the targets may speak
  MaxWire    \* bound: requests and replies on the way on one connection

ASSUME AdaptersAssumption ==
  Adapters \subseteq {"modbus", "modbus_rtu", "fins", "melsec", "s7", "enip"}
ASSUME WireAssumption == MaxWire \in Nat \ {0}
ASSUME TagsAssumption == Calls \cap {"late", "hello"} = {}

VARIABLES
  adapter,  \* the adapter whose code runs; it never changes
  kind,     \* what each call is: "read", "write" (plc_write) or "raw" (send_frame)
  stage,    \* within "using": nothing awaited, a handshake reply, or the reply
  outcome,  \* how each task's latest call ended
  audited,  \* the audit log holds the frame of the task's current call
  hello,    \* handshake rounds completed on a connection (conn.metadata)
  device,   \* requests the device has not (completely) answered, per connection
  inbox,    \* bytes received and not yet read, as pieces of replies
  rawUsed   \* history: the connection has carried a raw frame

callVars == <<kind, stage, outcome, audited>>
wireVars == <<hello, device, inbox, rawUsed>>
xvars    == <<vars, adapter, callVars, wireVars>>

-----------------------------------------------------------------------------
(* What tells the adapters apart                                            *)

\* Round trips before the first request: FINS/TCP node exchange, ENIP
\* RegisterSession, S7 COTP connect and PDU negotiation.
HelloRounds == IF adapter = "s7" THEN 2 ELSE IF adapter \in {"fins", "enip"} THEN 1 ELSE 0

\* enip.send_raw opens a connection of its own and never meets the pool.
Kinds == IF adapter = "enip" THEN {"read", "write"} ELSE {"read", "write", "raw"}

\* How a call reads its reply: exactly one frame, whatever one read() returns,
\* or whatever arrives until a frame is complete or the time is over.
ReadsFrame(c)     == ~(kind[c] = "raw" /\ adapter \in {"modbus", "modbus_rtu"})
ReadsOnce(c)      == kind[c] = "raw" /\ adapter = "modbus"
ReadsUntilDone(c) == kind[c] = "raw" /\ adapter = "modbus_rtu"

\* The write builds its frame, and calls on_frame, before it asks for the lock.
BuildsFirst == adapter \in {"modbus", "modbus_rtu", "melsec", "s7"}

\* The frame is built between acquire and release, where a ValueError is unlisted.
BuildsInside(c) ==
  /\ adapter \in {"fins", "s7", "enip"}
  /\ \/ kind[c] = "read"
     \/ kind[c] = "write" /\ ~BuildsFirst

\* The parser compares the reply with the request by a number that tells calls apart
\* (transaction id, PDU ref).  3E and RTU frames carry none; that of FINS, the SID, is
\* compared, but it is 1 in every call, since a call has an adapter of its own; ENIP
\* replies and the replies to an S7 write are parsed without the request; and raw
\* replies are not parsed.
ChecksId(c) ==
  /\ kind[c] # "raw"
  /\ adapter = "modbus" \/ (adapter = "s7" /\ kind[c] = "read")

-----------------------------------------------------------------------------
Tags  == Calls \cup {"late", "hello"}
Forms == {"whole", "first", "rest", "bad"}

ExchangeTypeOK ==
  /\ TypeOK
  /\ adapter \in Adapters
  /\ kind    \in [Calls -> {"read", "write", "raw"}]
  /\ stage   \in [Calls -> {"begin", "hello", "ask"}]
  /\ outcome \in [Calls -> {"none", "own", "foreign", "raw", "error"}]
  /\ audited \in [Calls -> BOOLEAN]
  /\ hello   \in [Conns -> 0..HelloRounds]
  /\ device  \in [Conns -> Seq([to : Tags, part : {"none", "first"}])]
  /\ inbox   \in [Conns -> Seq([to : Tags, form : Forms])]
  /\ rawUsed \in [Conns -> BOOLEAN]

ExchangeInit ==
  /\ Init
  /\ adapter \in Adapters
  /\ kind    = [c \in Calls |-> "read"]
  /\ stage   = [c \in Calls |-> "begin"]
  /\ outcome = [c \in Calls |-> "none"]
  /\ audited = [c \in Calls |-> FALSE]
  /\ hello   = [x \in Conns |-> 0]
  /\ device  = [x \in Conns |-> <<>>]
  /\ inbox   = [x \in Conns |-> <<>>]
  /\ rawUsed = [x \in Conns |-> FALSE]

\* A closed connection takes what was on it along; a device that has closed its
\* side answers no more, but what it sent before can still be read.
Wires(h, d, i) ==
  /\ UNCHANGED adapter
  /\ hello'  = [x \in Conns |-> IF sock'[x] = "closed" THEN 0 ELSE h[x]]
  /\ device' = [x \in Conns |-> IF sock'[x] = "open" THEN d[x] ELSE <<>>]
  /\ inbox'  = [x \in Conns |-> IF sock'[x] = "closed" THEN <<>> ELSE i[x]]
  /\ rawUsed' = [x \in Conns |->
                   /\ sock'[x] # "closed"
                   /\ \/ rawUsed[x]
                      \/ \E c \in Calls : held[c] = x /\ stage[c] = "ask" /\ kind[c] = "raw"]
KeepWires == Wires(hello, device, inbox)

\* Once c has left, nobody waits for its replies any more.
Orphan(s, c) ==
  [i \in DOMAIN s |-> IF s[i].to = c THEN [s[i] EXCEPT !.to = "late"] ELSE s[i]]

\* c ends with the given outcome; rest is what it leaves unread on its connection.
End(c, result, rest) ==
  LET x == held[c] IN
  /\ outcome' = [outcome EXCEPT ![c] = result]
  /\ stage'   = [stage EXCEPT ![c] = "begin"]
  /\ Wires(hello, [device EXCEPT ![x] = Orphan(@, c)],
                  [inbox EXCEPT ![x] = Orphan(rest, c)])
  /\ UNCHANGED <<kind, audited>>

-----------------------------------------------------------------------------
(* A call up to its connection                                              *)

\* send_frame audits before it calls the adapter; a write that builds its frame
\* first has it audited right away.
Begin(c) ==
  /\ Enter(c) \/ Queue(c)
  /\ \E kd \in Kinds :
       /\ kind'    = [kind EXCEPT ![c] = kd]
       /\ audited' = [audited EXCEPT
                        ![c] = (kd = "raw") \/ (kd = "write" /\ BuildsFirst)]
  /\ outcome' = [outcome EXCEPT ![c] = "none"]
  /\ UNCHANGED stage
  /\ KeepWires

Resume(k) == Grant(k) /\ UNCHANGED callVars /\ KeepWires

Connected(c) == ConnectSucceeds(c) /\ UNCHANGED callVars /\ KeepWires

GiveUp(c) ==
  /\ CancelQueued(c) \/ ConnectFails(c)
  /\ outcome' = [outcome EXCEPT ![c] = "error"]
  /\ UNCHANGED <<kind, stage, audited>>
  /\ KeepWires

-----------------------------------------------------------------------------
(* Writing                                                                  *)

Send(x, tag) == [device EXCEPT ![x] = Append(@, [to |-> tag, part |-> "none"])]
HasRoom(x)   == Len(device[x]) + Len(inbox[x]) < MaxWire

\* Mutated form: one round trip is enough.
HalfIntroduced(x) == hello[x] > 0
Introduced(x) == hello[x] = HelloRounds

\* _ensure_handshake, _ensure_session: one more round trip is due.
SayHello(c) ==
  LET x == held[c] IN
  /\ pc[c] = "using" /\ stage[c] = "begin"
  /\ ~Introduced(x)
  /\ HasRoom(x)
  /\ stage' = [stage EXCEPT ![c] = "hello"]
  /\ UNCHANGED <<vars, kind, outcome, audited>>
  /\ Wires(hello, Send(x, "hello"), inbox)

\* Mutated form: on_frame is forgotten where the frame is built under the lock.
AuditForgotten(c) == UNCHANGED audited
\* on_frame, in the adapters that build the frame of a write under the lock.
AuditOnBuild(c) == audited' = [audited EXCEPT ![c] = @ \/ (kind[c] = "write")]

Ask(c) ==
  LET x == held[c] IN
  /\ pc[c] = "using" /\ stage[c] = "begin"
  /\ Introduced(x)
  /\ HasRoom(x)
  /\ AuditOnBuild(c)
  /\ stage' = [stage EXCEPT ![c] = "ask"]
  /\ UNCHANGED <<vars, kind, outcome>>
  /\ Wires(hello, Send(x, c), inbox)

\* The frame builder refuses the arguments of the call.
CannotBuild(c) ==
  /\ pc[c] = "using" /\ stage[c] = "begin"
  /\ Introduced(held[c])
  /\ BuildsInside(c)
  /\ Lose(c)
  /\ End(c, "error", inbox[held[c]])

-----------------------------------------------------------------------------
(* Reading                                                                  *)

\* The number of pieces that make the frame at the head of the inbox, or 0.
HeadFrame(x) ==
  IF inbox[x] = <<>> THEN 0
  ELSE CASE Head(inbox[x]).form = "whole"                        -> 1
         [] Head(inbox[x]).form = "first" /\ Len(inbox[x]) > 1 -> 2
         [] OTHER                                              -> 0
\* The head cannot begin a frame: an implausible header, or the middle of a reply.
HeadIsWrong(x)   == inbox[x] # <<>> /\ Head(inbox[x]).form \in {"bad", "rest"}
AfterFrame(x, n) == SubSeq(inbox[x], n + 1, Len(inbox[x]))

Awaits(c, s) == pc[c] = "using" /\ stage[c] = s

\* The handshake reply is accepted.
HearHello(c) ==
  LET x == held[c] n == HeadFrame(held[c]) IN
  /\ Awaits(c, "hello")
  /\ n > 0
  /\ stage' = [stage EXCEPT ![c] = "begin"]
  /\ UNCHANGED <<vars, kind, outcome, audited>>
  /\ Wires([hello EXCEPT ![x] = @ + 1], device, [inbox EXCEPT ![x] = AfterFrame(x, n)])

\* The handshake reply is refused: as a ProtocolError, as a ValueError nobody
\* lists (fins, enip), or, in s7, by a discard of its own and a ProtocolError.
HelloRefused(c) ==
  /\ Awaits(c, "hello")
  /\ HeadIsWrong(held[c])
  /\ \/ Fail(c)
     \/ adapter \in {"fins", "enip"} /\ Lose(c)
     \/ adapter = "s7" /\ FailTwice(c)
  /\ End(c, "error", inbox[held[c]])

Accepts(c, tag) == ChecksId(c) => tag = c

\* One complete frame is read, the connection released, and the reply parsed.
HearReply(c) ==
  LET x == held[c] n == HeadFrame(held[c]) tag == Head(inbox[x]).to IN
  /\ Awaits(c, "ask") /\ ReadsFrame(c)
  /\ n > 0
  /\ Finish(c)
  /\ End(c, IF ~Accepts(c, tag) THEN "error"
            ELSE IF kind[c] = "raw" THEN "raw"
            ELSE IF tag = c THEN "own" ELSE "foreign",
         AfterFrame(x, n))

\* The bytes at the head make no frame: the reader raises and the connection is
\* discarded; bytes from the middle of a reply may also pass for a frame, which
\* the parser then refuses with the connection already released.  The ASCII
\* frames of melsec carry their length as text, and int(text, 16) may raise.
HearNonsense(c) ==
  /\ Awaits(c, "ask") /\ ReadsFrame(c)
  /\ HeadIsWrong(held[c])
  /\ \/ Fail(c) /\ End(c, "error", inbox[held[c]])
     \/ adapter = "melsec" /\ Lose(c) /\ End(c, "error", inbox[held[c]])
     \/ /\ Head(inbox[held[c]]).form = "rest"
        /\ Finish(c)
        /\ End(c, "error", Tail(inbox[held[c]]))

\* Mutated form: a timeout gives the connection back.
TimeoutReleases(c) == Finish(c)
\* What the adapter does with the connection of a call that timed out.
OnTimeout(c) == Fail(c)

\* No complete frame arrives: TimeoutError, IncompleteReadError or a reset.
HearNothing(c) ==
  /\ Awaits(c, "hello") \/ (Awaits(c, "ask") /\ ReadsFrame(c))
  /\ HeadFrame(held[c]) = 0 /\ ~HeadIsWrong(held[c])
  /\ OnTimeout(c)
  /\ End(c, "error", inbox[held[c]])

\* modbus.send_raw: one reader.read(4096); at EOF it returns no bytes and no error.
ReadOnce(c) ==
  LET x == held[c] IN
  /\ Awaits(c, "ask") /\ ReadsOnce(c)
  /\ \/ /\ Live(x)
        /\ inbox[x] # <<>> \/ sock[x] = "eof"
        /\ Finish(c)
        /\ End(c, "raw", <<>>)
     \/ inbox[x] = <<>> /\ sock[x] # "eof" /\ OnTimeout(c) /\ End(c, "error", <<>>)

\* modbus_rtu.send_raw: a frame, a timeout and EOF all return what has arrived.
ReadUntilDone(c) ==
  /\ Awaits(c, "ask") /\ ReadsUntilDone(c)
  /\ \/ Live(held[c]) /\ Finish(c) /\ End(c, "raw", <<>>)
     \/ Closed(held[c]) /\ Fail(c) /\ End(c, "error", <<>>)

\* The client cancels the tool call while its task waits for the device.
Cancel(c) ==
  /\ Awaits(c, "hello") \/ Awaits(c, "ask")
  /\ Lose(c)
  /\ End(c, "error", inbox[held[c]])

-----------------------------------------------------------------------------
(* The device and the rest of the pool                                      *)

\* The device answers its oldest request: at once, in two segments, or with a
\* frame the readers find implausible.
Reply(x) ==
  LET q == Head(device[x]) IN
  /\ device[x] # <<>>
  /\ UNCHANGED <<vars, callVars>>
  /\ \/ \E form \in {"whole", "bad"} :
          /\ q.part = "none"
          /\ Wires(hello, [device EXCEPT ![x] = Tail(@)],
                   [inbox EXCEPT ![x] = Append(@, [to |-> q.to, form |-> form])])
     \/ /\ q.part = "none"
        /\ Wires(hello, [device EXCEPT ![x][1].part = "first"],
                 [inbox EXCEPT ![x] = Append(@, [to |-> q.to, form |-> "first"])])
     \/ /\ q.part = "first"
        /\ Wires(hello, [device EXCEPT ![x] = Tail(@)],
                 [inbox EXCEPT ![x] = Append(@, [to |-> q.to, form |-> "rest"])])

\* The device drops its oldest request.
Ignore(x) ==
  /\ device[x] # <<>>
  /\ UNCHANGED <<vars, callVars>>
  /\ Head(device[x]).part = "none"
  /\ Wires(hello, [device EXCEPT ![x] = Tail(@)], inbox)

Elsewhere ==
  /\ \/ \E x \in Conns : Expire(x) \/ PeerCloses(x) \/ PeerResets(x)
     \/ Sweep
  /\ UNCHANGED callVars
  /\ KeepWires

ExchangeNext ==
  \/ \E c \in Calls :
       \/ Begin(c) \/ Connected(c) \/ GiveUp(c)
       \/ SayHello(c) \/ HearHello(c) \/ HelloRefused(c)
       \/ CannotBuild(c) \/ Ask(c)
       \/ HearReply(c) \/ HearNonsense(c) \/ HearNothing(c)
       \/ ReadOnce(c) \/ ReadUntilDone(c) \/ Cancel(c)
  \/ \E k \in Keys : Resume(k)
  \/ \E x \in Conns : Reply(x) \/ Ignore(x)
  \/ Elsewhere

ExchangeSpec == ExchangeInit /\ [][ExchangeNext]_xvars

-----------------------------------------------------------------------------
(* Properties                                                               *)

\* A read or write that succeeds was answered by the reply to its own request:
\* the lock, the discards and the id checks keep late replies of calls that
\* timed out, were cancelled or were cut in two from being taken for it.
AnswersAreOwn == \A c \in Calls : outcome[c] # "foreign"

\* The same for every protocol but RTU over TCP, which lacks an id as 3E and
\* ENIP do, and whose raw frames, unlike theirs, do not discard on a timeout.
NoForeignAnswer == adapter # "modbus_rtu" => AnswersAreOwn

\* A connection in the pool is in step: no reply to an earlier call is waiting on
\* it or still to come.  Where that fails, a raw Modbus frame is to blame.
IdleIsInStep ==
  \A k \in Keys : \A x \in IdleConns(k) :
    \/ device[x] = <<>> /\ inbox[x] = <<>>
    \/ rawUsed[x] /\ adapter \in {"modbus", "modbus_rtu"}

\* No request travels on a connection before its handshake is complete, and no
\* handshake is begun again once it is.
HandshakeComesFirst ==
  \A x \in Conns :
    \/ /\ hello[x] < HelloRounds
       /\ \A i \in DOMAIN device[x] : device[x][i].to = "hello"
       /\ \A i \in DOMAIN inbox[x] : inbox[x][i].to = "hello"
    \/ /\ hello[x] = HelloRounds
       /\ \A i \in DOMAIN device[x] : device[x][i].to # "hello"
       /\ \A i \in DOMAIN inbox[x] : inbox[x][i].to # "hello"

\* No write or raw frame reaches a device that the audit log does not hold.
AuditBeforeSend ==
  \A c \in Calls : \A x \in Conns : \A i \in DOMAIN device[x] :
    (device[x][i].to = c /\ kind[c] # "read") => audited[c]

-----------------------------------------------------------------------------
(* What makes the properties above inductive                                *)

\* A request or a piece of a reply with that tag is on the connection.
Tagged(x, tag) ==
  \/ \E i \in DOMAIN device[x] : device[x][i].to = tag
  \/ \E i \in DOMAIN inbox[x] : inbox[x][i].to = tag

Bare(x) == device[x] = <<>> /\ inbox[x] = <<>>

\* At most one reply is owed on the connection, and its pieces are in order.
OnlyDue(x, tag) ==
  \/ Bare(x)
  \/ device[x] = <<[to |-> tag, part |-> "none"]>> /\ inbox[x] = <<>>
  \/ /\ device[x] = <<[to |-> tag, part |-> "first"]>>
     /\ inbox[x] = <<[to |-> tag, form |-> "first"]>>
  \/ /\ device[x] = <<>>
     /\ \/ \E f \in {"whole", "bad", "first"} : inbox[x] = <<[to |-> tag, form |-> f]>>
        \/ inbox[x] = <<[to |-> tag, form |-> "first"], [to |-> tag, form |-> "rest"]>>

\* Only a raw Modbus frame may leave something behind on a pooled connection.
MayBeStale(x) == rawUsed[x] /\ adapter \in {"modbus", "modbus_rtu"}

\* HandshakeComesFirst of one connection, in terms of tags.
HelloFirst(x) ==
  \/ hello[x] < HelloRounds /\ \A tag \in Tags \ {"hello"} : ~Tagged(x, tag)
  \/ hello[x] = HelloRounds /\ ~Tagged(x, "hello")

\* A connection that is closed carries nothing, a device that has closed its side
\* answers nothing, and the handshake is over before anything else is asked.
WireOK(x) ==
  /\ hello[x]   \in 0..HelloRounds
  /\ device[x]  \in Seq([to : Tags, part : {"none", "first"}])
  /\ inbox[x]   \in Seq([to : Tags, form : Forms])
  /\ rawUsed[x] \in BOOLEAN
  /\ Closed(x) => hello[x] = 0 /\ Bare(x)
  /\ sock[x] = "eof" => device[x] = <<>>
  /\ HelloFirst(x)

\* The connection c uses carries what c waits for and nothing else; the tag of c
\* is on no other; and what has to be audited is, when c asks.
CallOK(c) ==
  /\ stage[c] # "begin" => pc[c] = "using"
  /\ pc[c] = "using" => \E x \in Conns :
       /\ held[c] = x
       /\ \/ MayBeStale(x) /\ stage[c] # "hello"
          \/ stage[c] = "begin" /\ Bare(x)
          \/ stage[c] = "hello" /\ OnlyDue(x, "hello")
          \/ stage[c] = "ask" /\ OnlyDue(x, c)
  /\ \A x \in Conns : Tagged(x, c) => held[c] = x /\ stage[c] = "ask"
  /\ kind[c] = "raw" \/ (kind[c] = "write" /\ stage[c] = "ask") => audited[c]
  /\ outcome[c] = "foreign" => adapter = "modbus_rtu"

\* The inductive invariant of the exchanges, on top of PoolInv.
ExchangeInv ==
  /\ ExchangeTypeOK
  /\ \A x \in Conns : WireOK(x)
  /\ \A c \in Calls : CallOK(c)
  /\ IdleIsInStep
=============================================================================
