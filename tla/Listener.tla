------------------------------ MODULE Listener ------------------------------
(***************************************************************************)
(* The connections of one listener (listener.py, _serve and _recv_frame):  *)
(* clients that take it for a device send it requests, in pieces and, some *)
(* of them, without waiting; it records every frame it cuts out of the     *)
(* stream and, by its mode, answers or answers with faults.                *)
(*                                                                         *)
(* Start, stop and the life of the tasks are in PortRegistry.              *)
(***************************************************************************)
EXTENDS ListenerAnswers

CONSTANTS Clients,      \* connections
          Hasty,        \* those that send a request before the last is taken up
          Dialects,     \* what the clients may speak
          FrameLimit,   \* _LISTENER_FRAME_LIMIT
          PieceSizes,   \* how much of what is there a read may return
          MaxRequests   \* bound: requests of all the clients

ASSUME ListenerAssumption ==
  /\ Hasty \subseteq Clients
  /\ Dialects \subseteq MC!FRAME_FORMATS \cup {"modbus", "fins", "iec104", "enip", "enip_bare"}
  /\ FrameLimit \in Nat \ {0}
  /\ PieceSizes \subseteq Nat \ {0}

VARIABLES setup,      \* what start was given: dialect, mode and faults; never changes
          asked,      \* the requests each client has sent
          wire,       \* bytes sent and not read
          buf,        \* the local buffer of _recv_frame
          phase,      \* where the handler of a connection is
          node,       \* fins_node: 0 before the handshake
          reply,      \* the answer being drained: question, answer, fault
          frames,     \* the ring of recorded frames
          resp_count  \* answers a fault was chosen for

vars == <<setup, asked, wire, buf, phase, node, reply, frames, resp_count>>

MODES  == {"record_only", "respond_normal", "inject_errors"}
Phases == {"receiving", "draining", "ended"}
ProtocolOf(dialect) == CASE dialect \in MC!FRAME_FORMATS -> "melsec"
                         [] dialect \in {"enip", "enip_bare"} -> "enip"
                         [] OTHER -> dialect
protocol == ProtocolOf(setup.dialect)

\* start refuses faults in another mode, and the mode without them.  All of a
\* protocol's faults in turn, beginning with any; of those that are not in the
\* catalog, start takes garbage.
Rotations(dialect) ==
  LET all == IF ProtocolOf(dialect) \in {"iec104", "enip"} THEN <<"garbage">> ELSE SetToSeq(FAULT_CATALOG[ProtocolOf(dialect)])
  IN {From(all, i) \o Upto(all, i) : i \in 0..Len(all) - 1}
Setups ==
  UNION {[dialect : {d}, mode : MODES \ {"inject_errors"}, faults : {<<>>}]
           \cup [dialect : {d}, mode : {"inject_errors"}, faults : Rotations(d)] : d \in Dialects}

\* What a client of each dialect asks: what has an answer, what has none, and
\* what the listener chokes on.  dest is the node a FINS client was told of.  The
\* adapter puts tag services into an envelope; other clients need not.
ModbusRequests ==
  {MB!BuildReadRequest(1, 1, 3, 0, 2), MB!BuildReadRequest(2, 1, 1, 7, 9), MB!BuildWriteSingle(3, 1, 6, 0, 5),
   MB!BuildWriteMultiple(4, 1, 0, <<1, 2>>), MB!Mbap(5, 1, <<3, 0, 0, 0, 200>>)}
FinsRequests(dest) ==
  {FI!BuildHandshakeRequest(1), FI!BuildHandshakeRequest(2),
   FI!BuildReadRequest(9, 1, 130, 0, 2, dest), FI!BuildMemoryAreaWrite(8, 1, 130, 0, <<7>>, dest)}
Iec104Requests ==
  {IEC!BuildApciU(IEC!U_STARTDT_ACT), IEC!BuildApciS(0),
   IEC!BuildApciI(1, 32766, IEC!BuildAsduInterrogation(20, 1, 6)), IEC!BuildApciI(0, 0, IEC!BuildAsduRead(200, 1))}
MelsecRequests(fmt) ==
  {MC!BuildReadRequest(fmt, "D", 100, 2, 255, 0, 4, 1), MC!BuildReadRequest(fmt, "X", 16, 20, 255, 0, 4, 2),
   MC!BuildWriteRequest(fmt, "D", 100, <<7>>, 255, 0, 4, 3)}
EnipRequests ==
  {ENIP!BuildRegisterSession, ENIP!BuildListIdentity,
   ENIP!BuildSendRrData(1, ENIP!BuildUnconnectedSend(ENIP!BuildReadTag(ALPHA, 0, 2)), FALSE)}
BEYOND_REPLY == 20000   \* elements an answer has no room for
BareRequests ==
  {ENIP!BuildSendRrData(1, ENIP!BuildReadTag(ALPHA, 0, 2), FALSE), ENIP!BuildSendRrData(1, ENIP!BuildReadTag(BETA, -1, 2), FALSE),
   ENIP!BuildSendRrData(1, ENIP!BuildReadTag(ALPHA, 0, BEYOND_REPLY), FALSE),
   ENIP!BuildSendRrData(1, ENIP!BuildWriteTag(BETA, 1, ENIP!INT, <<7>>), FALSE)}
Requests(dialect, dest) ==
  CASE dialect = "modbus" -> ModbusRequests
    [] dialect = "fins"   -> FinsRequests(dest)
    [] dialect = "iec104" -> Iec104Requests
    [] dialect \in MC!FRAME_FORMATS -> MelsecRequests(dialect)
    [] dialect = "enip"   -> EnipRequests
    [] dialect = "enip_bare" -> BareRequests

NoReply == [question |-> <<>>, answer |-> <<>>, fault |-> "none"]

Init ==
  /\ setup \in Setups
  /\ asked = [c \in Clients |-> <<>>]
  /\ wire  = [c \in Clients |-> <<>>]
  /\ buf   = [c \in Clients |-> <<>>]
  /\ phase = [c \in Clients |-> "receiving"]
  /\ node  = [c \in Clients |-> 0]
  /\ reply = [c \in Clients |-> NoReply]
  /\ frames = <<>>
  /\ resp_count = 0

-----------------------------------------------------------------------------
(* The clients                                                              *)

TakenUp(c) == phase[c] = "receiving" /\ wire[c] = <<>> /\ buf[c] = <<>>

\* A FINS client needs the answer to its handshake before it can go on.
Ask(c) ==
  /\ phase[c] # "ended"
  /\ TakenUp(c) \/ (c \in Hasty /\ protocol # "fins")
  /\ FoldLeft(LAMBDA n, x : n + Len(asked[x]), 0, SetToSeq(Clients)) < MaxRequests
  /\ \E q \in Requests(setup.dialect, node[c]) :
       /\ asked' = [asked EXCEPT ![c] = Append(@, q)]
       /\ wire'  = [wire EXCEPT ![c] = @ \o q]
  /\ UNCHANGED <<setup, buf, phase, node, reply, frames, resp_count>>

-----------------------------------------------------------------------------
(* The listener                                                             *)

\* Mutated forms: the ring is not trimmed, or one frame too far.
TrimNothing(s) == s
TrimTooFar(s)  == IF Len(s) >= FrameLimit THEN SubSeq(s, Len(s) - FrameLimit + 2, Len(s)) ELSE s
Trim(s) == IF Len(s) > FrameLimit THEN SubSeq(s, Len(s) - FrameLimit + 1, Len(s)) ELSE s

Record(direction, c, f) ==
  frames' = Trim(Append(frames, [direction |-> direction, peer |-> c, frame |-> f]))

IsHello(f) == protocol = "fins" /\ Len(f) >= FI!TCP_HEADER_LEN /\ U32(f, 8) = FI!TCP_CMD_CONNECT_REQ

Fault == IF setup.mode = "inject_errors"
         THEN setup.faults[(resp_count % Len(setup.faults)) + 1] ELSE "none"

Write(c, question, answer, fault) ==
  /\ reply' = [reply EXCEPT ![c] = [question |-> question, answer |-> answer, fault |-> fault]]
  /\ phase' = [phase EXCEPT ![c] = "draining"]

\* One turn of _serve, from the frame received to the next suspension.
Serve(c, f) ==
  \E answer \in {BuildNormalResponse(protocol, f, node[c])} :
     LET silent == setup.mode = "record_only" \/ answer = None IN
     /\ Record("recv", c, f)
     /\ \/ /\ silent
           /\ UNCHANGED <<phase, reply, node, resp_count>>
        \/ /\ ~silent /\ answer = Raises
           /\ phase' = [phase EXCEPT ![c] = "ended"]
           /\ UNCHANGED <<reply, node, resp_count>>
        \/ /\ ~silent /\ answer # Raises /\ IsHello(f)
           /\ node' = [node EXCEPT ![c] = At(answer, FI!TCP_HEADER_LEN + 3)]
           /\ Write(c, f, answer, "none")
           /\ UNCHANGED resp_count
        \/ /\ ~silent /\ answer # Raises /\ ~IsHello(f)
           /\ Write(c, f, IF Fault = "none" THEN answer ELSE ApplyFault(protocol, f, answer, Fault), Fault)
           /\ resp_count' = IF Fault = "none" THEN resp_count ELSE resp_count + 1
           /\ UNCHANGED node

\* Mutated form: what was read before is thrown away.
ChunkAlone(b, chunk) == chunk
Joined(b, chunk)     == b \o chunk

\* What a read returns: a piece of what is there, or all of it.
TakeBytes(c, size) ==
  /\ phase[c] = "receiving"
  /\ size \in PieceSizes \cup {Len(wire[c])}
  /\ size \in 1..Len(wire[c])
  /\ wire' = [wire EXCEPT ![c] = From(@, size)]

\* A frame leaves _recv_frame with its buffer: what follows it there is gone.
Read(c) ==
  /\ \E size \in 1..Len(wire[c]) :
       /\ TakeBytes(c, size)
       /\ \E b \in {Joined(buf[c], Upto(wire[c], size))} : \E n \in {TryFrameLen(protocol, b)} :
         /\ buf' = [buf EXCEPT ![c] = IF n = More THEN b ELSE <<>>]
         /\ \/ n = More /\ UNCHANGED <<phase, reply, node, frames, resp_count>>
            \/ n = 0 /\ phase' = [phase EXCEPT ![c] = "ended"] /\ UNCHANGED <<reply, node, frames, resp_count>>
            \/ n > 0 /\ \E f \in {Upto(b, n)} : Serve(c, f)
  /\ UNCHANGED <<setup, asked>>

Drained(c) ==
  /\ phase[c] = "draining"
  /\ phase' = [phase EXCEPT ![c] = "receiving"]
  /\ reply' = [reply EXCEPT ![c] = NoReply]
  /\ Record("send", c, reply[c].answer)
  /\ UNCHANGED <<setup, asked, wire, buf, node, resp_count>>

\* End of file, the idle timeout, or an exception while an answer is drained.
EndServing(c) ==
  /\ phase[c] # "ended"
  /\ phase' = [phase EXCEPT ![c] = "ended"]
  /\ reply' = [reply EXCEPT ![c] = NoReply]
  /\ UNCHANGED <<setup, asked, wire, buf, node, frames, resp_count>>

Next == \E c \in Clients : Ask(c) \/ Read(c) \/ Drained(c) \/ EndServing(c)

Spec == Init /\ [][Next]_vars

\* The event loop lets a handler go on when there is something to read (Read is
\* the only step that takes bytes) and when its answer is drained.
FairSpec ==
  /\ Spec
  /\ \A c \in Clients : WF_wire(\E size \in 1..Len(wire[c]) : TakeBytes(c, size)) /\ WF_vars(Drained(c))

-----------------------------------------------------------------------------

TypeOK ==
  /\ setup \in Setups
  /\ phase \in [Clients -> Phases]
  /\ node \in [Clients -> BYTE]
  /\ Len(frames) <= FrameLimit
  /\ \A i \in DOMAIN frames : frames[i].direction \in {"recv", "send"} /\ frames[i].peer \in Clients
  /\ \A c \in Clients : phase[c] = "draining" <=> reply[c] # NoReply
  /\ resp_count \in Nat

\* Every builder makes frames that streams.py cuts where they end and nowhere
\* before, and that the parser of requests accepts, so that listener, proxy and
\* capture analysis see the frames the adapters send.
Accepted(q) ==
  CASE protocol = "modbus" -> MB!ParseRequest(q) \subseteq {"quantity"}
    [] protocol = "fins"   -> FI!ParseRequest(q) = {}
    [] protocol = "iec104" -> IEC!ValidateFrame(q) = {} /\ IEC!ParseFrame(q).direction = "req"
    [] protocol = "melsec" -> MC!ParseRequestFmt(q, setup.dialect) = {}
    [] protocol = "enip"   -> ENIP!ParseRequest(q) \cup ENIP!ValidateFrame(q) = {}
EndsAreSeen == \A c \in Clients : \A q \in Range(asked[c]) : CutWhole(protocol, q)
FramesAreCutWhole == EndsAreSeen /\ \A c \in Clients : \A q \in Range(asked[c]) : Accepted(q)

\* What the ENIP adapter makes of the answer to a tag service: the CIP part has to
\* come in an item of the type replies have, and to answer this service.
TagService(q) == At(q, ENIP!ENIP_HEADER_LEN + 16)
TagReply(q, r) == ENIP!ParseTagReply(ENIP!CipReplyOf(r).cip, TagService(q))
EnipErrors(q, r) ==
  CASE L16(q, 0) = ENIP!CMD_REGISTER_SESSION -> Found([session |-> ~ENIP!ParseRegisterSessionResponse(r).ok])
    [] L16(q, 0) = ENIP!CMD_LIST_IDENTITY    -> Found([identity |-> ~ENIP!ParseListIdentityResponse(r).ok])
    [] L16(q, 0) = ENIP!CMD_SEND_RR_DATA     ->
         IF ENIP!CipReplyOf(r).ok THEN TagReply(q, r).errors ELSE {"reply"}

\* The errors an adapter's parser finds in an answer to a question.
ErrorsOf(q, r) ==
  CASE protocol = "modbus" -> MB!ParseResponse(r, q) \cup MB!ValidateFrame(r, "resp")
    [] protocol = "fins" /\ IsHello(q) -> Found([handshake |-> ~FI!ParseHandshakeResponse(r).ok])
    [] protocol = "fins" /\ ~IsHello(q) -> FI!ParseResponse(r, q) \cup FI!ValidateFrame(r, "resp")
    [] protocol = "iec104" ->
         UNION {IEC!ValidateFrame(f) : f \in Range(SplitFrames("iec104", r).frames)}
           \cup Found([tail |-> SplitFrames("iec104", r).tail # <<>>])
    [] protocol = "melsec" -> MC!ParseResponseFmt(r, q, setup.dialect) \cup MC!ValidateFrameFmt(r, "resp", setup.dialect)
    [] protocol = "enip"   -> EnipErrors(q, r) \cup ENIP!ValidateFrame(r)
CodeOf(r) ==
  CASE protocol = "modbus" -> MB!ExceptionCode(r)
    [] protocol = "fins"   -> FI!EndCode(r)
    [] protocol \in {"iec104", "enip"} -> 0
    [] protocol = "melsec" -> MC!EndCode(r, setup.dialect)

\* The listener writes its answers by hand, not with the codecs: an answer it
\* was told to give without a fault is one the adapter of that protocol takes
\* for the answer to this very request, if the client did ask it.  An IEC 104
\* interrogation is answered with four frames numbered in sequence from what the
\* client expects; a tag is read in full.  Of bare tag services, which nobody's
\* adapter asks, the code keeps this not at all: it answers in an item of requests.
AnswersAreRight ==
  \A c \in Clients :
     LET q == reply[c].question
         r == reply[c].answer
         split == SplitFrames("iec104", r)
         Number(k) == L16(split.frames[k], 2) \div 2
     IN (phase[c] = "draining" /\ reply[c].fault = "none" /\ q \in Range(asked[c])) =>
          /\ ErrorsOf(q, r) = {} /\ CodeOf(r) = 0
          /\ (protocol = "iec104" /\ IEC!ApciFormat(q) = "I") =>
               /\ Len(split.frames) = 4 /\ split.tail = <<>>
               /\ \A k \in 1..4 : Number(k) = ((L16(q, 4) \div 2) + k - 1) % 32768
          /\ (protocol = "enip" /\ L16(q, 0) = ENIP!CMD_SEND_RR_DATA /\ TagService(q) = ENIP!SVC_READ_TAG) =>
               Len(TagReply(q, r).words) >= 2 * L16(q, Len(q) - 2)

\* A fault that was injected can be seen: the adapter's parser objects, or the
\* answer bears an error code.  A fault nobody can see would be recorded as
\* an evaluation of the diagnosis that was passed.
FaultsAreSeen ==
  \A c \in Clients :
     (phase[c] = "draining" /\ reply[c].fault # "none" /\ reply[c].question \in Range(asked[c])) =>
        ErrorsOf(reply[c].question, reply[c].answer) # {} \/ CodeOf(reply[c].answer) # 0

\* Where a ring has what was received of c, and that it is, in order and each
\* once, the given requests from a first one on.
Mine(ring, c) == {i \in DOMAIN ring : ring[i].peer = c /\ ring[i].direction = "recv"}
RecordedFrom(ring, c, requests, first) ==
  \E at \in [Mine(ring, c) -> first..Len(requests)] :
     /\ \A i, j \in Mine(ring, c) : i < j => at[i] < at[j]
     /\ \A k \in first..Len(requests) : \E i \in Mine(ring, c) : at[i] = k
     /\ \A i \in Mine(ring, c) : ring[i].frame = requests[at[i]]

\* The requests of c the listener is done with, when none was lost.
Due(c) == IF wire[c] \o buf[c] = <<>> THEN asked[c] ELSE SubSeq(asked[c], 1, Len(asked[c]) - 1)

\* Of a client that waits until a request is taken up before it sends the next,
\* every request is recorded, whole and in order, whatever the pieces, the
\* other clients and the requests without an answer.
WaitingClientIsRecorded ==
  \A c \in Clients \ Hasty : phase[c] # "ended" =>
     /\ \E first \in 1..Len(Due(c)) + 1 : RecordedFrom(frames, c, Due(c), first)
     /\ Len(frames) < FrameLimit => RecordedFrom(frames, c, Due(c), 1)

\* What that rests on: a waiting client has nothing on the way, or all
\* that was not read of its last request, of which the buffer has the rest.
OnTheWay(c) ==
  \/ wire[c] = <<>> /\ buf[c] = <<>>
  \/ /\ phase[c] = "receiving" /\ wire[c] # <<>>
     /\ asked[c] # <<>> /\ buf[c] \o wire[c] = Last(asked[c])
LastIsOnTheWay == \A c \in Clients \ Hasty : phase[c] # "ended" => OnTheWay(c)

\* What a waiting client sends is taken up, and where there is an answer it is
\* sent, unless the connection ends: no request is left half read for ever.
AskedIsAnswered ==
  \A c \in Clients \ Hasty : (wire[c] # <<>>) ~> (TakenUp(c) \/ phase[c] = "ended")

\* What streams.py says of TCP, that one read may bring several frames: then
\* every frame a live connection brought and the listener has read is recorded.
\* The code keeps only the first of a chunk.
EveryFrameIsRecorded ==
  \A c \in Clients : (TakenUp(c) /\ Len(frames) < FrameLimit) => RecordedFrom(frames, c, asked[c], 1)
=============================================================================
