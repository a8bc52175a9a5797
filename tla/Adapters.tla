------------------------------ MODULE Adapters ------------------------------
(***************************************************************************)
(* The adapters of six protocols, and the probe of IEC 104, one call after *)
(* another: the request a call becomes, the handshake before it, what the  *)
(* device (Devices) makes of it, and what the call returns for the answer. *)
(* Who holds which connection when calls overlap is in ConnectionPool and  *)
(* Exchange; here frames have their bytes and the device has a memory, so  *)
(* that what is asked, done and told can be compared.                      *)
(***************************************************************************)
EXTENDS Devices

CONSTANTS
  Dialects,     \* the adapters, those of Modbus and MELSEC by their format
  Peers,        \* what may answer: a device, or an echo server (which is only probed)
  Calls,        \* of each dialect, the calls that are made
  MaxCalls,     \* how many
  FirstSerial,  \* how many requests the process has numbered before, and one
  Strays,       \* the dialects whose device sits behind a gateway that mixes answers up
  Terse         \* those whose device may answer with fewer values than asked for

MELSEC == {"3e_binary", "3e_ascii", "4e_binary", "4e_ascii"}
MODBUS == {"modbus", "modbus_rtu"}

VARIABLES
  dialect, peer,   \* which adapter, and what is at the other end
  memory,          \* the cells of the device that were written
  belief,          \* by cell, the values it can have by what the calls returned
  pooled,          \* the connection in the pool
  line,            \* the connection of the call, with both sides' view of the handshake
  serial, ref,     \* the next number for a request, and the one the call has drawn
  call, at,        \* the call, and how far it is
  tried,           \* a MELSEC probe has tried one format
  request, answer, \* the frames on the wire
  previous,        \* the answer before this one
  fate, fault,     \* what became of the request, and what went wrong on its way
  result, made     \* what the last call returned, and the number of calls
chosen == <<dialect, peer>>
vars == <<chosen, memory, belief, pooled, line, serial, ref, call, at, tried, request, answer, previous,
          fate, fault, result, made>>

\* A call; option is the function code or the type a write names, 0 by default.
ACall(kind, area, start, count, values, option) ==
  [kind |-> kind, area |-> area, start |-> start, count |-> count, values |-> values, option |-> option]
Probe   == ACall("probe", "", 0, 0, <<>>, 0)
NoCall  == ACall("none", "", 0, 0, <<>>, 0)
NoConn  == [open |-> FALSE, mine |-> 0, theirs |-> 0]
NoResult == [call |-> NoCall, kind |-> "none", code |-> 0, values |-> <<>>, fate |-> "none", fault |-> "none"]

-----------------------------------------------------------------------------
(* Requests                                                                 *)

UNIT == 1
FINS_CLIENT_NODE == 1
AREA_CODES == [DM |-> 130, W |-> 177]
S7_NAMES   == [DB1 |-> <<"DB", 1>>, DB2 |-> <<"DB", 2>>, M |-> <<"M", 0>>]

ModbusRequest(c, tid) ==
  LET single == c.area = "coil" \/ (Len(c.values) = 1 /\ c.option = 6) IN
  CASE c.kind = "probe" -> MB!BuildReadRequest(tid, UNIT, 3, 0, 1)
    [] c.kind = "read"  -> MB!BuildReadRequest(tid, UNIT, IF c.area = "input" THEN 4 ELSE 3, c.start, c.count)
    [] OTHER -> IF ~single THEN MB!BuildWriteMultiple(tid, UNIT, c.start, c.values)
                ELSE IF Len(c.values) # 1 THEN <<>>
                ELSE MB!BuildWriteSingle(tid, UNIT, IF c.area = "coil" THEN 5 ELSE 6, c.start, c.values[1])

FinsRequest(c, sid, node) ==
  CASE c.kind = "probe" -> FI!BuildReadRequest(sid, FINS_CLIENT_NODE, AREA_CODES["DM"], 0, 1, 0)
    [] c.kind = "read"  -> FI!BuildReadRequest(sid, FINS_CLIENT_NODE, AREA_CODES[c.area], c.start, c.count, node)
    [] OTHER -> FI!BuildMemoryAreaWrite(sid, FINS_CLIENT_NODE, AREA_CODES[c.area], c.start, c.values, node)

\* A probe asks in binary and, when nobody replies, in ASCII.
FrameFormat(c) == IF c.kind # "probe" THEN dialect ELSE IF tried THEN "3e_ascii" ELSE "3e_binary"
MelsecRequest(c, fmt) ==
  CASE c.kind = "probe" -> MC!BuildReadRequest(fmt, "D", 0, 2, 255, 0, 4, 0)
    [] c.kind = "read"  -> MC!BuildReadRequest(fmt, c.area, c.start, c.count, 255, 0, 4, 0)
    [] OTHER -> MC!BuildWriteRequest(fmt, c.area, c.start, c.values, 255, 0, 4, 0)

S7Request(c, n) ==
  CASE c.kind = "probe" -> S7!BuildReadRequest("DB", 1, 0, 2, n)
    [] c.kind = "read"  -> S7!BuildReadRequest(S7_NAMES[c.area][1], S7_NAMES[c.area][2], c.start, c.count, n)
    [] OTHER -> S7!BuildWriteRequest(S7_NAMES[c.area][1], S7_NAMES[c.area][2], c.start, c.values, n)

\* Mutated form: the high word first.
PackValueWordsBig(v, n) == [i \in 1..n |-> IF i = n THEN v % 65536 ELSE (v \div 65536) % 65536]

\* A value as words, the low one first; there are only two in pack("<I"), so that
\* a LINT raises struct.error, before there is a connection.
PackValueWords(v, n) == [i \in 1..n |-> IF i = 1 THEN v % 65536 ELSE (v \div 65536) % 65536]

EnipType(c) == IF c.option = 0 THEN ENIP!DINT ELSE c.option
Unpackable(c) == dialect = "enip" /\ c.kind = "write" /\ ENIP!TYPE_CODES[EnipType(c)] > 2
EnipRequest(c, session) ==
  LET name == TAG_NAMES[c.area]
      words == FlattenSeq([i \in DOMAIN c.values |-> PackValueWords(c.values[i], ENIP!TYPE_CODES[EnipType(c)])])
      cip == IF c.kind = "read" THEN ENIP!BuildReadTag(name, c.start, c.count)
             ELSE ENIP!BuildWriteTag(name, c.start, EnipType(c), words)
  IN IF c.kind = "probe" THEN ENIP!BuildListIdentity
     ELSE IF cip = <<>> THEN <<>> ELSE ENIP!BuildSendRrData(session, ENIP!BuildUnconnectedSend(cip), FALSE)

\* The request of a call numbered n, on a connection whose handshake came to mine.
RequestOf(c, n, mine) ==
  CASE dialect = "modbus" -> ModbusRequest(c, n)
    [] dialect = "modbus_rtu" -> IF ModbusRequest(c, n) = <<>> THEN <<>>
                                 ELSE MB!RtuRequestFromTcp(ModbusRequest(c, n))
    [] dialect = "fins" -> FinsRequest(c, n, mine)
    [] dialect \in MELSEC -> MelsecRequest(c, FrameFormat(c))
    [] dialect = "s7" -> S7Request(c, n)
    [] dialect = "enip" -> EnipRequest(c, mine)
    [] dialect = "iec104" -> IEC!BuildApciU(IEC!U_TESTFR_ACT)

\* Requests that exist before there is a connection, and those that are numbered
\* then.  The counters of Modbus and S7 belong to the process; that of FINS belongs
\* to the adapter, and every call of a tool makes a new one.
BuiltFirst(c)   == dialect \in MODBUS \cup MELSEC \/ (dialect = "s7" /\ c.kind = "write")
CountedFirst(c) == dialect \in MODBUS \/ (dialect = "s7" /\ c.kind = "write")
FIRST_SID == 1
NumberOf(c) == CASE dialect = "fins" -> FIRST_SID
                 [] CountedFirst(c)  -> serial
                 [] OTHER -> 0

\* _ensure_handshake, _ensure_session: what is said before the first request.
Ready(c, mine) ==
  CASE dialect = "fins" -> mine # 0
    [] dialect = "s7"   -> mine = 2
    [] dialect = "enip" -> mine # 0 \/ c.kind = "probe"
    [] dialect = "iec104" -> mine # 0
    [] OTHER -> TRUE
Hello(mine) ==
  CASE dialect = "fins" -> FI!BuildHandshakeRequest(FINS_CLIENT_NODE)
    [] dialect = "s7"   -> IF mine = 0 THEN S7!BuildCotpConnectRequest(0, 1) ELSE S7!BuildPduNegotiation(480)
    [] dialect = "enip" -> ENIP!BuildRegisterSession
    [] dialect = "iec104" -> IEC!BuildApciU(IEC!U_STARTDT_ACT)

-----------------------------------------------------------------------------
(* Answers                                                                  *)

\* _recv_*: the frame at the head of what came, <<>> where none is recognised.
Cut(f) ==
  LET rtu == MB!RtuResponseTotalLen(Upto(f, IF At(f, 1) \in MB!READ_FCS THEN 3 ELSE 2))
      fmt == MelsecKind(f)[1]
      received == CASE dialect = "modbus" -> Len(f) >= MB!MBAP_LEN /\ U16(f, 4) \in 1..254 /\ Len(f) >= 6 + U16(f, 4)
                    [] dialect = "modbus_rtu" -> rtu # -1 /\ Len(f) >= rtu
                    [] dialect = "fins" -> Upto(f, 4) = FI!TCP_MAGIC /\ U32(f, 4) \in 8..16384
                    [] dialect \in MELSEC -> /\ MelsecKind(f)[2] = "resp"
                                             /\ call.kind = "probe" \/ fmt = dialect
                                             /\ MC!WordAt(fmt, f, MC!LenOffset(fmt)) \in 2..(IF MC!IsAscii(fmt) THEN 16384 ELSE 8192)
                    [] dialect = "s7"   -> At(f, 0) = 3 /\ U16(f, 2) >= 7
                    [] dialect = "enip" -> L16(f, 0) \in ENIP!COMMAND_NAMES
                    [] dialect = "iec104" -> At(f, 0) = IEC!START_BYTE /\ At(f, 1) \in 4..253
  IN CASE f = <<>> \/ ~received -> <<>>
       [] dialect = "modbus_rtu" /\ f # <<>> /\ received -> Upto(f, rtu)
       [] OTHER -> f

IsUframe(f, u) == Len(f) = 6 /\ At(f, 2) = u

\* What the answer to a step of the handshake leaves the connection with, 0 where
\* it is no confirmation; the probe of FINS does not look at the error in one.
Welcome(f) ==
  LET fins == FI!ParseHandshakeResponse(f)
      session == ENIP!ParseRegisterSessionResponse(f) IN
  CASE dialect = "fins" -> CASE ~fins.ok -> 0
                             [] fins.ok /\ call.kind = "probe" -> 1
                             [] OTHER -> IF fins.error = 0 THEN fins.server_node ELSE 0
    [] dialect = "s7"   -> IF line.mine = 0 THEN IF S7!ParseCotpConnectResponse(f) THEN 1 ELSE 0
                                            ELSE IF S7!ParsePduNegotiationResponse(f, 480) # 0 THEN 2 ELSE 0
    [] dialect = "enip" -> IF session.ok THEN session.session ELSE 0
    [] dialect = "iec104" -> IF IsUframe(f, IEC!U_STARTDT_CON) THEN 1 ELSE 0

\* Mutated form: the errors of the parser are looked at before the code.
VerdictErrorsFirst(code, errors, values, least) ==
  [kind |-> CASE errors # {} \/ Len(values) < least -> "failed"
              [] errors = {} /\ Len(values) >= least /\ code # 0 -> "refused"
              [] OTHER -> "ok",
   code |-> code, values |-> values]

\* The code a device put into an answer is looked at before anything else, but by
\* the adapter of EtherNet/IP.
Verdict(code, errors, values, least) ==
  [kind |-> CASE code # 0 -> "refused"
              [] code = 0 /\ (errors # {} \/ Len(values) < least) -> "failed"
              [] OTHER -> "ok",
   code |-> code, values |-> values]

\* _parse of the RTU adapter: the parse and two comparisons with the request.
ParsedRtu(f, q) ==
  MB!ParseRtuAs(f, "resp").errors \cup
    Found([address |-> At(f, 0) # At(q, 0), function_code |-> At(f, 1) % 128 # At(q, 1) % 128])
RtuExceptionCode(f) == IF At(f, 1) >= 128 THEN At(f, 2) ELSE 0

HasEndCode(f) == FI!ParseTcpHeader(f).ok /\ Len(f) >= FI!TCP_HEADER_LEN + FI!FINS_HEADER_LEN + 4

EnipVerdict(c, f) ==
  LET reply == ENIP!CipReplyOf(f)
      tag == ENIP!ParseTagReply(reply.cip, IF c.kind = "read" THEN ENIP!SVC_READ_TAG ELSE ENIP!SVC_WRITE_TAG)
      refused == reply.ok /\ tag.errors = {"status"}
      read    == c.kind = "read" /\ reply.ok /\ tag.errors = {}
  IN Verdict(IF refused THEN At(reply.cip, 2) ELSE 0, IF reply.ok THEN tag.errors ELSE {"reply"},
             IF read THEN tag.words ELSE <<>>, IF read THEN c.count * ENIP!TYPE_CODES[tag.type] ELSE 0)

S7Verdict(c, f, q) ==
  LET read == S7!ParseReadResponse(f, q)
      written == S7!ParseWriteResponse(f)
  IN IF c.kind = "read"
     THEN Verdict(IF read.code \in {-1, S7!SUCCESS} THEN 0 ELSE read.code, read.errors, read.words, 0)
     ELSE Verdict(IF written.ok /\ written.code # S7!SUCCESS THEN written.code ELSE 0,
                  IF written.ok THEN {} ELSE {"not_a_reply"}, <<>>, 0)

\* What the call c returns for the answer f to the request q.
Returned(c, f, q) ==
  LET read  == c.kind = "read"
      least == IF read THEN c.count ELSE 0
      Values(v) == IF read THEN v ELSE <<>>
  IN CASE dialect = "modbus" ->
            Verdict(MB!ExceptionCode(f), MB!ParseResponse(f, q), Values(MB!RegisterValues(f)), least)
       [] dialect = "modbus_rtu" ->
            Verdict(RtuExceptionCode(f), ParsedRtu(f, q), Values(MB!RtuRegisterValues(f)), least)
       [] dialect = "fins" ->
            Verdict(FI!EndCode(f), FI!ParseResponse(f, q) \cup Found([end_code |-> ~HasEndCode(f)]),
                    Values(FI!WordValues(f)), least)
       [] dialect \in MELSEC ->
            Verdict(MC!EndCode(f, dialect), MC!ParseResponseFmt(f, q, dialect),
                    Values(MC!DecodeWordValues(dialect, From(f, MC!HeaderLen(dialect))).values),
                    IF read THEN MC!WordsOf(c.area, c.count) ELSE 0)
       [] dialect = "s7"   -> S7Verdict(c, f, q)
       [] dialect = "enip" -> EnipVerdict(c, f)

\* What a probe returns for the answer f to its request q.
ProbeVerdict(sound, code) ==
  IF ~sound THEN "no_reply" ELSE IF code # 0 THEN "exception" ELSE "reachable"
Probed(f, q) ==
  LET fmt == MelsecKind(f)[1]
      read == S7!ParseReadResponse(f, q)
      identity == ENIP!ParseListIdentityResponse(f) IN
  CASE dialect = "modbus" -> ProbeVerdict(MB!ParseResponse(f, q) = {}, MB!ExceptionCode(f))
    [] dialect = "modbus_rtu" -> ProbeVerdict(ParsedRtu(f, q) = {}, RtuExceptionCode(f))
    [] dialect = "fins" -> ProbeVerdict(HasEndCode(f), FI!EndCode(f))
    [] dialect \in MELSEC -> ProbeVerdict(MC!ParseResponseFmt(f, q, fmt) = {}, MC!EndCode(f, fmt))
    [] dialect = "s7"   -> ProbeVerdict(read.errors = {}, IF read.code = S7!SUCCESS THEN 0 ELSE read.code)
    [] dialect = "enip" -> IF identity.raises THEN "raised" ELSE ProbeVerdict(identity.ok, 0)
    [] dialect = "iec104" -> ProbeVerdict(IsUframe(f, IEC!U_TESTFR_CON), 0)

-----------------------------------------------------------------------------
(* What a call means to its caller, in cells of the device                  *)

CellsMeant(c) ==
  LET n == CASE dialect = "s7" /\ c.kind = "write" -> 2 * Len(c.values)
             [] c.kind = "read" /\ c.area = "X" -> (c.count + 15) \div 16
             [] OTHER -> c.count
  IN CellsOf(c.area, IF c.start = -1 THEN 0 ELSE c.start, n)
ValuesMeant(c) ==
  CASE dialect \in MELSEC \cup {"fins"} -> [i \in DOMAIN c.values |-> c.values[i] % 65536]
    [] dialect = "s7"   -> B16s(c.values)
    [] dialect = "enip" -> [i \in DOMAIN c.values |->
                             IF EnipType(c) = 195 THEN <<c.values[i]>> ELSE <<c.values[i] % 65536, c.values[i] \div 65536>>]
    [] OTHER -> c.values

Held(cell)     == IF cell \in DOMAIN memory THEN memory[cell] ELSE Blank(dialect, cell[1])
Believed(cell) == IF cell \in DOMAIN belief THEN belief[cell] ELSE {Blank(dialect, cell[1])}

\* What the device holds where c reads, as the words a read returns.
Reading(c) ==
  LET held == [i \in DOMAIN CellsMeant(c) |-> Held(CellsMeant(c)[i])] IN
  CASE dialect = "s7"   -> [i \in 1..Len(held) \div 2 |-> 256 * held[2 * i - 1] + held[2 * i]]
    [] dialect = "enip" -> FlattenSeq(held)
    [] OTHER -> held

\* After a write: done, maybe done, or not done.  Behind a gateway that mixes
\* answers up, a refusal may be that of another request: its code is looked at
\* before anything else is.
BeliefAfter(c, kind) ==
  LET cells == CellsMeant(c)
      Meant(cell) == {ValuesMeant(c)[i] : i \in {j \in DOMAIN cells : cells[j] = cell}}
      acts  == {"ok", "failed"} \cup (IF dialect \in Strays THEN {"refused"} ELSE {})
  IN IF c.kind = "write" /\ kind \in acts
     THEN [cell \in ToSet(cells) |-> IF kind = "ok" THEN Meant(cell) ELSE Believed(cell) \cup Meant(cell)] @@ belief
     ELSE belief

-----------------------------------------------------------------------------
(* The adapter                                                              *)

Init ==
  /\ dialect \in Dialects /\ peer \in Peers
  /\ memory = <<>> /\ belief = <<>>
  /\ pooled = NoConn /\ line = NoConn
  /\ serial = FirstSerial /\ ref = 0
  /\ call = NoCall /\ at = "idle" /\ tried = FALSE
  /\ request = <<>> /\ answer = <<>> /\ previous = <<>>
  /\ fate = "none" /\ fault = "none"
  /\ result = NoResult /\ made = 0

\* A call begins; a probe has a connection of its own.
Invoke(c) ==
  /\ at = "idle" /\ made < MaxCalls
  /\ peer = "echo" => c.kind = "probe"
  /\ call' = c /\ made' = made + 1
  /\ ref' = NumberOf(c)
  /\ serial' = IF CountedFirst(c) THEN serial + 1 ELSE serial
  /\ at' = IF c.kind # "probe" /\ (Unpackable(c) \/ (BuiltFirst(c) /\ RequestOf(c, serial, 0) = <<>>))
           THEN "unbuilt" ELSE "calling"
  /\ line' = IF c.kind = "probe" THEN NoConn ELSE pooled
  /\ UNCHANGED <<chosen, memory, belief, pooled, tried, request, answer, previous, fate, fault, result>>

\* The call returns; kept says that its connection goes back to the pool.
Return(kind, code, values, kept) ==
  /\ result' = [call |-> call, kind |-> kind, code |-> code, values |-> values, fate |-> fate, fault |-> fault]
  /\ belief' = BeliefAfter(call, kind)
  /\ pooled' = IF call.kind = "probe" THEN pooled ELSE IF kept THEN line ELSE NoConn
  /\ line' = NoConn /\ ref' = 0
  /\ call' = NoCall /\ at' = "idle" /\ tried' = FALSE
  /\ request' = <<>> /\ answer' = <<>> /\ fate' = "none" /\ fault' = "none"
  /\ UNCHANGED <<chosen, memory, serial, previous, made>>

\* A MELSEC probe that met nobody tries its second format, and the better result counts.
TryOtherFormat ==
  /\ tried' = TRUE /\ at' = "calling" /\ line' = NoConn
  /\ request' = <<>> /\ answer' = <<>> /\ fate' = "none"
  /\ UNCHANGED <<chosen, memory, belief, pooled, serial, ref, call, previous, fault, result, made>>
ReturnProbe(kind) ==
  IF dialect \in MELSEC /\ kind = "no_reply" /\ ~tried THEN TryOtherFormat
  ELSE Return(IF tried /\ kind \notin {"reachable", "exception"} THEN "no_reply" ELSE kind, 0, <<>>, FALSE)

\* The connection fails: OSError is asked for before TimeoutError by two adapters.
ConnectFails ==
  /\ at = "calling" /\ ~line.open
  /\ at' \in {"connection_refused", "timeout", "unreachable"}
  /\ fault' = IF tried THEN "later" ELSE at'
  /\ UNCHANGED <<chosen, memory, belief, pooled, line, serial, ref, call, tried, request, answer, previous,
                 fate, result, made>>

OSErrorFirst == dialect \in {"enip", "iec104"}
ConnectFailure == IF at = "timeout" /\ ~OSErrorFirst THEN "timeout" ELSE "connection_refused"
GiveUp ==
  /\ at \in {"connection_refused", "timeout", "unreachable"}
  /\ IF call.kind = "probe" THEN ReturnProbe(ConnectFailure) ELSE Return("failed", 0, <<>>, FALSE)

\* The next frame: of the handshake, or the request.  An exception of a builder
\* here leaves a connection that nobody returns to the pool.
Send ==
  /\ at = "calling"
  /\ LET ready == Ready(call, line.mine)
         late  == ready /\ dialect = "s7" /\ ~CountedFirst(call)
         frame == IF ready THEN RequestOf(call, IF late THEN serial ELSE ref, line.mine) ELSE Hello(line.mine)
     IN /\ request' = frame
        /\ serial' = IF late THEN serial + 1 ELSE serial
        /\ at' = IF frame = <<>> THEN "unbuilt" ELSE "asked"
  /\ line' = [line EXCEPT !.open = TRUE]
  /\ UNCHANGED <<chosen, memory, belief, pooled, ref, call, tried, answer, previous, fate, fault, result, made>>
Unbuilt ==
  /\ at = "unbuilt"
  /\ Return(IF call.kind = "probe" THEN "raised" ELSE "unsent", 0, <<>>, BuiltFirst(call) \/ Unpackable(call))

Receive ==
  /\ at = "answered"
  /\ LET f == Cut(answer) IN
     IF f = <<>>
     THEN IF call.kind = "probe" THEN ReturnProbe("no_reply") ELSE Return("failed", 0, <<>>, FALSE)
     ELSE IF Ready(call, line.mine)
     THEN IF call.kind = "probe" THEN ReturnProbe(Probed(f, request))
          ELSE LET r == Returned(call, f, request) IN Return(r.kind, r.code, r.values, TRUE)
     ELSE IF Welcome(f) = 0
     THEN IF dialect = "iec104" THEN ReturnProbe("no_reply")
          ELSE Return(IF call.kind = "probe" THEN "raised" ELSE "failed", 0, <<>>, FALSE)
     ELSE /\ line' = [line EXCEPT !.mine = Welcome(f)]
          /\ at' = "calling" /\ answer' = <<>>
          /\ UNCHANGED <<chosen, memory, belief, pooled, serial, ref, call, tried, request, previous, fate,
                         fault, result, made>>

-----------------------------------------------------------------------------
(* The other end                                                            *)

Asks == AskedBy(dialect, request)
Hears == at = "asked" /\ peer = "device" /\ Speaks(dialect, request) /\ Admits(dialect, request, line.theirs)

Answer(frame) ==
  /\ answer' = frame /\ at' = "answered"
  /\ UNCHANGED <<chosen, belief, pooled, serial, ref, call, tried, request, result, made>>

\* A handshake is granted a number of this connection, or its next step.
Confirm ==
  /\ Hears /\ Asks.kind = "hello"
  /\ LET grant == IF dialect = "s7" THEN line.theirs + 1 ELSE made
     IN Answer(HelloAnswer(dialect, request, grant)) /\ line' = [line EXCEPT !.theirs = grant]
  /\ UNCHANGED <<memory, previous, fate, fault>>
Deny ==
  /\ Hears /\ Asks.kind = "hello"
  /\ Answer(HelloRefusal(dialect, request)) /\ fault' = "denied"
  /\ UNCHANGED <<memory, line, previous, fate>>
\* A station whose transfer has started may have something to say first.
Identify ==
  /\ Hears /\ Asks.kind = "identify"
  /\ fate' = "executed"
  /\ \/ Answer(IdentityAnswer(dialect)) /\ UNCHANGED fault
     \/ dialect = "iec104" /\ Answer(Spontaneous) /\ fault' = "volunteered"
  /\ UNCHANGED <<memory, line, previous>>

\* The answer that goes out: this one or, behind a gateway, the one before.
AnswerOrStray(frame) ==
  /\ previous' = IF dialect \in Strays THEN frame ELSE <<>>
  /\ UNCHANGED line
  /\ \/ Answer(frame) /\ UNCHANGED fault
     \/ previous # <<>> /\ Answer(previous) /\ fault' = "stray"

Serve ==
  /\ Hears /\ Asks.kind \in {"read", "write"} /\ Exists(dialect, Asks)
  /\ fate' = "executed"
  /\ LET cells  == CellsOf(Asks.area, Asks.start, Asks.count)
         values == IF Asks.kind = "read" THEN [i \in DOMAIN cells |-> Held(cells[i])] ELSE <<>>
     IN /\ memory' = IF Asks.kind = "read" THEN memory
                     ELSE [cell \in ToSet(cells) |->
                             Asks.values[CHOOSE i \in DOMAIN cells : cells[i] = cell]] @@ memory
        /\ AnswerOrStray(AnswerTo(dialect, request, line.theirs, Asks.area, 0, values))
Refuse ==
  /\ Hears /\ Asks.kind \in {"read", "write"}
  /\ fate' = "refused"
  /\ AnswerOrStray(AnswerTo(dialect, request, line.theirs, Asks.area, RefusalCode(dialect), <<>>))
  /\ UNCHANGED memory
\* A device that answers a read with one value less than it was asked for.
ServeShort ==
  /\ Hears /\ dialect \in Terse
  /\ Asks.kind = "read" /\ Asks.count > 1 /\ Exists(dialect, Asks)
  /\ fate' = "executed" /\ fault' = "short"
  /\ LET cells == CellsOf(Asks.area, Asks.start, Asks.count - 1)
     IN Answer(AnswerTo(dialect, request, line.theirs, Asks.area, 0, [i \in DOMAIN cells |-> Held(cells[i])]))
  /\ UNCHANGED <<memory, line, previous>>

\* A frame that is not for the device gets no answer; an echo server answers all.
Ignore ==
  /\ at = "asked" /\ peer = "device" /\ ~Hears
  /\ Answer(<<>>) /\ UNCHANGED <<memory, line, previous, fate, fault>>
Echo ==
  /\ at = "asked" /\ peer = "echo"
  /\ Answer(request) /\ fault' = "echo"
  /\ UNCHANGED <<memory, line, previous, fate>>

\* The connection breaks off, or stays silent, before or after the device acted;
\* and while it is in the pool.
Lose ==
  /\ at = "asked" \/ (at = "answered" /\ answer # <<>>)
  /\ Answer(<<>>) /\ fault' = "lost"
  /\ UNCHANGED <<memory, line, previous, fate>>
LoseIdle ==
  /\ at = "idle" /\ pooled.open /\ made < MaxCalls
  /\ pooled' = NoConn
  /\ UNCHANGED <<chosen, memory, belief, line, serial, ref, call, at, tried, request, answer, previous,
                 fate, fault, result, made>>

Next ==
  \/ \E c \in Calls[dialect] : Invoke(c)
  \/ ConnectFails \/ GiveUp \/ Send \/ Unbuilt \/ Receive
  \/ Confirm \/ Deny \/ Identify \/ Serve \/ Refuse \/ ServeShort \/ Ignore \/ Echo \/ Lose \/ LoseIdle

Spec == Init /\ [][Next]_vars

-----------------------------------------------------------------------------
(* Properties                                                               *)

\* A cell of the device holds what the calls said: what the last successful write
\* put there, what a failed one may have put there, and nothing from a call that
\* was refused.
MemoryIsAsTold ==
  at = "idle" => \A cell \in DOMAIN memory \cup DOMAIN belief : Held(cell) \in Believed(cell)

\* A read that succeeds returns what the device holds at the cells asked for, all
\* of them and in their order.
ReadsAreTrue ==
  result.call.kind = "read" /\ result.kind = "ok" /\ at = "idle" =>
    result.fate = "executed" /\ result.values = Reading(result.call)

\* What a read or write returns is what became of it: refused by the device is
\* never reported as done, and is reported with the device's code unless that was
\* lost or mistaken on its way; executed is reported as done, unless likewise.
OutcomesAreTold ==
  result.call.kind \in {"read", "write"} =>
    /\ result.fate = "refused" =>
         /\ result.kind # "ok"
         /\ result.fault = "none" => result.kind = "refused" /\ result.code = RefusalCode(dialect)
    /\ result.fate = "executed" /\ result.fault = "none" => result.kind = "ok"

\* A probe says reachable of a device that has executed its request, and of no
\* other server, and says so of every such device; exception of one that has
\* refused it; and it blames the connection exactly when there was none.
ProbesAreTrue ==
  result.call.kind = "probe" =>
    /\ result.kind = "reachable" => result.fate = "executed"
    /\ result.kind = "exception" => result.fate = "refused"
    /\ result.fate = "executed" /\ result.fault = "none" => result.kind = "reachable"
    /\ result.kind \in {"connection_refused", "timeout"} <=>
         result.fault \in {"connection_refused", "timeout", "unreachable"}

\* What the tool says of the classes of failure: timeout is a connection that was
\* not there in time, connection_refused one that nobody accepted, exception every
\* refusal; a probe returns, and does not raise.  The code keeps it for Modbus and
\* MELSEC only.
ProbeClassesAreKept ==
  result.call.kind = "probe" =>
    /\ result.fault = "timeout" => result.kind = "timeout"
    /\ result.fault \in {"connection_refused", "unreachable"} => result.kind = "connection_refused"
    /\ result.fate = "refused" /\ result.fault = "none" => result.kind = "exception"
    /\ result.kind # "raised"

\* A call within the limits of its protocol is sent.
WithinLimits(c) ==
  /\ c.count \in 1..(IF c.area = "coil" THEN 1 ELSE 100)
  /\ \A i \in DOMAIN CellsMeant(c) : CellsMeant(c)[i][2] < AreaSize(dialect, c.area)
  /\ \A i \in DOMAIN c.values : c.values[i] \in 0..(IF c.area = "coil" THEN 1 ELSE 65535)
  /\ ~Unpackable(c)
CallsAreSent == result.kind = "unsent" => ~WithinLimits(result.call)

\* What the parser of the same codec finds wrong with a request.
RequestErrors(f) ==
  CASE dialect = "modbus" -> MB!ParseRequest(f)
    [] dialect = "modbus_rtu" -> MB!ParseRtu(f).errors
    [] dialect = "fins" -> FI!ParseRequest(f)
    [] dialect \in MELSEC -> MC!ParseRequestFmt(f, FrameFormat(call))
    [] dialect = "s7"   -> S7!ParseRequest(f)
    [] dialect = "enip" -> ENIP!ParseRequest(f)
    [] dialect = "iec104" -> IEC!ParseFrame(f).errors

\* What the parsers find wrong with an answer when they are told nothing of its request.
AnswerErrors(f) ==
  CASE dialect = "enip" -> ENIP!ParseResponse(f).errors
    [] dialect = "iec104" -> IEC!ParseFrame(f).errors
    [] dialect = "s7"   -> IF call.kind = "write" THEN {} ELSE S7!ParseReadResponse(f, <<>>).errors
    [] dialect = "modbus_rtu" -> MB!ParseRtuAs(f, "resp").errors
    [] OTHER -> ParseAuto(IF dialect \in MELSEC THEN "melsec" ELSE dialect, f).errors

\* What the validators find.  Of writes they know those of single Modbus cells, and
\* all of RTU and FINS; that of S7 expects the code of an answer in requests too.
Checks(f, direction) ==
  CASE dialect = "modbus" -> MB!ValidateFrame(f, direction)
    [] dialect = "modbus_rtu" -> MB!ValidateRtu(f)
    [] dialect = "fins" -> FI!ValidateFrame(f, direction)
    [] dialect \in MELSEC -> MC!ValidateFrameFmt(f, direction, FrameFormat(call))
    [] dialect = "s7"   -> S7!ValidateFrame(f, direction)
    [] dialect = "enip" -> ENIP!ValidateFrame(f)
    [] dialect = "iec104" -> IEC!ValidateFrame(f)
ValidatorsKnow(c) ==
  \/ c.kind # "write" \/ dialect \in {"modbus_rtu", "fins"}
  \/ dialect = "modbus" /\ (c.area = "coil" \/ c.option = 6)

\* A codec agrees with itself, and with the device, on what a sound frame is: what
\* goes over the wire is bytes, and parser and validator find nothing wrong with
\* the request an adapter builds, nor with the answer a device gives to it.
FramesAreSound ==
  /\ \A f \in {request, answer} : \A i \in DOMAIN f : f[i] \in BYTE
  /\ at = "asked" /\ Ready(call, line.mine) =>
       RequestErrors(request) \cup (IF ValidatorsKnow(call) /\ dialect # "s7" THEN Checks(request, "req") ELSE {}) = {}
  /\ at = "answered" /\ fate = "executed" /\ fault = "none" /\ ValidatorsKnow(call) =>
       Checks(answer, "resp") \cup AnswerErrors(answer) = {}
=============================================================================
