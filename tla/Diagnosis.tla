----------------------------- MODULE Diagnosis -----------------------------
(***************************************************************************)
(* diagnose (diag/engine.py and its knowledge base, diag/kb) on a trace of *)
(* frames of one connection.  The client of the trace asks, the device     *)
(* answers, rightly or with a fault of the listener's catalog or with the  *)
(* answer to another question, and of both the trace may lack frames.      *)
(***************************************************************************)
EXTENDS ListenerAnswers

CONSTANTS Traffic,      \* kinds of questions the client of the trace asks
          MaxExchanges  \* bound: exchanges in a trace

VARIABLES talk,      \* the dialect of the connection, "none" before it is chosen
          exchanges, \* questions asked
          question,  \* the request the device has to answer, <<>> between exchanges
          seen,      \* that request is in the trace
          pending,   \* pending_request
          matched,   \* the entries of the knowledge base the last frame is matched by
          last,      \* history: what the last frame of the trace is
          healthy    \* history: right answers only, and paired where the trace allows

diagnosis_vars == <<talk, exchanges, question, seen, pending, matched, last, healthy>>

Protocol(d) == CASE d = "3e_binary" -> "melsec" [] d = "rtu" -> "modbus" [] OTHER -> d

\* Several questions, on one connection and on others with counters of their own.
ReadsModbus == {MB!BuildReadRequest(1, 1, 3, 0, 2), MB!BuildReadRequest(2, 1, 1, 7, 9), MB!BuildReadRequest(2, 9, 1, 7, 9)}
Questions(kind) ==
  CASE kind = "modbus"    -> ReadsModbus
    [] kind = "write"     -> {MB!BuildWriteSingle(3, 1, 6, 0, 5)}
    [] kind = "coils"     -> {MB!BuildReadRequest(4, 1, 1, 0, 24)}
    [] kind = "rtu"       -> {MB!RtuRequestFromTcp(q) : q \in ReadsModbus}
    [] kind = "fins"      -> {FI!BuildReadRequest(9, 1, 130, 0, 2, 2), FI!BuildReadRequest(9, 1, 130, 0, 2, 7),
                              FI!BuildReadRequest(8, 1, 176, 0, 1, 2)}
    [] kind = "3e_binary" -> {MC!BuildReadRequest("3e_binary", "D", 100, 2, 255, 0, 4, 1),
                              MC!BuildReadRequest("3e_binary", "X", 16, 20, 3, 0, 4, 1)}
DialectOf(kind) == IF kind \in {"write", "coils"} THEN "modbus" ELSE kind
Asked == UNION {Questions(kind) : kind \in {k \in Traffic : DialectOf(k) = talk}}

\* A device answers as the listener does, which stands in for one; an RTU one
\* says the same between its unit and the CRC.
Answer(q) ==
  IF talk = "rtu" THEN MB!RtuFrameFromPdu(At(q, 0), From(ModbusResponse(Zeros(6) \o Upto(q, 6)), 7))
  ELSE BuildNormalResponse(Protocol(talk), q, IF talk = "fins" THEN At(q, 20) ELSE 0)
Faults == IF talk = "rtu" THEN {"exception", "truncate"} ELSE FAULT_CATALOG[Protocol(talk)]
Spoilt(q, fault) ==
  CASE talk # "rtu" -> ApplyFault(Protocol(talk), q, Answer(q), fault)
    [] talk = "rtu" /\ fault = "exception" -> MB!RtuFrameFromPdu(At(q, 0), <<128 + At(q, 1), 2>>)
    [] talk = "rtu" /\ fault = "truncate"  -> Upto(Answer(q), Len(Answer(q)) - 2)

-----------------------------------------------------------------------------
(* The observation of a frame                                               *)

RTU_GATE == {"exception_payload_shape", "request_payload_shape", "response_payload_shape", "function_code_known"}

Validate(protocol, f, direction) ==
  CASE protocol = "modbus" -> MB!ValidateFrame(f, direction)
    [] protocol = "fins"   -> FI!ValidateFrame(f, direction)
    [] protocol = "melsec" -> MC!ValidateFrameFmt(f, direction, "3e_binary")

ParseAnswer(protocol, f, q) ==
  CASE protocol = "modbus" -> AsResponse(MB!ParseResponse(f, q), MB!ExceptionCode(f))
    [] protocol = "fins"   -> AsResponse(FI!ParseResponse(f, q), FI!EndCode(f))
    [] protocol = "melsec" -> AsResponse(MC!ParseResponseFmt(f, q, "3e_binary"), MC!EndCode(f, "3e_binary"))

\* A frame that is no Modbus TCP may be RTU: wholly, or close enough to it for
\* its RTU checks to count as well.
IsRtu(protocol, f) == protocol = "modbus" /\ ParseModbus(f).errors # {} /\ MB!ParseRtu(f).errors = {}
ParsedRtu(f) == [direction |-> MB!ParseRtu(f).direction, errors |-> {},
                 code |-> IF At(f, 1) >= MB!EXCEPTION_FLAG THEN At(f, 2) ELSE 0]
FailedChecks(protocol, f, parsed) ==
  LET failed == Validate(protocol, f, parsed.direction) IN
  IF IsRtu(protocol, f) THEN MB!ValidateRtu(f)
  ELSE IF protocol = "modbus" /\ parsed.errors # {} /\ MB!ValidateRtu(f) \cap RTU_GATE = {}
       THEN failed \cup MB!ValidateRtu(f) ELSE failed

\* Mutated form: a request stays pending until the next one.
CollectFrameKeeping(protocol, f, request) ==
  LET parsed == ParseAuto(protocol, f) IN
  [facts |-> [parsed |-> IF parsed.direction = "resp" /\ request # <<>> THEN ParseAnswer(protocol, f, request) ELSE parsed,
              failed |-> FailedChecks(protocol, f, parsed)],
   pending |-> IF parsed.direction = "req" THEN f ELSE request]

\* A request is kept for the next frame; a response after one is parsed again
\* with it, and ends its pairing.
CollectFrame(protocol, f, request) ==
  LET parsed == ParseAuto(protocol, f)
      failed == FailedChecks(protocol, f, parsed)
  IN IF parsed.direction = "req" /\ ~IsRtu(protocol, f)
     THEN [facts |-> [parsed |-> parsed, failed |-> failed], pending |-> f]
     ELSE [facts |-> [parsed |-> IF request # <<>> THEN ParseAnswer(protocol, f, request)
                                 ELSE IF IsRtu(protocol, f) THEN ParsedRtu(f) ELSE parsed,
                      failed |-> failed],
           pending |-> <<>>]

-----------------------------------------------------------------------------
(* The knowledge base: what of a frame its entries name                     *)

CODES == [modbus |-> (1..6) \cup {10, 11},
          fins   |-> {257, 513, 514, 515, 516, 517, 518, 520, 772, 1025, 1026, 1028, 1029, 4353, 4354},
          melsec |-> {49231, 49241, 49368}]
CHECKS == [modbus |-> {"mbap_header_complete", "protocol_id_zero", "length_field_consistent", "unit_id_in_range",
                       "function_code_known", "exception_code_known", "exception_frame_exact_length",
                       "request_pdu_valid", "response_pdu_valid", "rtu_crc_valid", "rtu_min_length",
                       "exception_payload_shape", "request_payload_shape", "response_payload_shape"},
           fins   |-> {"magic_fins", "tcp_length_consistent", "tcp_command_known", "tcp_error_zero", "end_code_known"},
           melsec |-> {"subheader_match", "data_length_consistent", "command_supported", "end_code_known"}]
ERRORS == [modbus |-> {"transaction_id", "unit_mismatch", "fc_mismatch"},
           fins   |-> {"sid", "node"},
           melsec |-> {"route", "data_short"}]

\* fins_handshake_refused: a response of command 2 without a FINS header.
IsRefusal(f, facts) ==
  LET h == FI!ParseTcpHeader(f) IN
  facts.parsed.direction = "resp" /\ h.ok /\ h.command = 2 /\ Len(h.payload) < FI!FINS_HEADER_LEN + 4

Matched(protocol, f, facts) ==
  (facts.failed \cap CHECKS[protocol])
    \cup (facts.parsed.errors \cap ERRORS[protocol])
    \cup Found([code    |-> facts.parsed.code \in CODES[protocol],
                refused |-> protocol = "fins" /\ IsRefusal(f, facts)])

-----------------------------------------------------------------------------

DiagnosisInit ==
  /\ talk = "none"
  /\ exchanges = 0
  /\ question = <<>> /\ seen = FALSE
  /\ pending = <<>> /\ matched = {}
  /\ last = "none" /\ healthy = TRUE

ChooseTalk ==
  /\ talk = "none"
  /\ talk' \in {DialectOf(kind) : kind \in Traffic}
  /\ UNCHANGED <<exchanges, question, seen, pending, matched, last, healthy>>

\* The loop of diagnose, for one frame of the trace.
Feed(f, what) ==
  \E collected \in {CollectFrame(Protocol(talk), f, pending)} :
     /\ pending' = collected.pending
     /\ matched' = Matched(Protocol(talk), f, collected.facts)
     /\ last' = what

Skip == UNCHANGED <<pending, matched, last>>

\* The client asks; the trace has the request or lacks it.
Ask ==
  /\ talk # "none" /\ question = <<>> /\ exchanges < MaxExchanges
  /\ exchanges' = exchanges + 1
  /\ question' \in Asked
  /\ seen' \in BOOLEAN
  /\ IF seen' THEN Feed(question', "request") ELSE Skip
  /\ UNCHANGED <<talk, healthy>>

\* The right answer.  An echo of the request cannot be told from a request.
AnswerRight ==
  /\ question # <<>>
  /\ \/ /\ Feed(Answer(question), IF Answer(question) = question THEN "request" ELSE "right")
        /\ healthy' = (healthy /\ (seen \/ last # "request"))
     \/ Skip /\ UNCHANGED healthy
  /\ question' = <<>>
  /\ UNCHANGED <<talk, exchanges, seen>>

\* Shorter than the FINS/TCP header: the knowledge base has no entry for it.
IsStump(f) == talk = "fins" /\ Len(f) < FI!TCP_HEADER_LEN

\* A fault, or the answer somebody else's question has; RTU answers bear
\* nothing to tell these by, and an echo is no answer to the engine.
AnswerWrong ==
  /\ question # <<>>
  /\ \E f \in {Spoilt(question, fault) : fault \in Faults}
                \cup (IF talk = "rtu" THEN {} ELSE {Answer(q) : q \in {r \in Asked \ {question} : Answer(r) # r}}) :
        Feed(f, IF seen /\ ~IsStump(f) THEN "trouble" ELSE "stray")
  /\ healthy' = FALSE
  /\ question' = <<>>
  /\ UNCHANGED <<talk, exchanges, seen>>

DiagnosisNext == ChooseTalk \/ Ask \/ AnswerRight \/ AnswerWrong

-----------------------------------------------------------------------------

\* A healthy device gets no diagnosis: right answers match no entry of the
\* knowledge base, also when the trace lacks a request or an answer, as long
\* as it does not lack both the answer to a request and the next request,
\* when nothing in the frames tells that the next answer is not that answer.
HealthyIsQuiet == healthy => matched = {}

\* Trouble right after its request does not pass: every fault the listener can
\* inject, and every answer that belongs to another transaction, unit, node or
\* route, matches an entry.  One kind does pass, the FINS response shorter than
\* its TCP header: its failed check is in no entry.
TroubleIsConcluded == last = "trouble" => matched # {}
=============================================================================
