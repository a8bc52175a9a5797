------------------------------- MODULE Codecs -------------------------------
(***************************************************************************)
(* The codecs side by side, as codec_for and the callers of several        *)
(* protocols take them, and the direction of a frame nobody knows the      *)
(* direction of (protocols/auto.py).                                       *)
(***************************************************************************)
EXTENDS Streams

MB  == INSTANCE ModbusCodec
FI  == INSTANCE FinsCodec
MC  == INSTANCE MelsecCodec
IEC == INSTANCE Iec104Codec
ENIP == INSTANCE EnipCodec
S7  == INSTANCE S7Codec

\* A frame parsed on its own, as a request or as a response: direction, errors,
\* and the code a device put into a response (0 also where it put none).
AsRequest(errors)        == [direction |-> "req", errors |-> errors, code |-> 0]
AsResponse(errors, code) == [direction |-> "resp", errors |-> errors, code |-> code]

\* Requests have 12 bytes, and whatever has 12 is taken for one.
ParseModbus(f) ==
  IF Len(f) = 12 /\ At(f, 7) \in MB!KNOWN_FCS
  THEN AsRequest(MB!ParseRequest(f))
  ELSE AsResponse(MB!ParseResponse(f, <<>>), MB!ExceptionCode(f))

\* Some devices use the commands of the handshake for data, so the size of the
\* payload tells first, and then the response bit of its ICF.
ParseFins(f) ==
  LET h == FI!ParseTcpHeader(f)
      data == Len(h.payload) >= FI!FINS_HEADER_LEN + 4
      answers == (At(h.payload, 0) \div 64) % 2 = 1
      request == CASE ~h.ok -> TRUE
                   [] h.ok /\ h.command = FI!TCP_CMD_CONNECT_REQ -> ~data
                   [] h.ok /\ h.command = FI!TCP_CMD_DATA_SEND   -> data /\ ~answers
                   [] h.ok /\ h.command = FI!TCP_CMD_EXCHANGE    -> ~(data /\ answers)
                   [] OTHER -> FALSE
  IN IF request THEN AsRequest(FI!ParseRequest(f))
     ELSE AsResponse(FI!ParseResponse(f, <<>>), FI!EndCode(f))

\* The format and direction a MELSEC subheader stands for.
MelsecKind(f) ==
  LET head == IF At(f, 0) = 100 THEN Patch(Upto(f, 4), 0, <<68>>) ELSE Upto(f, 4) IN
  CASE Len(f) < 4                     -> <<"3e_binary", "req">>
    [] head = <<53, 48, 48, 48>>      -> <<"3e_ascii", "req">>
    [] head = <<53, 52, 48, 48>>      -> <<"4e_ascii", "req">>
    [] head = <<68, 48, 48, 48>>      -> <<"3e_ascii", "resp">>
    [] head = <<68, 52, 48, 48>>      -> <<"4e_ascii", "resp">>
    [] Len(f) >= 4 /\ U16(f, 0) = 20480 -> <<"3e_binary", "req">>
    [] Len(f) >= 4 /\ U16(f, 0) = 21504 -> <<"4e_binary", "req">>
    [] Len(f) >= 4 /\ U16(f, 0) = 54272 -> <<"4e_binary", "resp">>
    [] OTHER                          -> <<"3e_binary", "resp">>

ParseMelsec(f) ==
  LET fmt == MelsecKind(f)[1] IN
  IF MelsecKind(f)[2] = "req" THEN AsRequest(MC!ParseRequestFmt(f, fmt))
  ELSE AsResponse(MC!ParseResponseFmt(f, <<>>, fmt), MC!EndCode(f, fmt))

ParseAuto(protocol, f) ==
  CASE protocol = "modbus" -> ParseModbus(f)
    [] protocol = "fins"   -> ParseFins(f)
    [] protocol = "melsec" -> ParseMelsec(f)
=============================================================================
