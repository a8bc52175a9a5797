-------------------------- MODULE ListenerAnswers --------------------------
(***************************************************************************)
(* What the listener answers (listener.py, build_normal_response) and how  *)
(* it spoils an answer (_apply_fault).                                     *)
(***************************************************************************)
EXTENDS Codecs

None   == <<>>      \* no answer: the request is recorded only
Raises == <<-1>>    \* the code raises, which ends the connection

ModbusResponse(f) ==
  LET fc == At(f, 7)
      quantity == U16(f, 10)
      bytes == IF fc \in {1, 2} THEN (quantity + 7) \div 8 ELSE 2 * quantity
  IN CASE Len(f) >= 12 /\ fc \in MB!WRITE_FCS -> f
       [] Len(f) >= 12 /\ fc \in MB!READ_FCS  ->
            IF bytes > 255 THEN Raises
            ELSE Upto(f, 2) \o B16(0) \o B16(3 + bytes) \o <<At(f, 6), fc, bytes>> \o Zeros(bytes)
       [] OTHER -> None

\* node is the server's, from this connection's handshake; 0 before it.
FinsResponse(f, node) ==
  LET command == U32(f, 8)
      p == From(f, FI!TCP_HEADER_LEN)
      client == At(p, 3)
  IN CASE Len(f) >= FI!TCP_HEADER_LEN /\ command = FI!TCP_CMD_CONNECT_REQ /\ Len(p) >= 4 ->
            FI!BuildTcpFrame(FI!TCP_CMD_CONNECT_CFM, B32(IF client # 2 THEN 2 ELSE 3) \o B32(client))
       [] Len(f) >= FI!TCP_HEADER_LEN /\ command \in FI!FINS_EXCHANGE_COMMANDS /\ Len(p) >= 18
            /\ U16(p, 10) = FI!CMD_MEMORY_AREA_READ ->
            FI!BuildTcpFrame(command, <<64, 0, 2>> \o Mid(p, 6, 9) \o <<0, node, 0, At(p, 9)>>
                                        \o B16(FI!CMD_MEMORY_AREA_READ) \o Zeros(2 + 2 * U16(p, 16)))
       [] OTHER -> None

MelsecFormat(f) ==
  CASE Len(f) >= 2 /\ At(f, 1) = 0 /\ At(f, 0) \in {80, 84} -> IF At(f, 0) = 84 THEN "4e_binary" ELSE "3e_binary"
    [] Len(f) >= 4 /\ At(f, 0) \in {53, 68} -> IF Upto(f, 4) = <<53, 52, 48, 48>> THEN "4e_ascii" ELSE "3e_ascii"
    [] OTHER -> "none"

MelsecResponse(f) ==
  LET fmt  == MelsecFormat(f)
      body == From(f, MC!HeaderLen(fmt))
      pdu  == MC!DecodePdu(fmt, body)
      data == [i \in 1..MC!Size(fmt) * (1 + MC!WordsOf(pdu.device, pdu.count)) |-> IF MC!IsAscii(fmt) THEN 48 ELSE 0]
      sub  == MC!Subheader(fmt, "resp")
      echo == Mid(f, MC!Size(fmt), MC!LenOffset(fmt))
  IN CASE fmt = "none" -> None
       [] fmt # "none" /\ Len(body) < 10 -> None
       [] fmt # "none" /\ Len(body) >= 10 ->
            IF ~pdu.ok THEN Raises
            ELSE IF pdu.cmd # MC!CMD_BATCH_READ_WORD THEN None
            ELSE (IF MC!IsAscii(fmt) THEN Hex(sub, 4) ELSE B16(sub)) \o echo \o MC!Word(fmt, Len(data)) \o data

\* What the listener always has to tell: eight points and four measured values.
CannedPoints == [i \in 1..8 |-> <<199 + i, <<i % 2>>>>]
CannedFloats == [i \in 1..4 |-> <<299 + i, <<0, 0>> \o <<<<0, 0>>, <<128, 62>>, <<0, 63>>, <<64, 63>>>>[i] \o <<0>>>>]

\* Mutated form: every frame of the answer has the same number.
Iec104ResponseStuck(f) ==
  LET tx == L16(f, 4) \div 2
      rx == L16(f, 2) \div 2
      ca == L16(f, 10)
      Again(cot) == Patch(From(f, 6), 2, <<cot, 0>>)
      Confirm == IEC!BuildApciU(IEC!Confirmation(At(f, 2)))
  IN CASE IEC!ApciFormat(f) = "U" -> Confirm
       [] IEC!ApciFormat(f) = "I" /\ At(f, 6) = IEC!C_IC_NA_1 ->
            IEC!BuildApciI(tx, rx, Again(7)) \o IEC!BuildApciI(tx, rx, Again(10))
       [] OTHER -> None

\* The station's part: the frames are numbered from the request's rx on.
Iec104Response(f) ==
  LET asdu == IEC!ParseAsdu(From(f, IEC!APCI_LEN))
      tx == L16(f, 4) \div 2
      rx == L16(f, 2) \div 2
      Nth(k) == (tx + k) % 32768
      Again(cot) == Patch(From(f, IEC!APCI_LEN), 2, <<cot, 0>>)
      Canned(t, objects, k) == IEC!BuildApciI(Nth(k), rx, IEC!BuildAsduObjects(t, objects, 20, asdu.ca))
      whole == Len(f) >= IEC!APCI_LEN /\ At(f, 0) = IEC!START_BYTE
      fmt   == IEC!ApciFormat(f)
  IN CASE whole /\ fmt = "U" -> IF IEC!Confirmation(At(f, 2)) = 0 THEN None
                                ELSE IEC!BuildApciU(IEC!Confirmation(At(f, 2)))
       [] whole /\ fmt = "I" /\ Len(f) > IEC!APCI_LEN ->
            IF asdu.raises THEN Raises
            ELSE IF asdu.type # IEC!C_IC_NA_1 \/ asdu.cot # 6 THEN None
            ELSE IEC!BuildApciI(tx, rx, Again(7))
                   \o Canned(IEC!M_SP_NA_1, CannedPoints, 1)
                   \o Canned(IEC!M_ME_NC_1, CannedFloats, 2)
                   \o IEC!BuildApciI(Nth(3), rx, Again(10))
       [] OTHER -> None

\* Tags by the beginnings of their names: 42, 43, ... of one, and none other exists
\* but beta, whose values are bytes one by one and not joined: TypeError.
ALPHA == <<97, 108, 112, 104, 97>>
BETA  == <<98, 101, 116, 97>>
CannedTag(name, count) ==
  <<ENIP!SVC_READ_TAG + ENIP!SVC_REPLY, 0>> \o
    CASE IsPrefix(ALPHA, name) -> <<0, 0>> \o S16(ENIP!DINT) \o FlattenSeq([i \in 1..count |-> S32(41 + i)])
      [] IsPrefix(BETA, name)  -> <<0, 0>> \o S16(ENIP!REAL) \o S16(count)
      [] OTHER -> <<5, 0, 0>>

\* A read names its tag behind the first byte 91h, wherever that is, and ends in its
\* count.  Of the services in a SendRRData only the bare ones have an answer, which
\* goes out in an item of the type of requests.
IDENTITY == S16(1) \o Zeros(16) \o S32(1) \o S16(12) \o S16(66) \o <<1, 5, 0, 0>> \o <<238, 255, 192, 0>>
              \o <<14>> \o [i \in 1..14 |-> 112]
EnipResponse(f) ==
  LET h   == ENIP!ParseEnipHeader(f)
      p   == h.payload
      off == 12 + L16(p, 10)
      cip == Mid(p, off + 4, off + 4 + L16(p, off + 2))
      names == {i \in 0..Len(cip) - 3 : At(cip, i) = 145}
      first == CHOOSE i \in names : \A j \in names : i <= j
      name  == Mid(cip, first + 2, first + 2 + At(cip, first + 1))
      count == L16(cip, Len(cip) - 2)
      there == Len(p) >= 12 /\ L16(p, 6) = 2 /\ Len(p) >= off + 4
      Reply(answer) == ENIP!BuildSendRrData(h.session, answer, FALSE)
  IN CASE h.ok /\ h.command = ENIP!CMD_REGISTER_SESSION -> ENIP!BuildEnip(h.command, p, 1)
       [] h.ok /\ h.command = ENIP!CMD_LIST_IDENTITY ->
            ENIP!BuildEnip(h.command, S16(1) \o S16(ENIP!ITEM_CIP_IDENTITY) \o S16(Len(IDENTITY)) \o IDENTITY, 1)
       [] h.ok /\ h.command = ENIP!CMD_SEND_RR_DATA /\ there /\ At(cip, 0) = ENIP!SVC_WRITE_TAG ->
            Reply(<<ENIP!SVC_WRITE_TAG + ENIP!SVC_REPLY, 0, 0, 0>>)
       [] h.ok /\ h.command = ENIP!CMD_SEND_RR_DATA /\ there /\ At(cip, 0) = ENIP!SVC_READ_TAG ->
            IF names = {} THEN None
            ELSE IF (IsPrefix(BETA, name) /\ count > 0) \/ (IsPrefix(ALPHA, name) /\ 4 * count + 22 > 65535) THEN Raises
            ELSE Reply(CannedTag(name, count))
       [] OTHER -> None

BuildNormalResponse(protocol, f, node) ==
  CASE protocol = "modbus" -> ModbusResponse(f)
    [] protocol = "fins"   -> FinsResponse(f, node)
    [] protocol = "iec104" -> Iec104Response(f)
    [] protocol = "melsec" -> MelsecResponse(f)
    [] protocol = "enip"   -> EnipResponse(f)

-----------------------------------------------------------------------------

FAULT_CATALOG == [modbus |-> {"exception", "bad_length", "truncate", "garbage"},
                  fins   |-> {"end_code", "bad_length", "garbage"},
                  melsec |-> {"end_code", "bad_length", "garbage"}]

\* The offsets of a MELSEC answer's end code and length, as _apply_fault has them.
MelsecFields(r) ==
  CASE Upto(r, 2) = <<208, 0>> -> <<9, 7>>
    [] Upto(r, 2) = <<212, 0>> -> <<13, 11>>
    [] Upto(r, 4) = <<68, 48, 48, 48>> -> <<18, 14>>
    [] Upto(r, 4) = <<68, 52, 48, 48>> -> <<26, 22>>
    [] OTHER -> <<0, 0>>

\* Mutated form: the format is sniffed from the request, not from the answer.
ApplyFaultSniffed(protocol, q, r, fault) ==
  LET end == MelsecFields(q)[1]
      len == MelsecFields(q)[2]
  IN CASE fault = "garbage" -> Zeros(8)
       [] protocol = "modbus" /\ fault = "exception" -> Upto(q, 2) \o <<0, 0, 0, 3, At(q, 6), 128 + (At(q, 7) % 128), 2>>
       [] fault = "end_code" /\ end # 0 -> Patch(r, end, S16(49231))
       [] fault = "bad_length" /\ len # 0 -> Patch(r, len, S16(L16(r, len) + 2))
       [] OTHER -> r

ApplyFault(protocol, q, r, fault) ==
  LET end == MelsecFields(r)[1]
      len == MelsecFields(r)[2]
  IN CASE fault = "garbage" -> Zeros(8)
       [] protocol = "modbus" /\ fault = "exception" /\ Len(q) >= 8 ->
            Upto(q, 2) \o <<0, 0, 0, 3, At(q, 6), 128 + (At(q, 7) % 128), 2>>
       [] protocol = "modbus" /\ fault = "bad_length" /\ Len(r) >= 6 -> Patch(r, 4, B16(U16(r, 4) + 1))
       [] protocol = "modbus" /\ fault = "truncate" /\ Len(r) > 8 -> Upto(r, Len(r) - 2)
       [] protocol = "fins" /\ fault = "end_code" /\ Len(r) >= 30 -> Patch(r, 28, B16(4353))
       [] protocol = "fins" /\ fault = "bad_length" /\ Len(r) >= 8 -> Patch(r, 4, B32(U32(r, 4) + 2))
       [] protocol = "melsec" /\ fault = "end_code" /\ end # 0 /\ Len(r) >= end + 2 -> Patch(r, end, S16(49231))
       [] protocol = "melsec" /\ fault = "bad_length" /\ len # 0 /\ Len(r) >= len + 2 ->
            Patch(r, len, S16(L16(r, len) + 2))
       [] OTHER -> r
=============================================================================
