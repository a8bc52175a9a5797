------------------------------ MODULE S7Codec ------------------------------
(***************************************************************************)
(* protocols/s7/codec.py: S7comm in COTP in TPKT.  A connection is asked   *)
(* for, then a PDU length negotiated, then variables are read and written. *)
(***************************************************************************)
EXTENDS Frames

S7_PROTOCOL_ID == 50
COTP_DATA_PDU_TYPE == 240
ROSCR_JOB      == 1
ROSCR_ACK_DATA == 3
FUNC_READ_VAR  == 4
FUNC_WRITE_VAR == 5
TS_BYTE        == 2
SUCCESS        == 255
AREA_CODES == [I |-> 129, Q |-> 130, M |-> 131, DB |-> 132, DI |-> 133, L |-> 134]

BuildCotpConnectRequest(rack, slot) ==
  <<3, 0, 0, 22, 17, 224, 0, 0, 0, 1, 0, 192, 1, 10, 193, 2, 1, 0, 194, 2, 1, rack * 32 + slot>>

\* Any TPKT long enough confirms; its PDU type is not looked at.
ParseCotpConnectResponse(f) == Len(f) >= 11 /\ At(f, 0) = 3

\* The parts of a frame from the COTP header on, and the TPKT around them.
Job(ref, param, data) ==
  <<3, 0>> \o B16(17 + Len(param) + Len(data)) \o <<2, COTP_DATA_PDU_TYPE, 128>>
    \o <<S7_PROTOCOL_ID, ROSCR_JOB, 0, 0>> \o B16(ref) \o B16(Len(param)) \o B16(Len(data)) \o param \o data

BuildPduNegotiation(pdu_length) == Job(0, <<COTP_DATA_PDU_TYPE, 0, 0, 1, 0, 1>> \o B16(pdu_length), <<>>)

\* The PDU length agreed on, 0 where ValueError is raised; a short answer, as
\* an echo is, agrees to what was asked for.
ParsePduNegotiationResponse(f, requested) ==
  CASE Len(f) < 21 -> 0
    [] Len(f) \in 21..26 -> requested
    [] OTHER -> IF At(f, 8) = ROSCR_ACK_DATA THEN U16(f, 25) ELSE 0

\* Bytes are addressed by their first bit, in 24 bits.
Item(area, db, start, bytes) ==
  LET address == (start * 8) % 16777216 IN
  <<18, 10, 16, TS_BYTE>> \o B16(bytes) \o B16(db) \o <<AREA_CODES[area]>> \o From(B32(address), 1)

\* The numbers have sixteen bits, or struct.error is raised: no frame (<<>>).
BuildReadRequest(area, db, start, count, ref) ==
  IF area \in DOMAIN AREA_CODES /\ {db, count, ref} \subseteq WORD
  THEN Job(ref, <<FUNC_READ_VAR, 1>> \o Item(area, db, start, count), <<>>) ELSE <<>>

BuildWriteRequest(area, db, start, values, ref) ==
  IF /\ area \in DOMAIN AREA_CODES
     /\ {db, ref, 16 * Len(values)} \subseteq WORD
     /\ \A i \in DOMAIN values : values[i] \in WORD
  THEN Job(ref, <<FUNC_WRITE_VAR, 1>> \o Item(area, db, start, 2 * Len(values)),
           <<0, 3>> \o B16(16 * Len(values)) \o FlattenSeq([i \in DOMAIN values |-> B16(values[i])]))
  ELSE <<>>

-----------------------------------------------------------------------------

\* The answer to a read; code is -1 where the frame is too short for one.  That
\* there are as many words as were asked for is not looked at.
ParseReadResponse(f, q) ==
  LET std == At(f, 19) \in {FUNC_READ_VAR, FUNC_WRITE_VAR}
      data == Mid(f, 25, 25 + U16(f, 23))
  IN [errors |-> IF Len(f) < 25 THEN {"too_short"} ELSE Found([
        tpkt_version  |-> At(f, 0) # 3,
        rosctr        |-> At(f, 8) # ROSCR_ACK_DATA,
        error_class   |-> std /\ U16(f, 17) # 0,
        function      |-> At(f, IF std THEN 19 ELSE 17) # FUNC_READ_VAR,
        return_code   |-> At(f, 21) # SUCCESS,
        pdu_reference |-> Len(q) >= 14 /\ U16(q, 11) # U16(f, 11)]),
      code  |-> IF Len(f) < 25 THEN -1 ELSE At(f, 21),
      words |-> [i \in 1..Len(data) \div 2 |-> U16(data, 2 * (i - 1))]]

\* The answer to a write, whichever write; ok is FALSE where ValueError is raised.
ParseWriteResponse(f) == [ok |-> Len(f) >= 22 /\ At(f, 8) = ROSCR_ACK_DATA, code |-> At(f, 21)]

\* The errors of a request with its seventeen bytes.  The items are read up to
\* the first that is not whole or not an item.
ParseRequest(f) ==
  LET n == Len(f)
      sound == U16(f, 13) >= 2 /\ 17 + U16(f, 13) <= n
      func  == At(f, IF At(f, 19) = FUNC_READ_VAR THEN 19 ELSE 17)
      vars  == sound /\ func \in {FUNC_READ_VAR, FUNC_WRITE_VAR}
      Off(i) == 19 + 12 * i
      whole == {i \in 0..At(f, 18) - 1 : Off(i) + 12 <= n}
      bad   == {i \in 0..At(f, 18) - 1 : i \notin whole \/ At(f, Off(i)) # 18 \/ At(f, Off(i) + 1) # 10}
      read  == IF bad = {} THEN At(f, 18) ELSE CHOOSE i \in bad : \A j \in bad : i <= j
      data  == From(f, Off(read))
      written == vars /\ func = FUNC_WRITE_VAR /\ U16(f, 15) > 0
  IN Found([
       tpkt_version  |-> At(f, 0) # 3,
       tpkt_length   |-> U16(f, 2) # n,
       cotp_pdu_type |-> At(f, 5) # COTP_DATA_PDU_TYPE,
       protocol_id   |-> At(f, 7) # S7_PROTOCOL_ID,
       rosctr        |-> At(f, 8) # ROSCR_JOB,
       param         |-> ~sound,
       item_short    |-> vars /\ bad # {} /\ read \notin whole,
       item_header   |-> vars /\ bad # {} /\ read \in whole,
       data_short    |-> written /\ Len(data) < U16(f, 15),
       data_header   |-> written /\ Len(data) >= U16(f, 15) /\ Len(data) < 4])

ValidateFrame(f, direction) ==
  LET n == Len(f)
      functions == {FUNC_READ_VAR, FUNC_WRITE_VAR}
  IN Found([
       min_length     |-> n < 25,
       tpkt_version   |-> n >= 7 /\ At(f, 0) # 3,
       s7_protocol_id |-> n >= 17 /\ At(f, 7) # S7_PROTOCOL_ID,
       rosctr         |-> n >= 17 /\ At(f, 8) # (IF direction = "req" THEN ROSCR_JOB ELSE ROSCR_ACK_DATA),
       function_valid |-> n >= 18 /\ At(f, IF At(f, 19) \in functions THEN 19 ELSE 17) \notin functions,
       return_code    |-> n >= 22 /\ At(f, 21) # SUCCESS])
=============================================================================
