---------------------------- MODULE ModbusCodec ----------------------------
(***************************************************************************)
(* protocols/modbus/codec.py: the frames of Modbus TCP and RTU, built,     *)
(* parsed and validated.  A parser returns the errors it lists (valid is   *)
(* that there are none); a validation, the checks that failed.             *)
(***************************************************************************)
EXTENDS Frames

READ_FCS   == 1..4
WRITE_FCS  == {5, 6}
WRITE_MULTIPLE_REGISTERS == 16
KNOWN_FCS  == READ_FCS \cup WRITE_FCS \cup {WRITE_MULTIPLE_REGISTERS}
REGISTERS  == {3, 4}
EXCEPTION_FLAG  == 128
EXCEPTION_CODES == (1..6) \cup {8, 10, 11}
MBAP_LEN    == 7
MAX_UNIT_ID == 247

read_limit(fc) == IF fc \in {1, 2} THEN 2000 ELSE 125

\* A builder returns no frame (<<>>) where it raises: ValueError for what it
\* checks, struct.error for a number that does not fit its field.
Mbap(tid, unit, pdu) == B16(tid) \o B16(0) \o B16(Len(pdu) + 1) \o <<unit>> \o pdu

BuildReadRequest(tid, unit, fc, address, quantity) ==
  IF /\ fc \in READ_FCS
     /\ tid \in WORD
     /\ unit \in 0..MAX_UNIT_ID
     /\ address \in WORD
     /\ quantity \in 1..read_limit(fc)
  THEN Mbap(tid, unit, <<fc>> \o B16(address) \o B16(quantity)) ELSE <<>>

BuildWriteSingle(tid, unit, fc, address, value) ==
  IF /\ fc \in WRITE_FCS
     /\ tid \in WORD
     /\ unit \in 0..MAX_UNIT_ID
     /\ address \in WORD
     /\ value \in (IF fc = 5 THEN {0, 1} ELSE WORD)
  THEN Mbap(tid, unit, <<fc>> \o B16(address) \o B16(IF fc = 5 THEN value * 65280 ELSE value))
  ELSE <<>>

BuildWriteMultiple(tid, unit, address, values) ==
  IF /\ Len(values) \in 1..123
     /\ {tid, address} \subseteq WORD /\ unit \in BYTE
     /\ \A i \in DOMAIN values : values[i] \in WORD
  THEN Mbap(tid, unit, <<WRITE_MULTIPLE_REGISTERS>> \o B16(address) \o B16(Len(values))
                         \o <<2 * Len(values)>> \o FlattenSeq([i \in DOMAIN values |-> B16(values[i])]))
  ELSE <<>>

-----------------------------------------------------------------------------

ParseRequest(f) ==
  LET n == Len(f)
      fc == At(f, 7)
      whole == n >= 12 /\ fc \in KNOWN_FCS
  IN IF n < MBAP_LEN THEN {"too_short"}
     ELSE Found([
       protocol_id |-> U16(f, 2) # 0,
       length      |-> U16(f, 4) # n - 6,
       no_fc       |-> n < 8,
       unknown_fc  |-> n >= 8 /\ fc \notin KNOWN_FCS,
       truncated   |-> n \in 8..11 /\ fc \in KNOWN_FCS,
       quantity    |-> whole /\ fc \in READ_FCS /\ U16(f, 10) \notin 1..read_limit(fc),
       coil        |-> whole /\ fc = 5 /\ U16(f, 10) \notin {0, 65280},
       unit_id     |-> whole /\ At(f, 6) > MAX_UNIT_ID])

\* Mutated form: any number of registers will do.
CrossCheckUncounted(f, q) ==
  LET fc == At(f, 7)
      raised == fc >= EXCEPTION_FLAG
  IN IF Len(q) < 8 THEN {"request_short"} ELSE
     IF Len(f) < 8 THEN {} ELSE
     Found([
       transaction_id |-> U16(f, 0) # U16(q, 0),
       unit_mismatch  |-> At(f, 6) # At(q, 6),
       exception_fc   |-> raised /\ fc - EXCEPTION_FLAG # At(q, 7),
       fc_mismatch    |-> ~raised /\ fc # At(q, 7)])

\* Mutated form: the answer to any request will do.
CrossCheckUnnumbered(f, q) ==
  LET fc == At(f, 7)
      raised == fc >= EXCEPTION_FLAG
      quantity == IF Len(q) >= 12 THEN U16(q, 10) ELSE 0
  IN IF Len(q) < 8 THEN {"request_short"} ELSE
     IF Len(f) < 8 THEN {} ELSE
     Found([
       unit_mismatch  |-> At(f, 6) # At(q, 6),
       exception_fc   |-> raised /\ fc - EXCEPTION_FLAG # At(q, 7),
       fc_mismatch    |-> ~raised /\ fc # At(q, 7),
       quantity       |-> fc = At(q, 7) /\ fc \in REGISTERS /\ Len(f) >= 9 /\ At(f, 8) # 2 * quantity])

CrossCheck(f, q) ==
  LET fc == At(f, 7)
      raised == fc >= EXCEPTION_FLAG
      quantity == IF Len(q) >= 12 THEN U16(q, 10) ELSE 0
  IN IF Len(q) < 8 THEN {"request_short"} ELSE
     IF Len(f) < 8 THEN {} ELSE
     Found([
       transaction_id |-> U16(f, 0) # U16(q, 0),
       unit_mismatch  |-> At(f, 6) # At(q, 6),
       exception_fc   |-> raised /\ fc - EXCEPTION_FLAG # At(q, 7),
       fc_mismatch    |-> ~raised /\ fc # At(q, 7),
       quantity       |-> fc = At(q, 7) /\ fc \in REGISTERS /\ Len(f) >= 9 /\ At(f, 8) # 2 * quantity])

\* The errors of an answer; q is the request, or <<>>.
ParseResponse(f, q) ==
  LET n == Len(f)
      fc == At(f, 7)
      raised == n >= 8 /\ fc >= EXCEPTION_FLAG
      reads  == n >= 9 /\ fc \in READ_FCS
      there  == IF n - 9 < At(f, 8) THEN n - 9 ELSE At(f, 8)
  IN IF n < MBAP_LEN THEN {"too_short"}
     ELSE (IF q = <<>> THEN {} ELSE CrossCheck(f, q)) \cup Found([
       protocol_id    |-> U16(f, 2) # 0,
       length         |-> U16(f, 4) # n - 6,
       no_fc          |-> n < 8,
       base_fc        |-> raised /\ fc - EXCEPTION_FLAG \notin KNOWN_FCS,
       no_code        |-> raised /\ n < 9,
       exception_size |-> raised /\ n > 9,
       unknown_fc     |-> n >= 8 /\ ~raised /\ fc \notin KNOWN_FCS,
       no_byte_count  |-> n = 8 /\ fc \in READ_FCS,
       data_truncated |-> reads /\ n - 9 < At(f, 8),
       odd            |-> reads /\ fc \in REGISTERS /\ there % 2 # 0,
       truncated      |-> n \in 8..11 /\ fc \in KNOWN_FCS \ READ_FCS])

\* The registers of an answer to a read, and of an RTU answer to one.
RegisterValues(f)    == [i \in 1..At(f, 8) \div 2 |-> U16(f, 9 + 2 * (i - 1))]
RtuRegisterValues(f) == [i \in 1..At(f, 2) \div 2 |-> U16(f, 3 + 2 * (i - 1))]

\* The exception code an answer carries, 0 for none.
ExceptionCode(f) == IF Len(f) >= 9 /\ At(f, 7) >= EXCEPTION_FLAG THEN At(f, 8) ELSE 0

-----------------------------------------------------------------------------

PduShape(f, direction) ==
  LET n == Len(f)
      fc == At(f, 7)
      operand == U16(f, 10)
  IN IF direction = "req"
     THEN /\ fc \in KNOWN_FCS
          /\ n = 12
          /\ fc \in READ_FCS => operand \in 1..read_limit(fc) /\ U16(f, 8) + operand <= 65536
          /\ fc = 5 => operand \in {0, 65280}
     ELSE \/ fc \in READ_FCS /\ n >= 9 /\ n = 9 + At(f, 8) /\ (fc \in REGISTERS => At(f, 8) % 2 = 0)
          \/ fc \in WRITE_FCS /\ n = 12

ValidateFrame(f, direction) ==
  LET n == Len(f)
      fc == At(f, 7)
      raised == n >= 8 /\ fc >= EXCEPTION_FLAG
      plain  == n >= 8 /\ fc < EXCEPTION_FLAG
  IN IF n < MBAP_LEN THEN {"mbap_header_complete"}
     ELSE Found([
       mbap_header_complete    |-> direction = "req" /\ n < 12,
       protocol_id_zero        |-> U16(f, 2) # 0,
       length_field_consistent |-> U16(f, 4) # n - 6,
       unit_id_in_range        |-> At(f, 6) > MAX_UNIT_ID,
       function_code_known     |-> n < 8 \/ fc % EXCEPTION_FLAG \notin KNOWN_FCS,
       exception_code_known    |-> raised /\ ~(n >= 9 /\ At(f, 8) \in EXCEPTION_CODES),
       exception_frame_exact_length |-> raised /\ n # 9,
       function_code_supported |-> plain /\ fc \notin KNOWN_FCS,
       request_pdu_valid       |-> plain /\ direction = "req" /\ ~PduShape(f, direction),
       response_pdu_valid      |-> plain /\ direction = "resp" /\ ~PduShape(f, direction)])

-----------------------------------------------------------------------------
(* RTU: address, PDU, CRC                                                   *)

\* How long the answer that begins with head is, -1 while that is not known.
RtuResponseTotalLen(head) ==
  LET fc == At(head, 1) IN
  CASE Len(head) < 2 -> -1
    [] Len(head) >= 2 /\ fc >= EXCEPTION_FLAG -> 5
    [] Len(head) >= 2 /\ fc \in {5, 6, 15, 16} -> 8
    [] Len(head) >= 3 /\ fc \in READ_FCS -> 5 + At(head, 2)
    [] OTHER -> -1

\* a ^ b, bit by bit from the lowest.
Xor[a \in Nat, b \in Nat] ==
  IF a = 0 \/ b = 0 THEN a + b ELSE ((a + b) % 2) + 2 * Xor[a \div 2, b \div 2]

crc16(data) ==
  LET Shift[crc \in WORD, k \in 0..8] ==
        IF k = 0 THEN crc
        ELSE Shift[IF crc % 2 = 1 THEN Xor[crc \div 2, 40961] ELSE crc \div 2, k - 1]
  IN FoldLeft(LAMBDA crc, byte : Shift[Xor[crc, byte], 8], 65535, data)

CrcIsRight(f) == L16(f, Len(f) - 2) = crc16(Upto(f, Len(f) - 2))

RtuDirection(f) ==
  IF (At(f, 1) % EXCEPTION_FLAG = WRITE_MULTIPLE_REGISTERS) = (Len(f) = 8) THEN "resp" ELSE "req"

\* [direction, errors]: an exception is an answer whatever its length.
ParseRtuAs(f, expected) ==
  LET fc == At(f, 1)
      payload == Mid(f, 2, Len(f) - 2)
      size == Len(payload)
      raised == fc >= EXCEPTION_FLAG
      direction == IF Len(f) >= 4 /\ raised THEN "resp" ELSE expected
      reads == fc \in READ_FCS /\ direction = "resp"
  IN [direction |-> direction,
      errors |-> IF Len(f) < 4 THEN {"too_short"} ELSE Found([
        crc            |-> ~CrcIsRight(f),
        exception_size |-> raised /\ size # 1,
        exception_code |-> raised /\ size = 1 /\ At(payload, 0) \notin EXCEPTION_CODES,
        fc16_short     |-> fc = WRITE_MULTIPLE_REGISTERS /\ size < (IF direction = "req" THEN 5 ELSE 4),
        unknown_fc     |-> ~raised /\ fc \notin KNOWN_FCS,
        no_byte_count  |-> reads /\ size < 1,
        byte_count     |-> reads /\ size >= 1 /\ At(payload, 0) # size - 1,
        operands       |-> fc \in READ_FCS \cup WRITE_FCS /\ direction = "req" /\ size # 4])]

ParseRtu(f) == ParseRtuAs(f, RtuDirection(f))

ValidateRtu(f) ==
  LET n == Len(f)
      fc == At(f, 1)
      raised == fc >= EXCEPTION_FLAG
      request == ~raised /\ RtuDirection(f) = "req"
      answer  == ~raised /\ RtuDirection(f) = "resp"
  IN IF n < 4 THEN {"rtu_min_length"}
     ELSE Found([
       rtu_crc_valid           |-> ~CrcIsRight(f),
       function_code_known     |-> fc % EXCEPTION_FLAG \notin KNOWN_FCS,
       exception_payload_shape |-> raised /\ n # 5,
       request_payload_shape   |-> request /\
         IF fc = WRITE_MULTIPLE_REGISTERS
         THEN ~(n >= 7 /\ n = 9 + At(f, 6) /\ At(f, 6) = 2 * U16(f, 4))
         ELSE n # 8,
       response_payload_shape  |-> answer /\
         CASE fc \in WRITE_FCS -> n # 8
           [] fc \in READ_FCS  -> n # 5 + At(f, 2)
           [] OTHER            -> n < 6])

RtuFrameFromPdu(unit, pdu) ==
  IF unit \in 0..MAX_UNIT_ID THEN <<unit>> \o pdu \o S16(crc16(<<unit>> \o pdu)) ELSE <<>>

RtuRequestFromTcp(f) == RtuFrameFromPdu(At(f, 6), From(f, MBAP_LEN))
=============================================================================
