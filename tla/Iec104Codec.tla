---------------------------- MODULE Iec104Codec ----------------------------
(***************************************************************************)
(* protocols/iec104/codec.py: APCI frames (I, S and U) and the ASDU an     *)
(* I-frame carries.                                                        *)
(***************************************************************************)
EXTENDS Frames

START_BYTE == 104
APCI_LEN   == 6
APDU_LENS  == 4..253
SEQUENCE_NUMBERS == 0..32767
U_STARTDT_ACT == 7
U_STARTDT_CON == 11
U_TESTFR_ACT  == 67
U_TESTFR_CON  == 131
U_FUNCTIONS   == {U_STARTDT_ACT, U_STARTDT_CON, 19, 23, U_TESTFR_ACT, U_TESTFR_CON}
\* STARTDT, STOPDT and TESTFR: what confirms an activation.
Confirmation(fn) ==
  CASE fn = U_STARTDT_ACT -> U_STARTDT_CON [] fn = 19 -> 23 [] fn = U_TESTFR_ACT -> U_TESTFR_CON [] OTHER -> 0

M_SP_NA_1 == 1
M_ME_NC_1 == 13
C_IC_NA_1 == 100
C_RD_NA_1 == 102
C_CS_NA_1 == 103
CONTROL_TYPES == {45, 46, 47, 48, 100, 102, 103, 104}
TIME_TAGGED   == {30, 34, 35, 36}
NO_IOA_TYPES  == {103, 104}
TYPES == {1, 30, 9, 11, 13, 34, 35, 36, 45, 100, 102, 103, 104}
ElementSize(t) ==
  (CASE t \in {1, 30, 45, 100} -> 1
     [] t \in {9, 11, 34, 35, 104} -> 3
     [] t \in {13, 36} -> 5
     [] t = 103 -> 7
     [] OTHER -> 0)
  + (IF t \in TIME_TAGGED THEN 7 ELSE 0)

BuildApciI(tx, rx, asdu) ==
  IF {tx, rx} \subseteq SEQUENCE_NUMBERS /\ 4 + Len(asdu) \in 5..253
  THEN <<START_BYTE, 4 + Len(asdu)>> \o S16(2 * tx) \o S16(2 * rx + 1) \o asdu ELSE <<>>
BuildApciU(fn) == IF fn \in U_FUNCTIONS THEN <<START_BYTE, 4, fn, 0, 0, 0>> ELSE <<>>
BuildApciS(rx) == IF rx \in SEQUENCE_NUMBERS THEN <<START_BYTE, 4, 1, 0>> \o S16(2 * rx) ELSE <<>>

Asdu(t, num, cot, ca, objects) ==
  IF t \in TYPES /\ num \in 1..63 /\ ca \in WORD /\ cot \in 0..63
  THEN <<t, num>> \o S16(cot) \o S16(ca) \o objects ELSE <<>>
Ioa(n) == Upto(S32(n), 3)

BuildAsduObjects(t, objects, cot, ca) ==
  Asdu(t, Len(objects), cot, ca, FlattenSeq([i \in DOMAIN objects |-> Ioa(objects[i][1]) \o objects[i][2]]))
BuildAsduInterrogation(qoi, ca, cot) == Asdu(C_IC_NA_1, 1, cot, ca, Ioa(0) \o <<qoi>>)
BuildAsduRead(ioa, ca) == Asdu(C_RD_NA_1, 1, 5, ca, Ioa(ioa))

-----------------------------------------------------------------------------

ApciFormat(f) == IF At(f, 2) % 2 = 0 THEN "I" ELSE IF At(f, 2) % 4 = 3 THEN "U" ELSE "S"

\* raises: the value of an element that has no bytes is read (IndexError).
ParseAsdu(body) ==
  LET t   == At(body, 0)
      num == At(body, 1) % 64
      sequence == At(body, 1) >= 128
      objects  == Len(body) - 6
      expected == CASE t \in NO_IOA_TYPES -> num * ElementSize(t)
                    [] t \notin NO_IOA_TYPES /\ sequence -> 3 + num * ElementSize(t)
                    [] OTHER -> num * (3 + ElementSize(t))
      shaped == Len(body) >= 6 /\ t \in TYPES /\ objects = expected /\ num > 0
  IN [errors |-> IF Len(body) < 6 THEN {"asdu_short"} ELSE Found([
        unknown_type |-> t \notin TYPES,
        objects      |-> t \in TYPES /\ objects # expected,
        no_decoding  |-> shaped /\ t = C_CS_NA_1]),
      raises |-> shaped /\ t = C_RD_NA_1,
      type   |-> t,
      cot    |-> L16(body, 2) % 64,
      ca     |-> L16(body, 4)]

\* The ASDU of a whole I-frame: an asdu_len of 0 means the rest of the frame.
AsduOf(f) == IF At(f, 1) = 4 THEN From(f, APCI_LEN) ELSE Mid(f, APCI_LEN, At(f, 1) + 2)

ParseFrame(f) ==
  LET whole == Len(f) >= APCI_LEN /\ At(f, 0) = START_BYTE /\ At(f, 1) \in APDU_LENS /\ Len(f) >= At(f, 1) + 2
      fmt   == ApciFormat(f)
      asdu  == ParseAsdu(AsduOf(f))
      Answers(t, cot) == t \notin CONTROL_TYPES \/ cot \in {7, 9, 10}
  IN [direction |-> CASE Len(f) < APCI_LEN \/ At(f, 0) # START_BYTE -> "resp"
                      [] whole /\ fmt = "I" -> IF Len(f) < 9 \/ Answers(At(f, 6), At(f, 8)) THEN "resp" ELSE "req"
                      [] OTHER -> "req",
      errors |-> Found([
        too_short   |-> Len(f) < APCI_LEN,
        start_byte  |-> Len(f) >= APCI_LEN /\ At(f, 0) # START_BYTE,
        length      |-> Len(f) >= APCI_LEN /\ At(f, 0) = START_BYTE /\ ~whole,
        u_function  |-> whole /\ fmt = "U" /\ At(f, 2) \notin U_FUNCTIONS,
        u_size      |-> whole /\ fmt = "U" /\ Len(f) # APCI_LEN])
        \cup (IF whole /\ fmt = "I" THEN asdu.errors ELSE {}),
      raises |-> whole /\ fmt = "I" /\ asdu.raises]

ValidateFrame(f) ==
  LET parsed == ParseAsdu(AsduOf(f)) IN
  IF Len(f) < 2 THEN {"length_field"} \cup Found([start_byte |-> At(f, 0) # START_BYTE])
  ELSE Found([
    start_byte   |-> At(f, 0) # START_BYTE,
    length_field |-> At(f, 1) \notin APDU_LENS \/ Len(f) # At(f, 1) + 2])
  \cup (IF Len(f) < APCI_LEN \/ At(f, 0) # START_BYTE THEN {} ELSE Found([
    u_frame_shape    |-> ApciFormat(f) = "U" /\ (Len(f) # APCI_LEN \/ Mid(f, 3, 6) # Zeros(3)),
    u_function_known |-> ApciFormat(f) = "U" /\ At(f, 2) \notin U_FUNCTIONS,
    i_has_asdu       |-> ApciFormat(f) = "I" /\ Len(f) <= APCI_LEN,
    asdu_structure   |-> ApciFormat(f) = "I" /\ parsed.errors # {}]))
=============================================================================
