------------------------------ MODULE Streams ------------------------------
(***************************************************************************)
(* streams.py: where the frames of a byte stream end, which the listener,  *)
(* the proxy and the analysis of captures all ask.                         *)
(***************************************************************************)
EXTENDS Frames

FRAME_HEADER_LEN == [modbus |-> 6, fins |-> 16, melsec |-> 11, iec104 |-> 2, enip |-> 24]
MAX_FRAME_LEN    == [modbus |-> 260, fins |-> 16400, melsec |-> 16416, iec104 |-> 255, enip |-> 65559]
ENIP_COMMANDS    == {99, 101, 102, 111, 112}

More == -1   \* None: more bytes are needed

\* The length field's offset and size, by the subheader; 0 where it is none.
MelsecLengthField(b) ==
  CASE At(b, 1) = 0 /\ At(b, 0) \in {80, 208} -> <<7, 2>>
    [] At(b, 1) = 0 /\ At(b, 0) \in {84, 212} -> <<11, 2>>
    [] At(b, 0) \in {53, 68} ->
         IF Upto(b, 4) \in {<<53, 52, 48, 48>>, <<68, 52, 48, 48>>} THEN <<22, 4>> ELSE <<14, 4>>
    [] OTHER -> <<0, 0>>

FieldEnd(b, at, sz, length) ==
  CASE Len(b) < 2 -> More
    [] Len(b) >= 2 /\ sz = 0 -> 0
    [] Len(b) >= 2 /\ sz # 0 /\ Len(b) < (IF Len(b) < 4 THEN 4 ELSE at + sz) -> More
    [] OTHER -> IF length = -1 THEN 0 ELSE at + sz + length
MelsecFrameLen(b) ==
  LET End(at, sz) == FieldEnd(b, at, sz, IF sz = 4 THEN UnHex(Mid(b, at, at + 4)) ELSE L16(b, at))
      OfField(field) == End(field[1], field[2])
  IN OfField(MelsecLengthField(b))

\* Mutated form: the length of a FINS frame without its magic and length.
ClaimedLenShort(protocol, b) ==
  CASE protocol = "modbus" -> 6 + U16(b, 4)
    [] protocol = "iec104" -> 2 + At(b, 1)
    [] protocol = "enip"   -> 24 + L16(b, 2)
    [] protocol = "fins"   -> IF U32(b, 4) > 16400 THEN 0 ELSE U32(b, 4)
    [] protocol = "melsec" -> MelsecFrameLen(b)

\* The length the head of b claims for its frame, 0 for none it can have.
ClaimedLen(protocol, b) ==
  CASE protocol = "modbus" -> 6 + U16(b, 4)
    [] protocol = "iec104" -> IF At(b, 0) # 104 \/ At(b, 1) \notin 4..253 THEN 0 ELSE 2 + At(b, 1)
    [] protocol = "enip"   -> IF L16(b, 0) \notin ENIP_COMMANDS THEN 0 ELSE 24 + L16(b, 2)
    [] protocol = "fins"   -> IF U32(b, 4) > 16400 THEN 0 ELSE 8 + U32(b, 4)
    [] protocol = "melsec" -> MelsecFrameLen(b)

\* The length of the frame at the head of b, More, or 0 where it makes none.
Bounded(protocol, b, total, least) ==
  CASE protocol # "melsec" /\ Len(b) < least     -> More
    [] protocol = "melsec" /\ total = More       -> More
    [] OTHER -> IF total > MAX_FRAME_LEN[protocol] \/ total < least THEN 0
                ELSE IF Len(b) < total THEN More ELSE total
TryFrameLen(protocol, b) ==
  Bounded(protocol, b, ClaimedLen(protocol, b), IF protocol = "melsec" THEN 1 ELSE FRAME_HEADER_LEN[protocol])

\* A frame that is cut where it ends and nowhere before.
CutWhole(protocol, q) ==
  /\ TryFrameLen(protocol, q) = Len(q)
  /\ \A n \in 0..Len(q) - 1 : TryFrameLen(protocol, Upto(q, n)) = More

SplitFrames(protocol, data) ==
  LET Cut[i \in 0..Len(data)] ==
        LET Onward(n) == IF n <= 0 THEN [frames |-> <<>>, tail |-> From(data, i)]
                         ELSE [frames |-> <<Mid(data, i, i + n)>> \o Cut[i + n].frames, tail |-> Cut[i + n].tail]
        IN Onward(TryFrameLen(protocol, From(data, i)))
  IN Cut[0]
=============================================================================
