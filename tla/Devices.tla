------------------------------ MODULE Devices ------------------------------
(***************************************************************************)
(* The devices the adapters talk to, which are not part of the program:    *)
(* what a frame asks of a device of each dialect and what the device       *)
(* answers, after the simulators of the repository's tests and scripts.    *)
(* Nothing here uses the codecs' parsers, so that a frame the builders get *)
(* wrong is not read wrong in the same way.                                *)
(***************************************************************************)
EXTENDS Codecs

\* kind: hello, identify, read, write or none.  A cell is <<area, index>>.
Asked(kind, area, start, count, values) ==
  [kind |-> kind, area |-> area, start |-> start, count |-> count, values |-> values]
NothingAsked == Asked("none", "", 0, 0, <<>>)

U16sAt(f, i, n) == [k \in 1..n |-> U16(f, i + 2 * (k - 1))]

ModbusAsked(pdu) ==
  LET at == U16(pdu, 1)
      n  == U16(pdu, 3)
  IN CASE At(pdu, 0) = 3  -> Asked("read", "holding", at, n, <<>>)
       [] At(pdu, 0) = 4  -> Asked("read", "input", at, n, <<>>)
       [] At(pdu, 0) = 5  -> Asked("write", "coil", at, 1, <<n \div 65280>>)
       [] At(pdu, 0) = 6  -> Asked("write", "holding", at, 1, <<n>>)
       [] At(pdu, 0) = 16 -> Asked("write", "holding", at, n, U16sAt(pdu, 6, n))
       [] OTHER -> NothingAsked

FINS_AREAS == 130 :> "DM" @@ 177 :> "W"

FinsAsked(f) ==
  LET area == FINS_AREAS[At(f, 28)]
      at   == U16(f, 29)
      n    == U16(f, 32)
  IN CASE U32(f, 8) = 0 -> Asked("hello", "", 0, 0, <<>>)
       [] U32(f, 8) = 2 /\ U16(f, 26) = 257 -> Asked("read", area, at, n, <<>>)
       [] U32(f, 8) = 2 /\ U16(f, 26) = 258 -> Asked("write", area, at, n, U16sAt(f, 34, n))
       [] OTHER -> NothingAsked

MELSEC_CODES   == 168 :> "D" @@ 156 :> "X"
MELSEC_LETTERS == 68 :> "D" @@ 88 :> "X"
DecimalValue(s) == FoldLeft(LAMBDA n, c : n * 10 + c - 48, 0, s)

MelsecAsked(f, ascii) ==
  LET body == From(f, IF ascii THEN IF Upto(f, 2) = <<53, 52>> THEN 30 ELSE 22
                               ELSE IF At(f, 0) = 84 THEN 15 ELSE 11)
      device == IF ascii THEN MELSEC_LETTERS[At(body, 8)] ELSE MELSEC_CODES[At(body, 7)]
      head == IF ascii THEN IF device = "X" THEN UnHex(Mid(body, 10, 16)) ELSE DecimalValue(Mid(body, 10, 16))
                       ELSE At(body, 4) + 256 * At(body, 5) + 65536 * At(body, 6)
      Field(i, j) == IF ascii THEN UnHex(Mid(body, j, j + 4)) ELSE L16(body, i)
      n == Field(8, 16)
  IN CASE Field(0, 0) = 1025 -> Asked("read", device, head, IF device = "X" THEN (n + 15) \div 16 ELSE n, <<>>)
       [] Field(0, 0) = 5121 -> Asked("write", device, head, n, [k \in 1..n |-> Field(8 + 2 * k, 16 + 4 * k)])
       [] OTHER -> NothingAsked

\* The areas of an S7 device, by code and number of the data block.
S7_AREAS == <<132, 1>> :> "DB1" @@ <<132, 2>> :> "DB2" @@ <<131, 0>> :> "M"

S7Asked(f) ==
  LET area == S7_AREAS[<<At(f, 27), U16(f, 25)>>]
      at   == (65536 * At(f, 28) + U16(f, 29)) \div 8
      n    == U16(f, 23)
  IN CASE At(f, 5) = 224 \/ At(f, 17) = 240 -> Asked("hello", "", 0, 0, <<>>)
       [] At(f, 5) = 240 /\ At(f, 17) = 4 -> Asked("read", area, at, n, <<>>)
       [] At(f, 5) = 240 /\ At(f, 17) = 5 -> Asked("write", area, at, n, From(f, 35))
       [] OTHER -> NothingAsked

\* The tags of an EtherNet/IP device: their names as bytes, the type of their
\* elements.  A name of odd length is padded in a path, one of even length is not.
TAG_NAMES == [A |-> <<65>>, AB |-> <<65, 66>>, Z |-> <<90>>]
TAG_TYPES == [A |-> 196, AB |-> 195]
TagOf(name) == IF \E tag \in DOMAIN TAG_NAMES : TAG_NAMES[tag] = name
               THEN CHOOSE tag \in DOMAIN TAG_NAMES : TAG_NAMES[tag] = name ELSE "?"
ElementWords(type) == IF type = 196 THEN 2 ELSE 1

EnipAsked(f) ==
  LET cip  == From(f, 43)
      path == Mid(cip, 2, 2 + 2 * At(cip, 1))
      tag  == TagOf(Mid(path, 2, 2 + At(path, 1)))
      seg  == From(path, 2 + At(path, 1) + (At(path, 1) % 2))
      at   == IF seg = <<>> THEN 0 ELSE At(seg, 1)
      args == From(cip, 2 + 2 * At(cip, 1))
      w    == ElementWords(L16(args, 0))
      Element(k) == [j \in 1..w |-> L16(args, 4 + 2 * (w * (k - 1) + j - 1))]
  IN CASE L16(f, 0) = 101 -> Asked("hello", "", 0, 0, <<>>)
       [] L16(f, 0) = 99  -> Asked("identify", "", 0, 0, <<>>)
       [] L16(f, 0) = 111 /\ At(cip, 0) = 76 -> Asked("read", tag, at, L16(args, 0), <<>>)
       [] L16(f, 0) = 111 /\ At(cip, 0) = 77 ->
            Asked("write", tag, at, L16(args, 2), [k \in 1..L16(args, 2) |-> Element(k)])
       [] OTHER -> NothingAsked

\* Of a station, the start of the transfer and the test of the line.
Iec104Asked(f) ==
  CASE At(f, 2) = 7  -> Asked("hello", "", 0, 0, <<>>)
    [] At(f, 2) = 67 -> Asked("identify", "", 0, 0, <<>>)
    [] OTHER -> NothingAsked

AskedBy(dialect, f) ==
  CASE dialect = "modbus"     -> ModbusAsked(From(f, 7))
    [] dialect = "modbus_rtu" -> ModbusAsked(Mid(f, 1, Len(f) - 2))
    [] dialect = "fins"       -> FinsAsked(f)
    [] dialect \in {"3e_binary", "4e_binary"} -> MelsecAsked(f, FALSE)
    [] dialect \in {"3e_ascii", "4e_ascii"}   -> MelsecAsked(f, TRUE)
    [] dialect = "s7"         -> S7Asked(f)
    [] dialect = "enip"       -> EnipAsked(f)
    [] dialect = "iec104"     -> Iec104Asked(f)

\* A device answers only its own format, and only whom it has admitted: grant is
\* what the handshake on the connection has come to, a node, a session or, of an
\* S7 device, the number of its steps.
Speaks(dialect, f) ==
  CASE dialect = "3e_binary" -> At(f, 0) = 80
    [] dialect = "4e_binary" -> At(f, 0) = 84
    [] dialect = "3e_ascii"  -> Upto(f, 2) = <<53, 48>>
    [] dialect = "4e_ascii"  -> Upto(f, 2) = <<53, 52>>
    [] OTHER -> TRUE
Admits(dialect, f, grant) ==
  CASE dialect = "fins" -> U32(f, 8) = 0 \/ (grant # 0 /\ At(f, 20) \in {0, grant})
    [] dialect = "s7"   -> grant = IF At(f, 5) = 224 THEN 0 ELSE IF At(f, 17) = 240 THEN 1 ELSE 2
    [] dialect = "enip" -> L16(f, 0) = 111 => grant # 0 /\ L16(f, 4) = grant
    [] OTHER -> TRUE

-----------------------------------------------------------------------------

\* How many cells an area has, which index the next cell has, and what is in one
\* that was never written.
AreaSize(dialect, area) ==
  CASE dialect = "enip" -> IF area \in DOMAIN TAG_TYPES THEN 300 ELSE 0
    [] area = "D" -> 10000000
    [] OTHER -> 65536
CellStep(area) == IF area = "X" THEN 16 ELSE 1
Blank(dialect, area) ==
  CASE dialect # "enip" -> 0
    [] dialect = "enip" -> IF area \in DOMAIN TAG_TYPES THEN Zeros(ElementWords(TAG_TYPES[area])) ELSE <<>>
CellsOf(area, start, n) == [i \in 1..n |-> <<area, start + CellStep(area) * (i - 1)>>]

\* What the device has: cells inside its areas, and values of their type.
Exists(dialect, a) ==
  /\ a.count > 0 /\ a.start + CellStep(a.area) * (a.count - 1) < AreaSize(dialect, a.area)
  /\ \A i \in DOMAIN a.values : dialect = "enip" => Len(a.values[i]) = Len(Blank(dialect, a.area))

-----------------------------------------------------------------------------
(* Answers: a status of 0 is success, and values are those of the cells      *)

B16s(ws) == FlattenSeq([i \in DOMAIN ws |-> B16(ws[i])])
S16s(ws) == FlattenSeq([i \in DOMAIN ws |-> S16(ws[i])])

ModbusAnswer(pdu, status, values) ==
  CASE status # 0 -> <<At(pdu, 0) + 128, status>>
    [] status = 0 /\ At(pdu, 0) \in {3, 4} -> <<At(pdu, 0), 2 * Len(values)>> \o B16s(values)
    [] OTHER -> Upto(pdu, 5)

FinsFrame(command, error, payload) ==
  <<70, 73, 78, 83>> \o B32(8 + Len(payload)) \o B32(command) \o B32(error) \o payload
FinsAnswer(f, node, status, values) ==
  FinsFrame(2, 0, <<192, 0, 2, 0, At(f, 23), 0, 0, node, 0, At(f, 25)>> \o Mid(f, 26, 28) \o B16(status) \o B16s(values))

MelsecAnswer(f, ascii, status, values) ==
  LET field == IF ascii THEN 4 ELSE 2
      is4e  == IF ascii THEN Upto(f, 2) = <<53, 52>> ELSE At(f, 0) = 84
      echo  == Mid(f, field, IF ascii THEN IF is4e THEN 22 ELSE 14 ELSE IF is4e THEN 11 ELSE 7)
      Put(n) == IF ascii THEN Hex(n, 4) ELSE S16(n)
      sub   == IF is4e THEN 54272 ELSE 53248
  IN (IF ascii THEN Hex(sub, 4) ELSE B16(sub)) \o echo \o Put(field * (1 + Len(values)))
       \o Put(status) \o FlattenSeq([i \in DOMAIN values |-> Put(values[i])])

S7Answer(f, status, values) ==
  LET code == IF status = 0 THEN 255 ELSE status
      data == IF At(f, 17) = 5 THEN <<code>> ELSE <<code, 4>> \o B16(Len(values)) \o values
  IN <<3, 0>> \o B16(21 + Len(data)) \o <<2, 240, 128, 50, 3, 0, 0>> \o Mid(f, 11, 13) \o B16(2) \o B16(Len(data))
       \o <<0, 0, At(f, 17), 1>> \o data

EnipFrame(command, session, status, payload) ==
  S16(command) \o S16(Len(payload)) \o S32(session) \o S32(status) \o Zeros(12) \o payload
EnipAnswer(f, session, area, status, values) ==
  LET reads == At(f, 43) = 76
      cip == <<At(f, 43) + 128, 0, status, 0>>
               \o (IF reads /\ status = 0 THEN S16(TAG_TYPES[area]) \o FlattenSeq([i \in DOMAIN values |-> S16s(values[i])])
                                          ELSE <<>>)
  IN EnipFrame(111, session, 0, Zeros(6) \o S16(2) \o Zeros(4) \o S16(177) \o S16(Len(cip)) \o cip)

\* What the device says to a request; grant is what its handshake agreed to.
AnswerTo(dialect, f, grant, area, status, values) ==
  LET unit == <<At(f, 0)>> \o ModbusAnswer(Mid(f, 1, Len(f) - 2), status, values) IN
  CASE dialect = "modbus" ->
         LET pdu == ModbusAnswer(From(f, 7), status, values)
         IN Upto(f, 4) \o B16(1 + Len(pdu)) \o <<At(f, 6)>> \o pdu
    [] dialect = "modbus_rtu" -> unit \o S16(MB!crc16(unit))
    [] dialect = "fins" -> FinsAnswer(f, grant, status, values)
    [] dialect \in {"3e_binary", "4e_binary"} -> MelsecAnswer(f, FALSE, status, values)
    [] dialect \in {"3e_ascii", "4e_ascii"}   -> MelsecAnswer(f, TRUE, status, values)
    [] dialect = "s7" -> S7Answer(f, status, values)
    [] dialect = "enip" -> EnipAnswer(f, grant, area, status, values)

\* What a station sends of itself once the transfer has started: one point.
Spontaneous == <<104, 14, 0, 0, 0, 0, 1, 1, 3, 0, 1, 0, 200, 0, 0, 1>>

\* What it says to a step of a handshake, and what that grants.
HelloAnswer(dialect, f, grant) ==
  CASE dialect = "fins" -> FinsFrame(1, 0, B32(grant) \o B32(1))
    [] dialect = "s7"   -> IF At(f, 5) = 224 THEN Patch(f, 5, <<208>>)
                           ELSE <<3, 0, 0, 27, 2, 240, 128, 50, 3>> \o Zeros(10) \o <<240, 0, 0, 1, 0, 1, 1, 224>>
    [] dialect = "enip" -> EnipFrame(101, grant, 0, From(f, 24))
    [] dialect = "iec104" -> <<104, 4, 11, 0, 0, 0>>
HelloRefusal(dialect, f) ==
  CASE dialect = "fins" -> FinsFrame(1, 32, Zeros(8))
    [] dialect = "s7"   -> <<3, 0, 0, 7, 2, 128, 0>>
    [] dialect = "enip" -> EnipFrame(101, 0, 1, From(f, 24))
    [] dialect = "iec104" -> Spontaneous

\* ListIdentity: one item, the identity of 48 bytes; and the test of a line.
IdentityAnswer(dialect) ==
  IF dialect = "iec104" THEN <<104, 4, 131, 0, 0, 0>>
  ELSE EnipFrame(99, 0, 0, S16(1) \o S16(12) \o S16(48) \o Zeros(34) \o <<13>> \o Zeros(13))

\* The codes a device refuses with.
RefusalCode(dialect) ==
  CASE dialect \in {"modbus", "modbus_rtu"} -> 2
    [] dialect = "fins" -> 4353
    [] dialect \in {"s7", "enip"} -> 5
    [] OTHER -> 49231
=============================================================================
