--------------------------- MODULE ListenerProofs ---------------------------
(***************************************************************************)
(* What holds of the listener for any number of clients, any ring and any  *)
(* pieces: its types, that clients send whole frames the parsers accept,   *)
(* and that the requests of a client that waits are all recorded.          *)
(***************************************************************************)
EXTENDS Listener, FramingProofs

-----------------------------------------------------------------------------
(* What the clients send                                                    *)

\* A frame a builder makes of what it takes.
LEMMA BytesAreFrames == ASSUME NEW p, NEW n \in Nat, NEW f, Bytes(f, n), CutWhole(p, f) PROVE IsFrame(p, f)
BY DEF Bytes, IsFrame

\* What begins with bytes is not nothing.
LEMMA SomeBytes == ASSUME NEW n \in Nat, n # 0, NEW f, Bytes(f, n) PROVE f # <<>>
BY EmptySeq DEF Bytes

\* Of Modbus: builders, and a frame with a count no builder lets through.
LEMMA ModbusRequestsAreFrames == ASSUME NEW q \in ModbusRequests PROVE IsFrame("modbus", q)
<1>1. \/ q = MB!BuildReadRequest(1, 1, 3, 0, 2) \/ q = MB!BuildReadRequest(2, 1, 1, 7, 9)
      \/ q = MB!BuildWriteSingle(3, 1, 6, 0, 5) \/ q = MB!BuildWriteMultiple(4, 1, 0, <<1, 2>>)
      \/ q = MB!Mbap(5, 1, <<3, 0, 0, 0, 200>>)
  BY DEF ModbusRequests
<1>2. ASSUME NEW t \in WORD, NEW pdu, Bytes(pdu, 5)
      PROVE  IsFrame("modbus", MB!Mbap(t, 1, pdu))
  <2>1. 5 \in Nat /\ 5 <= 253 /\ 1 \in Int
    OBVIOUS
  <2>2. Bytes(MB!Mbap(t, 1, pdu), 7 + 5) /\ CutWhole("modbus", MB!Mbap(t, 1, pdu))
    BY <1>2, <2>1, MbapIsCutWhole
  <2> QED BY <2>2 DEF IsFrame, Bytes
<1>3. ASSUME NEW t \in WORD, NEW f \in Int, NEW x \in WORD, NEW y \in WORD
      PROVE  IsFrame("modbus", MB!Mbap(t, 1, <<f>> \o MB!B16(x) \o MB!B16(y)))
  BY <1>2, FiveBytes
<1>4. 1 \in 0..MB!MAX_UNIT_ID
  BY DEF MB!MAX_UNIT_ID
<1>5. IsFrame("modbus", MB!BuildReadRequest(1, 1, 3, 0, 2))
  <2>1. 2 \in 1..MB!read_limit(3)
    BY DEF MB!read_limit
  <2>2. MB!BuildReadRequest(1, 1, 3, 0, 2) = MB!Mbap(1, 1, <<3>> \o MB!B16(0) \o MB!B16(2))
    BY <1>4, <2>1, SmallNumbers DEF MB!BuildReadRequest, MB!READ_FCS
  <2> QED BY <1>3, <2>2, SmallNumbers
<1>6. IsFrame("modbus", MB!BuildReadRequest(2, 1, 1, 7, 9))
  <2>1. 9 \in 1..MB!read_limit(1)
    BY DEF MB!read_limit
  <2>2. MB!BuildReadRequest(2, 1, 1, 7, 9) = MB!Mbap(2, 1, <<1>> \o MB!B16(7) \o MB!B16(9))
    BY <1>4, <2>1, SmallNumbers DEF MB!BuildReadRequest, MB!READ_FCS
  <2> QED BY <1>3, <2>2, SmallNumbers
<1>7. IsFrame("modbus", MB!BuildWriteSingle(3, 1, 6, 0, 5))
  <2>1. MB!BuildWriteSingle(3, 1, 6, 0, 5) = MB!Mbap(3, 1, <<6>> \o MB!B16(0) \o MB!B16(5))
    BY <1>4, SmallNumbers DEF MB!BuildWriteSingle, MB!WRITE_FCS
  <2> QED BY <1>3, <2>1, SmallNumbers
<1>8. IsFrame("modbus", MB!BuildWriteMultiple(4, 1, 0, <<1, 2>>))
  <2> DEFINE values == <<1, 2>>
  <2>1. values \in Seq(Int) /\ Len(values) # 0 /\ Len(values) <= 123 /\ \A i \in DOMAIN values : values[i] \in {1, 2}
    OBVIOUS
  <2>2. \A i \in DOMAIN values : values[i] \in WORD
    BY <2>1, SmallNumbers
  <2> HIDE DEF values
  <2>3. Bytes(MB!BuildWriteMultiple(4, 1, 0, values), 13 + 2 * Len(values))
        /\ CutWhole("modbus", MB!BuildWriteMultiple(4, 1, 0, values))
    BY <2>1, <2>2, SmallNumbers, WriteMultipleIsFrame
  <2> QED BY <2>3 DEF values, IsFrame, Bytes
<1>9. IsFrame("modbus", MB!Mbap(5, 1, <<3, 0, 0, 0, 200>>))
  <2>1. Bytes(<<3, 0, 0, 0, 200>>, 5)
    BY DEF Bytes
  <2> QED BY <1>2, <2>1, SmallNumbers
<1> QED BY <1>1, <1>5, <1>6, <1>7, <1>8, <1>9

\* Of FINS, to whatever node.
LEMMA FinsRequestsAreFrames == ASSUME NEW dest \in BYTE, NEW q \in FinsRequests(dest) PROVE IsFrame("fins", q)
<1>1. \/ q = FI!BuildHandshakeRequest(1) \/ q = FI!BuildHandshakeRequest(2)
      \/ q = FI!BuildReadRequest(9, 1, 130, 0, 2, dest)
      \/ q = FI!BuildMemoryAreaWrite(8, 1, 130, 0, <<7>>, dest)
  BY DEF FinsRequests
<1>2. ASSUME NEW command \in WORD, NEW k \in {4, 18, 20}, NEW payload, Bytes(payload, k)
      PROVE  IsFrame("fins", FI!BuildTcpFrame(command, payload))
  <2>1. k \in Nat /\ k <= 100000 /\ 16 + k <= 16400
    OBVIOUS
  <2>2. Bytes(FI!BuildTcpFrame(command, payload), 16 + k) /\ CutWhole("fins", FI!BuildTcpFrame(command, payload))
    BY <1>2, <2>1, TcpFrameIsCutWhole
  <2> QED BY <2>2 DEF IsFrame, Bytes
<1>3. ASSUME NEW n \in {1, 2} PROVE IsFrame("fins", FI!BuildHandshakeRequest(n))
  <2>1. n \in FI!BYTE /\ FitsWide(n)
    BY SmallNumbers DEF FitsWide
  <2>2. FI!BuildHandshakeRequest(n) = FI!BuildTcpFrame(0, FI!B32(n))
    BY <2>1 DEF FI!BuildHandshakeRequest, FI!TCP_CMD_CONNECT_REQ
  <2>3. FI!B32(n) = B32(n)
    BY DEF FI!B32, B32, FI!B16, B16
  <2> QED BY <1>2, <2>1, <2>2, <2>3, SmallNumbers, WideFieldIsRead
<1>4. /\ FI!Addressable(9, 130, 0, dest) /\ FI!Addressable(8, 130, 0, dest) /\ dest \in Int
      /\ 257 \in WORD /\ 258 \in WORD /\ 1 \in 1..FI!MAX_READ_WORDS /\ 2 \in 1..FI!MAX_READ_WORDS
  <2>1. 130 \in FI!AREA_CODES
    BY DEF FI!AREA_CODES
  <2>2. 1 \in 1..FI!MAX_READ_WORDS /\ 2 \in 1..FI!MAX_READ_WORDS
    BY DEF FI!MAX_READ_WORDS
  <2>3. 257 \in WORD /\ 258 \in WORD /\ dest \in Int
    BY WordIs, ByteIs
  <2> QED BY <2>1, <2>2, <2>3, SmallNumbers DEF FI!Addressable
<1>5. ASSUME NEW sid \in Int, NEW command \in WORD, NEW count \in WORD
      PROVE  Bytes(FI!Memory(sid, 1, command, 130, 0, count, dest), 18)
  <2>1. 1 \in Int /\ 130 \in Int /\ 0 \in WORD /\ dest \in Int
    BY <1>4, SmallNumbers
  <2> QED BY <1>5, <2>1, MemoryBytes
<1>6. IsFrame("fins", FI!BuildReadRequest(9, 1, 130, 0, 2, dest))
  <2>1. FI!BuildReadRequest(9, 1, 130, 0, 2, dest) = FI!BuildTcpFrame(2, FI!Memory(9, 1, 257, 130, 0, 2, dest))
    BY <1>4 DEF FI!BuildReadRequest, FI!TCP_CMD_DATA_SEND, FI!CMD_MEMORY_AREA_READ
  <2> QED BY <1>2, <1>4, <1>5, <2>1, SmallNumbers
<1>7. IsFrame("fins", FI!BuildMemoryAreaWrite(8, 1, 130, 0, <<7>>, dest))
  <2> DEFINE m == FI!Memory(8, 1, 258, 130, 0, 1, dest)
             values == <<7>>
             words == [i \in DOMAIN values |-> FI!B16(values[i] % 65536)]
             e == FI!FlattenSeq(words)
  <2>1. FI!BuildMemoryAreaWrite(8, 1, 130, 0, values, dest) = FI!BuildTcpFrame(2, m \o e)
    <3>1. Len(values) = 1 /\ \A i \in DOMAIN values : values[i] = 7
      OBVIOUS
    <3>2. 7 \in FI!SIGNED_OR_NOT
      BY DEF FI!SIGNED_OR_NOT
    <3>3. \A i \in DOMAIN values : values[i] \in FI!SIGNED_OR_NOT
      BY <3>1, <3>2
    <3> HIDE DEF values
    <3> QED BY <1>4, <3>1, <3>3 DEF FI!BuildMemoryAreaWrite, FI!TCP_CMD_DATA_SEND, FI!CMD_MEMORY_AREA_WRITE
  <2>2. Bytes(e, 2)
    <3>1. words = <<B16(7)>>
      BY DEF FI!B16, B16
    <3> HIDE DEF words
    <3>2. words # <<>> /\ Len(words) = 1 /\ words[1] = B16(7)
      BY <3>1
    <3>3. \A i \in 1..1 : Bytes(words[i], 2)
      BY <3>2, SmallNumbers, FieldIsRead
    <3>4. FI!FlattenSeq(words) = FlattenSeq(words)
      BY DEF FI!FlattenSeq, FlattenSeq
    <3>5. 2 \in {2, 4} /\ 1 \in Nat /\ (words = <<>> <=> 1 = 0) /\ 2 * 1 = 2
      BY <3>2
    <3>6. Bytes(FlattenSeq(words), 2 * 1)
      BY <3>2, <3>3, <3>5, FlattenedLength
    <3> QED BY <3>4, <3>5, <3>6
  <2> HIDE DEF e
  <2>3. Bytes(m, 18)
    BY <1>4, <1>5, SmallNumbers
  <2> HIDE DEF m
  <2>4. Bytes(m \o e, 20)
    BY <2>2, <2>3, BytesJoined
  <2> QED BY <1>2, <2>1, <2>4, SmallNumbers
<1> QED BY <1>1, <1>3, <1>6, <1>7

\* Of IEC 104: what starts a transfer, an acknowledgement, an interrogation and
\* a read.
LEMMA Iec104RequestsAreFrames == ASSUME NEW q \in Iec104Requests PROVE IsFrame("iec104", q)
<1>1. \/ q = IEC!BuildApciU(IEC!U_STARTDT_ACT) \/ q = IEC!BuildApciS(0)
      \/ q = IEC!BuildApciI(1, 32766, IEC!BuildAsduInterrogation(20, 1, 6))
      \/ q = IEC!BuildApciI(0, 0, IEC!BuildAsduRead(200, 1))
  BY DEF Iec104Requests
<1>2. IEC!WORD = WORD /\ \A n : IEC!S16(n) = S16(n) /\ IEC!S32(n) = S32(n)
  BY DEF IEC!WORD, WORD, IEC!S16, S16, IEC!S32, S32
<1>3. IEC!BuildApciU(IEC!U_STARTDT_ACT) # <<>>
  BY DEF IEC!BuildApciU, IEC!U_FUNCTIONS
<1>4. 0 \in IEC!SEQUENCE_NUMBERS /\ 1 \in IEC!SEQUENCE_NUMBERS /\ 32766 \in IEC!SEQUENCE_NUMBERS
  <2>1. PICK k \in Nat : k = 32767
    OBVIOUS
  <2>2. IEC!SEQUENCE_NUMBERS = 0..k
    BY <2>1, SMTT(30) DEF IEC!SEQUENCE_NUMBERS
  <2> QED BY <2>1, <2>2
<1>5. IEC!BuildApciS(0) # <<>>
  <2> DEFINE a == <<104, 4, 1, 0>>
             b == S16(0)
  <2>1. IEC!BuildApciS(0) = a \o b
    BY <1>2, <1>4 DEF IEC!BuildApciS, IEC!START_BYTE
  <2>2. Bytes(a, 4)
    BY DEF Bytes
  <2>3. Bytes(b, 2)
    BY SmallNumbers, FieldIsRead
  <2> HIDE DEF a, b
  <2>4. Bytes(a \o b, 6)
    BY <2>2, <2>3, BytesJoined
  <2> DEFINE f == a \o b
  <2>5. Bytes(f, 6) /\ 6 \in Nat /\ 6 # 0
    BY <2>4
  <2> HIDE DEF f
  <2>6. f # <<>>
    BY <2>5, SomeBytes
  <2> QED BY <2>1, <2>6 DEF f
<1>6. ASSUME NEW n \in Nat, n <= 65535 PROVE Bytes(IEC!Ioa(n), 3)
  <2>1. FitsWide(n)
    BY <1>6 DEF FitsWide
  <2>2. Bytes(S32(n), 4)
    BY <2>1, LowFirstBytes
  <2>3. IEC!Ioa(n) = Upto(S32(n), 3)
    BY <1>2 DEF IEC!Ioa, IEC!Upto, Upto
  <2> DEFINE x == S32(n)
  <2>4. x \in Seq(Int) /\ 3 \in Nat /\ 3 <= Len(x)
    BY <2>2 DEF Bytes
  <2> HIDE DEF x
  <2>5. Bytes(Upto(x, 3), 3)
    BY <2>4, UptoIsPrefix DEF Bytes
  <2> QED BY <2>3, <2>5 DEF x
<1>7. ASSUME NEW t \in IEC!TYPES, t \in Int, NEW cot \in 0..63, NEW k \in Nat, NEW objects, Bytes(objects, k)
      PROVE  Bytes(IEC!Asdu(t, 1, cot, 1, objects), 6 + k)
  <2> DEFINE a == <<t, 1>>
             b == S16(cot)
             c == S16(1)
  <2>1. IEC!Asdu(t, 1, cot, 1, objects) = a \o b \o c \o objects
    <3>1. 1 \in IEC!WORD /\ IEC!S16(cot) = b /\ IEC!S16(1) = c
      BY <1>2, SmallNumbers
    <3>2. 1 \in 1..63
      OBVIOUS
    <3> HIDE DEF b, c
    <3> QED BY ONLY <1>7, <3>1, <3>2, cot \in 0..63, t \in IEC!TYPES DEF IEC!Asdu
  <2>2. Bytes(a, 2)
    BY <1>7, BytesOfTwo
  <2>3. Bytes(b, 2) /\ Bytes(c, 2)
    <3>1. cot \in Nat /\ cot <= 65535
      OBVIOUS
    <3>2. cot \in WORD /\ 1 \in WORD
      BY <3>1, SmallNumbers, WordIs
    <3> QED BY <3>2, FieldIsRead
  <2> HIDE DEF a, b, c
  <2>4. Bytes(a \o b, 4)
    BY <2>2, <2>3, BytesJoined
  <2>5. Bytes(a \o b \o c, 6)
    BY <2>3, <2>4, BytesJoined
  <2> QED BY <1>7, <2>1, <2>5, BytesJoined
<1>8. ASSUME NEW tx \in IEC!SEQUENCE_NUMBERS, NEW rx \in IEC!SEQUENCE_NUMBERS, NEW k \in {9, 10},
             NEW asdu, Bytes(asdu, k)
      PROVE  IsFrame("iec104", IEC!BuildApciI(tx, rx, asdu))
  <2> DEFINE a == <<104, 4 + k>>
             b == S16(2 * tx)
             c == S16(2 * rx + 1)
             f == IEC!BuildApciI(tx, rx, asdu)
  <2>1. f = a \o b \o c \o asdu
    <3>1. 4 + Len(asdu) \in {13, 14} /\ Len(asdu) = k
      BY <1>8 DEF Bytes
    <3>2. 4 + Len(asdu) \in 5..253
      BY <3>1
    <3>3. {tx, rx} \subseteq IEC!SEQUENCE_NUMBERS /\ IEC!S16(2 * tx) = b /\ IEC!S16(2 * rx + 1) = c
      BY <1>2
    <3> HIDE DEF b, c
    <3> QED BY <3>1, <3>2, <3>3 DEF IEC!BuildApciI, IEC!START_BYTE
  <2>2. Bytes(a, 2) /\ Bytes(b, 2) /\ Bytes(c, 2)
    BY SequenceNumberIs, FieldIsRead, BytesOfTwo
  <2> HIDE DEF a, b, c
  <2>3. Bytes(a \o b, 4)
    BY <2>2, BytesJoined
  <2>4. Bytes(a \o b \o c, 6) /\ k \in Nat /\ 6 + k \in Nat /\ 6 + k # 0
    BY <2>2, <2>3, BytesJoined
  <2>5. Bytes(a \o b \o c \o asdu, 6 + k)
    BY <1>8, <2>4, BytesJoined
  <2>6. f # <<>>
    BY <2>1, <2>4, <2>5, SomeBytes
  <2> HIDE DEF f
  <2>7. Bytes(f, 6 + k) /\ CutWhole("iec104", f)
    BY <1>8, <2>4, <2>6, Iec104IFrameIsCutWhole DEF f
  <2> QED BY <2>4, <2>7, BytesAreFrames DEF f
<1>9. IsFrame("iec104", IEC!BuildApciI(1, 32766, IEC!BuildAsduInterrogation(20, 1, 6)))
  <2>1. 100 \in IEC!TYPES /\ 100 \in Int /\ 6 \in 0..63
    BY DEF IEC!TYPES
  <2>2. Bytes(IEC!Ioa(0), 3) /\ Bytes(<<20>>, 1)
    BY <1>6, BytesOfOne
  <2>3. Bytes(IEC!Ioa(0) \o <<20>>, 4)
    BY <2>2, BytesJoined
  <2>4. Bytes(IEC!BuildAsduInterrogation(20, 1, 6), 10)
    BY <1>7, <2>1, <2>3 DEF IEC!BuildAsduInterrogation, IEC!C_IC_NA_1
  <2> QED BY <1>4, <1>8, <2>4
<1>10. IsFrame("iec104", IEC!BuildApciI(0, 0, IEC!BuildAsduRead(200, 1)))
  <2>1. 102 \in IEC!TYPES /\ 102 \in Int /\ 5 \in 0..63
    BY DEF IEC!TYPES
  <2>2. Bytes(IEC!Ioa(200), 3)
    BY <1>6
  <2>3. Bytes(IEC!BuildAsduRead(200, 1), 9)
    BY <1>7, <2>1, <2>2 DEF IEC!BuildAsduRead, IEC!C_RD_NA_1
  <2> QED BY <1>4, <1>8, <2>3
<1> QED BY <1>1, <1>3, <1>5, <1>9, <1>10, Iec104ControlFramesAreCutWhole DEF IsFrame, Bytes

\* Of MELSEC, in every format.
LEMMA MelsecRequestsAreFrames ==
  ASSUME NEW fmt \in MC!FRAME_FORMATS, NEW q \in MelsecRequests(fmt)
  PROVE  IsFrame("melsec", q)
<1>1. \/ q = MC!BuildReadRequest(fmt, "D", 100, 2, 255, 0, 4, 1)
      \/ q = MC!BuildReadRequest(fmt, "X", 16, 20, 255, 0, 4, 2)
      \/ q = MC!BuildWriteRequest(fmt, "D", 100, <<7>>, 255, 0, 4, 3)
  BY DEF MelsecRequests
<1>2. /\ \A d \in {"D", "X"}, head \in {100, 16} : MC!Addressable(d, head, 255, 0, 4)
      /\ \A n \in {1, 2, 20} : n \in 1..MC!MAX_READ_POINTS
  <2>1. 255 \in MC!BYTE /\ 0 \in MC!BYTE /\ 4 \in MC!MONITOR_TIMER_VALUES /\ {"D", "X"} \subseteq DOMAIN MC!DEVICE_CODES
    BY SmallNumbers DEF MC!MONITOR_TIMER_VALUES, MC!DEVICE_CODES
  <2>2. \A head \in {100, 16} : head \in MC!TRIPLE
    <3>1. MC!MOST_OF_THREE \in Nat /\ MC!MOST_OF_THREE >= 100
      BY DEF MC!MOST_OF_THREE
    <3> QED BY <3>1 DEF MC!TRIPLE
  <2>3. \A n \in {1, 2, 20} : n \in 1..MC!MAX_READ_POINTS
    <3>1. MC!MAX_READ_POINTS \in Nat /\ MC!MAX_READ_POINTS >= 20
      BY DEF MC!MAX_READ_POINTS
    <3> QED BY <3>1
  <2> QED BY <2>1, <2>2, <2>3 DEF MC!Addressable
<1>3. 1025 \in WORD /\ 5121 \in WORD
  BY WordIs
<1>4. ASSUME NEW d \in {"D", "X"}, NEW head \in {100, 16}, NEW count \in {2, 20}, NEW serial \in {1, 2}
      PROVE  IsFrame("melsec", MC!BuildReadRequest(fmt, d, head, count, 255, 0, 4, serial))
  <2>1. MC!BuildReadRequest(fmt, d, head, count, 255, 0, 4, serial)
          = MC!BuildRequest(fmt, 1025, d, head, count, <<>>, 255, 0, 4, serial)
    BY <1>2 DEF MC!BuildReadRequest, MC!CMD_BATCH_READ_WORD
  <2>2. 0 \in Nat /\ 0 <= 960 /\ Len(<<>>) = 0 /\ DOMAIN <<>> = 1..0 /\ \A i \in 1..0 : <<>>[i] \in Int
    OBVIOUS
  <2>3. serial \in WORD /\ count \in WORD
    BY SmallNumbers
  <2> QED BY <1>2, <1>3, <2>1, <2>2, <2>3, MelsecRequestIsCutWhole
<1>5. IsFrame("melsec", MC!BuildWriteRequest(fmt, "D", 100, <<7>>, 255, 0, 4, 3))
  <2> DEFINE values == <<7>>
  <2>1. /\ Len(values) = 1 /\ DOMAIN values = 1..1 /\ 1 \in Nat /\ 1 <= 960 /\ (values = <<>> <=> 1 = 0)
        /\ \A i \in 1..1 : values[i] \in Int
    OBVIOUS
  <2>2. \A i \in DOMAIN values : values[i] \in MC!SIGNED_OR_NOT
    <3>1. \A i \in DOMAIN values : values[i] = 7
      OBVIOUS
    <3>2. 7 \in MC!SIGNED_OR_NOT
      BY DEF MC!SIGNED_OR_NOT
    <3> QED BY <3>1, <3>2
  <2> HIDE DEF values
  <2>3. MC!BuildWriteRequest(fmt, "D", 100, values, 255, 0, 4, 3)
          = MC!BuildRequest(fmt, 5121, "D", 100, 1, values, 255, 0, 4, 3)
    BY <1>2, <2>1, <2>2 DEF MC!BuildWriteRequest, MC!CMD_BATCH_WRITE_WORD
  <2>4. MC!Addressable("D", 100, 255, 0, 4) /\ 1 \in WORD /\ 3 \in WORD
    BY <1>2, SmallNumbers
  <2>5. ASSUME NEW n \in Nat, n = 1
        PROVE  IsFrame("melsec", MC!BuildRequest(fmt, 5121, "D", 100, n, values, 255, 0, 4, 3))
    <3>1. /\ n <= 960 /\ n \in WORD /\ (values = <<>> <=> n = 0) /\ Len(values) = n /\ DOMAIN values = 1..n
          /\ \A i \in 1..n : values[i] \in Int
      BY <2>1, <2>4, <2>5
    <3> QED BY ONLY fmt \in MC!FRAME_FORMATS, n \in Nat, <1>3, <2>4, <3>1, MelsecRequestIsCutWhole
  <2> QED BY <2>3, <2>5 DEF values
<1> QED BY <1>1, <1>4, <1>5

\* What is joined to something is something.
LEMMA JoinedIsSome ==
  ASSUME NEW a \in Seq(Int), a # <<>>, NEW b \in Seq(Int)
  PROVE  a \o b \in Seq(Int) /\ a \o b # <<>>
<1>1. Len(a) \in Nat /\ Len(b) \in Nat /\ Len(a) # 0
  BY EmptySeq, LenProperties
<1>2. a \o b \in Seq(Int) /\ Len(a \o b) = Len(a) + Len(b)
  BY ConcatProperties
<1> QED BY <1>1, <1>2, EmptySeq

\* A path leads to every name of a few letters, and a read and a write go there.
LEMMA TagRequestsAreMade ==
  ASSUME NEW name \in Seq(Int), NEW n \in {4, 5}, Len(name) = n, NEW index \in {-1, 0, 1}
  PROVE  /\ \A count : count \in WORD /\ count # 0 => ENIP!BuildReadTag(name, index, count) # <<>>
         /\ ENIP!BuildWriteTag(name, index, ENIP!INT, <<7>>) # <<>>
<1> DEFINE path == ENIP!BuildTagPath(name, index)
<1>1. path # <<>> /\ \E k \in Nat : k <= 260 /\ Bytes(path, k)
  <2> DEFINE a == <<145, n>>
             b == Zeros(n % 2)
             c == IF index = -1 THEN <<>> ELSE <<40, index % 256>>
  <2>1. n \in 1..255
    BY CountIs
  <2>2. path = a \o name \o b \o c
    BY <2>1 DEF ENIP!BuildTagPath, ENIP!Zeros, Zeros
  <2>3. a \in Seq(Int) /\ a # <<>> /\ b \in Seq(Int) /\ c \in Seq(Int)
    <3>1. b \in Seq(Int)
      BY ZerosBytes DEF Bytes
    <3>2. c \in Seq(Int)
      <4>1. <<>> \in Seq(Int) /\ Bytes(<<40, index % 256>>, 2)
        BY BytesOfTwo
      <4> QED BY <4>1 DEF Bytes
    <3>3. Bytes(a, 2)
      BY BytesOfTwo
    <3> HIDE DEF a, b, c
    <3>4. a # <<>>
      BY <3>3, SomeBytes
    <3> QED BY <3>1, <3>2, <3>3, <3>4 DEF Bytes
  <2> HIDE DEF a, b, c
  <2>4. a \o name \in Seq(Int) /\ a \o name # <<>>
    BY <2>3, JoinedIsSome
  <2>5. a \o name \o b \in Seq(Int) /\ a \o name \o b # <<>>
    BY <2>3, <2>4, JoinedIsSome
  <2>6. a \o name \o b \o c # <<>>
    BY <2>3, <2>5, JoinedIsSome
  <2>7. path # <<>>
    BY <2>2, <2>6
  <2>8. index \in Int
    OBVIOUS
  <2> HIDE DEF path
  <2> QED BY <2>7, <2>8, TagPathBytes DEF path
<1> HIDE DEF path
<1>2. path \in Seq(Int) /\ Len(path) \div 2 \in Int
  BY <1>1 DEF Bytes
<1>3. \A x \in Int, y \in Int : <<x, y>> \in Seq(Int) /\ <<x, y>> # <<>>
  <2> TAKE x \in Int, y \in Int
  <2> DEFINE a == <<x, y>>
  <2>1. Bytes(a, 2)
    BY BytesOfTwo
  <2> HIDE DEF a
  <2> QED BY <2>1, SomeBytes DEF a, Bytes
<1>4. ASSUME NEW count \in WORD, count # 0 PROVE ENIP!BuildReadTag(name, index, count) # <<>>
  <2> DEFINE a == <<76, Len(path) \div 2>>
             b == S16(count)
  <2>1. count \in ENIP!WORD
    BY SmallNumbers
  <2>2. ENIP!BuildReadTag(name, index, count) = a \o path \o b
    BY <1>1, <1>4, <2>1 DEF ENIP!BuildReadTag, ENIP!SVC_READ_TAG, ENIP!S16, S16, path
  <2>3. a \in Seq(Int) /\ a # <<>> /\ b \in Seq(Int)
    BY <1>2, <1>3, FieldIsRead DEF Bytes
  <2> HIDE DEF a, b
  <2>4. a \o path \in Seq(Int) /\ a \o path # <<>>
    BY <1>2, <2>3, JoinedIsSome
  <2> QED BY <2>2, <2>3, <2>4, JoinedIsSome
<1>5. ENIP!BuildWriteTag(name, index, ENIP!INT, <<7>>) # <<>>
  <2> DEFINE values == <<7>>
             words == [i \in DOMAIN values |-> ENIP!S16(values[i])]
             a == <<77, Len(path) \div 2>>
             b == S16(195)
             c == S16(1)
             e == ENIP!FlattenSeq(words)
  <2>1. ENIP!TYPE_CODES[ENIP!INT] = 1 /\ ENIP!INT \in DOMAIN ENIP!TYPE_CODES /\ ENIP!INT = 195
    BY DEF ENIP!TYPE_CODES, ENIP!INT, ENIP!DINT, ENIP!LINT, ENIP!REAL
  <2>2. ENIP!S16(195) = b /\ ENIP!S16(1) = c
    BY DEF ENIP!S16, S16
  <2>3. Len(values) = 1 /\ values # <<>> /\ 1 \div 1 = 1 /\ ~(1 * 1 > 480)
    OBVIOUS
  <2>4. words = <<S16(7)>>
    BY DEF ENIP!S16, S16
  <2> HIDE DEF values
  <2>5. ENIP!BuildWriteTag(name, index, ENIP!INT, values) = a \o path \o b \o c \o e
    <3> HIDE DEF b, c, words
    <3> QED BY <1>1, <2>1, <2>2, <2>3 DEF ENIP!BuildWriteTag, ENIP!SVC_WRITE_TAG, path, words
  <2>6. a \in Seq(Int) /\ a # <<>> /\ b \in Seq(Int) /\ c \in Seq(Int)
    <3>1. 195 \in WORD /\ 1 \in WORD
      BY WordIs
    <3> QED BY <1>2, <1>3, <3>1, FieldIsRead DEF Bytes
  <2>7. e \in Seq(Int)
    <3> HIDE DEF words
    <3>1. words # <<>> /\ Len(words) = 1 /\ words[1] = S16(7) /\ 7 \in WORD
      BY <2>4, SmallNumbers
    <3>2. \A i \in 1..1 : Bytes(words[i], 2)
      BY <3>1, FieldIsRead
    <3>3. 2 \in {2, 4} /\ 1 \in Nat /\ (words = <<>> <=> 1 = 0)
      BY <3>1
    <3>4. Bytes(FlattenSeq(words), 2 * 1)
      BY <3>1, <3>2, <3>3, FlattenedLength
    <3>5. ENIP!FlattenSeq(words) = FlattenSeq(words)
      BY DEF ENIP!FlattenSeq, FlattenSeq
    <3> QED BY <3>4, <3>5 DEF Bytes
  <2> HIDE DEF a, b, c, e
  <2>8. a \o path \in Seq(Int) /\ a \o path # <<>>
    BY <1>2, <2>6, JoinedIsSome
  <2>9. a \o path \o b \in Seq(Int) /\ a \o path \o b # <<>>
    BY <2>6, <2>8, JoinedIsSome
  <2>10. a \o path \o b \o c \in Seq(Int) /\ a \o path \o b \o c # <<>>
    BY <2>6, <2>9, JoinedIsSome
  <2>11. a \o path \o b \o c \o e # <<>>
    BY <2>7, <2>10, JoinedIsSome
  <2> QED BY <2>5, <2>11 DEF values
<1> QED BY <1>4, <1>5

\* Of EtherNet/IP: what opens a session and asks who is there, and tag services
\* with the envelope and without, are frames the parser accepts.
LEMMA EnipRequestsAreSound ==
  ASSUME NEW q \in EnipRequests \cup BareRequests
  PROVE  IsFrame("enip", q) /\ EnipAccepted(q)
<1>1. \/ q = ENIP!BuildRegisterSession \/ q = ENIP!BuildListIdentity
      \/ q = ENIP!BuildSendRrData(1, ENIP!BuildUnconnectedSend(ENIP!BuildReadTag(ALPHA, 0, 2)), FALSE)
      \/ q = ENIP!BuildSendRrData(1, ENIP!BuildReadTag(ALPHA, 0, 2), FALSE)
      \/ q = ENIP!BuildSendRrData(1, ENIP!BuildReadTag(BETA, -1, 2), FALSE)
      \/ q = ENIP!BuildSendRrData(1, ENIP!BuildReadTag(ALPHA, 0, BEYOND_REPLY), FALSE)
      \/ q = ENIP!BuildSendRrData(1, ENIP!BuildWriteTag(BETA, 1, ENIP!INT, <<7>>), FALSE)
  BY Zenon DEF EnipRequests, BareRequests
<1>2. ALPHA \in Seq(Int) /\ Len(ALPHA) = 5 /\ BETA \in Seq(Int) /\ Len(BETA) = 4
  BY DEF ALPHA, BETA
<1> DEFINE Sound(f) == IsFrame("enip", f) /\ EnipAccepted(f)
<1>3. ASSUME NEW name \in {ALPHA, BETA}, NEW index \in {-1, 0, 1}, NEW count \in {2, BEYOND_REPLY}, NEW sent,
             NEW cip \in {ENIP!BuildReadTag(name, index, count), ENIP!BuildWriteTag(name, index, ENIP!INT, << 7 >>)}
      PROVE  /\ Sound(ENIP!BuildSendRrData(1, cip, sent))
             /\ Sound(ENIP!BuildSendRrData(1, ENIP!BuildUnconnectedSend(cip), sent))
  <2>1. name \in Seq(Int) /\ Len(name) \in {4, 5} /\ index \in Int
    BY <1>2
  <2>2. count \in WORD /\ count # 0
    BY WordIs DEF BEYOND_REPLY
  <2>3. cip # <<>>
    BY ONLY index \in {-1, 0, 1}, <2>1, <2>2, TagRequestsAreMade,
            cip \in {ENIP!BuildReadTag(name, index, count), ENIP!BuildWriteTag(name, index, ENIP!INT, <<7>>)}
  <2> DEFINE values == <<7>>
  <2>4. values \in Seq(Int) /\ \A i \in DOMAIN values : values[i] \in WORD
    <3>1. \A i \in DOMAIN values : values[i] = 7
      OBVIOUS
    <3> QED BY <3>1, SmallNumbers
  <2>5. PICK session : session = 1 /\ FitsWide(session)
    BY DEF FitsWide
  <2>6. cip \in {ENIP!BuildReadTag(name, index, count), ENIP!BuildWriteTag(name, index, ENIP!INT, values)}
    OBVIOUS
  <2> HIDE DEF values
  <2>7. /\ IsFrame("enip", ENIP!BuildSendRrData(session, cip, sent))
        /\ IsFrame("enip", ENIP!BuildSendRrData(session, ENIP!BuildUnconnectedSend(cip), sent))
    BY ONLY <2>1, <2>3, <2>4, <2>5, <2>6, EnipTagRequestIsCutWhole
  <2>8. /\ EnipAccepted(ENIP!BuildSendRrData(session, cip, sent))
        /\ EnipAccepted(ENIP!BuildSendRrData(session, ENIP!BuildUnconnectedSend(cip), sent))
    BY ONLY <2>1, <2>3, <2>4, <2>5, <2>6, EnipTagRequestIsAccepted
  <2> QED BY ONLY <2>5, <2>7, <2>8
<1>4. Sound(ENIP!BuildRegisterSession) /\ Sound(ENIP!BuildListIdentity)
  BY EnipSessionFramesAreCutWhole, EnipSessionFramesAreAccepted DEF IsFrame, Bytes
<1>5. -1 \in {-1, 0, 1} /\ 0 \in {-1, 0, 1} /\ 1 \in {-1, 0, 1}
  OBVIOUS
<1> HIDE DEF Sound
<1>6. Sound(q)
  BY ONLY <1>1, <1>3, <1>4, <1>5, Zenon
<1> QED BY <1>6 DEF Sound

\* Every request of every client is a frame of its protocol.
LEMMA RequestsAreFrames ==
  ASSUME NEW dialect \in MC!FRAME_FORMATS \cup {"modbus", "fins", "iec104", "enip", "enip_bare"},
         NEW dest \in BYTE, NEW q \in Requests(dialect, dest)
  PROVE  /\ IsFrame(ProtocolOf(dialect), q) /\ ProtocolOf(dialect) \in LengthFirst \cup {"melsec"}
<1>1. CASE dialect = "modbus"
  BY <1>1, ModbusRequestsAreFrames DEF Requests, ProtocolOf, MC!FRAME_FORMATS, LengthFirst
<1>2. CASE dialect = "fins"
  BY <1>2, FinsRequestsAreFrames DEF Requests, ProtocolOf, MC!FRAME_FORMATS, LengthFirst
<1>3. CASE dialect = "iec104"
  BY <1>3, Iec104RequestsAreFrames DEF Requests, ProtocolOf, MC!FRAME_FORMATS, LengthFirst
<1>4. CASE dialect \in MC!FRAME_FORMATS
  BY <1>4, MelsecRequestsAreFrames DEF Requests, ProtocolOf, MC!FRAME_FORMATS
<1>5. CASE dialect = "enip"
  BY <1>5, EnipRequestsAreSound DEF Requests, ProtocolOf, MC!FRAME_FORMATS, LengthFirst
<1>6. CASE dialect = "enip_bare"
  BY <1>6, EnipRequestsAreSound DEF Requests, ProtocolOf, MC!FRAME_FORMATS, LengthFirst
<1> QED BY <1>1, <1>2, <1>3, <1>4, <1>5, <1>6

\* None of them is nothing, so that what the builders' theorems say is said of a frame.
LEMMA RequestIsSome ==
  ASSUME NEW dialect \in MC!FRAME_FORMATS \cup {"modbus", "fins", "iec104", "enip", "enip_bare"},
         NEW dest \in BYTE, NEW q \in Requests(dialect, dest)
  PROVE  q # <<>>
BY RequestsAreFrames, FrameIsSomething DEF Wires

\* What the parser says of the requests of Modbus: of the count no builder lets
\* through it says that the quantity is wrong.
LEMMA ModbusRequestsAreAccepted ==
  ASSUME NEW q \in ModbusRequests, q # <<>>
  PROVE  MB!ParseRequest(q) \subseteq {"quantity"}
<1>1. CASE q = MB!BuildReadRequest(1, 1, 3, 0, 2)
  BY <1>1, ModbusReadIsAccepted
<1>2. CASE q = MB!BuildReadRequest(2, 1, 1, 7, 9)
  BY <1>2, ModbusReadIsAccepted
<1>3. CASE q = MB!BuildWriteSingle(3, 1, 6, 0, 5)
  BY <1>3, ModbusWriteSingleIsAccepted
<1>4. CASE q = MB!BuildWriteMultiple(4, 1, 0, <<1, 2>>)
  <2>1. <<1, 2>> \in Seq(Int)
    OBVIOUS
  <2>2. MB!ParseRequest(q) = IF 1 <= 247 THEN {} ELSE {"unit_id"}
    BY <1>4, <2>1, ModbusWriteMultipleIsAccepted
  <2> QED BY <2>2
<1>5. CASE q = MB!Mbap(5, 1, <<3, 0, 0, 0, 200>>)
  <2> DEFINE pdu == <<3, 0, 0, 0, 200>>
  <2>1. Bytes(pdu, 5) /\ At(pdu, 0) = 3 /\ 3 \in MB!KNOWN_FCS
    BY DEF Bytes, At, MB!KNOWN_FCS, MB!READ_FCS, MB!WRITE_FCS
  <2>2. 5 \in WORD /\ 1 \in Nat /\ ~(1 > 247) /\ 5 \in Nat /\ 5 <= 5 /\ 5 <= 253
    BY SmallNumbers
  <2> HIDE DEF pdu
  <2>3. /\ MB!ParseRequest(q) \subseteq {"quantity", "coil", "unit_id"}
        /\ "coil" \in MB!ParseRequest(q) => At(pdu, 0) = 5
        /\ "unit_id" \in MB!ParseRequest(q) => 1 > 247
    <3>1. q = MB!Mbap(5, 1, pdu) /\ At(pdu, 0) \in MB!KNOWN_FCS
      BY <1>5, <2>1 DEF pdu
    <3> QED BY ONLY <2>1, <2>2, <3>1, ModbusParsed
  <2> QED BY <2>1, <2>2, <2>3
<1> QED BY <1>1, <1>2, <1>3, <1>4, <1>5 DEF ModbusRequests

LEMMA FinsRequestsAreAccepted ==
  ASSUME NEW dest \in BYTE, NEW q \in FinsRequests(dest), q # <<>>
  PROVE  FI!ParseRequest(q) = {}
<1>1. CASE q = FI!BuildHandshakeRequest(1)
  BY <1>1, FinsHandshakeIsAccepted
<1>2. CASE q = FI!BuildHandshakeRequest(2)
  BY <1>2, FinsHandshakeIsAccepted
<1>3. CASE q = FI!BuildReadRequest(9, 1, 130, 0, 2, dest)
  BY <1>3, FinsReadIsAccepted
<1>4. CASE q = FI!BuildMemoryAreaWrite(8, 1, 130, 0, <<7>>, dest)
  <2> DEFINE values == <<7>>
  <2>1. values \in Seq(Int) /\ 1 \in Int
    OBVIOUS
  <2>2. q = FI!BuildMemoryAreaWrite(8, 1, 130, 0, values, dest)
    BY <1>4
  <2> HIDE DEF values
  <2> QED BY ONLY q # <<>>, <2>1, <2>2, FinsWriteIsAccepted
<1> QED BY <1>1, <1>2, <1>3, <1>4 DEF FinsRequests

LEMMA Iec104RequestsAreAccepted ==
  ASSUME NEW q \in Iec104Requests, q # <<>>
  PROVE  IEC!ValidateFrame(q) = {} /\ IEC!ParseFrame(q).direction = "req"
<1>1. CASE q = IEC!BuildApciU(IEC!U_STARTDT_ACT) \/ q = IEC!BuildApciS(0)
  BY <1>1, Iec104ControlFramesAreAccepted
<1>2. CASE q = IEC!BuildApciI(1, 32766, IEC!BuildAsduInterrogation(20, 1, 6))
  <2>1. Iec104Accepted(IEC!BuildApciI(1, 32766, IEC!BuildAsduInterrogation(20, 1, 6)), CommandDirection(6))
    <3>1. 20 \in Int /\ FitsWide(200)
      BY DEF FitsWide
    <3> QED BY <3>1, Iec104CommandsAreAccepted
  <2> QED BY <1>2, <2>1 DEF Iec104Accepted, CommandDirection
<1>3. CASE q = IEC!BuildApciI(0, 0, IEC!BuildAsduRead(200, 1))
  <2>1. Iec104Accepted(IEC!BuildApciI(0, 0, IEC!BuildAsduRead(200, 1)), "req")
    <3>1. 20 \in Int /\ FitsWide(200)
      BY DEF FitsWide
    <3> QED BY <3>1, Iec104CommandsAreAccepted
  <2> QED BY <1>3, <2>1 DEF Iec104Accepted
<1> QED BY <1>1, <1>2, <1>3 DEF Iec104Requests

LEMMA MelsecRequestsAreAccepted ==
  ASSUME NEW fmt \in MC!FRAME_FORMATS, NEW q \in MelsecRequests(fmt), q # <<>>
  PROVE  MC!ParseRequestFmt(q, fmt) = {}
<1>1. AsciiHeadFits(fmt, "D", 100) /\ AsciiHeadFits(fmt, "X", 16) /\ 1 \in WORD /\ 2 \in WORD /\ 3 \in WORD
  BY SmallNumbers DEF AsciiHeadFits, MC!HEX_DEVICES, MC!TENS
<1>2. CASE q = MC!BuildReadRequest(fmt, "D", 100, 2, 255, 0, 4, 1)
  BY <1>1, <1>2, MelsecReadIsAccepted
<1>3. CASE q = MC!BuildReadRequest(fmt, "X", 16, 20, 255, 0, 4, 2)
  BY <1>1, <1>3, MelsecReadIsAccepted
<1>4. CASE q = MC!BuildWriteRequest(fmt, "D", 100, <<7>>, 255, 0, 4, 3)
  <2> DEFINE values == <<7>>
  <2>1. values \in Seq(Int)
    OBVIOUS
  <2>2. q = MC!BuildWriteRequest(fmt, "D", 100, values, 255, 0, 4, 3)
    BY <1>4
  <2> HIDE DEF values
  <2> QED BY ONLY fmt \in MC!FRAME_FORMATS, q # <<>>, <1>1, <2>1, <2>2, MelsecWriteIsAccepted
<1> QED BY <1>2, <1>3, <1>4 DEF MelsecRequests

-----------------------------------------------------------------------------
(* The ring                                                                 *)

\* A ring is a sequence of whatever is recorded.
IsRing(ring) == \E S : ring \in Seq(S)

\* What is recorded comes last, and what was there stays where it was.
LEMMA RingGrows ==
  ASSUME NEW ring, IsRing(ring), NEW x
  PROVE  /\ IsRing(Append(ring, x)) /\ Len(ring) \in Nat /\ DOMAIN ring = 1..Len(ring)
         /\ Len(Append(ring, x)) = Len(ring) + 1 /\ DOMAIN Append(ring, x) = 1..Len(ring) + 1
         /\ \A i \in 1..Len(ring) : Append(ring, x)[i] = ring[i]
         /\ Append(ring, x)[Len(ring) + 1] = x
<1>1. PICK S : ring \in Seq(S)
  BY DEF IsRing
<1> DEFINE T == S \cup {x}
<1>2. ring \in Seq(T) /\ x \in T
  <2>1. Len(ring) \in Nat /\ \A i \in 1..Len(ring) : ring[i] \in T
    BY <1>1, LenProperties, ElementOfSeq
  <2>2. ring = [i \in 1..Len(ring) |-> ring[i]]
    BY <1>1, LenProperties
  <2> QED BY <2>1, <2>2, SeqDef
<1> HIDE DEF T
<1> QED BY <1>2, AppendProperties, LenProperties DEF IsRing

\* Without its first entry a ring is one again.
LEMMA RingShrinks ==
  ASSUME NEW ring, IsRing(ring), Len(ring) # 0
  PROVE  LET rest == SubSeq(ring, 2, Len(ring))
         IN /\ IsRing(rest) /\ Len(ring) \in Nat /\ DOMAIN ring = 1..Len(ring) /\ Len(rest) = Len(ring) - 1
            /\ DOMAIN rest = 1..Len(ring) - 1 /\ \A i \in 1..Len(ring) - 1 : rest[i] = ring[i + 1]
<1>1. PICK S : ring \in Seq(S)
  BY DEF IsRing
<1>2. Len(ring) \in Nat /\ DOMAIN ring = 1..Len(ring) /\ \A i \in 2..Len(ring) : ring[i] \in S
  BY <1>1, LenProperties, ElementOfSeq
<1> DEFINE rest == SubSeq(ring, 2, Len(ring))
<1>3. /\ rest \in Seq(S) /\ Len(rest) = (IF 2 <= Len(ring) THEN Len(ring) - 2 + 1 ELSE 0)
      /\ \A i \in 1..Len(ring) - 2 + 1 : rest[i] = ring[2 + i - 1]
  BY <1>2, SubSeqProperties
<1>4. DOMAIN rest = 1..Len(rest)
  BY <1>3, LenProperties
<1> HIDE DEF rest
<1> QED BY <1>2, <1>3, <1>4 DEF IsRing, rest

\* Trimming drops the first entry of a ring that has one too many, and no other.
LEMMA TrimDropsOne ==
  ASSUME NEW ring, IsRing(ring), Len(ring) \in Nat, Len(ring) <= FrameLimit + 1, FrameLimit \in Nat \ {0}
  PROVE  Trim(ring) = IF Len(ring) = FrameLimit + 1 THEN SubSeq(ring, 2, Len(ring)) ELSE ring
BY DEF Trim

\* Recording something of another, or something sent, leaves what was received of c.
LEMMA OthersAreRecorded ==
  ASSUME NEW ring, IsRing(ring), NEW x, NEW c, x.peer # c \/ x.direction # "recv",
         NEW requests, NEW first, RecordedFrom(ring, c, requests, first)
  PROVE  RecordedFrom(Append(ring, x), c, requests, first)
<1> DEFINE longer == Append(ring, x)
<1>1. Len(ring) \in Nat /\ DOMAIN ring = 1..Len(ring) /\ DOMAIN longer = 1..Len(ring) + 1
      /\ (\A i \in 1..Len(ring) : longer[i] = ring[i]) /\ longer[Len(ring) + 1] = x
  BY RingGrows
<1> HIDE DEF longer
<1>2. Mine(longer, c) = Mine(ring, c)
  BY <1>1 DEF Mine
<1>3. \A i \in Mine(ring, c) : longer[i] = ring[i]
  BY <1>1 DEF Mine
<1>4. PICK at \in [Mine(ring, c) -> first..Len(requests)] :
        /\ \A i, j \in Mine(ring, c) : i < j => at[i] < at[j]
        /\ \A k \in first..Len(requests) : \E i \in Mine(ring, c) : at[i] = k
        /\ \A i \in Mine(ring, c) : ring[i].frame = requests[at[i]]
  BY DEF RecordedFrom
<1>5. /\ at \in [Mine(longer, c) -> first..Len(requests)]
      /\ \A i, j \in Mine(longer, c) : i < j => at[i] < at[j]
      /\ \A k \in first..Len(requests) : \E i \in Mine(longer, c) : at[i] = k
      /\ \A i \in Mine(longer, c) : longer[i].frame = requests[at[i]]
  BY <1>2, <1>3, <1>4
<1>6. RecordedFrom(longer, c, requests, first)
  BY ONLY <1>5 DEF RecordedFrom
<1> QED BY <1>6 DEF longer

\* A request of c is recorded after those before it.
LEMMA RequestIsRecorded ==
  ASSUME NEW ring, IsRing(ring), NEW c, NEW S, NEW requests \in Seq(S), NEW f \in S,
         NEW first \in Nat \ {0}, first <= Len(requests) + 1, RecordedFrom(ring, c, requests, first)
  PROVE  RecordedFrom(Append(ring, [direction |-> "recv", peer |-> c, frame |-> f]), c, Append(requests, f), first)
<1> DEFINE x == [direction |-> "recv", peer |-> c, frame |-> f]
           longer == Append(ring, x)
           all == Append(requests, f)
           last == Len(ring) + 1
           n == Len(requests)
<1>1. PICK at \in [Mine(ring, c) -> first..n] :
        /\ \A i, j \in Mine(ring, c) : i < j => at[i] < at[j]
        /\ \A k \in first..n : \E i \in Mine(ring, c) : at[i] = k
        /\ \A i \in Mine(ring, c) : ring[i].frame = requests[at[i]]
  BY DEF RecordedFrom
<1>2. n \in Nat /\ Len(all) = n + 1 /\ all[n + 1] = f /\ \A k \in 1..n : all[k] = requests[k]
  BY AppendProperties, LenProperties
<1>3. /\ Len(ring) \in Nat /\ DOMAIN ring = 1..Len(ring) /\ DOMAIN longer = 1..last
      /\ \A i \in 1..Len(ring) : longer[i] = ring[i]
      /\ longer[last] = x
  BY RingGrows
<1>4. x.peer = c /\ x.direction = "recv" /\ x.frame = f
  OBVIOUS
<1> HIDE DEF x, longer, all, n
<1>5. Mine(longer, c) = Mine(ring, c) \cup {last}
  BY <1>3, <1>4 DEF Mine
<1>6. \A i \in Mine(ring, c) : i \in 1..Len(ring) /\ i < last /\ i # last
  BY <1>3 DEF Mine
<1> HIDE DEF last
<1> DEFINE later == [i \in Mine(longer, c) |-> IF i = last THEN n + 1 ELSE at[i]]
<1>7. \A i \in Mine(ring, c) : at[i] \in first..n /\ later[i] = at[i]
  BY <1>1, <1>5, <1>6
<1>8. later[last] = n + 1
  BY <1>5
<1>9. later \in [Mine(longer, c) -> first..Len(all)]
  <2>1. \A i \in Mine(longer, c) : later[i] \in first..n + 1
    <3>1. n + 1 \in first..n + 1
      BY <1>2 DEF n
    <3> QED BY <1>2, <1>5, <1>7, <1>8, <3>1
  <2> QED BY <1>2, <2>1
<1> HIDE DEF later
<1>10. ASSUME NEW i \in Mine(longer, c), NEW j \in Mine(longer, c), i < j PROVE later[i] < later[j]
  <2>1. CASE i = last
    BY <1>3, <1>5, <1>6, <1>10, <2>1 DEF last
  <2>2. CASE i # last /\ j = last
    BY <1>2, <1>5, <1>7, <1>8, <2>2
  <2>3. CASE i # last /\ j # last
    BY <1>1, <1>5, <1>7, <1>10, <2>3
  <2> QED BY <2>1, <2>2, <2>3
<1>11. ASSUME NEW k \in first..Len(all) PROVE \E i \in Mine(longer, c) : later[i] = k
  <2>1. CASE k = n + 1
    BY <1>5, <1>8, <2>1
  <2>2. CASE k # n + 1
    <3>1. k \in first..n
      BY <1>2, <2>2
    <3> QED BY <1>1, <1>5, <1>7, <3>1
  <2> QED BY <2>1, <2>2
<1>12. ASSUME NEW i \in Mine(longer, c) PROVE longer[i].frame = all[later[i]]
  <2>1. CASE i = last
    BY <1>2, <1>3, <1>4, <1>8, <2>1
  <2>2. CASE i # last
    <3>1. i \in Mine(ring, c) /\ i \in 1..Len(ring) /\ later[i] = at[i] /\ at[i] \in first..n
      BY <1>5, <1>6, <1>7, <2>2
    <3>2. at[i] \in 1..n
      BY <1>2, <3>1
    <3> QED BY <1>1, <1>2, <1>3, <3>1, <3>2
  <2> QED BY <2>1, <2>2
<1>13. RecordedFrom(longer, c, all, first)
  BY <1>9, <1>10, <1>11, <1>12 DEF RecordedFrom
<1> QED BY <1>13 DEF longer, all, x

\* When the first entry is dropped, the first request may be the next.
LEMMA FirstIsDropped ==
  ASSUME NEW ring, IsRing(ring), Len(ring) # 0, NEW c, NEW requests, Len(requests) \in Nat,
         NEW first \in Nat \ {0}, first <= Len(requests) + 1, RecordedFrom(ring, c, requests, first)
  PROVE  \E next \in {first, first + 1} :
           next <= Len(requests) + 1 /\ RecordedFrom(SubSeq(ring, 2, Len(ring)), c, requests, next)
<1> DEFINE rest == SubSeq(ring, 2, Len(ring))
           n == Len(requests)
<1>1. PICK at \in [Mine(ring, c) -> first..n] :
        /\ \A i, j \in Mine(ring, c) : i < j => at[i] < at[j]
        /\ \A k \in first..n : \E i \in Mine(ring, c) : at[i] = k
        /\ \A i \in Mine(ring, c) : ring[i].frame = requests[at[i]]
  BY DEF RecordedFrom
<1>2. /\ Len(ring) \in Nat /\ DOMAIN ring = 1..Len(ring) /\ DOMAIN rest = 1..Len(ring) - 1
      /\ \A i \in 1..Len(ring) - 1 : rest[i] = ring[i + 1]
  BY RingShrinks
<1> HIDE DEF rest, n
<1>3. \A i : i \in Mine(rest, c) => i \in Nat /\ i + 1 \in Mine(ring, c) /\ rest[i] = ring[i + 1]
  BY <1>2 DEF Mine
<1>4. \A i \in Mine(ring, c) : i = 1 \/ (i \in Nat /\ i > 1 /\ i - 1 \in Mine(rest, c) /\ (i - 1) + 1 = i)
  BY <1>2 DEF Mine
<1> DEFINE earlier == [i \in Mine(rest, c) |-> at[i + 1]]
           next == IF 1 \in Mine(ring, c) THEN first + 1 ELSE first
<1>5. n \in Nat /\ \A i \in Mine(ring, c) : at[i] \in first..n
  BY <1>1 DEF n
<1>6. 1 \in Mine(ring, c) => at[1] = first
  <2> SUFFICES ASSUME 1 \in Mine(ring, c) PROVE at[1] = first
    OBVIOUS
  <2>1. first \in first..n
    BY <1>5
  <2>2. PICK i \in Mine(ring, c) : at[i] = first
    BY <1>1, <2>1
  <2>3. CASE i > 1
    BY <1>1, <1>5, <2>2, <2>3
  <2>4. CASE i = 1
    BY <2>2, <2>4
  <2> QED BY <1>4, <2>3, <2>4
<1>7. \A i \in Mine(rest, c) : at[i + 1] \in next..n
  <2> TAKE i \in Mine(rest, c)
  <2>1. i \in Nat /\ i + 1 \in Mine(ring, c) /\ at[i + 1] \in first..n
    BY <1>3, <1>5
  <2>2. i \in DOMAIN rest /\ i >= 1
    BY <1>2 DEF Mine
  <2>3. CASE 1 \in Mine(ring, c)
    <3>1. 1 < i + 1
      BY <2>1, <2>2
    <3>2. at[1] < at[i + 1] /\ at[1] = first
      BY <1>1, <1>6, <2>1, <2>3, <3>1
    <3> QED BY <2>1, <2>3, <3>2
  <2>4. CASE 1 \notin Mine(ring, c)
    BY <2>1, <2>4
  <2> QED BY <2>3, <2>4
<1>8. next \in {first, first + 1} /\ next <= n + 1
  BY <1>5, <1>6 DEF n
<1>9. earlier \in [Mine(rest, c) -> next..n] /\ \A i \in Mine(rest, c) : earlier[i] = at[i + 1]
  BY <1>7
<1> HIDE DEF earlier
<1>10. \A i, j \in Mine(rest, c) : i < j => earlier[i] < earlier[j]
  BY <1>1, <1>3, <1>9
<1>11. ASSUME NEW k \in next..n PROVE \E i \in Mine(rest, c) : earlier[i] = k
  <2>1. k \in first..n
    BY <1>5
  <2>2. PICK i \in Mine(ring, c) : at[i] = k
    BY <1>1, <2>1
  <2>3. CASE i = 1
    BY <1>5, <1>6, <2>2, <2>3
  <2>4. CASE i # 1
    BY <1>4, <1>9, <2>2, <2>4
  <2> QED BY <2>3, <2>4
<1>12. \A i \in Mine(rest, c) : rest[i].frame = requests[earlier[i]]
  BY <1>1, <1>3, <1>9
<1> HIDE DEF next
<1>13. RecordedFrom(rest, c, requests, next)
  BY <1>9, <1>10, <1>11, <1>12 DEF RecordedFrom, n
<1> QED BY <1>8, <1>13 DEF rest, n

\* What the ring has of the requests of c: from some first one on, and all of them
\* as long as nothing was dropped.
Told(ring, c, requests) ==
  /\ \E first \in 1..Len(requests) + 1 : RecordedFrom(ring, c, requests, first)
  /\ Len(ring) < FrameLimit => RecordedFrom(ring, c, requests, 1)

\* Trimming takes no more than the ring has room for, and leaves the rest told.
LEMMA TrimTells ==
  ASSUME NEW ring, IsRing(ring), Len(ring) \in Nat, Len(ring) <= FrameLimit + 1, NEW c,
         NEW requests, Len(requests) \in Nat, FrameLimit \in Nat \ {0},
         NEW first \in 1..Len(requests) + 1, RecordedFrom(ring, c, requests, first),
         Len(ring) <= FrameLimit => RecordedFrom(ring, c, requests, 1)
  PROVE  Told(Trim(ring), c, requests)
<1>1. CASE Len(ring) = FrameLimit + 1
  <2>1. first \in Nat \ {0} /\ first <= Len(requests) + 1 /\ Len(ring) # 0
    BY <1>1
  <2> DEFINE rest == SubSeq(ring, 2, Len(ring))
  <2>2. PICK next \in {first, first + 1} : next <= Len(requests) + 1 /\ RecordedFrom(rest, c, requests, next)
    BY <2>1, FirstIsDropped
  <2>3. Len(rest) = FrameLimit /\ Trim(ring) = rest
    BY <1>1, <2>1, RingShrinks, TrimDropsOne
  <2> HIDE DEF rest
  <2>4. next \in 1..Len(requests) + 1 /\ ~(Len(rest) < FrameLimit)
    BY <2>1, <2>2, <2>3
  <2> QED BY <2>2, <2>3, <2>4 DEF Told
<1>2. CASE Len(ring) # FrameLimit + 1
  <2>1. Trim(ring) = ring /\ Len(ring) <= FrameLimit
    BY <1>2, TrimDropsOne
  <2> QED BY <2>1 DEF Told
<1> QED BY <1>1, <1>2

\* Recording something of another tells no less of c.
LEMMA OthersTell ==
  ASSUME NEW ring, IsRing(ring), Len(ring) <= FrameLimit, FrameLimit \in Nat \ {0},
         NEW x, NEW c, x.peer # c \/ x.direction # "recv",
         NEW requests, Len(requests) \in Nat, Told(ring, c, requests)
  PROVE  Told(Trim(Append(ring, x)), c, requests)
<1> DEFINE longer == Append(ring, x)
<1>1. IsRing(longer) /\ Len(ring) \in Nat /\ Len(longer) = Len(ring) + 1
  BY RingGrows
<1>2. PICK first \in 1..Len(requests) + 1 : RecordedFrom(ring, c, requests, first)
  BY DEF Told
<1>3. RecordedFrom(longer, c, requests, first)
  BY <1>2, OthersAreRecorded
<1>4. Len(longer) <= FrameLimit => RecordedFrom(longer, c, requests, 1)
  <2>1. ASSUME Len(longer) <= FrameLimit PROVE RecordedFrom(ring, c, requests, 1)
    BY <1>1, <2>1 DEF Told
  <2> QED BY <2>1, OthersAreRecorded
<1> HIDE DEF longer
<1>5. Len(longer) \in Nat /\ Len(longer) <= FrameLimit + 1
  BY <1>1
<1> QED BY <1>1, <1>3, <1>4, <1>5, TrimTells DEF longer

\* Recording the next request of c tells of that one too.
LEMMA RequestTells ==
  ASSUME NEW ring, IsRing(ring), Len(ring) <= FrameLimit, FrameLimit \in Nat \ {0}, NEW c, NEW S,
         NEW requests \in Seq(S), NEW f \in S, Told(ring, c, requests)
  PROVE  Told(Trim(Append(ring, [direction |-> "recv", peer |-> c, frame |-> f])), c, Append(requests, f))
<1> DEFINE longer == Append(ring, [direction |-> "recv", peer |-> c, frame |-> f])
           all == Append(requests, f)
<1>1. IsRing(longer) /\ Len(ring) \in Nat /\ Len(longer) = Len(ring) + 1
  BY RingGrows
<1>2. Len(requests) \in Nat /\ Len(all) = Len(requests) + 1
  BY AppendProperties, LenProperties
<1>3. PICK first \in 1..Len(requests) + 1 : RecordedFrom(ring, c, requests, first)
  BY DEF Told
<1>4. first \in Nat \ {0} /\ first <= Len(requests) + 1 /\ first \in 1..Len(all) + 1
  BY <1>2, <1>3
<1>5. RecordedFrom(longer, c, all, first)
  BY <1>3, <1>4, RequestIsRecorded
<1>6. Len(longer) <= FrameLimit => RecordedFrom(longer, c, all, 1)
  <2>1. ASSUME Len(longer) <= FrameLimit PROVE RecordedFrom(ring, c, requests, 1)
    BY <1>1, <2>1 DEF Told
  <2>2. 1 \in Nat \ {0} /\ 1 <= Len(requests) + 1
    BY <1>2
  <2> QED BY <2>1, <2>2, RequestIsRecorded
<1> HIDE DEF longer, all
<1>7. Len(longer) \in Nat /\ Len(longer) <= FrameLimit + 1 /\ Len(all) \in Nat
  BY <1>1, <1>2
<1> QED BY <1>1, <1>4, <1>5, <1>6, <1>7, TrimTells DEF longer, all

\* After either the ring is one again, and every entry is an old one or the new.
LEMMA RecordKeepsRing ==
  ASSUME NEW ring, IsRing(ring), Len(ring) <= FrameLimit, FrameLimit \in Nat \ {0}, NEW x, NEW P,
         x \in P, \A i \in DOMAIN ring : ring[i] \in P
  PROVE  LET next == Trim(Append(ring, x))
         IN IsRing(next) /\ Len(next) <= FrameLimit /\ \A i \in DOMAIN next : next[i] \in P
<1> DEFINE longer == Append(ring, x)
           rest == SubSeq(longer, 2, Len(longer))
<1>1. /\ IsRing(longer) /\ Len(ring) \in Nat /\ Len(longer) = Len(ring) + 1 /\ DOMAIN longer = 1..Len(ring) + 1
      /\ \A i \in DOMAIN longer : longer[i] \in P
  BY RingGrows
<1> HIDE DEF longer
<1>2. /\ IsRing(rest) /\ Len(rest) = Len(longer) - 1 /\ DOMAIN rest = 1..Len(longer) - 1
      /\ \A i \in 1..Len(longer) - 1 : rest[i] = longer[i + 1]
  BY <1>1, RingShrinks
<1> HIDE DEF rest
<1>3. Trim(longer) = IF Len(longer) = FrameLimit + 1 THEN rest ELSE longer
  BY <1>1, TrimDropsOne DEF rest
<1>4. \A i \in DOMAIN rest : rest[i] \in P
  BY <1>1, <1>2
<1>5. Len(rest) <= FrameLimit /\ (Len(longer) # FrameLimit + 1 => Len(longer) <= FrameLimit)
  BY <1>1, <1>2
<1> QED BY <1>1, <1>2, <1>3, <1>4, <1>5 DEF longer

-----------------------------------------------------------------------------
(* What a read brings                                                       *)

\* How much of what was read makes a frame is a number.
LEMMA CutIsNumber ==
  ASSUME NEW p \in LengthFirst \cup {"melsec"}, NEW b \in Seq(Int)
  PROVE  TryFrameLen(p, b) \in Int /\ (TryFrameLen(p, b) > 0 => TryFrameLen(p, b) <= Len(b))
<1>1. Len(b) \in Nat /\ \A i \in Nat : At(b, i) \in Int
  BY AtIsInt, LenProperties
<1>2. /\ U16(b, 4) \in Int /\ U16(b, 6) \in Int /\ L16(b, 0) \in Int /\ L16(b, 2) \in Int
      /\ L16(b, 7) \in Int /\ L16(b, 11) \in Int
  <2>1. \A i \in Nat : U16(b, i) \in Int /\ L16(b, i) \in Int
    <3> TAKE i \in Nat
    <3>1. At(b, i) \in Int /\ At(b, i + 1) \in Int
      BY <1>1
    <3> QED BY <3>1 DEF U16, L16
  <2> QED BY <2>1
<1>3. U32(b, 4) \in Int
  <2>1. U32(b, 4) = Wide(U16(b, 4), U16(b, 6))
    BY DEF U32
  <2> QED BY <1>2, <2>1 DEF Wide
<1>4. ClaimedLen(p, b) \in Int
  <2>1. CASE p = "modbus"
    BY <1>2, <2>1 DEF ClaimedLen
  <2>2. CASE p = "fins"
    BY <1>3, <2>2 DEF ClaimedLen
  <2>3. CASE p = "iec104"
    <3>1. ClaimedLen(p, b) \in {0, 2 + At(b, 1)}
      BY <2>3 DEF ClaimedLen
    <3>2. At(b, 1) \in Int
      BY <1>1
    <3> HIDE DEF ClaimedLen
    <3> QED BY <3>1, <3>2
  <2>4. CASE p = "enip"
    BY <1>2, <2>4 DEF ClaimedLen
  <2>5. CASE p = "melsec"
    <3> DEFINE Field(at, sz) == FieldEnd(b, at, sz, FieldValue(b, at, sz))
    <3>1. ClaimedLen(p, b) = Field(MelsecLengthField(b)[1], MelsecLengthField(b)[2])
      BY <2>5 DEF ClaimedLen, MelsecFrameLen, FieldValue
    <3>2. MelsecLengthField(b) \in {<<7, 2>>, <<11, 2>>, <<22, 4>>, <<14, 4>>, <<0, 0>>}
      BY DEF MelsecLengthField
    <3>3. Field(0, 0) \in Int
      BY DEF FieldEnd, More
    <3>4. Field(7, 2) \in Int /\ Field(11, 2) \in Int
      BY <1>1, <1>2 DEF FieldEnd, FieldValue, More
    <3>5. ASSUME NEW at \in {22, 14} PROVE Field(at, 4) \in Int
      <4>1. CASE Len(b) < at + 4
        BY <1>1, <4>1 DEF FieldEnd, More
      <4>2. CASE Len(b) >= at + 4
        <5> DEFINE s == Mid(b, at, at + 4)
        <5>1. Bytes(s, 4)
          <6>1. at \in Nat /\ at + 4 \in Nat /\ at <= at + 4 /\ (at + 4) - at = 4 /\ Bytes(b, Len(b))
            BY DEF Bytes
          <6> QED BY <1>1, <4>2, <6>1, MidBytes
        <5> HIDE DEF s
        <5>3. UnHex(s) \in Int
          BY <5>1, UnHexOfFour
        <5>4. FieldValue(b, at, 4) \in Int
          BY <5>3 DEF FieldValue, s
        <5> QED BY <5>4 DEF FieldEnd, More
      <4> QED BY <1>1, <4>1, <4>2
    <3> HIDE DEF Field
    <3> QED BY <3>1, <3>2, <3>3, <3>4, <3>5
  <2> QED BY <2>1, <2>2, <2>3, <2>4, <2>5 DEF LengthFirst
<1> DEFINE total == ClaimedLen(p, b)
           least == IF p = "melsec" THEN 1 ELSE FRAME_HEADER_LEN[p]
<1>5. TryFrameLen(p, b) = Bounded(p, b, total, least)
  BY DEF TryFrameLen
<1> HIDE DEF total, least
<1>6. total \in Int
  BY <1>4 DEF total
<1> QED BY <1>1, <1>5, <1>6 DEF Bounded, More

\* All that is left of a frame, read: the frame is cut; and less of it is not enough.
PieceTells(p, q, b, w, size) ==
  LET joined == b \o Upto(w, size)
      rest == From(w, size)
  IN /\ joined \in Seq(Int) /\ rest \in Seq(Int)
     /\ size = Len(w) => joined = q /\ TryFrameLen(p, joined) = Len(q) /\ Upto(q, Len(q)) = q /\ rest = <<>>
     /\ size # Len(w) => TryFrameLen(p, joined) = More /\ rest # <<>> /\ joined \o rest = q

\* So it is with every piece of what is left of a frame.
LEMMA PieceIsCut ==
  ASSUME NEW p \in LengthFirst \cup {"melsec"}, NEW q, IsFrame(p, q),
         NEW b \in Seq(Int), NEW w \in Seq(Int), b \o w = q, NEW size \in 1..Len(w)
  PROVE  PieceTells(p, q, b, w, size)
<1> DEFINE joined == b \o Upto(w, size)
           rest == From(w, size)
           m == Len(b)
           n == Len(w)
<1>1. /\ m \in Nat /\ n \in Nat /\ size \in Nat /\ size <= n /\ size # 0 /\ Bytes(b, m) /\ Bytes(w, n)
      /\ n - size \in Nat
  BY LenProperties DEF Bytes
<1>2. Bytes(Upto(w, size), size) /\ \A i \in Nat : i < size => At(Upto(w, size), i) = At(w, i)
  BY <1>1, UptoIsPrefix DEF Bytes
<1>3. Bytes(rest, n - size) /\ \A i \in Nat : i < n - size => At(rest, i) = At(w, size + i)
  <2>1. Mid(w, size, n) = rest
    <3>1. Upto(w, n) = w
      <4>1. Upto(w, n) = SubSeq(w, 1, n)
        BY DEF Upto
      <4> QED BY <4>1, SubSeqFull
    <3> QED BY <3>1 DEF Mid
  <2> HIDE DEF rest
  <2> QED BY <1>1, <2>1, MidBytes
<1> HIDE DEF rest
<1>4. /\ Bytes(q, m + n) /\ \A i \in Nat : i < m => At(q, i) = At(b, i)
      /\ \A i \in Nat : At(q, m + i) = At(w, i)
  <2> HIDE DEF m, n
  <2>1. /\ Bytes(b \o w, m + n) /\ \A i \in Nat : i < m => At(b \o w, i) = At(b, i)
        /\ \A i \in Nat : At(b \o w, m + i) = At(w, i)
    BY ONLY <1>1, BytesJoined
  <2> QED BY ONLY <2>1, b \o w = q
<1>5. /\ Bytes(joined, m + size) /\ \A i \in Nat : i < m => At(joined, i) = At(b, i)
      /\ \A i \in Nat : At(joined, m + i) = At(Upto(w, size), i)
  <2> DEFINE u == Upto(w, size)
  <2> HIDE DEF m, n, u
  <2> QED BY <1>1, <1>2, BytesJoined DEF u
<1> HIDE DEF joined, m, n
<1>6. \A i \in Nat : i < m + size => At(joined, i) = At(q, i)
  <2> TAKE i \in Nat
  <2>1. CASE i < m
    BY <1>4, <1>5, <2>1
  <2>2. CASE ~(i < m) /\ i < m + size
    <3>1. i - m \in Nat /\ i - m < size /\ m + (i - m) = i
      BY <1>1, <2>2
    <3>2. At(joined, m + (i - m)) = At(Upto(w, size), i - m) /\ At(q, m + (i - m)) = At(w, i - m)
      BY <1>4, <1>5, <3>1
    <3> QED BY <1>2, <3>1, <3>2
  <2> QED BY <2>1, <2>2
<1>7. TryFrameLen(p, q) = Len(q) /\ Len(q) = m + n /\ \A k \in 0..Len(q) - 1 : TryFrameLen(p, Upto(q, k)) = More
  BY <1>4 DEF IsFrame, CutWhole, Bytes
<1>8. ASSUME size = n
      PROVE  joined = q /\ TryFrameLen(p, joined) = Len(q) /\ Upto(q, Len(q)) = q /\ rest = <<>>
  <2>1. joined = q
    <3>1. m + n \in Nat /\ m + size = m + n
      BY <1>1, <1>8
    <3> QED BY <1>4, <1>5, <1>6, <3>1, SameBytes
  <2>2. Upto(q, Len(q)) = q
    <3>1. Upto(q, Len(q)) = SubSeq(q, 1, Len(q)) /\ q \in Seq(Int)
      BY DEF Upto, IsFrame
    <3> QED BY <3>1, SubSeqFull
  <2>3. rest = <<>>
    BY <1>1, <1>3, <1>8, EmptySeq DEF Bytes
  <2> QED BY <1>7, <2>1, <2>2, <2>3
<1>9. ASSUME size # n
      PROVE  TryFrameLen(p, joined) = More /\ rest # <<>> /\ joined \o rest = q
  <2>1. m + size \in Nat /\ m + size <= m + n /\ m + size \in 0..Len(q) - 1 /\ n - size # 0
    BY <1>1, <1>7, <1>9
  <2>2. joined = Upto(q, m + size)
    <3> DEFINE u == Upto(q, m + size)
    <3>1. Bytes(u, m + size) /\ \A i \in Nat : i < m + size => At(u, i) = At(q, i)
      BY <1>4, <1>7, <2>1, UptoIsPrefix DEF Bytes
    <3> HIDE DEF u
    <3>2. \A i \in Nat : i < m + size => At(joined, i) = At(u, i)
      BY <1>6, <3>1
    <3>3. joined = u
      BY ONLY <1>5, <2>1, <3>1, <3>2, SameBytes
    <3> QED BY <3>3 DEF u
  <2>3. rest # <<>>
    BY <1>1, <1>3, <2>1, SomeBytes
  <2>4. joined \o rest = q
    <3> DEFINE l == m + size
               r == n - size
    <3>5. l \in Nat /\ r \in Nat /\ Bytes(joined, l) /\ Bytes(rest, r)
      BY <1>1, <1>3, <1>5, <2>1
    <3>6. /\ Bytes(joined \o rest, l + r)
          /\ \A i \in Nat : i < l => At(joined \o rest, i) = At(joined, i)
          /\ \A i \in Nat : At(joined \o rest, l + i) = At(rest, i)
      <4> HIDE DEF l, r
      <4> QED BY ONLY <3>5, BytesJoined
    <3>1. /\ Bytes(joined \o rest, (m + size) + (n - size))
          /\ \A i \in Nat : i < m + size => At(joined \o rest, i) = At(joined, i)
          /\ \A i \in Nat : At(joined \o rest, (m + size) + i) = At(rest, i)
      BY <3>6
    <3>2. (m + size) + (n - size) = m + n /\ m + n \in Nat
      BY <1>1
    <3>3. ASSUME NEW i \in Nat, i < m + n PROVE At(joined \o rest, i) = At(q, i)
      <4>1. CASE i < m + size
        BY <1>6, <3>1, <4>1
      <4>2. CASE ~(i < m + size)
        <5>1. i - (m + size) \in Nat /\ i - (m + size) < n - size /\ (m + size) + (i - (m + size)) = i
              /\ i - m \in Nat /\ size + (i - (m + size)) = i - m /\ m + (i - m) = i
          BY <1>1, <3>3, <4>2
        <5>2. At(joined \o rest, i) = At(rest, i - (m + size))
          BY <3>1, <5>1
        <5>3. At(rest, i - (m + size)) = At(w, i - m)
          BY <1>3, <5>1
        <5>4. At(q, i) = At(w, i - m)
          BY <1>4, <5>1
        <5> QED BY <5>2, <5>3, <5>4
      <4> QED BY <4>1, <4>2
    <3> DEFINE whole == joined \o rest
    <3>4. Bytes(whole, m + n) /\ \A i \in Nat : i < m + n => At(whole, i) = At(q, i)
      BY <3>1, <3>2, <3>3
    <3> HIDE DEF whole
    <3>7. whole = q
      BY ONLY <1>4, <3>2, <3>4, SameBytes
    <3> QED BY <3>7 DEF whole
  <2> QED BY <1>7, <2>1, <2>2, <2>3, <2>4
<1>10. joined \in Seq(Int) /\ rest \in Seq(Int)
  BY <1>3, <1>5 DEF Bytes
<1> QED BY <1>8, <1>9, <1>10 DEF joined, rest, n, PieceTells

-----------------------------------------------------------------------------
(* The invariant                                                            *)

FramesOf(p) == {f \in Seq(Int) : CutWhole(p, f)}

\* What every step needs of the shape of the state.
Shapes ==
  /\ setup \in Setups
  /\ asked \in [Clients -> Seq(FramesOf(protocol))]
  /\ wire \in [Clients -> Seq(Int)] /\ buf \in [Clients -> Seq(Int)]
  /\ phase \in [Clients -> Phases] /\ node \in [Clients -> BYTE]
  /\ reply = [c \in Clients |-> reply[c]] /\ \A c \in Clients : phase[c] = "draining" <=> reply[c] # NoReply
  /\ IsRing(frames) /\ Len(frames) <= FrameLimit
  /\ \A i \in DOMAIN frames : frames[i].direction \in {"recv", "send"} /\ frames[i].peer \in Clients
  /\ resp_count \in Nat

Tells == \A c \in Clients \ Hasty : phase[c] # "ended" => Told(frames, c, Due(c))

ListenerInv == Shapes /\ LastIsOnTheWay /\ Tells

\* What is spoken is a dialect there is.
LEMMA DialectIsKnown ==
  ASSUME setup \in Setups
  PROVE  /\ setup.dialect \in MC!FRAME_FORMATS \cup {"modbus", "fins", "iec104", "enip", "enip_bare"}
         /\ protocol \in LengthFirst \cup {"melsec"}
<1>1. setup.dialect \in Dialects
  BY DEF Setups
<1>2. setup.dialect \in MC!FRAME_FORMATS \cup {"modbus", "fins", "iec104", "enip", "enip_bare"}
  BY <1>1, ListenerAssumption
<1>3. protocol \in LengthFirst \cup {"melsec"}
  BY <1>2 DEF protocol, ProtocolOf, LengthFirst, MC!FRAME_FORMATS
<1> QED BY <1>2, <1>3

\* All but the last of what was asked, and the last.
LEMMA FrontAndLast ==
  ASSUME NEW S, NEW s \in Seq(S), s # <<>>
  PROVE  LET front == SubSeq(s, 1, Len(s) - 1)
         IN front \in Seq(S) /\ Last(s) \in S /\ Append(front, Last(s)) = s /\ Len(front) \in Nat
<1> DEFINE n == Len(s)
           front == SubSeq(s, 1, n - 1)
<1>1. n \in Nat /\ n # 0 /\ \A i \in 1..n : s[i] \in S
  BY EmptySeq, LenProperties, ElementOfSeq
<1> HIDE DEF n
<1>2. front \in Seq(S) /\ Len(front) = n - 1 /\ \A i \in 1..n - 1 : front[i] = s[i]
  <2>1. \A i \in 1..n - 1 : s[i] \in S
    BY <1>1
  <2>2. /\ SubSeq(s, 1, n - 1) \in Seq(S) /\ Len(SubSeq(s, 1, n - 1)) = (IF 1 <= n - 1 THEN n - 1 - 1 + 1 ELSE 0)
        /\ \A i \in 1..n - 1 - 1 + 1 : SubSeq(s, 1, n - 1)[i] = s[1 + i - 1]
    BY <1>1, <2>1, SubSeqProperties
  <2>3. \A i \in 1..n - 1 : i \in 1..n - 1 - 1 + 1 /\ 1 + i - 1 = i
    BY <1>1
  <2>4. (IF 1 <= n - 1 THEN n - 1 - 1 + 1 ELSE 0) = n - 1
    BY <1>1
  <2> QED BY <2>2, <2>3, <2>4
<1>3. Last(s) = s[n] /\ Last(s) \in S
  BY <1>1 DEF Last, n
<1> HIDE DEF front
<1>4. Append(front, Last(s)) \in Seq(S) /\ Len(Append(front, Last(s))) = n
      /\ \A i \in 1..n : Append(front, Last(s))[i] = s[i]
  <2>1. /\ Append(front, Last(s)) \in Seq(S) /\ Len(Append(front, Last(s))) = Len(front) + 1
        /\ \A i \in 1..Len(front) : Append(front, Last(s))[i] = front[i]
        /\ Append(front, Last(s))[Len(front) + 1] = Last(s)
    BY <1>2, <1>3, AppendProperties
  <2> QED BY <1>1, <1>2, <1>3, <2>1
<1>5. Append(front, Last(s)) = s
  BY <1>4, SeqEqual DEF n
<1> QED BY <1>1, <1>2, <1>3, <1>5 DEF front, n

\* What is added is what is left out again.
LEMMA FrontOfAppended ==
  ASSUME NEW S, NEW s \in Seq(S), NEW x \in S
  PROVE  /\ Append(s, x) \in Seq(S) /\ Append(s, x) # <<>> /\ Last(Append(s, x)) = x
         /\ SubSeq(Append(s, x), 1, Len(Append(s, x)) - 1) = s
<1> DEFINE t == Append(s, x)
           n == Len(s)
<1>1. n \in Nat /\ t \in Seq(S) /\ Len(t) = n + 1 /\ t[n + 1] = x /\ \A i \in 1..n : t[i] = s[i]
  BY AppendProperties, LenProperties
<1> HIDE DEF t
<1>2. t # <<>> /\ Last(t) = x
  BY <1>1, EmptySeq DEF Last
<1>3. SubSeq(t, 1, n) \in Seq(S) /\ Len(SubSeq(t, 1, n)) = n /\ \A i \in 1..n : SubSeq(t, 1, n)[i] = s[i]
  <2>1. \A i \in 1..n : t[i] \in S
    BY <1>1, ElementOfSeq
  <2>2. /\ SubSeq(t, 1, n) \in Seq(S) /\ Len(SubSeq(t, 1, n)) = (IF 1 <= n THEN n - 1 + 1 ELSE 0)
        /\ \A i \in 1..n - 1 + 1 : SubSeq(t, 1, n)[i] = t[1 + i - 1]
    <3> HIDE DEF n
    <3> QED BY <1>1, <2>1, SubSeqProperties
  <2> QED BY <1>1, <2>2
<1>4. SubSeq(t, 1, n) = s
  BY <1>3, SeqEqual DEF n
<1>5. Len(t) - 1 = n
  BY <1>1
<1> QED BY <1>1, <1>2, <1>4, <1>5 DEF t

\* The requests of a waiting client that are due.
LEMMA DueIs ==
  ASSUME NEW S, NEW c, wire[c] \in Seq(Int), buf[c] \in Seq(Int), asked[c] \in Seq(S)
  PROVE  /\ (wire[c] = <<>> /\ buf[c] = <<>>) => Due(c) = asked[c]
         /\ (wire[c] # <<>> /\ asked[c] # <<>>) =>
              /\ Due(c) \in Seq(S) /\ Last(asked[c]) \in S /\ Append(Due(c), Last(asked[c])) = asked[c]
         /\ Due(c) = asked[c] \/ wire[c] \o buf[c] # <<>>
<1>1. ASSUME wire[c] = <<>>, buf[c] = <<>> PROVE Due(c) = asked[c]
  BY <1>1 DEF Due
<1>2. ASSUME wire[c] # <<>>, asked[c] # <<>>
      PROVE  Due(c) \in Seq(S) /\ Last(asked[c]) \in S /\ Append(Due(c), Last(asked[c])) = asked[c]
  <2>1. wire[c] \o buf[c] # <<>>
    BY <1>2, JoinedIsSome
  <2>2. Due(c) = SubSeq(asked[c], 1, Len(asked[c]) - 1)
    BY <2>1 DEF Due
  <2> QED BY <1>2, <2>2, FrontAndLast
<1>3. Due(c) = asked[c] \/ wire[c] \o buf[c] # <<>>
  BY DEF Due
<1> QED BY <1>1, <1>2, <1>3

\* Of a client that waits, whose requests are typed, the due ones are.
LEMMA DueIsTyped ==
  ASSUME NEW S, NEW c, wire[c] \in Seq(Int), buf[c] \in Seq(Int), asked[c] \in Seq(S), OnTheWay(c)
  PROVE  Due(c) \in Seq(S) /\ Len(Due(c)) \in Nat
BY DueIs, LenProperties DEF OnTheWay

-----------------------------------------------------------------------------
(* The steps                                                                *)

\* Four bytes are written of any number.
LEMMA FourBytes == ASSUME NEW n \in Int PROVE Bytes(B32(n), 4) /\ At(B32(n), 3) = (n % 65536) % 256
<1> DEFINE hi == n \div 65536
           lo == n % 65536
<1>1. hi \in Int /\ lo \in Int /\ \A k \in Int : k \div 256 \in Int /\ k % 256 \in Int
  OBVIOUS
<1>2. B32(n) = B16(hi) \o B16(lo)
  BY DEF B32
<1> HIDE DEF hi, lo
<1>3. Bytes(B16(hi), 2) /\ Bytes(B16(lo), 2) /\ At(B16(lo), 1) = lo % 256
  BY <1>1, BytesOfTwo DEF B16
<1>4. Bytes(B16(hi) \o B16(lo), 4) /\ At(B16(hi) \o B16(lo), 2 + 1) = At(B16(lo), 1)
  BY <1>3, BytesJoined
<1> QED BY <1>2, <1>3, <1>4 DEF lo

\* What a run of bytes leaves from some place on.
LEMMA FromIsBytes == ASSUME NEW f \in Seq(Int), NEW i \in Nat PROVE From(f, i) \in Seq(Int)
<1>1. Len(f) \in Nat /\ \A j \in 1..Len(f) : f[j] \in Int
  BY LenProperties, ElementOfSeq
<1>2. \A j \in i + 1..Len(f) : f[j] \in Int
  BY <1>1
<1> QED BY <1>1, <1>2, SubSeqProperties DEF From

\* The node a FINS client is told, in the byte _serve takes it from, is 2 or 3.
LEMMA HelloNode ==
  ASSUME NEW f \in Seq(Int), NEW before, Len(f) >= FI!TCP_HEADER_LEN, U32(f, 8) = FI!TCP_CMD_CONNECT_REQ,
         NEW answer, answer = BuildNormalResponse("fins", f, before), answer # None
  PROVE  At(answer, FI!TCP_HEADER_LEN + 3) \in BYTE
<1> DEFINE client == At(From(f, FI!TCP_HEADER_LEN), 3)
           told == IF client # 2 THEN 2 ELSE 3
           payload == B32(told) \o B32(client)
<1>1. answer = FI!BuildTcpFrame(1, payload)
  <2>1. answer = FinsResponse(f, before)
    BY DEF BuildNormalResponse
  <2>2. ~(U32(f, 8) \in FI!FINS_EXCHANGE_COMMANDS)
    BY DEF FI!FINS_EXCHANGE_COMMANDS, FI!TCP_CMD_CONNECT_REQ, FI!TCP_CMD_DATA_SEND, FI!TCP_CMD_EXCHANGE
  <2> QED BY <2>1, <2>2 DEF FinsResponse, FI!TCP_CMD_CONNECT_CFM
<1>2. client \in Int
  BY FromIsBytes, AtIsInt DEF FI!TCP_HEADER_LEN
<1>3. told \in {2, 3}
  OBVIOUS
<1> HIDE DEF client, told
<1>4. Bytes(payload, 8) /\ At(payload, 3) = told
  <2>1. Bytes(B32(told), 4) /\ Bytes(B32(client), 4) /\ At(B32(told), 3) = told
    BY <1>2, <1>3, FourBytes
  <2> QED BY <2>1, BytesJoined
<1> HIDE DEF payload
<1> DEFINE a == <<70, 73, 78, 83>>
           b == B32(16)
           c == B32(1)
           d == B32(0)
<1>5. FI!BuildTcpFrame(1, payload) = a \o b \o c \o d \o payload
  <2>1. Len(payload) = 8
    BY <1>4 DEF Bytes
  <2>2. FI!B32(16) = b /\ FI!B32(1) = c /\ FI!B32(0) = d
    BY DEF FI!B32, B32, FI!B16, B16
  <2>3. FI!BuildTcpFrame(1, payload) = a \o FI!B32(16) \o FI!B32(1) \o FI!B32(0) \o payload
    BY <2>1 DEF FI!BuildTcpFrame, FI!TCP_MAGIC
  <2> QED BY <2>2, <2>3
<1>6. Bytes(a, 4) /\ Bytes(b, 4) /\ Bytes(c, 4) /\ Bytes(d, 4)
  <2>1. Bytes(a, 4)
    BY DEF Bytes
  <2> QED BY <2>1, FourBytes
<1> HIDE DEF a, b, c, d
<1>7. Bytes(a \o b \o c, 12)
  BY <1>6, BytesJoined
<1>8. Bytes(a \o b \o c \o d, 16)
  BY <1>6, <1>7, BytesJoined
<1> DEFINE head == a \o b \o c \o d
<1> HIDE DEF head
<1>9. At(head \o payload, 16 + 3) = At(payload, 3)
  BY <1>4, <1>8, BytesJoined DEF head
<1> QED BY <1>1, <1>3, <1>4, <1>5, <1>9, SmallNumbers DEF head, FI!TCP_HEADER_LEN

\* A frame that was cut keeps the state in shape, whatever is answered.
LEMMA ServeKeepsShape ==
  ASSUME Shapes, NEW c \in Clients, NEW f \in Seq(Int), f # <<>>, phase[c] = "receiving", Serve(c, f)
  PROVE  /\ phase' \in [Clients -> Phases] /\ node' \in [Clients -> BYTE]
         /\ reply' = [d \in Clients |-> reply'[d]]
         /\ \A d \in Clients : phase'[d] = "draining" <=> reply'[d] # NoReply
         /\ \A d \in Clients : d # c => phase'[d] = phase[d]
         /\ resp_count' \in Nat
         /\ frames' = Trim(Append(frames, [direction |-> "recv", peer |-> c, frame |-> f]))
<1> DEFINE answer == BuildNormalResponse(protocol, f, node[c])
           silent == setup.mode = "record_only" \/ answer = None
<1>1. /\ frames' = Trim(Append(frames, [direction |-> "recv", peer |-> c, frame |-> f]))
      /\ \/ UNCHANGED <<phase, reply, node, resp_count>>
         \/ /\ phase' = [phase EXCEPT ![c] = "ended"]
            /\ UNCHANGED <<reply, node, resp_count>>
         \/ /\ ~silent /\ IsHello(f)
            /\ node' = [node EXCEPT ![c] = At(answer, FI!TCP_HEADER_LEN + 3)]
            /\ \E a, t : Write(c, f, a, t)
            /\ UNCHANGED resp_count
         \/ /\ \E a, t : Write(c, f, a, t)
            /\ resp_count' = resp_count \/ resp_count' = resp_count + 1
            /\ UNCHANGED node
  BY DEF Serve, Record
<1> HIDE DEF answer
<1>2. ASSUME NEW a, NEW t, Write(c, f, a, t)
      PROVE  /\ phase' \in [Clients -> Phases] /\ reply' = [d \in Clients |-> reply'[d]]
             /\ \A d \in Clients : phase'[d] = "draining" <=> reply'[d] # NoReply
             /\ \A d \in Clients : d # c => phase'[d] = phase[d]
  <2> DEFINE r == [question |-> f, answer |-> a, fault |-> t]
  <2>1. r # NoReply
    <3>1. r.question = f /\ NoReply.question = <<>>
      BY DEF NoReply
    <3> QED BY <3>1
  <2>2. reply' = [reply EXCEPT ![c] = r] /\ phase' = [phase EXCEPT ![c] = "draining"]
    BY <1>2 DEF Write
  <2> HIDE DEF r
  <2>3. reply'[c] = r /\ \A d \in Clients : d # c => reply'[d] = reply[d]
    BY <2>2 DEF Shapes
  <2>4. phase'[c] = "draining" /\ \A d \in Clients : d # c => phase'[d] = phase[d]
    BY <2>2 DEF Shapes
  <2>5. reply' = [d \in Clients |-> reply'[d]]
    BY <2>2 DEF Shapes
  <2>6. phase' \in [Clients -> Phases]
    BY <2>2 DEF Shapes, Phases
  <2> QED BY <2>1, <2>3, <2>4, <2>5, <2>6 DEF Shapes
<1>3. CASE UNCHANGED <<phase, reply, node, resp_count>>
  BY <1>1, <1>3 DEF Shapes
<1>4. CASE phase' = [phase EXCEPT ![c] = "ended"] /\ UNCHANGED <<reply, node, resp_count>>
  <2>1. phase' \in [Clients -> Phases] /\ phase'[c] = "ended" /\ \A d \in Clients : d # c => phase'[d] = phase[d]
    BY <1>4 DEF Shapes, Phases
  <2> QED BY <1>1, <1>4, <2>1 DEF Shapes
<1>5. CASE /\ ~silent /\ IsHello(f)
           /\ node' = [node EXCEPT ![c] = At(answer, FI!TCP_HEADER_LEN + 3)]
           /\ \E a, t : Write(c, f, a, t)
           /\ UNCHANGED resp_count
  <2>1. At(answer, FI!TCP_HEADER_LEN + 3) \in BYTE
    <3>1. protocol = "fins" /\ Len(f) >= FI!TCP_HEADER_LEN /\ U32(f, 8) = FI!TCP_CMD_CONNECT_REQ
      BY <1>5 DEF IsHello
    <3>2. answer = BuildNormalResponse("fins", f, node[c]) /\ answer # None
      BY <1>5, <3>1 DEF answer
    <3> QED BY <3>1, <3>2, HelloNode
  <2>2. node' \in [Clients -> BYTE]
    BY <1>5, <2>1 DEF Shapes
  <2>3. resp_count' \in Nat
    BY <1>5 DEF Shapes
  <2> QED BY <1>1, <1>2, <1>5, <2>2, <2>3
<1>6. CASE /\ \E a, t : Write(c, f, a, t)
           /\ resp_count' = resp_count \/ resp_count' = resp_count + 1
           /\ UNCHANGED node
  <2>1. resp_count' \in Nat /\ node' \in [Clients -> BYTE]
    BY <1>6 DEF Shapes
  <2> QED BY <1>1, <1>2, <1>6, <2>1
<1> QED BY <1>1, <1>3, <1>4, <1>5, <1>6

\* Recording keeps the ring in shape.
LEMMA RecordKeepsShape ==
  ASSUME Shapes, NEW c \in Clients, NEW f, NEW direction \in {"recv", "send"},
         frames' = Trim(Append(frames, [direction |-> direction, peer |-> c, frame |-> f]))
  PROVE  /\ IsRing(frames') /\ Len(frames') <= FrameLimit
         /\ \A i \in DOMAIN frames' : frames'[i].direction \in {"recv", "send"} /\ frames'[i].peer \in Clients
<1> DEFINE x == [direction |-> direction, peer |-> c, frame |-> f]
           P == {frames[i] : i \in DOMAIN frames} \cup {x}
<1>1. x.direction = direction /\ x.peer = c /\ frames' = Trim(Append(frames, x))
  OBVIOUS
<1> HIDE DEF x
<1>2. /\ IsRing(frames) /\ Len(frames) <= FrameLimit /\ FrameLimit \in Nat \ {0}
      /\ \A i \in DOMAIN frames : frames[i].direction \in {"recv", "send"} /\ frames[i].peer \in Clients
  BY ListenerAssumption DEF Shapes
<1>3. \A y \in P : y.direction \in {"recv", "send"} /\ y.peer \in Clients
  BY <1>1, <1>2
<1>4. x \in P /\ \A i \in DOMAIN frames : frames[i] \in P
  OBVIOUS
<1> HIDE DEF P
<1>5. /\ IsRing(Trim(Append(frames, x))) /\ Len(Trim(Append(frames, x))) <= FrameLimit
      /\ \A i \in DOMAIN Trim(Append(frames, x)) : Trim(Append(frames, x))[i] \in P
  BY ONLY <1>2, <1>4, RecordKeepsRing
<1> QED BY <1>1, <1>3, <1>5

\* Of a client that waits, and one that is not touched: what is due of it is told
\* after a step that records nothing of it.
LEMMA UntouchedIsTold ==
  ASSUME ListenerInv, NEW d \in Clients \ Hasty, phase[d] # "ended",
         wire'[d] = wire[d], buf'[d] = buf[d], asked'[d] = asked[d],
         \/ frames' = frames
         \/ \E x : (x.peer # d \/ x.direction # "recv") /\ frames' = Trim(Append(frames, x))
  PROVE  Told(frames', d, Due(d)')
<1>1. Due(d)' = Due(d)
  BY DEF Due
<1>2. /\ wire[d] \in Seq(Int) /\ buf[d] \in Seq(Int) /\ asked[d] \in Seq(FramesOf(protocol))
      /\ OnTheWay(d) /\ Told(frames, d, Due(d)) /\ IsRing(frames) /\ Len(frames) <= FrameLimit
  BY DEF ListenerInv, Shapes, LastIsOnTheWay, Tells
<1>3. Len(Due(d)) \in Nat
  BY <1>2, DueIsTyped
<1>4. CASE frames' = frames
  BY <1>1, <1>2, <1>4
<1>5. CASE \E x : (x.peer # d \/ x.direction # "recv") /\ frames' = Trim(Append(frames, x))
  <2>1. PICK x : (x.peer # d \/ x.direction # "recv") /\ frames' = Trim(Append(frames, x))
    BY <1>5
  <2>2. Told(Trim(Append(frames, x)), d, Due(d))
    BY <1>2, <1>3, <2>1, OthersTell, ListenerAssumption
  <2> QED BY <1>1, <2>1, <2>2
<1> QED BY <1>4, <1>5

\* Before anything is asked.
LEMMA InitInv == ASSUME Init PROVE ListenerInv
<1>1. IsRing(<<>>) /\ Len(<<>>) = 0 /\ DOMAIN <<>> = {}
  BY DEF IsRing
<1>2. Shapes
  <2>1. asked \in [Clients -> Seq(FramesOf(protocol))] /\ wire \in [Clients -> Seq(Int)] /\ buf \in [Clients -> Seq(Int)]
    BY DEF Init
  <2>2. phase \in [Clients -> Phases] /\ node \in [Clients -> BYTE]
    BY SmallNumbers DEF Init, Phases
  <2>3. reply = [c \in Clients |-> reply[c]] /\ \A c \in Clients : phase[c] = "draining" <=> reply[c] # NoReply
    BY DEF Init
  <2>4. 0 <= FrameLimit
    BY ListenerAssumption
  <2> QED BY <1>1, <2>1, <2>2, <2>3, <2>4 DEF Init, Shapes
<1>3. LastIsOnTheWay
  BY DEF Init, LastIsOnTheWay, OnTheWay
<1>4. ASSUME NEW c \in Clients PROVE Told(frames, c, Due(c))
  <2>1. Due(c) = <<>> /\ frames = <<>>
    <3>1. wire[c] = <<>> /\ buf[c] = <<>> /\ asked[c] = <<>> /\ frames = <<>>
      BY DEF Init
    <3>2. <<>> \o <<>> = <<>>
      OBVIOUS
    <3> QED BY <3>1, <3>2 DEF Due
  <2>2. Mine(<<>>, c) = {} /\ 1..Len(<<>>) = {}
    BY <1>1 DEF Mine
  <2>3. RecordedFrom(<<>>, c, <<>>, 1)
    <3>1. [i \in {} |-> 1] \in [{} -> {}]
      OBVIOUS
    <3> QED BY <2>2, <3>1 DEF RecordedFrom
  <2>4. 1 \in 1..Len(<<>>) + 1
    BY <1>1
  <2> QED BY <2>1, <2>3, <2>4 DEF Told
<1> QED BY <1>2, <1>3, <1>4 DEF ListenerInv, Tells

\* A client asks: a waiting one has nothing on the way, so its request is the last.
LEMMA AskKeeps == ASSUME ListenerInv, NEW c \in Clients, Ask(c) PROVE ListenerInv'
<1>1. PICK q \in Requests(setup.dialect, node[c]) :
        /\ asked' = [asked EXCEPT ![c] = Append(@, q)]
        /\ wire'  = [wire EXCEPT ![c] = @ \o q]
  BY DEF Ask
<1>2. /\ phase[c] # "ended" /\ (TakenUp(c) \/ c \in Hasty)
      /\ UNCHANGED <<setup, buf, phase, node, reply, frames, resp_count>>
  BY DEF Ask
<1>3. protocol' = protocol
  BY <1>2 DEF protocol
<1>4. IsFrame(protocol, q) /\ q \in FramesOf(protocol) /\ q \in Seq(Int) /\ q # <<>>
  <2>1. setup \in Setups /\ node[c] \in BYTE
    BY DEF ListenerInv, Shapes
  <2>2. IsFrame(protocol, q) /\ protocol \in LengthFirst \cup {"melsec"}
    BY <1>1, <2>1, DialectIsKnown, RequestsAreFrames DEF protocol
  <2> QED BY <2>2, FrameIsSomething DEF IsFrame, FramesOf, Wires
<1>5. \A d \in Clients : /\ asked[d] \in Seq(FramesOf(protocol)) /\ wire[d] \in Seq(Int) /\ buf[d] \in Seq(Int)
                         /\ d # c => asked'[d] = asked[d] /\ wire'[d] = wire[d]
  BY <1>1 DEF ListenerInv, Shapes
<1>6. asked'[c] = Append(asked[c], q) /\ wire'[c] = wire[c] \o q
  BY <1>1 DEF ListenerInv, Shapes
<1>7. Shapes'
  <2>1. wire' \in [Clients -> Seq(Int)]
    <3>1. wire[c] \o q \in Seq(Int)
      BY <1>4, <1>5, ConcatProperties
    <3> QED BY <1>1, <3>1 DEF ListenerInv, Shapes
  <2>2. asked' \in [Clients -> Seq(FramesOf(protocol))]
    <3>1. Append(asked[c], q) \in Seq(FramesOf(protocol))
      BY <1>4, <1>5, AppendProperties
    <3> QED BY <1>1, <3>1 DEF ListenerInv, Shapes
  <2> QED BY <1>2, <1>3, <2>1, <2>2 DEF ListenerInv, Shapes
<1>8. ASSUME c \notin Hasty
      PROVE  /\ wire'[c] = q /\ buf'[c] = <<>> /\ phase'[c] = "receiving" /\ Last(asked'[c]) = q /\ asked'[c] # <<>>
             /\ Due(c)' = asked[c] /\ Due(c) = asked[c]
  <2>1. phase[c] = "receiving" /\ wire[c] = <<>> /\ buf[c] = <<>>
    BY <1>2, <1>8 DEF TakenUp
  <2>2. wire'[c] = q
    BY <1>4, <1>6, <2>1
  <2>3. Last(asked'[c]) = q /\ asked'[c] # <<>> /\ SubSeq(asked'[c], 1, Len(asked'[c]) - 1) = asked[c]
    BY <1>4, <1>5, <1>6, FrontOfAppended
  <2>4. wire'[c] \o buf'[c] # <<>>
    BY <1>2, <1>4, <2>1, <2>2, JoinedIsSome
  <2>5. Due(c)' = asked[c]
    BY <2>3, <2>4 DEF Due
  <2>6. Due(c) = asked[c]
    BY <1>5, <2>1, DueIs
  <2> QED BY <1>2, <2>1, <2>2, <2>3, <2>5, <2>6
<1>9. ASSUME NEW d \in Clients \ Hasty, phase'[d] # "ended" PROVE OnTheWay(d)' /\ Told(frames', d, Due(d)')
  <2>1. OnTheWay(d) /\ Told(frames, d, Due(d)) /\ phase[d] # "ended"
    BY <1>2, <1>9 DEF ListenerInv, LastIsOnTheWay, Tells
  <2>2. CASE d = c
    <3>1. <<>> \o q = q
      BY <1>4
    <3>2. OnTheWay(c)'
      BY <1>4, <1>8, <1>9, <2>2, <3>1 DEF OnTheWay
    <3> QED BY <1>2, <1>8, <1>9, <2>1, <2>2, <3>2
  <2>3. CASE d # c
    <3>1. OnTheWay(d)'
      BY <1>2, <1>5, <1>9, <2>1, <2>3 DEF OnTheWay
    <3>2. buf'[d] = buf[d] /\ frames' = frames
      BY <1>2
    <3> QED BY <1>5, <1>9, <2>1, <2>3, <3>1, <3>2, UntouchedIsTold
  <2> QED BY <2>2, <2>3
<1> QED BY <1>7, <1>9 DEF ListenerInv, LastIsOnTheWay, Tells

\* An answer is out: the send is recorded, which tells nothing of the requests.
LEMMA DrainedKeeps == ASSUME ListenerInv, NEW c \in Clients, Drained(c) PROVE ListenerInv'
<1> DEFINE x == [direction |-> "send", peer |-> c, frame |-> reply[c].answer]
<1>1. /\ phase[c] = "draining" /\ phase' = [phase EXCEPT ![c] = "receiving"] /\ reply' = [reply EXCEPT ![c] = NoReply]
      /\ UNCHANGED <<setup, asked, wire, buf, node, resp_count>>
      /\ frames' = Trim(Append(frames, x))
  BY DEF Drained, Record
<1>2. x.direction = "send"
  OBVIOUS
<1>3. Shapes
  BY DEF ListenerInv
<1>4. protocol' = protocol
  BY <1>1 DEF protocol
<1>5. /\ IsRing(frames') /\ Len(frames') <= FrameLimit
      /\ \A i \in DOMAIN frames' : frames'[i].direction \in {"recv", "send"} /\ frames'[i].peer \in Clients
  BY <1>1, <1>3, RecordKeepsShape
<1> HIDE DEF x
<1>6. Shapes'
  <2>1. /\ phase' \in [Clients -> Phases] /\ reply' = [d \in Clients |-> reply'[d]]
        /\ \A d \in Clients : phase'[d] = "draining" <=> reply'[d] # NoReply
    BY <1>1, <1>3 DEF Shapes, Phases
  <2> QED BY <1>1, <1>3, <1>4, <1>5, <2>1 DEF Shapes
<1>7. ASSUME NEW d \in Clients \ Hasty, phase'[d] # "ended" PROVE OnTheWay(d)' /\ Told(frames', d, Due(d)')
  <2>1. phase[d] # "ended" /\ (d # c => phase'[d] = phase[d])
    BY <1>1, <1>3, <1>7 DEF Shapes
  <2>2. OnTheWay(d)
    BY <1>7, <2>1 DEF ListenerInv, LastIsOnTheWay
  <2>3. OnTheWay(d)'
    BY <1>1, <1>7, <2>1, <2>2 DEF OnTheWay
  <2>4. wire'[d] = wire[d] /\ buf'[d] = buf[d] /\ asked'[d] = asked[d]
    BY <1>1
  <2>5. x.direction # "recv"
    BY <1>2
  <2> QED BY <1>1, <1>7, <2>1, <2>3, <2>4, <2>5, UntouchedIsTold
<1> QED BY <1>6, <1>7 DEF ListenerInv, LastIsOnTheWay, Tells

\* A connection ends: nothing is claimed of it any more.
LEMMA EndServingKeeps == ASSUME ListenerInv, NEW c \in Clients, EndServing(c) PROVE ListenerInv'
<1>1. /\ phase' = [phase EXCEPT ![c] = "ended"] /\ reply' = [reply EXCEPT ![c] = NoReply]
      /\ UNCHANGED <<setup, asked, wire, buf, node, frames, resp_count>>
  BY DEF EndServing
<1>2. Shapes
  BY DEF ListenerInv
<1>3. Shapes'
  <2>1. /\ phase' \in [Clients -> Phases] /\ reply' = [d \in Clients |-> reply'[d]]
        /\ \A d \in Clients : phase'[d] = "draining" <=> reply'[d] # NoReply
    BY <1>1, <1>2 DEF Shapes, Phases
  <2>2. protocol' = protocol
    BY <1>1 DEF protocol
  <2> QED BY <1>1, <1>2, <2>1, <2>2 DEF Shapes
<1>4. ASSUME NEW d \in Clients \ Hasty, phase'[d] # "ended" PROVE OnTheWay(d)' /\ Told(frames', d, Due(d)')
  <2>1. phase[d] # "ended" /\ phase'[d] = phase[d]
    BY <1>1, <1>2, <1>4 DEF Shapes
  <2>2. OnTheWay(d)
    BY <1>4, <2>1 DEF ListenerInv, LastIsOnTheWay
  <2>3. OnTheWay(d)'
    BY <1>1, <2>1, <2>2 DEF OnTheWay
  <2>4. wire'[d] = wire[d] /\ buf'[d] = buf[d] /\ asked'[d] = asked[d] /\ frames' = frames
    BY <1>1
  <2> QED BY <1>4, <2>1, <2>3, <2>4, UntouchedIsTold
<1> QED BY <1>3, <1>4 DEF ListenerInv, LastIsOnTheWay, Tells

\* What is read of one who waits completes the request it last sent, or leaves the
\* rest of it on the way.
LEMMA ReadOfWaiting ==
  ASSUME ListenerInv, NEW c \in Clients \ Hasty, phase[c] # "ended", NEW size \in 1..Len(wire[c])
  PROVE  LET b    == buf[c] \o Upto(wire[c], size)
             rest == From(wire[c], size)
             q    == Last(asked[c])
         IN /\ q \in FramesOf(protocol) /\ Due(c) \in Seq(FramesOf(protocol)) /\ Append(Due(c), q) = asked[c]
            /\ asked[c] # <<>> /\ Told(frames, c, Due(c))
            /\ \/ TryFrameLen(protocol, b) = More /\ rest # <<>> /\ b \o rest = q
               \/ TryFrameLen(protocol, b) = Len(q) /\ Len(q) > 0 /\ Upto(b, Len(q)) = q /\ rest = <<>>
<1> DEFINE b    == buf[c] \o Upto(wire[c], size)
           rest == From(wire[c], size)
           q    == Last(asked[c])
<1>1. /\ wire[c] \in Seq(Int) /\ buf[c] \in Seq(Int) /\ asked[c] \in Seq(FramesOf(protocol))
      /\ OnTheWay(c) /\ Told(frames, c, Due(c)) /\ setup \in Setups
  BY DEF ListenerInv, Shapes, LastIsOnTheWay, Tells
<1>2. wire[c] # <<>>
  <2>1. Len(<<>>) = 0
    OBVIOUS
  <2> QED BY <2>1
<1>3. asked[c] # <<>> /\ buf[c] \o wire[c] = q
  BY <1>1, <1>2 DEF OnTheWay
<1>4. q \in FramesOf(protocol) /\ Due(c) \in Seq(FramesOf(protocol)) /\ Append(Due(c), q) = asked[c]
  BY <1>1, <1>2, <1>3, DueIs
<1> HIDE DEF q
<1>5. protocol \in LengthFirst \cup {"melsec"}
  BY <1>1, DialectIsKnown
<1>6. IsFrame(protocol, q)
  BY <1>4 DEF FramesOf, IsFrame
<1>7. q # <<>> /\ Len(q) \in Nat /\ Len(q) # 0
  BY <1>5, <1>6, FrameIsSomething DEF Wires
<1>8. /\ size = Len(wire[c]) => b = q /\ TryFrameLen(protocol, b) = Len(q) /\ Upto(q, Len(q)) = q /\ rest = <<>>
      /\ size # Len(wire[c]) => TryFrameLen(protocol, b) = More /\ rest # <<>> /\ b \o rest = q
  <2> DEFINE w == wire[c]
             had == buf[c]
  <2>1. had \in Seq(Int) /\ w \in Seq(Int) /\ had \o w = q /\ size \in 1..Len(w)
    BY <1>1, <1>3
  <2>2. b = had \o Upto(w, size) /\ rest = From(w, size)
    OBVIOUS
  <2> HIDE DEF w, had, b, rest
  <2>3. PieceTells(protocol, q, had, w, size)
    BY ONLY <1>5, <1>6, <2>1, PieceIsCut
  <2> QED BY <2>2, <2>3 DEF w, PieceTells
<1> HIDE DEF b, rest
<1>9. \/ TryFrameLen(protocol, b) = More /\ rest # <<>> /\ b \o rest = q
      \/ TryFrameLen(protocol, b) = Len(q) /\ Len(q) > 0 /\ Upto(b, Len(q)) = q /\ rest = <<>>
  <2>1. Len(q) > 0
    BY <1>7
  <2>2. CASE size = Len(wire[c])
    BY <1>8, <2>1, <2>2
  <2>3. CASE size # Len(wire[c])
    BY <1>8, <2>3
  <2> QED BY <2>2, <2>3
<1> QED BY <1>1, <1>3, <1>4, <1>9 DEF q, b, rest

\* A piece is read: of a client that waits it is the rest of a frame, which is
\* recorded, or too little of it, which stays in the buffer.
LEMMA ReadKeeps == ASSUME ListenerInv, NEW c \in Clients, Read(c) PROVE ListenerInv'
<1>1. PICK size \in 1..Len(wire[c]) :
        LET b == buf[c] \o Upto(wire[c], size)
            n == TryFrameLen(protocol, b)
        IN /\ phase[c] = "receiving" /\ wire' = [wire EXCEPT ![c] = From(@, size)]
           /\ buf' = [buf EXCEPT ![c] = IF n = More THEN b ELSE <<>>]
           /\ \/ n = More /\ UNCHANGED <<phase, reply, node, frames, resp_count>>
              \/ n = 0 /\ phase' = [phase EXCEPT ![c] = "ended"] /\ UNCHANGED <<reply, node, frames, resp_count>>
              \/ n > 0 /\ Serve(c, Upto(b, n))
  BY DEF Read, TakeBytes, Joined
<1> DEFINE b == buf[c] \o Upto(wire[c], size)
           n == TryFrameLen(protocol, b)
           rest == From(wire[c], size)
           f == Upto(b, n)
<1>2. UNCHANGED <<setup, asked>>
  BY DEF Read
<1>3. Shapes /\ protocol \in LengthFirst \cup {"melsec"} /\ protocol' = protocol
  BY <1>2, DialectIsKnown DEF ListenerInv, Shapes, protocol
<1>4. b \in Seq(Int) /\ rest \in Seq(Int)
  <2>1. wire[c] \in Seq(Int) /\ buf[c] \in Seq(Int)
    BY <1>3 DEF Shapes
  <2>2. size \in Nat /\ size <= Len(wire[c])
    BY <2>1, LenProperties
  <2>3. Upto(wire[c], size) \in Seq(Int) /\ rest \in Seq(Int)
    BY <2>1, <2>2, UptoIsPrefix, FromIsBytes
  <2> QED BY <2>1, <2>3, ConcatProperties
<1>5. n \in Int /\ (n > 0 => n <= Len(b))
  BY <1>3, <1>4, CutIsNumber
<1>6. /\ phase[c] = "receiving" /\ wire' = [wire EXCEPT ![c] = rest]
      /\ buf' = [buf EXCEPT ![c] = IF n = More THEN b ELSE <<>>]
      /\ \/ n = More /\ UNCHANGED <<phase, reply, node, frames, resp_count>>
         \/ n = 0 /\ phase' = [phase EXCEPT ![c] = "ended"] /\ UNCHANGED <<reply, node, frames, resp_count>>
         \/ n > 0 /\ Serve(c, f)
  BY <1>1
<1>7. c \notin Hasty =>
        /\ Last(asked[c]) \in FramesOf(protocol) /\ Due(c) \in Seq(FramesOf(protocol))
        /\ Append(Due(c), Last(asked[c])) = asked[c] /\ asked[c] # <<>> /\ Told(frames, c, Due(c))
        /\ \/ n = More /\ rest # <<>> /\ b \o rest = Last(asked[c])
           \/ n = Len(Last(asked[c])) /\ n > 0 /\ f = Last(asked[c]) /\ rest = <<>>
  BY <1>6, ReadOfWaiting
<1>8. n > 0 => f \in Seq(Int) /\ f # <<>>
  <2> SUFFICES ASSUME n > 0 PROVE f \in Seq(Int) /\ f # <<>>
    OBVIOUS
  <2> HIDE DEF n, b
  <2>1. n \in Nat /\ n <= Len(b) /\ n # 0
    BY <1>5
  <2>2. f \in Seq(Int) /\ Len(f) = n
    BY <1>4, <2>1, UptoIsPrefix
  <2> QED BY <2>1, <2>2, EmptySeq
<1> HIDE DEF b, n, rest, f
<1> DEFINE x == [direction |-> "recv", peer |-> c, frame |-> f]
<1>9. wire' \in [Clients -> Seq(Int)] /\ buf' \in [Clients -> Seq(Int)] /\ asked' \in [Clients -> Seq(FramesOf(protocol))]
  <2>1. <<>> \in Seq(Int)
    OBVIOUS
  <2>2. wire' \in [Clients -> Seq(Int)]
    BY <1>3, <1>4, <1>6 DEF Shapes
  <2>3. (IF n = More THEN b ELSE <<>>) \in Seq(Int)
    BY <1>4, <2>1
  <2>4. buf' \in [Clients -> Seq(Int)]
    BY <1>3, <1>6, <2>3 DEF Shapes
  <2> QED BY <1>2, <1>3, <2>2, <2>4 DEF Shapes
<1>10. /\ phase' \in [Clients -> Phases] /\ node' \in [Clients -> BYTE]
       /\ reply' = [d \in Clients |-> reply'[d]]
       /\ \A d \in Clients : phase'[d] = "draining" <=> reply'[d] # NoReply
       /\ \A d \in Clients : d # c => phase'[d] = phase[d]
       /\ resp_count' \in Nat
       /\ n > 0 \/ frames' = frames
       /\ n > 0 => frames' = Trim(Append(frames, x))
       /\ n = More => phase' = phase
  <2>1. CASE n = More /\ UNCHANGED <<phase, reply, node, frames, resp_count>>
    BY <1>3, <2>1 DEF Shapes, More
  <2>2. CASE n = 0 /\ phase' = [phase EXCEPT ![c] = "ended"] /\ UNCHANGED <<reply, node, frames, resp_count>>
    <3>1. phase' \in [Clients -> Phases] /\ phase'[c] = "ended" /\ \A d \in Clients : d # c => phase'[d] = phase[d]
      BY <1>3, <2>2 DEF Shapes, Phases
    <3>2. phase[c] = "receiving"
      BY <1>6
    <3> QED BY <1>3, <2>2, <3>1, <3>2 DEF Shapes, More
  <2>3. CASE n > 0 /\ Serve(c, f)
    <3>1. f \in Seq(Int) /\ f # <<>> /\ n # More
      BY <1>8, <2>3 DEF More
    <3> QED BY <1>3, <1>6, <2>3, <3>1, ServeKeepsShape
  <2> QED BY <1>6, <2>1, <2>2, <2>3
<1>11. /\ IsRing(frames') /\ Len(frames') <= FrameLimit
       /\ \A i \in DOMAIN frames' : frames'[i].direction \in {"recv", "send"} /\ frames'[i].peer \in Clients
  <2>1. CASE n > 0
    <3>1. "recv" \in {"recv", "send"}
      OBVIOUS
    <3> QED BY <1>3, <1>10, <2>1, <3>1, RecordKeepsShape
  <2>2. CASE ~(n > 0)
    BY <1>3, <1>10, <2>2 DEF Shapes
  <2> QED BY <2>1, <2>2
<1>12. Shapes'
  BY <1>2, <1>3, <1>9, <1>10, <1>11 DEF Shapes
<1>13. ASSUME NEW d \in Clients \ Hasty, d # c, phase'[d] # "ended" PROVE OnTheWay(d)' /\ Told(frames', d, Due(d)')
  <2>1. wire'[d] = wire[d] /\ buf'[d] = buf[d] /\ asked'[d] = asked[d] /\ phase'[d] = phase[d]
    BY <1>2, <1>3, <1>6, <1>10, <1>13 DEF Shapes
  <2>2. OnTheWay(d)
    BY <1>13, <2>1 DEF ListenerInv, LastIsOnTheWay
  <2>3. OnTheWay(d)'
    BY <2>1, <2>2 DEF OnTheWay
  <2>4. x.peer # d
    BY <1>13
  <2> HIDE DEF x
  <2>5. frames' = frames \/ \E y : (y.peer # d \/ y.direction # "recv") /\ frames' = Trim(Append(frames, y))
    BY <1>10, <2>4
  <2> QED BY <1>13, <2>1, <2>3, <2>5, UntouchedIsTold
<1>14. ASSUME c \notin Hasty, phase'[c] # "ended" PROVE OnTheWay(c)' /\ Told(frames', c, Due(c)')
  <2> DEFINE q == Last(asked[c])
  <2>1. wire'[c] = rest /\ buf'[c] = (IF n = More THEN b ELSE <<>>) /\ asked'[c] = asked[c]
    BY <1>2, <1>3, <1>6 DEF Shapes
  <2>2. /\ wire[c] \in Seq(Int) /\ buf[c] \in Seq(Int) /\ asked[c] \in Seq(FramesOf(protocol))
        /\ wire'[c] \in Seq(Int) /\ buf'[c] \in Seq(Int)
    BY <1>3, <1>9 DEF Shapes
  <2>3. CASE n = More /\ rest # <<>> /\ b \o rest = q
    <3>1. phase'[c] = "receiving" /\ frames' = frames
      BY <1>6, <1>10, <2>3 DEF More
    <3>2. OnTheWay(c)'
      BY <1>7, <1>14, <2>1, <2>3, <3>1 DEF OnTheWay
    <3>3. wire'[c] \o buf'[c] # <<>>
      BY <2>1, <2>2, <2>3, JoinedIsSome
    <3>4. Due(c)' = SubSeq(asked[c], 1, Len(asked[c]) - 1)
      BY <2>1, <3>3 DEF Due
    <3>5. Due(c) = SubSeq(asked[c], 1, Len(asked[c]) - 1)
      <4>1. size \in 1..Len(wire[c])
        OBVIOUS
      <4>2. wire[c] # <<>>
        <5>1. Len(<<>>) = 0
          OBVIOUS
        <5> QED BY <4>1, <5>1
      <4>3. wire[c] \o buf[c] # <<>>
        BY <2>2, <4>2, JoinedIsSome
      <4> QED BY <4>3 DEF Due
    <3> QED BY <1>7, <1>14, <3>1, <3>2, <3>4, <3>5
  <2>4. CASE n = Len(q) /\ n > 0 /\ f = q /\ rest = <<>>
    <3>1. wire'[c] = <<>> /\ buf'[c] = <<>>
      BY <2>1, <2>4 DEF More
    <3>2. <<>> \o <<>> = <<>>
      OBVIOUS
    <3>3. Due(c)' = asked[c]
      BY <2>1, <3>1, <3>2 DEF Due
    <3>4. frames' = Trim(Append(frames, [direction |-> "recv", peer |-> c, frame |-> q]))
      BY <1>10, <2>4
    <3>5. /\ IsRing(frames) /\ Len(frames) <= FrameLimit /\ FrameLimit \in Nat \ {0}
          /\ Due(c) \in Seq(FramesOf(protocol)) /\ q \in FramesOf(protocol) /\ Told(frames, c, Due(c))
          /\ Append(Due(c), q) = asked[c]
      BY <1>3, <1>7, <1>14, ListenerAssumption DEF Shapes
    <3> HIDE DEF q
    <3>6. Told(frames', c, Append(Due(c), q))
      BY ONLY <3>4, <3>5, RequestTells
    <3>7. OnTheWay(c)'
      BY <3>1 DEF OnTheWay
    <3> QED BY <3>3, <3>5, <3>6, <3>7
  <2> QED BY <1>7, <1>14, <2>3, <2>4
<1> QED BY <1>12, <1>13, <1>14 DEF ListenerInv, LastIsOnTheWay, Tells

-----------------------------------------------------------------------------
(* The theorems                                                             *)

\* The types hold, what a client that waits has on the way is the rest of its last
\* request, and all its requests that are due are told of, in every state.
THEOREM ListenerInvHolds == Spec => []ListenerInv
<1>1. Init => ListenerInv
  BY InitInv
<1>2. ListenerInv /\ [Next]_vars => ListenerInv'
  <2> SUFFICES ASSUME ListenerInv, [Next]_vars PROVE ListenerInv'
    OBVIOUS
  <2>1. ASSUME NEW c \in Clients, Ask(c) PROVE ListenerInv'
    BY <2>1, AskKeeps
  <2>2. ASSUME NEW c \in Clients, Read(c) PROVE ListenerInv'
    BY <2>2, ReadKeeps
  <2>3. ASSUME NEW c \in Clients, Drained(c) PROVE ListenerInv'
    BY <2>3, DrainedKeeps
  <2>4. ASSUME NEW c \in Clients, EndServing(c) PROVE ListenerInv'
    BY <2>4, EndServingKeeps
  <2>5. CASE UNCHANGED vars
    <3>1. UNCHANGED <<setup, asked, wire, buf, phase, node, reply, frames, resp_count>>
      BY <2>5 DEF vars
    <3>2. \A d \in Clients : Due(d)' = Due(d) /\ (OnTheWay(d)' <=> OnTheWay(d))
      BY <3>1 DEF Due, OnTheWay
    <3> QED BY <3>1, <3>2 DEF ListenerInv, Shapes, LastIsOnTheWay, Tells, protocol
  <2> QED BY <2>1, <2>2, <2>3, <2>4, <2>5 DEF Next
<1> QED BY <1>1, <1>2, PTL DEF Spec

\* The types of the listener's state.
THEOREM TypeOKHolds == Spec => []TypeOK
<1>1. ListenerInv => TypeOK
  BY DEF ListenerInv, Shapes, TypeOK
<1> QED BY <1>1, ListenerInvHolds, PTL

\* What a client has sent is cut where it ends and nowhere before, by the rule the
\* listener, the proxy and the analysis of captures share.
THEOREM EndsAreSeenHolds == Spec => []EndsAreSeen
<1>1. ListenerInv => EndsAreSeen
  <2> SUFFICES ASSUME ListenerInv, NEW c \in Clients, NEW q \in Range(asked[c]) PROVE CutWhole(protocol, q)
    BY DEF EndsAreSeen
  <2>1. asked[c] \in Seq(FramesOf(protocol))
    BY DEF ListenerInv, Shapes
  <2>2. PICK i \in DOMAIN asked[c] : q = asked[c][i]
    BY DEF Range
  <2>3. q \in FramesOf(protocol)
    BY <2>1, <2>2
  <2> QED BY <2>3 DEF FramesOf
<1> QED BY <1>1, ListenerInvHolds, PTL

\* Every request of every client is accepted by the parser of its dialect.
LEMMA RequestsAreAccepted ==
  ASSUME setup \in Setups, NEW dest \in BYTE, NEW q \in Requests(setup.dialect, dest)
  PROVE  Accepted(q)
<1> DEFINE dialect == setup.dialect
<1>1. dialect \in MC!FRAME_FORMATS \cup {"modbus", "fins", "iec104", "enip", "enip_bare"}
  BY DialectIsKnown
<1>2. q # <<>> /\ protocol = ProtocolOf(dialect)
  BY <1>1, RequestIsSome DEF protocol
<1>3. q \in Requests(dialect, dest)
  OBVIOUS
<1> HIDE DEF dialect
<1>4. CASE dialect = "modbus"
  <2>1. q \in ModbusRequests /\ ProtocolOf(dialect) = "modbus"
    BY <1>3, <1>4 DEF Requests, ProtocolOf, MC!FRAME_FORMATS
  <2> QED BY <1>2, <2>1, ModbusRequestsAreAccepted DEF Accepted
<1>5. CASE dialect = "fins"
  <2>1. q \in FinsRequests(dest) /\ ProtocolOf(dialect) = "fins"
    BY <1>3, <1>5 DEF Requests, ProtocolOf, MC!FRAME_FORMATS
  <2> QED BY <1>2, <2>1, FinsRequestsAreAccepted DEF Accepted
<1>6. CASE dialect = "iec104"
  <2>1. q \in Iec104Requests /\ ProtocolOf(dialect) = "iec104"
    BY <1>3, <1>6 DEF Requests, ProtocolOf, MC!FRAME_FORMATS
  <2> QED BY <1>2, <2>1, Iec104RequestsAreAccepted DEF Accepted
<1>7. CASE dialect \in MC!FRAME_FORMATS
  <2>1. q \in MelsecRequests(dialect) /\ ProtocolOf(dialect) = "melsec"
    BY <1>3, <1>7 DEF Requests, ProtocolOf, MC!FRAME_FORMATS
  <2>2. MC!ParseRequestFmt(q, dialect) = {}
    BY <1>2, <1>7, <2>1, MelsecRequestsAreAccepted
  <2> QED BY <1>2, <2>1, <2>2 DEF Accepted, dialect
<1>8. CASE dialect \in {"enip", "enip_bare"}
  <2>1. q \in EnipRequests \cup BareRequests /\ ProtocolOf(dialect) = "enip"
    BY <1>3, <1>8 DEF Requests, ProtocolOf, MC!FRAME_FORMATS
  <2>2. EnipAccepted(q)
    BY <2>1, EnipRequestsAreSound
  <2> QED BY <1>2, <2>1, <2>2 DEF Accepted, EnipAccepted
<1> QED BY <1>1, <1>4, <1>5, <1>6, <1>7, <1>8

\* What has been asked is accepted: only a question changes it, and what is spoken
\* never changes.
AskedIsAccepted == \A c \in Clients : \A i \in DOMAIN asked[c] : Accepted(asked[c][i])

LEMMA AskedIsAcceptedHolds == Spec => []AskedIsAccepted
<1>1. Init => AskedIsAccepted
  BY DEF Init, AskedIsAccepted
<1>2. ListenerInv /\ AskedIsAccepted /\ [Next]_vars => AskedIsAccepted'
  <2> SUFFICES ASSUME ListenerInv, AskedIsAccepted, [Next]_vars PROVE AskedIsAccepted'
    OBVIOUS
  <2>1. setup \in Setups /\ node \in [Clients -> BYTE] /\ asked \in [Clients -> Seq(FramesOf(protocol))]
    BY DEF ListenerInv, Shapes
  <2>2. setup' = setup
    BY DEF Next, vars, Ask, Read, Drained, EndServing
  <2>3. \A q : Accepted(q)' <=> Accepted(q)
    BY <2>2 DEF Accepted, protocol
  <2>4. CASE asked' = asked
    <3> HIDE DEF Accepted
    <3> QED BY <2>3, <2>4 DEF AskedIsAccepted
  <2>5. ASSUME NEW c \in Clients, Ask(c) PROVE AskedIsAccepted'
    <3>1. PICK q \in Requests(setup.dialect, node[c]) : asked' = [asked EXCEPT ![c] = Append(@, q)]
      BY <2>5 DEF Ask
    <3>2. Accepted(q)
      BY <2>1, <3>1, RequestsAreAccepted
    <3>3. ASSUME NEW d \in Clients, NEW i \in DOMAIN asked'[d] PROVE Accepted(asked'[d][i])
      <4>1. CASE d # c
        BY <2>1, <3>1, <3>3, <4>1 DEF AskedIsAccepted
      <4>2. CASE d = c
        <5>1. asked[c] \in Seq(FramesOf(protocol)) /\ asked'[c] = Append(asked[c], q)
          BY <2>1, <3>1
        <5>2. /\ Len(asked[c]) \in Nat /\ DOMAIN asked[c] = 1..Len(asked[c])
              /\ DOMAIN Append(asked[c], q) = 1..Len(asked[c]) + 1
              /\ \A k \in 1..Len(asked[c]) : Append(asked[c], q)[k] = asked[c][k]
              /\ Append(asked[c], q)[Len(asked[c]) + 1] = q
          <6>1. IsRing(asked[c])
            BY <5>1 DEF IsRing
          <6> QED BY <6>1, RingGrows
        <5>3. i \in 1..Len(asked[c]) \/ i = Len(asked[c]) + 1
          BY <3>3, <4>2, <5>1, <5>2
        <5> QED BY <3>2, <4>2, <5>1, <5>2, <5>3 DEF AskedIsAccepted
      <4> QED BY <4>1, <4>2
    <3> QED BY <2>3, <3>3 DEF AskedIsAccepted
  <2>6. CASE UNCHANGED vars
    BY <2>4, <2>6 DEF vars
  <2>7. ASSUME NEW c \in Clients, Read(c) \/ Drained(c) \/ EndServing(c) PROVE asked' = asked
    BY <2>7 DEF Read, Drained, EndServing
  <2> QED BY <2>4, <2>5, <2>6, <2>7 DEF Next
<1> QED BY <1>1, <1>2, ListenerInvHolds, PTL DEF Spec

\* Every builder's frame that a client sent is cut where it ends and nowhere before,
\* and the parser of requests finds nothing wrong with it but the one count that was
\* put there to be wrong.
THEOREM FramesAreCutWholeHolds == Spec => []FramesAreCutWhole
<1>1. EndsAreSeen /\ AskedIsAccepted => FramesAreCutWhole
  BY DEF FramesAreCutWhole, AskedIsAccepted, Range
<1> QED BY <1>1, EndsAreSeenHolds, AskedIsAcceptedHolds, PTL

\* Of a client that waits, every request the listener is done with is recorded,
\* whole and in order, as far back as the ring reaches: whatever the pieces
\* it came in, the other clients did, and was answered.
THEOREM WaitingClientIsRecordedHolds == Spec => []WaitingClientIsRecorded
<1>1. ListenerInv => WaitingClientIsRecorded
  BY DEF ListenerInv, Tells, Told, WaitingClientIsRecorded
<1> QED BY <1>1, ListenerInvHolds, PTL
=============================================================================
