--------------------------- MODULE FramingProofs ---------------------------
(***************************************************************************)
(* Every frame a builder of the codecs makes, streams.py cuts where it     *)
(* ends and nowhere before, and the parser of requests of the same codec   *)
(* accepts: for every argument the builder accepts, of all five protocols  *)
(* that go through streams.py. Frames that are joined, however much of     *)
(* them is there, it cuts into those that are whole and what is left.      *)
(***************************************************************************)
EXTENDS Codecs, SequenceTheorems, FiniteSetTheorems, WellFoundedInduction, TLAPS

-----------------------------------------------------------------------------
(* Bytes                                                                    *)

\* What is read at i of two runs of bytes joined: of the first or of the second.
LEMMA AtOfJoined ==
  ASSUME NEW s \in Seq(Int), NEW t \in Seq(Int), NEW i \in Nat
  PROVE  At(s \o t, i) = IF i < Len(s) THEN At(s, i) ELSE At(t, i - Len(s))
<1>1. Len(s) \in Nat /\ Len(t) \in Nat /\ Len(s \o t) = Len(s) + Len(t)
  BY LenProperties, ConcatProperties
<1>2. \A k \in 1..Len(s) + Len(t) : (s \o t)[k] = IF k <= Len(s) THEN s[k] ELSE t[k - Len(s)]
  BY ConcatProperties
<1> QED BY <1>1, <1>2 DEF At

\* The first k bytes are what was there, and no more.
LEMMA UptoIsPrefix ==
  ASSUME NEW s \in Seq(Int), NEW k \in Nat, k <= Len(s)
  PROVE  /\ Upto(s, k) \in Seq(Int) /\ Len(Upto(s, k)) = k
         /\ \A i \in Nat : i < k => At(Upto(s, k), i) = At(s, i)
<1>1. Len(s) \in Nat 
  BY LenProperties
<1>2. Upto(s, k) = SubSeq(s, 1, k) 
  BY <1>1 DEF Upto
<1>3. \A j \in 1..k : s[j] \in Int
  BY <1>1, ElementOfSeq
<1>4. /\ SubSeq(s, 1, k) \in Seq(Int) /\ Len(SubSeq(s, 1, k)) = (IF 1 <= k THEN k ELSE 0)
      /\ \A j \in 1..k : SubSeq(s, 1, k)[j] = s[j]
  BY <1>1, <1>3, SubSeqProperties
<1> QED BY <1>1, <1>2, <1>4 DEF At

\* A byte read is a number, also past the end.
LEMMA AtIsInt == ASSUME NEW s \in Seq(Int), NEW i \in Nat PROVE At(s, i) \in Int
<1>1. Len(s) \in Nat
  BY LenProperties
<1>2. i < Len(s) => s[i + 1] \in Int
  BY <1>1, ElementOfSeq
<1> QED BY <1>2 DEF At

\* A run of n bytes.
Bytes(f, n) == f \in Seq(Int) /\ Len(f) = n

\* Where the first of two joined runs begins, and where the second does.
LEMMA BytesJoined ==
  ASSUME NEW s, NEW t, NEW m \in Nat, NEW n \in Nat, Bytes(s, m), Bytes(t, n)
  PROVE  /\ Bytes(s \o t, m + n)
         /\ \A i \in Nat : i < m => At(s \o t, i) = At(s, i)
         /\ \A i \in Nat : At(s \o t, m + i) = At(t, i)
<1>1. /\ s \in Seq(Int) /\ t \in Seq(Int) /\ Len(s) = m /\ Len(t) = n
  BY DEF Bytes
<1>2. s \o t \in Seq(Int) /\ Len(s \o t) = Len(s) + Len(t)
  BY <1>1, ConcatProperties
<1>3. \A i \in Nat : At(s \o t, i) = IF i < m THEN At(s, i) ELSE At(t, i - m)
  BY <1>1, AtOfJoined
<1>4. \A i \in Nat : m + i \in Nat /\ ~(m + i < m) /\ m + i - m = i
  OBVIOUS
<1>5. \A i \in Nat : At(s \o t, m + i) = At(t, i)
  BY <1>3, <1>4
<1> QED BY <1>1, <1>2, <1>3, <1>5 DEF Bytes

\* One byte, and two, as a run.
LEMMA BytesOfOne == ASSUME NEW x \in Int PROVE Bytes(<<x>>, 1) /\ At(<<x>>, 0) = x
BY DEF Bytes, At

LEMMA BytesOfTwo ==
  ASSUME NEW x \in Int, NEW y \in Int
  PROVE  Bytes(<<x, y>>, 2) /\ At(<<x, y>>, 0) = x /\ At(<<x, y>>, 1) = y
BY DEF Bytes, At

\* The numbers of a range.
LEMMA InRange ==
  ASSUME NEW a \in Int, NEW b \in Int, NEW n \in a..b
  PROVE  n \in Int /\ a <= n /\ n <= b
OBVIOUS

\* A count of at most b.
LEMMA CountIs ==
  ASSUME NEW b \in Nat, NEW n
  PROVE  n \in 1..b <=> n \in Nat /\ n # 0 /\ n <= b
OBVIOUS

\* A number that fits a field of one byte, and of two.
LEMMA ByteIs == ASSUME NEW n PROVE n \in BYTE <=> n \in Nat /\ n <= 255
<1>1. ASSUME NEW k \in Nat PROVE n \in 0..k <=> n \in Nat /\ n <= k
  OBVIOUS
<1>2. 255 \in Nat
  OBVIOUS
<1> QED BY <1>1, <1>2, Zenon DEF BYTE

LEMMA WordIs == ASSUME NEW n PROVE n \in WORD <=> n \in Nat /\ n <= 65535
<1>1. PICK k \in Nat : k = 65535
  OBVIOUS
<1>2. WORD = 0..k
  BY <1>1, SMTT(30) DEF WORD
<1>3. n \in WORD <=> n \in Nat /\ n <= k
  BY <1>2
<1> QED BY <1>1, <1>3

\* Two bytes make a field, and the field reads as the number that was written.
LEMMA FieldIsRead ==
  ASSUME NEW n \in WORD
  PROVE  /\ Bytes(B16(n), 2) /\ At(B16(n), 0) = n \div 256 /\ At(B16(n), 1) = n % 256
         /\ Bytes(S16(n), 2) /\ At(S16(n), 0) = n % 256 /\ At(S16(n), 1) = n \div 256
         /\ (n \div 256) * 256 + (n % 256) = n /\ n \div 256 \in BYTE /\ n % 256 \in BYTE
<1>1. (n \div 256) * 256 + (n % 256) = n /\ n \div 256 \in BYTE /\ n % 256 \in BYTE
  <2>1. n \in Nat /\ n <= 65535
    BY WordIs
  <2> QED BY <2>1, ByteIs
<1>2. n \div 256 \in Int /\ n % 256 \in Int
  BY <1>1, ByteIs
<1>3. /\ Bytes(B16(n), 2) /\ At(B16(n), 0) = n \div 256 /\ At(B16(n), 1) = n % 256
  BY <1>2, BytesOfTwo DEF B16
<1>4. /\ Bytes(S16(n), 2) /\ At(S16(n), 0) = n % 256 /\ At(S16(n), 1) = n \div 256
  BY <1>2, BytesOfTwo DEF S16
<1> QED BY <1>1, <1>3, <1>4

\* A number that fits a field of four bytes, of those TLC can count with.
FitsWide(n) == n \in Nat /\ n < 2147483648

\* A field of four bytes reads as the number that was written.
LEMMA WideFieldIsRead ==
  ASSUME NEW n, FitsWide(n)
  PROVE  /\ Bytes(B32(n), 4)
         /\ Wide(At(B32(n), 0) * 256 + At(B32(n), 1), At(B32(n), 2) * 256 + At(B32(n), 3)) = n
<1> DEFINE hi == n \div 65536
           lo == n % 65536
<1>1. hi \in Nat /\ hi < 32768 /\ lo \in Nat /\ lo <= 65535 /\ hi * 65536 + lo = n
  BY DEF FitsWide
<1>2. B32(n) = B16(hi) \o B16(lo)
  BY DEF B32
<1> HIDE DEF hi, lo
<1>3. hi \in WORD /\ lo \in WORD
  BY <1>1, WordIs
<1>4. /\ Bytes(B16(hi), 2) /\ At(B16(hi), 0) * 256 + At(B16(hi), 1) = hi
      /\ Bytes(B16(lo), 2) /\ At(B16(lo), 0) * 256 + At(B16(lo), 1) = lo
  BY <1>3, FieldIsRead
<1>5. Bytes(B32(n), 4) /\ At(B32(n), 0) = At(B16(hi), 0) /\ At(B32(n), 1) = At(B16(hi), 1)
  BY <1>2, <1>4, BytesJoined
<1>6. At(B32(n), 2) = At(B16(lo), 0) /\ At(B32(n), 3) = At(B16(lo), 1)
  BY <1>2, <1>4, BytesJoined
<1>7. Wide(hi, lo) = n
  BY <1>1 DEF Wide
<1> QED BY <1>4, <1>5, <1>6, <1>7

\* A little-endian field of four bytes.
LEMMA LowFirstBytes == ASSUME NEW n, FitsWide(n) PROVE Bytes(S32(n), 4)
<1> DEFINE hi == n \div 65536
           lo == n % 65536
<1>1. hi \in Nat /\ hi <= 65535 /\ lo \in Nat /\ lo <= 65535
  BY DEF FitsWide
<1>2. S32(n) = S16(lo) \o S16(hi)
  BY DEF S32
<1> HIDE DEF hi, lo
<1>3. Bytes(S16(lo), 2) /\ Bytes(S16(hi), 2)
  BY <1>1, WordIs, FieldIsRead
<1> QED BY <1>2, <1>3, BytesJoined

\* A run of zeros.
LEMMA ZerosBytes == ASSUME NEW n \in Nat PROVE Bytes(Zeros(n), n)
BY DEF Zeros, Bytes

-----------------------------------------------------------------------------
(* Runs of runs                                                             *)

\* A set of numbers that has any has a least one.
LEMMA LeastNumber ==
  ASSUME NEW T \in SUBSET Nat, T # {}
  PROVE  \E x \in T : \A y \in T : x <= y
<1> DEFINE R == OpToRel(<, Nat)
<1>1. IsWellFoundedOn(R, Nat)
  BY NatLessThanWellFounded
<1>2. \E x \in T : \A y \in T : ~(<<y, x>> \in R)
  <2> HIDE DEF R
  <2> QED BY <1>1, WFMin
<1>3. \A x, y \in Nat : <<y, x>> \in R <=> y < x
  BY DEF OpToRel
<1> HIDE DEF R
<1>4. PICK x \in T : \A y \in T : ~(<<y, x>> \in R)
  BY <1>2
<1>5. ASSUME NEW y \in T PROVE x <= y
  <2>1. x \in Nat /\ y \in Nat /\ ~(y < x)
    BY <1>3, <1>4
  <2> QED BY <2>1
<1> QED BY <1>4, <1>5

\* g joins the runs of seqs one after another, as FlattenSeq does.
Joins(g, seqs, n) == g = [i \in 1..n |-> IF i = 1 THEN seqs[i] ELSE g[i - 1] \o seqs[i]]

\* There is such a g: were there a first number of runs without, the one before
\* it would have one, to which a run is added.
LEMMA JoinsExist ==
  ASSUME NEW seqs, NEW n \in Nat
  PROVE  \E g : Joins(g, seqs, n)
<1> DEFINE T == {k \in Nat : ~\E g : Joins(g, seqs, k)}
<1>1. SUFFICES ASSUME T # {} PROVE FALSE
  OBVIOUS
<1>2. PICK k \in T : \A y \in T : k <= y
  BY <1>1, LeastNumber
<1>3. CASE k = 0
  <2>1. Joins([i \in 1..0 |-> 0], seqs, 0)
    BY DEF Joins
  <2> QED BY <1>2, <1>3, <2>1
<1>4. CASE k # 0
  <2>1. k - 1 \in Nat /\ k - 1 \notin T
    BY <1>2, <1>4
  <2>2. PICK g : Joins(g, seqs, k - 1)
    BY <2>1
  <2> DEFINE h == [i \in 1..k |-> IF i = k THEN (IF k = 1 THEN seqs[k] ELSE g[k - 1] \o seqs[k]) ELSE g[i]]
  <2>3. \A i \in 1..k : h[i] = IF i = 1 THEN seqs[i] ELSE h[i - 1] \o seqs[i]
    <3>1. \A i \in 1..k - 1 : g[i] = IF i = 1 THEN seqs[i] ELSE g[i - 1] \o seqs[i]
      BY <2>2 DEF Joins
    <3> TAKE i \in 1..k
    <3>2. CASE i = k
      <4>1. k # 1 => k - 1 \in 1..k /\ k - 1 # k
        BY <1>2, <1>4
      <4> QED BY <3>2, <4>1
    <3>3. CASE i # k
      <4>1. i \in 1..k - 1 /\ (i # 1 => i - 1 \in 1..k /\ i - 1 # k)
        BY <1>2, <3>3
      <4> QED BY <3>1, <3>3, <4>1
    <3> QED BY <3>2, <3>3
  <2>4. Joins(h, seqs, k)
    <3>1. h = [i \in 1..k |-> h[i]]
      OBVIOUS
    <3> HIDE DEF h
    <3> QED BY <2>3, <3>1 DEF Joins
  <2> QED BY <1>2, <2>4
<1> QED BY <1>3, <1>4

\* Runs of two bytes each, or of four, make a run of that many for each.
LEMMA JoinedLength ==
  ASSUME NEW k \in {2, 4}, NEW seqs, NEW n \in Nat, NEW g, Joins(g, seqs, n),
         \A i \in 1..n : Bytes(seqs[i], k)
  PROVE  \A i \in 1..n : Bytes(g[i], k * i)
<1> DEFINE T == {i \in 1..n : ~Bytes(g[i], k * i)}
<1>1. SUFFICES ASSUME T # {} PROVE FALSE
  OBVIOUS
<1>2. PICK i \in T : \A j \in T : i <= j
  <2>1. T \in SUBSET Nat
    OBVIOUS
  <2> QED BY <1>1, <2>1, LeastNumber
<1>3. i \in 1..n /\ ~Bytes(g[i], k * i) /\ k * 1 = k
  BY <1>2
<1>4. \A j \in 1..n : g[j] = IF j = 1 THEN seqs[j] ELSE g[j - 1] \o seqs[j]
  BY DEF Joins
<1>5. CASE i = 1
  BY <1>3, <1>4, <1>5
<1>6. CASE i # 1
  <2>1. i - 1 \in 1..n /\ i - 1 \notin T
    BY <1>2, <1>6
  <2>2. Bytes(g[i - 1], k * (i - 1))
    BY <2>1
  <2>3. k * (i - 1) \in Nat /\ k \in Nat /\ k * (i - 1) + k = k * i
    <3>1. CASE k = 2
      BY <1>3, <1>6, <3>1
    <3>2. CASE k = 4
      BY <1>3, <1>6, <3>2
    <3> QED BY <3>1, <3>2
  <2>4. Bytes(g[i - 1] \o seqs[i], k * (i - 1) + k)
    <3>1. Bytes(seqs[i], k)
      BY <1>3
    <3> QED BY <2>2, <2>3, <3>1, BytesJoined
  <2> QED BY <1>3, <1>4, <1>6, <2>3, <2>4
<1> QED BY <1>5, <1>6

\* The length of a list of runs of k bytes, joined.
LEMMA FlattenedLength ==
  ASSUME NEW k \in {2, 4}, NEW seqs, NEW n \in Nat, seqs = <<>> <=> n = 0, Len(seqs) = n,
         \A i \in 1..n : Bytes(seqs[i], k)
  PROVE  Bytes(FlattenSeq(seqs), k * n)
<1>1. CASE n = 0
  <2>1. FlattenSeq(seqs) = <<>> /\ k * n = 0
    BY <1>1 DEF FlattenSeq
  <2> QED BY <2>1 DEF Bytes
<1>2. CASE n # 0
  <2> DEFINE G == CHOOSE g : Joins(g, seqs, n)
  <2>1. Joins(G, seqs, n)
    BY JoinsExist
  <2>2. FlattenSeq(seqs) = G[n]
    BY <1>2 DEF FlattenSeq, Joins
  <2> HIDE DEF G
  <2>3. \A i \in 1..n : Bytes(G[i], k * i)
    BY <2>1, JoinedLength
  <2>4. n \in 1..n
    BY <1>2
  <2> QED BY <2>2, <2>3, <2>4
<1> QED BY <1>1, <1>2

-----------------------------------------------------------------------------
(* What makes a frame                                                       *)

LengthFirst == {"modbus", "fins", "iec104", "enip"}

\* A run of bytes that is cut where it ends and nowhere before.
IsFrame(protocol, f) == f \in Seq(Int) /\ CutWhole(protocol, f)

\* The head of a frame decides what length it claims, however much of it is there.
LEMMA HeadDecides ==
  ASSUME NEW protocol \in LengthFirst, NEW q \in Seq(Int), NEW k \in Nat,
         FRAME_HEADER_LEN[protocol] <= k, k <= Len(q)
  PROVE  ClaimedLen(protocol, Upto(q, k)) = ClaimedLen(protocol, q)
<1>1. \A i \in Nat : i < k => At(Upto(q, k), i) = At(q, i)
  BY UptoIsPrefix
<1>2. CASE protocol = "modbus"
  BY <1>1, <1>2 DEF FRAME_HEADER_LEN, ClaimedLen, U16
<1>3. CASE protocol = "fins"
  <2>1. \A i \in 4..7 : At(Upto(q, k), i) = At(q, i)
    BY <1>1, <1>3 DEF FRAME_HEADER_LEN
  <2>2. U32(Upto(q, k), 4) = U32(q, 4)
    BY <2>1 DEF U16, U32
  <2> QED BY <1>3, <2>2 DEF ClaimedLen
<1>4. CASE protocol = "iec104"
  <2>1. At(Upto(q, k), 0) = At(q, 0) /\ At(Upto(q, k), 1) = At(q, 1)
    BY <1>1, <1>4 DEF FRAME_HEADER_LEN
  <2> QED BY <2>1, <1>4 DEF ClaimedLen
<1>5. CASE protocol = "enip"
  BY <1>1, <1>5 DEF FRAME_HEADER_LEN, ClaimedLen, L16
<1> QED BY <1>2, <1>3, <1>4, <1>5 DEF LengthFirst

\* A frame whose head claims the length it has, and one streams.py allows, is
\* cut where it ends and nowhere before.
LEMMA ClaimCutsWhole ==
  ASSUME NEW protocol \in LengthFirst, NEW q, NEW n \in Nat, Bytes(q, n),
         FRAME_HEADER_LEN[protocol] <= n, n <= MAX_FRAME_LEN[protocol],
         ClaimedLen(protocol, q) = n
  PROVE  CutWhole(protocol, q)
<1> DEFINE least == FRAME_HEADER_LEN[protocol]
           most  == MAX_FRAME_LEN[protocol]
<1>1. q \in Seq(Int) /\ Len(q) = n /\ protocol # "melsec"
  BY DEF Bytes, LengthFirst
<1>2. least \in Nat \ {0} /\ most \in Nat
  BY DEF LengthFirst, FRAME_HEADER_LEN, MAX_FRAME_LEN
<1>3. \A b : TryFrameLen(protocol, b) = Bounded(protocol, b, ClaimedLen(protocol, b), least)
  BY <1>1 DEF TryFrameLen
<1> HIDE DEF least
<1>4. TryFrameLen(protocol, q) = Len(q)
  BY <1>1, <1>2, <1>3 DEF Bounded, least
<1>5. ASSUME NEW k \in 0..n - 1 PROVE TryFrameLen(protocol, Upto(q, k)) = More
  <2>1. k \in Nat /\ k < n /\ Len(Upto(q, k)) = k
    BY <1>1, UptoIsPrefix
  <2>2. CASE k < least
    BY <1>1, <1>2, <1>3, <2>1, <2>2 DEF Bounded
  <2>3. CASE least <= k
    <3>1. ClaimedLen(protocol, Upto(q, k)) = n
      BY <1>1, <2>1, <2>3, HeadDecides DEF least
    <3> QED BY <1>1, <1>2, <1>3, <2>1, <3>1, <2>3 DEF Bounded, least
  <2> QED BY <1>2, <2>1, <2>2, <2>3
<1> QED BY <1>1, <1>4, <1>5 DEF CutWhole

-----------------------------------------------------------------------------
(* Modbus                                                                   *)

\* What ModbusCodec's copies of the ranges are.
LEMMA ModbusCopies == MB!WORD = WORD /\ MB!BYTE = BYTE
BY DEF MB!WORD, WORD, MB!BYTE, BYTE

\* The header of a Modbus frame: seven bytes, and what they claim.
LEMMA MbapIsCutWhole ==
  ASSUME NEW tid \in WORD, NEW unit \in Int, NEW k \in Nat, k <= 253, NEW pdu, Bytes(pdu, k)
  PROVE  /\ Bytes(MB!Mbap(tid, unit, pdu), 7 + k)
         /\ CutWhole("modbus", MB!Mbap(tid, unit, pdu))
<1> DEFINE a == B16(tid)
           b == B16(0)
           n == B16(k + 1)
           u == <<unit>>
           f == a \o b \o n \o u \o pdu
<1>1. MB!Mbap(tid, unit, pdu) = f
  <2>1. Len(pdu) = k
    BY DEF Bytes
  <2> QED BY <2>1 DEF MB!Mbap, MB!B16, B16
<1>2. Bytes(a, 2) /\ Bytes(b, 2)
  <2>1. 0 \in WORD
    BY WordIs
  <2> QED BY <2>1, FieldIsRead
<1>3. Bytes(n, 2) /\ At(n, 0) * 256 + At(n, 1) = k + 1 /\ Bytes(u, 1)
  <2>1. k + 1 \in WORD
    BY WordIs
  <2> QED BY <2>1, FieldIsRead, BytesOfOne
<1> HIDE DEF a, b, n, u
<1>4. Bytes(f, 7 + k) /\ At(f, 4) = At(n, 0) /\ At(f, 5) = At(n, 1)
  BY <1>2, <1>3, BytesJoined
<1> HIDE DEF f
<1>5. ClaimedLen("modbus", f) = 7 + k
  <2>1. ClaimedLen("modbus", f) = 6 + (At(f, 4) * 256 + At(f, 5))
    BY DEF ClaimedLen, U16
  <2> QED BY <1>3, <1>4, <2>1
<1>6. CutWhole("modbus", f)
  BY <1>4, <1>5, ClaimCutsWhole DEF LengthFirst, FRAME_HEADER_LEN, MAX_FRAME_LEN
<1> QED BY <1>1, <1>4, <1>6

\* A PDU of five bytes, as those of reads and of single writes.
LEMMA FiveBytes ==
  ASSUME NEW fc \in Int, NEW x \in WORD, NEW y \in WORD
  PROVE  Bytes(<<fc>> \o MB!B16(x) \o MB!B16(y), 5)
<1>1. MB!B16(x) = B16(x) /\ MB!B16(y) = B16(y)
  BY DEF MB!B16, B16
<1>2. Bytes(B16(x), 2) /\ Bytes(B16(y), 2) /\ Bytes(<<fc>>, 1)
  BY FieldIsRead, BytesOfOne
<1> QED BY <1>1, <1>2, BytesJoined

\* Every Modbus request the builders make, whatever they are given: they make
\* none, or one that is cut whole.
THEOREM ModbusReadIsCutWhole ==
  ASSUME NEW tid, NEW unit, NEW fc, NEW address, NEW quantity,
         NEW f, f = MB!BuildReadRequest(tid, unit, fc, address, quantity)
  PROVE  f = <<>> \/ (Bytes(f, 12) /\ CutWhole("modbus", f))
<1> DEFINE pdu == <<fc>> \o MB!B16(address) \o MB!B16(quantity)
<1>1. MB!WORD = WORD
  BY DEF MB!WORD, WORD
<1>2. SUFFICES ASSUME f # <<>> PROVE Bytes(f, 12) /\ CutWhole("modbus", f)
  OBVIOUS
<1>3. /\ fc \in 1..4 /\ tid \in WORD /\ unit \in 0..MB!MAX_UNIT_ID /\ address \in WORD
      /\ quantity \in 1..MB!read_limit(fc)
      /\ f = MB!Mbap(tid, unit, pdu)
  BY <1>1, <1>2 DEF MB!BuildReadRequest, MB!READ_FCS
<1>4. quantity \in WORD
  <2>1. MB!read_limit(fc) \in Int /\ MB!read_limit(fc) <= 2000
    BY DEF MB!read_limit
  <2>2. quantity \in Int /\ 1 <= quantity /\ quantity <= MB!read_limit(fc)
    BY <1>3, <2>1, InRange
  <2> QED BY <2>1, <2>2, WordIs
<1>5. Bytes(pdu, 5)
  BY <1>3, <1>4, FiveBytes
<1> HIDE DEF pdu
<1>6. unit \in Int
  BY <1>3, InRange DEF MB!MAX_UNIT_ID
<1> QED BY <1>3, <1>5, <1>6, MbapIsCutWhole

\* The same of a write of one register or coil.
THEOREM ModbusWriteSingleIsCutWhole ==
  ASSUME NEW tid, NEW unit, NEW fc, NEW address, NEW value,
         NEW f, f = MB!BuildWriteSingle(tid, unit, fc, address, value)
  PROVE  f = <<>> \/ (Bytes(f, 12) /\ CutWhole("modbus", f))
<1> DEFINE operand == IF fc = 5 THEN value * 65280 ELSE value
           pdu == <<fc>> \o MB!B16(address) \o MB!B16(operand)
<1>1. MB!WORD = WORD
  BY DEF MB!WORD, WORD
<1>2. SUFFICES ASSUME f # <<>> PROVE Bytes(f, 12) /\ CutWhole("modbus", f)
  OBVIOUS
<1>3. /\ fc \in {5, 6} /\ tid \in WORD /\ unit \in 0..MB!MAX_UNIT_ID /\ address \in WORD
      /\ value \in (IF fc = 5 THEN {0, 1} ELSE WORD)
      /\ f = MB!Mbap(tid, unit, pdu)
  BY <1>1, <1>2 DEF MB!BuildWriteSingle, MB!WRITE_FCS
<1>4. operand \in WORD
  <2>1. CASE fc = 5
    <3>1. 0 * 65280 \in WORD /\ 1 * 65280 \in WORD
      BY WordIs
    <3> QED BY <1>3, <2>1, <3>1
  <2>2. CASE fc # 5
    BY <1>3, <2>2
  <2> QED BY <2>1, <2>2
<1> HIDE DEF operand
<1>5. Bytes(pdu, 5)
  BY <1>3, <1>4, FiveBytes
<1> HIDE DEF pdu
<1>6. unit \in Int
  BY <1>3, InRange DEF MB!MAX_UNIT_ID
<1> QED BY <1>3, <1>5, <1>6, MbapIsCutWhole

\* A write of many registers the builder accepts.
LEMMA WriteMultipleIsFrame ==
  ASSUME NEW tid \in WORD, NEW unit \in BYTE, NEW address \in WORD, NEW values \in Seq(Int),
         Len(values) # 0, Len(values) <= 123, \A i \in DOMAIN values : values[i] \in WORD
  PROVE  /\ Bytes(MB!BuildWriteMultiple(tid, unit, address, values), 13 + 2 * Len(values))
         /\ CutWhole("modbus", MB!BuildWriteMultiple(tid, unit, address, values))
<1> DEFINE n == Len(values)
           words == [i \in DOMAIN values |-> MB!B16(values[i])]
           a == <<MB!WRITE_MULTIPLE_REGISTERS>>
           b == MB!B16(address)
           c == MB!B16(n)
           d == <<2 * n>>
           e == MB!FlattenSeq(words)
           pdu == a \o b \o c \o d \o e
<1>1. MB!WORD = WORD /\ MB!BYTE = BYTE
  BY ONLY ModbusCopies
<1>2. n \in Nat /\ n # 0 /\ n <= 123
  BY LenProperties
<1>3. MB!BuildWriteMultiple(tid, unit, address, values) = MB!Mbap(tid, unit, pdu)
  <2>0. Len(values) \in 1..123
    <3>1. 123 \in Nat
      OBVIOUS
    <3> QED BY ONLY <1>2, <3>1, CountIs, Zenon
  <2>1. /\ Len(values) \in 1..123 /\ {tid, address} \subseteq MB!WORD /\ unit \in MB!BYTE
        /\ \A i \in DOMAIN values : values[i] \in MB!WORD
    BY <1>1, <2>0
  <2> QED BY ONLY <2>1 DEF MB!BuildWriteMultiple
<1>4. n \in WORD /\ n \in Nat /\ n # 0 /\ unit \in Int /\ 2 * n \in Nat /\ n <= 123
  <2>1. n \in Nat /\ n # 0 /\ 2 * n \in Nat /\ n <= 65535
    BY <1>2
  <2> QED BY <1>2, <2>1, WordIs, ByteIs
<1>5. Bytes(e, 2 * n)
  <2>1. DOMAIN values = 1..n
    BY LenProperties
  <2>2. \A i \in 1..n : words[i] = B16(values[i]) /\ Bytes(B16(values[i]), 2)
    BY <1>3, <2>1, FieldIsRead DEF MB!B16, B16
  <2>3. Len(words) = n /\ words # <<>>
    BY <1>4, <2>1
  <2> HIDE DEF words, n
  <2>4. MB!FlattenSeq(words) = FlattenSeq(words)
    BY DEF MB!FlattenSeq, FlattenSeq
  <2> QED BY <1>4, <2>2, <2>3, <2>4, FlattenedLength
<1>6. /\ Bytes(a, 1) /\ Bytes(b, 2) /\ Bytes(c, 2) /\ Bytes(d, 1)
  <2>1. b = B16(address) /\ c = B16(n) /\ MB!WRITE_MULTIPLE_REGISTERS \in Int /\ 2 * n \in Int
    BY <1>4 DEF MB!B16, B16, MB!WRITE_MULTIPLE_REGISTERS
  <2> HIDE DEF n, b, c
  <2> QED BY <1>3, <1>4, <2>1, FieldIsRead, BytesOfOne
<1> HIDE DEF a, b, c, d, e, n
<1>7. Bytes(pdu, 6 + 2 * n)
  <2>1. Bytes(a \o b \o c \o d, 6)
    BY <1>6, BytesJoined
  <2> QED BY <1>4, <1>5, <2>1, BytesJoined
<1> HIDE DEF pdu
<1>8. 6 + 2 * n \in Nat /\ 6 + 2 * n <= 253 /\ 7 + (6 + 2 * n) = 13 + 2 * n
  BY <1>4
<1>9. Bytes(MB!Mbap(tid, unit, pdu), 13 + 2 * n) /\ CutWhole("modbus", MB!Mbap(tid, unit, pdu))
  BY <1>4, <1>7, <1>8, MbapIsCutWhole
<1> QED BY <1>3, <1>9 DEF n

\* The same of a write of many: with the most registers the builder allows its
\* frame is one byte short of the most streams.py allows.
THEOREM ModbusWriteMultipleIsCutWhole ==
  ASSUME NEW tid, NEW unit, NEW address, NEW values \in Seq(Int),
         NEW f, f = MB!BuildWriteMultiple(tid, unit, address, values)
  PROVE  f = <<>> \/ (Bytes(f, 13 + 2 * Len(values)) /\ CutWhole("modbus", f))
<1>1. MB!WORD = WORD /\ MB!BYTE = BYTE
  BY ONLY ModbusCopies
<1>2. SUFFICES ASSUME f # <<>> PROVE Bytes(f, 13 + 2 * Len(values)) /\ CutWhole("modbus", f)
  OBVIOUS
<1>3. /\ tid \in WORD /\ address \in WORD /\ unit \in BYTE /\ Len(values) \in 1..123
      /\ \A i \in DOMAIN values : values[i] \in WORD
  BY <1>1, <1>2 DEF MB!BuildWriteMultiple
<1>4. Len(values) # 0 /\ Len(values) <= 123
  <2>1. 123 \in Nat
    OBVIOUS
  <2> QED BY ONLY <1>3, <2>1, CountIs, Zenon
<1> QED BY <1>3, <1>4, WriteMultipleIsFrame

-----------------------------------------------------------------------------
(* FINS                                                                     *)

\* The header of a FINS frame: sixteen bytes, and what they claim of a payload
\* of k.  A frame streams.py takes for too long is one it never cuts.
LEMMA TcpFrameIsCutWhole ==
  ASSUME NEW command \in WORD, NEW k \in Nat, k <= 100000, NEW payload, Bytes(payload, k)
  PROVE  /\ Bytes(FI!BuildTcpFrame(command, payload), 16 + k)
         /\ CutWhole("fins", FI!BuildTcpFrame(command, payload)) <=> 16 + k <= 16400
<1> DEFINE a == <<70, 73, 78, 83>>
           b == B32(8 + k)
           c == B32(command)
           d == B32(0)
           f == a \o b \o c \o d \o payload
<1>1. FI!BuildTcpFrame(command, payload) = f
  <2>1. Len(payload) = k
    BY DEF Bytes
  <2>2. \A n : FI!B32(n) = B32(n)
    BY DEF FI!B32, B32, FI!B16, B16
  <2>3. FI!BuildTcpFrame(command, payload) = a \o FI!B32(8 + k) \o FI!B32(command) \o FI!B32(0) \o payload
    BY <2>1 DEF FI!BuildTcpFrame, FI!TCP_MAGIC
  <2>4. FI!B32(8 + k) = B32(8 + k) /\ FI!B32(command) = B32(command) /\ FI!B32(0) = B32(0)
    BY <2>2
  <2> QED BY <2>3, <2>4
<1>2. Bytes(a, 4)
  BY DEF Bytes
<1>3. Bytes(b, 4) /\ Wide(At(b, 0) * 256 + At(b, 1), At(b, 2) * 256 + At(b, 3)) = 8 + k
  <2>1. FitsWide(8 + k)
    BY DEF FitsWide
  <2> QED BY <2>1, WideFieldIsRead
<1>4. Bytes(c, 4) /\ Bytes(d, 4)
  <2>1. FitsWide(0) /\ FitsWide(command)
    BY WordIs DEF FitsWide
  <2> QED BY <2>1, WideFieldIsRead
<1> HIDE DEF a, b, c, d
<1>5. Bytes(a \o b, 8) /\ \A i \in 0..3 : At(a \o b, 4 + i) = At(b, i)
  BY <1>2, <1>3, BytesJoined
<1>6. Bytes(f, 16 + k) /\ \A i \in 4..7 : At(f, i) = At(a \o b, i)
  <2> DEFINE ab == a \o b
  <2>1. Bytes(ab, 8)
    BY <1>5
  <2> HIDE DEF ab
  <2>2. Bytes(ab \o c \o d \o payload, 16 + k)
    BY <1>4, <2>1, BytesJoined
  <2>3. \A i \in Nat : i < 8 => At(ab \o c \o d \o payload, i) = At(ab, i)
    <3>1. Bytes(ab \o c, 12) /\ \A i \in Nat : i < 8 => At(ab \o c, i) = At(ab, i)
      BY <1>4, <2>1, BytesJoined
    <3>2. Bytes(ab \o c \o d, 16) /\ \A i \in Nat : i < 12 => At(ab \o c \o d, i) = At(ab \o c, i)
      BY <1>4, <3>1, BytesJoined
    <3>3. \A i \in Nat : i < 16 => At(ab \o c \o d \o payload, i) = At(ab \o c \o d, i)
      BY <3>2, BytesJoined
    <3> QED BY <3>1, <3>2, <3>3
  <2> QED BY <2>2, <2>3 DEF ab
<1>7. /\ At(f, 4) = At(b, 0) /\ At(f, 5) = At(b, 1) /\ At(f, 6) = At(b, 2) /\ At(f, 7) = At(b, 3)
  BY <1>5, <1>6
<1> HIDE DEF f
<1>8. U32(f, 4) = 8 + k
  <2>1. U32(f, 4) = Wide(At(f, 4) * 256 + At(f, 5), At(f, 6) * 256 + At(f, 7))
    BY DEF U32, U16
  <2> QED BY <1>3, <1>7, <2>1
<1>9. CASE 16 + k <= 16400
  <2>1. ClaimedLen("fins", f) = 16 + k
    BY <1>8, <1>9 DEF ClaimedLen
  <2>2. CutWhole("fins", f)
    BY <1>6, <1>9, <2>1, ClaimCutsWhole DEF LengthFirst, FRAME_HEADER_LEN, MAX_FRAME_LEN
  <2> QED BY <1>1, <1>6, <1>9, <2>2
<1>10. CASE 16400 < 16 + k
  <2>1. ClaimedLen("fins", f) = 16 + k \/ ClaimedLen("fins", f) = 0
    BY <1>8 DEF ClaimedLen
  <2>2. TryFrameLen("fins", f) = Bounded("fins", f, ClaimedLen("fins", f), 16) /\ Len(f) = 16 + k
    BY <1>6 DEF TryFrameLen, FRAME_HEADER_LEN, Bytes
  <2>3. TryFrameLen("fins", f) = 0
    BY <1>10, <2>1, <2>2 DEF Bounded, MAX_FRAME_LEN
  <2> QED BY <1>1, <1>6, <1>10, <2>2, <2>3 DEF CutWhole
<1> QED BY <1>9, <1>10

\* Every handshake a FINS client may send.
THEOREM FinsHandshakeIsCutWhole ==
  ASSUME NEW node, NEW f, f = FI!BuildHandshakeRequest(node)
  PROVE  f = <<>> \/ (Bytes(f, 20) /\ CutWhole("fins", f))
<1>1. SUFFICES ASSUME f # <<>> PROVE Bytes(f, 20) /\ CutWhole("fins", f)
  OBVIOUS
<1>2. node \in BYTE /\ f = FI!BuildTcpFrame(0, FI!B32(node))
  <2>1. FI!BYTE = BYTE
    BY DEF FI!BYTE, BYTE
  <2> QED BY <1>1, <2>1 DEF FI!BuildHandshakeRequest, FI!TCP_CMD_CONNECT_REQ
<1>3. Bytes(FI!B32(node), 4)
  <2>1. FI!B32(node) = B32(node)
    BY DEF FI!B32, B32, FI!B16, B16
  <2>2. FitsWide(node)
    BY <1>2, ByteIs DEF FitsWide
  <2> QED BY <2>1, <2>2, WideFieldIsRead
<1>4. 0 \in WORD
  BY WordIs
<1> QED BY <1>2, <1>3, <1>4, TcpFrameIsCutWhole

\* The FINS header and command of a request for memory.
LEMMA MemoryBytes ==
  ASSUME NEW sid \in Int, NEW node \in Int, NEW command \in WORD, NEW area \in Int,
         NEW address \in WORD, NEW count \in WORD, NEW dest \in Int
  PROVE  Bytes(FI!Memory(sid, node, command, area, address, count, dest), 18)
<1> DEFINE a == <<128, 0, 2, 0, dest, 0, 0, node, 0, sid>>
           b == B16(command)
           c == <<area>>
           d == B16(address)
           e == <<0>>
           g == B16(count)
<1>1. FI!Memory(sid, node, command, area, address, count, dest) = a \o b \o c \o d \o e \o g
  BY DEF FI!Memory, FI!B16, B16
<1>2. Bytes(a, 10)
  BY DEF Bytes
<1>3. Bytes(b, 2) /\ Bytes(c, 1) /\ Bytes(d, 2) /\ Bytes(e, 1) /\ Bytes(g, 2)
  BY FieldIsRead, BytesOfOne
<1> HIDE DEF a, b, c, d, e, g
<1>4. Bytes(a \o b \o c, 13)
  BY <1>2, <1>3, BytesJoined
<1>5. Bytes(a \o b \o c \o d \o e \o g, 18)
  BY <1>3, <1>4, BytesJoined
<1> QED BY <1>1, <1>5

\* What Addressable lets through.
LEMMA AddressableIs ==
  ASSUME NEW sid, NEW area, NEW address, NEW dest, FI!Addressable(sid, area, address, dest)
  PROVE  sid \in Int /\ area \in Int /\ address \in WORD /\ dest \in Int
<1>1. FI!BYTE = BYTE /\ FI!WORD = WORD
  BY DEF FI!BYTE, BYTE, FI!WORD, WORD
<1> QED BY <1>1, ByteIs DEF FI!Addressable, FI!AREA_CODES

\* Every read request a FINS client may send.
THEOREM FinsReadIsCutWhole ==
  ASSUME NEW sid, NEW node \in Int, NEW area, NEW address, NEW count, NEW dest,
         NEW f, f = FI!BuildReadRequest(sid, node, area, address, count, dest)
  PROVE  f = <<>> \/ (Bytes(f, 34) /\ CutWhole("fins", f))
<1>1. SUFFICES ASSUME f # <<>> PROVE Bytes(f, 34) /\ CutWhole("fins", f)
  OBVIOUS
<1> DEFINE m == FI!Memory(sid, node, 257, area, address, count, dest)
<1>2. /\ FI!Addressable(sid, area, address, dest) /\ count \in 1..FI!MAX_READ_WORDS
      /\ f = FI!BuildTcpFrame(2, m)
  BY <1>1 DEF FI!BuildReadRequest, FI!TCP_CMD_DATA_SEND, FI!CMD_MEMORY_AREA_READ
<1>3. count \in WORD /\ 257 \in WORD /\ 2 \in WORD
  <2>1. FI!MAX_READ_WORDS \in Int /\ FI!MAX_READ_WORDS <= 65535
    BY DEF FI!MAX_READ_WORDS
  <2>2. count \in Int /\ 1 <= count /\ count <= FI!MAX_READ_WORDS
    BY <1>2, <2>1, InRange
  <2> QED BY <2>1, <2>2, WordIs
<1>4. Bytes(m, 18)
  BY <1>2, <1>3, AddressableIs, MemoryBytes
<1> HIDE DEF m
<1> QED BY <1>2, <1>3, <1>4, TcpFrameIsCutWhole

\* Of the writes, those of no more than 8183 words: streams.py takes a longer one,
\* which the builder makes without complaint, for no frame at all.
THEOREM FinsWriteIsCutWhole ==
  ASSUME NEW sid, NEW node \in Int, NEW area, NEW address, NEW values \in Seq(Int), NEW dest,
         NEW f, f = FI!BuildMemoryAreaWrite(sid, node, area, address, values, dest)
  PROVE  f = <<>> \/ /\ Bytes(f, 34 + 2 * Len(values))
                     /\ CutWhole("fins", f) <=> Len(values) <= 8183
<1> DEFINE n == Len(values)
           words == [i \in DOMAIN values |-> FI!B16(values[i] % 65536)]
           m == FI!Memory(sid, node, 258, area, address, n, dest)
           e == FI!FlattenSeq(words)
<1>1. SUFFICES ASSUME f # <<>> PROVE Bytes(f, 34 + 2 * n) /\ (CutWhole("fins", f) <=> n <= 8183)
  OBVIOUS
<1>2. /\ FI!Addressable(sid, area, address, dest) /\ n \in 1..FI!MAX_READ_WORDS
      /\ f = FI!BuildTcpFrame(2, m \o e)
  BY <1>1 DEF FI!BuildMemoryAreaWrite, FI!TCP_CMD_DATA_SEND, FI!CMD_MEMORY_AREA_WRITE
<1>3. n \in Nat /\ n # 0 /\ n <= 32766 /\ 2 * n \in Nat
  <2>1. FI!MAX_READ_WORDS \in Int /\ FI!MAX_READ_WORDS <= 32766
    BY DEF FI!MAX_READ_WORDS
  <2>2. n \in Int /\ 1 <= n /\ n <= FI!MAX_READ_WORDS
    BY <1>2, <2>1, InRange
  <2> QED BY <2>1, <2>2
<1>4. Bytes(e, 2 * n)
  <2>1. DOMAIN values = 1..n
    BY LenProperties
  <2>2. ASSUME NEW i \in 1..n PROVE words[i] = B16(values[i] % 65536) /\ Bytes(B16(values[i] % 65536), 2)
    <3>1. values[i] \in Int
      BY <2>1, ElementOfSeq
    <3>2. values[i] % 65536 \in WORD
      BY <3>1, WordIs
    <3>3. words[i] = B16(values[i] % 65536)
      BY <2>1 DEF FI!B16, B16
    <3> QED BY <3>2, <3>3, FieldIsRead
  <2>3. Len(words) = n /\ words # <<>>
    BY <1>3, <2>1
  <2> HIDE DEF words, n
  <2>4. FI!FlattenSeq(words) = FlattenSeq(words)
    BY DEF FI!FlattenSeq, FlattenSeq
  <2> QED BY <1>3, <2>2, <2>3, <2>4, FlattenedLength
<1> HIDE DEF e, n
<1>5. Bytes(m, 18)
  <2>1. n \in WORD /\ 258 \in WORD
    BY <1>3, WordIs
  <2>2. sid \in Int /\ area \in Int /\ address \in WORD /\ dest \in Int
    BY <1>2, AddressableIs
  <2> QED BY <2>1, <2>2, MemoryBytes
<1> HIDE DEF m
<1>6. Bytes(m \o e, 18 + 2 * n)
  BY <1>3, <1>4, <1>5, BytesJoined
<1>7. /\ 18 + 2 * n \in Nat /\ 18 + 2 * n <= 100000 /\ 16 + (18 + 2 * n) = 34 + 2 * n /\ 2 \in WORD
      /\ (16 + (18 + 2 * n) <= 16400 <=> n <= 8183)
  BY <1>3, WordIs
<1> QED BY <1>2, <1>6, <1>7, TcpFrameIsCutWhole

-----------------------------------------------------------------------------
(* IEC 104                                                                  *)

\* The head of an APDU: the start byte, and what the next says of n bytes more.
LEMMA ApduIsCutWhole ==
  ASSUME NEW f, NEW n \in Nat, 4 <= n, n <= 253, Bytes(f, 2 + n), At(f, 0) = 104, At(f, 1) = n
  PROVE  CutWhole("iec104", f)
<1>1. ClaimedLen("iec104", f) = 2 + n
  BY DEF ClaimedLen
<1> QED BY <1>1, ClaimCutsWhole DEF LengthFirst, FRAME_HEADER_LEN, MAX_FRAME_LEN

\* The numbers an I-frame counts with.
LEMMA SequenceNumberIs == ASSUME NEW n \in IEC!SEQUENCE_NUMBERS PROVE 2 * n \in WORD /\ 2 * n + 1 \in WORD
<1>1. PICK k \in Nat : k = 32767
  OBVIOUS
<1>2. n \in 0..k
  BY <1>1, SMTT(30) DEF IEC!SEQUENCE_NUMBERS
<1>3. n \in Nat /\ n <= k
  BY <1>2
<1> QED BY <1>1, <1>3, WordIs

\* Every I-frame, with every ASDU that fits one.
THEOREM Iec104IFrameIsCutWhole ==
  ASSUME NEW tx, NEW rx, NEW k \in Nat, NEW asdu, Bytes(asdu, k),
         NEW f, f = IEC!BuildApciI(tx, rx, asdu)
  PROVE  f = <<>> \/ (Bytes(f, 6 + k) /\ CutWhole("iec104", f))
<1> DEFINE a == <<104, 4 + k>>
           b == S16(2 * tx)
           c == S16(2 * rx + 1)
<1>1. SUFFICES ASSUME f # <<>> PROVE Bytes(f, 6 + k) /\ CutWhole("iec104", f)
  OBVIOUS
<1>2. Len(asdu) = k
  BY DEF Bytes
<1>3. /\ tx \in IEC!SEQUENCE_NUMBERS /\ rx \in IEC!SEQUENCE_NUMBERS /\ 4 + k \in 5..253
      /\ f = a \o b \o c \o asdu
  BY <1>1, <1>2 DEF IEC!BuildApciI, IEC!START_BYTE, IEC!S16, S16
<1>4. 4 + k <= 253 /\ 4 <= 4 + k /\ 4 + k \in Nat
  BY <1>3
<1>5. Bytes(b, 2) /\ Bytes(c, 2)
  BY <1>3, SequenceNumberIs, FieldIsRead
<1>6. Bytes(a, 2) /\ At(a, 0) = 104 /\ At(a, 1) = 4 + k
  BY <1>4, BytesOfTwo
<1> HIDE DEF a, b, c
<1>7. Bytes(a \o b \o c \o asdu, 6 + k) /\ At(a \o b \o c \o asdu, 0) = 104 /\ At(a \o b \o c \o asdu, 1) = 4 + k
  <2>1. Bytes(a \o b, 4) /\ At(a \o b, 0) = 104 /\ At(a \o b, 1) = 4 + k
    BY <1>5, <1>6, BytesJoined
  <2>2. Bytes(a \o b \o c, 6) /\ At(a \o b \o c, 0) = 104 /\ At(a \o b \o c, 1) = 4 + k
    BY <1>5, <2>1, BytesJoined
  <2> QED BY <2>2, BytesJoined
<1>8. 2 + (4 + k) = 6 + k
  OBVIOUS
<1> QED BY <1>3, <1>4, <1>7, <1>8, ApduIsCutWhole

\* Every S-frame, and every U-frame.
THEOREM Iec104ControlFramesAreCutWhole ==
  /\ \A rx : IEC!BuildApciS(rx) = <<>> \/ (Bytes(IEC!BuildApciS(rx), 6) /\ CutWhole("iec104", IEC!BuildApciS(rx)))
  /\ \A fn : IEC!BuildApciU(fn) = <<>> \/ (Bytes(IEC!BuildApciU(fn), 6) /\ CutWhole("iec104", IEC!BuildApciU(fn)))
<1>1. ASSUME NEW rx, NEW f, f = IEC!BuildApciS(rx), f # <<>>
      PROVE  Bytes(f, 6) /\ CutWhole("iec104", f)
  <2> DEFINE a == <<104, 4, 1, 0>>
             b == S16(2 * rx)
  <2>1. rx \in IEC!SEQUENCE_NUMBERS /\ f = a \o b
    BY <1>1 DEF IEC!BuildApciS, IEC!START_BYTE, IEC!S16, S16
  <2>2. Bytes(a, 4) /\ At(a, 0) = 104 /\ At(a, 1) = 4
    BY DEF Bytes, At
  <2>3. Bytes(b, 2)
    BY <2>1, SequenceNumberIs, FieldIsRead
  <2> HIDE DEF a, b
  <2>4. Bytes(f, 6) /\ At(f, 0) = 104 /\ At(f, 1) = 4
    BY <2>1, <2>2, <2>3, BytesJoined
  <2> QED BY <2>4, ApduIsCutWhole
<1>2. ASSUME NEW fn, NEW f, f = IEC!BuildApciU(fn), f # <<>>
      PROVE  Bytes(f, 6) /\ CutWhole("iec104", f)
  <2>1. fn \in Int /\ f = <<104, 4, fn, 0, 0, 0>>
    BY <1>2 DEF IEC!BuildApciU, IEC!START_BYTE, IEC!U_FUNCTIONS, IEC!U_STARTDT_ACT, IEC!U_STARTDT_CON,
                IEC!U_TESTFR_ACT, IEC!U_TESTFR_CON
  <2>2. Bytes(f, 6) /\ At(f, 0) = 104 /\ At(f, 1) = 4
    BY <2>1 DEF Bytes, At
  <2> QED BY <2>2, ApduIsCutWhole
<1> QED BY <1>1, <1>2

-----------------------------------------------------------------------------
(* EtherNet/IP                                                              *)

\* Every frame with the encapsulation header, of any payload its length field has
\* room for.
LEMMA EnipIsCutWhole ==
  ASSUME NEW command \in ENIP_COMMANDS, NEW session, FitsWide(session),
         NEW k \in Nat, k <= 65535, NEW payload, Bytes(payload, k)
  PROVE  /\ Bytes(ENIP!BuildEnip(command, payload, session), 24 + k)
         /\ CutWhole("enip", ENIP!BuildEnip(command, payload, session))
<1> DEFINE a == S16(command)
           b == S16(k)
           c == S32(session)
           d == S32(0)
           e == <<112, 108, 99, 116, 97, 112, 0, 0>>
           f == a \o b \o c \o d \o e \o d \o payload
<1>1. ENIP!BuildEnip(command, payload, session) = f
  <2>1. Len(payload) = k
    BY DEF Bytes
  <2>2. /\ ENIP!S16(command) = a /\ ENIP!S16(k) = b /\ ENIP!S32(session) = c /\ ENIP!S32(0) = d
    BY DEF ENIP!S16, S16, ENIP!S32, S32
  <2>3. ENIP!BuildEnip(command, payload, session) =
          ENIP!S16(command) \o ENIP!S16(k) \o ENIP!S32(session) \o ENIP!S32(0) \o e \o ENIP!S32(0) \o payload
    BY <2>1 DEF ENIP!BuildEnip
  <2> HIDE DEF a, b, c, d, e
  <2> QED BY ONLY <2>2, <2>3
<1>2. command \in WORD /\ k \in WORD /\ command \in Nat
  BY WordIs DEF ENIP_COMMANDS
<1>3. /\ Bytes(a, 2) /\ At(a, 1) * 256 + At(a, 0) = command
      /\ Bytes(b, 2) /\ At(b, 1) * 256 + At(b, 0) = k
  BY <1>2, FieldIsRead
<1>4. Bytes(c, 4) /\ Bytes(d, 4)
  BY LowFirstBytes DEF FitsWide
<1>5. Bytes(e, 8)
  BY DEF Bytes
<1> HIDE DEF a, b, c, d, e
<1> DEFINE ab == a \o b
<1>6. /\ Bytes(ab, 4) /\ At(ab, 0) = At(a, 0) /\ At(ab, 1) = At(a, 1)
      /\ At(ab, 2) = At(b, 0) /\ At(ab, 3) = At(b, 1)
  <2>1. Bytes(ab, 4) /\ At(ab, 0) = At(a, 0) /\ At(ab, 1) = At(a, 1)
    BY <1>3, BytesJoined
  <2>2. At(ab, 2 + 0) = At(b, 0) /\ At(ab, 2 + 1) = At(b, 1)
    BY <1>3, BytesJoined
  <2> QED BY <2>1, <2>2
<1> HIDE DEF ab
<1>7. Bytes(ab \o c \o d, 12) /\ \A i \in 0..3 : At(ab \o c \o d, i) = At(ab, i)
  <2>1. Bytes(ab \o c, 8) /\ \A i \in 0..3 : At(ab \o c, i) = At(ab, i)
    BY <1>4, <1>6, BytesJoined
  <2> QED BY <1>4, <2>1, BytesJoined
<1>8. Bytes(ab \o c \o d \o e \o d, 24) /\ \A i \in 0..3 : At(ab \o c \o d \o e \o d, i) = At(ab, i)
  <2>1. Bytes(ab \o c \o d \o e, 20) /\ \A i \in 0..3 : At(ab \o c \o d \o e, i) = At(ab, i)
    BY <1>5, <1>7, BytesJoined
  <2> QED BY <1>4, <2>1, BytesJoined
<1>9. Bytes(f, 24 + k) /\ \A i \in 0..3 : At(f, i) = At(ab, i)
  BY <1>8, BytesJoined DEF ab
<1> HIDE DEF f
<1>10. L16(f, 0) = command /\ L16(f, 2) = k
  <2>1. L16(f, 0) = At(f, 1) * 256 + At(f, 0) /\ L16(f, 2) = At(f, 3) * 256 + At(f, 2)
    BY DEF L16
  <2>2. At(f, 0) = At(ab, 0) /\ At(f, 1) = At(ab, 1) /\ At(f, 2) = At(ab, 2) /\ At(f, 3) = At(ab, 3)
    BY <1>9
  <2> QED BY <1>3, <1>6, <2>1, <2>2
<1>11. ClaimedLen("enip", f) = 24 + k
  BY <1>10 DEF ClaimedLen
<1> QED BY <1>1, <1>9, <1>11, ClaimCutsWhole DEF LengthFirst, FRAME_HEADER_LEN, MAX_FRAME_LEN

\* The frames that open a session and ask who is there.
THEOREM EnipSessionFramesAreCutWhole ==
  /\ Bytes(ENIP!BuildRegisterSession, 28) /\ CutWhole("enip", ENIP!BuildRegisterSession)
  /\ Bytes(ENIP!BuildListIdentity, 24) /\ CutWhole("enip", ENIP!BuildListIdentity)
<1>1. Bytes(ENIP!S16(1) \o ENIP!S16(0), 4)
  <2>1. ENIP!S16(1) = S16(1) /\ ENIP!S16(0) = S16(0) /\ 0 \in WORD /\ 1 \in WORD
    BY WordIs DEF ENIP!S16, S16
  <2> QED BY <2>1, FieldIsRead, BytesJoined
<1>2. Bytes(<<>>, 0)
  BY DEF Bytes
<1>4. FitsWide(0)
  BY DEF FitsWide
<1>3. /\ 101 \in ENIP_COMMANDS /\ 99 \in ENIP_COMMANDS
      /\ ENIP!BuildRegisterSession = ENIP!BuildEnip(101, ENIP!S16(1) \o ENIP!S16(0), 0)
      /\ ENIP!BuildListIdentity = ENIP!BuildEnip(99, <<>>, 0)
  BY DEF ENIP_COMMANDS, ENIP!BuildRegisterSession, ENIP!BuildListIdentity,
         ENIP!CMD_REGISTER_SESSION, ENIP!CMD_LIST_IDENTITY
<1> QED BY <1>1, <1>2, <1>3, <1>4, EnipIsCutWhole

\* Every frame that carries a CIP service, of a request or of a reply.
THEOREM EnipDataIsCutWhole ==
  ASSUME NEW session, FitsWide(session), NEW reply,
         NEW k \in Nat, k <= 65519, NEW cip, Bytes(cip, k)
  PROVE  /\ Bytes(ENIP!BuildSendRrData(session, cip, reply), 40 + k)
         /\ CutWhole("enip", ENIP!BuildSendRrData(session, cip, reply))
<1> DEFINE f == ENIP!BuildSendRrData(session, cip, reply)
           a == Zeros(6)
           b == S16(2)
           c == S16(0)
           type == IF reply THEN 177 ELSE 178
           t == S16(type)
           n == S16(k)
           payload == a \o b \o c \o c \o t \o n \o cip
<1>1. f = ENIP!BuildEnip(111, payload, session)
  <2>1. Len(cip) = k
    BY DEF Bytes
  <2>2. \A i : ENIP!S16(i) = S16(i)
    BY DEF ENIP!S16, S16
  <2>3. ENIP!Zeros(6) = a
    BY DEF ENIP!Zeros, Zeros
  <2>4. f = ENIP!BuildEnip(111, ENIP!Zeros(6) \o ENIP!S16(2) \o ENIP!S16(0) \o ENIP!S16(0)
                                  \o ENIP!S16(type) \o ENIP!S16(k) \o cip, session)
    BY <2>1 DEF ENIP!BuildSendRrData, ENIP!CMD_SEND_RR_DATA, ENIP!ITEM_ADDRESS_NULL,
                ENIP!ITEM_CIP_UNCONNECTED_REPLY, ENIP!ITEM_CIP_UNCONNECTED_REQUEST
  <2>5. ENIP!S16(2) = b /\ ENIP!S16(0) = c /\ ENIP!S16(type) = t /\ ENIP!S16(k) = n
    BY <2>2
  <2> QED BY <2>3, <2>4, <2>5
<1>2. 2 \in WORD /\ 0 \in WORD /\ type \in WORD /\ k \in WORD
  BY WordIs
<1>3. Bytes(a, 6) /\ Bytes(b, 2) /\ Bytes(c, 2) /\ Bytes(t, 2) /\ Bytes(n, 2)
  BY <1>2, FieldIsRead, ZerosBytes
<1> HIDE DEF a, b, c, t, n
<1>4. Bytes(a \o b \o c, 10)
  BY <1>3, BytesJoined
<1>5. Bytes(a \o b \o c \o c \o t \o n, 16)
  BY <1>3, <1>4, BytesJoined
<1>6. Bytes(payload, 16 + k)
  BY <1>5, BytesJoined
<1> HIDE DEF payload
<1>7. 16 + k \in Nat /\ 16 + k <= 65535 /\ 24 + (16 + k) = 40 + k /\ 111 \in ENIP_COMMANDS
  BY DEF ENIP_COMMANDS
<1> QED BY <1>1, <1>6, <1>7, EnipIsCutWhole

\* The path of a tag is short: a name of 255 bytes, padded, and an index.
LEMMA TagPathBytes ==
  ASSUME NEW name \in Seq(Int), NEW index \in Int, NEW path, path = ENIP!BuildTagPath(name, index)
  PROVE  path = <<>> \/ \E k \in Nat : k <= 260 /\ Bytes(path, k)
<1> DEFINE n == Len(name)
           a == <<145, n>>
           b == Zeros(n % 2)
           c == IF index = -1 THEN <<>> ELSE <<40, index % 256>>
<1>1. SUFFICES ASSUME path # <<>> PROVE \E k \in Nat : k <= 260 /\ Bytes(path, k)
  OBVIOUS
<1>2. n \in 1..255 /\ path = a \o name \o b \o c
  BY <1>1 DEF ENIP!BuildTagPath, ENIP!Zeros, Zeros
<1>3. n \in Nat /\ n <= 255 /\ n % 2 \in Nat /\ n % 2 <= 1
  <2>1. 1 \in Int /\ 255 \in Int
    OBVIOUS
  <2>2. n \in Int /\ 1 <= n /\ n <= 255
    BY <1>2, <2>1, InRange, Zenon
  <2> QED BY <2>2
<1>4. Bytes(name, n) /\ Bytes(a, 2) /\ Bytes(b, n % 2)
  BY <1>3, BytesOfTwo, ZerosBytes DEF Bytes
<1>5. PICK m \in Nat : m <= 2 /\ Bytes(c, m)
  <2>1. Bytes(<<>>, 0)
    BY DEF Bytes
  <2>2. Bytes(<<40, index % 256>>, 2)
    BY BytesOfTwo
  <2> QED BY <2>1, <2>2
<1> HIDE DEF a, b, c, n
<1>6. Bytes(a \o name \o b \o c, 2 + n + (n % 2) + m)
  <2>1. Bytes(a \o name, 2 + n)
    BY <1>3, <1>4, BytesJoined
  <2>2. Bytes(a \o name \o b, 2 + n + (n % 2))
    BY <1>3, <1>4, <2>1, BytesJoined
  <2>3. 2 + n + (n % 2) \in Nat
    BY <1>3
  <2> QED BY <1>5, <2>2, <2>3, BytesJoined
<1>7. 2 + n + (n % 2) + m \in Nat /\ 2 + n + (n % 2) + m <= 260
  BY <1>3, <1>5
<1> QED BY <1>2, <1>6, <1>7

\* A run that something follows begins as it did.
LEMMA JoinedKeepsFirst ==
  ASSUME NEW s, NEW t, NEW m, m \in Nat, m > 0, NEW n, n \in Nat, Bytes(s, m), Bytes(t, n)
  PROVE  Bytes(s \o t, m + n) /\ At(s \o t, 0) = At(s, 0)
BY BytesJoined

\* A read of a tag.
LEMMA ReadTagBytes ==
  ASSUME NEW name \in Seq(Int), NEW index \in Int, NEW count,
         NEW cip, cip = ENIP!BuildReadTag(name, index, count)
  PROVE  cip = <<>> \/ \E k \in Nat : k <= 1300 /\ Bytes(cip, k) /\ At(cip, 0) = 76
<1> DEFINE path == ENIP!BuildTagPath(name, index)
           a == <<76, Len(path) \div 2>>
           b == S16(count)
<1>1. SUFFICES ASSUME cip # <<>> PROVE \E k \in Nat : k <= 1300 /\ Bytes(cip, k) /\ At(cip, 0) = 76
  OBVIOUS
<1>2. ENIP!WORD = WORD
  BY DEF ENIP!WORD, WORD
<1>3. count \in WORD /\ path # <<>> /\ cip = a \o path \o b
  BY <1>1, <1>2 DEF ENIP!BuildReadTag, ENIP!SVC_READ_TAG, ENIP!S16, S16
<1>4. PICK k \in Nat : k <= 260 /\ Bytes(path, k)
  BY <1>3, TagPathBytes
<1> HIDE DEF path
<1>5. Bytes(a, 2) /\ At(a, 0) = 76 /\ Bytes(b, 2)
  <2>1. Len(path) \div 2 \in Int
    BY <1>4 DEF Bytes
  <2> QED BY <1>3, <2>1, BytesOfTwo, FieldIsRead
<1> HIDE DEF a, b
<1>6. Bytes(a \o path \o b, 2 + k + 2) /\ At(a \o path \o b, 0) = 76
  <2>1. Bytes(a \o path, 2 + k) /\ At(a \o path, 0) = 76
    BY <1>4, <1>5, BytesJoined
  <2>2. 2 + k \in Nat /\ 0 < 2 + k
    BY <1>4
  <2> QED BY <1>5, <2>1, <2>2, BytesJoined
<1>7. 2 + k + 2 \in Nat /\ 2 + k + 2 <= 1300
  BY <1>4
<1> QED BY <1>3, <1>6, <1>7

\* A write of one: no more than 480 words.
LEMMA WriteTagBytes ==
  ASSUME NEW name \in Seq(Int), NEW index \in Int, NEW type, NEW values \in Seq(Int),
         \A i \in DOMAIN values : values[i] \in WORD,
         NEW cip, cip = ENIP!BuildWriteTag(name, index, type, values)
  PROVE  cip = <<>> \/ \E k \in Nat : k <= 1300 /\ Bytes(cip, k) /\ At(cip, 0) = 77
<1> DEFINE path == ENIP!BuildTagPath(name, index)
           n == Len(values)
           size == ENIP!TYPE_CODES[type]
           words == [i \in DOMAIN values |-> ENIP!S16(values[i])]
           a == <<77, Len(path) \div 2>>
           b == S16(type)
           c == S16(n \div size)
           e == ENIP!FlattenSeq(words)
<1>1. SUFFICES ASSUME cip # <<>> PROVE \E k \in Nat : k <= 1300 /\ Bytes(cip, k) /\ At(cip, 0) = 77
  OBVIOUS
<1>2. /\ type \in DOMAIN ENIP!TYPE_CODES /\ values # <<>> /\ ~(n * size > 480) /\ path # <<>>
      /\ cip = a \o path \o b \o c \o e
  BY <1>1 DEF ENIP!BuildWriteTag, ENIP!SVC_WRITE_TAG, ENIP!S16, S16
<1>3. type \in {193, 194, 195, 196, 197, 202, 211} /\ size \in {1, 2, 4}
  BY <1>2 DEF ENIP!TYPE_CODES, ENIP!INT, ENIP!DINT, ENIP!LINT, ENIP!REAL
<1>4. n \in Nat /\ n # 0 /\ n <= 480 /\ n \div size \in WORD /\ type \in WORD /\ 2 * n \in Nat
  <2>0. type \in WORD
    BY <1>3, WordIs
  <2>1. n \in Nat /\ n # 0
    BY <1>2, EmptySeq, LenProperties
  <2> HIDE DEF n, size
  <2>2. n <= 480
    BY <1>2, <1>3, <2>1
  <2>3. n \div size \in Nat /\ n \div size <= 65535
    <3>1. CASE size = 1
      BY <2>1, <2>2, <3>1
    <3>2. CASE size = 2
      BY <2>1, <2>2, <3>2
    <3>3. CASE size = 4
      BY <2>1, <2>2, <3>3
    <3> QED BY <1>3, <3>1, <3>2, <3>3
  <2>4. n \div size \in WORD
    BY <2>3, WordIs
  <2> QED BY <2>0, <2>1, <2>2, <2>4
<1>5. Bytes(e, 2 * n)
  <2>1. DOMAIN values = 1..n
    BY LenProperties
  <2>2. ASSUME NEW i \in 1..n PROVE words[i] = S16(values[i]) /\ Bytes(S16(values[i]), 2)
    BY <2>1, FieldIsRead DEF ENIP!S16, S16
  <2>3. Len(words) = n /\ words # <<>>
    BY <1>4, <2>1
  <2> HIDE DEF words, n
  <2>4. ENIP!FlattenSeq(words) = FlattenSeq(words)
    BY DEF ENIP!FlattenSeq, FlattenSeq
  <2> QED BY <1>4, <2>2, <2>3, <2>4, FlattenedLength
<1>6. PICK k \in Nat : k <= 260 /\ Bytes(path, k)
  BY <1>2, TagPathBytes
<1> HIDE DEF path, n, size
<1>7. Bytes(a, 2) /\ At(a, 0) = 77 /\ Bytes(b, 2) /\ Bytes(c, 2)
  <2>1. Len(path) \div 2 \in Int
    BY <1>6 DEF Bytes
  <2> QED BY <1>4, <2>1, BytesOfTwo, FieldIsRead
<1> HIDE DEF a, b, c, e
<1>8. Bytes(a \o path \o b \o c \o e, 6 + k + 2 * n) /\ At(a \o path \o b \o c \o e, 0) = 77
  <2>0. Bytes(a \o path, 2 + k) /\ At(a \o path, 0) = 77
    BY <1>6, <1>7, BytesJoined
  <2>1. PICK i, j, m : i = 2 + k /\ j = i + 2 /\ m = j + 2
    OBVIOUS
  <2>2. i \in Nat /\ i > 0 /\ j \in Nat /\ j > 0 /\ m \in Nat /\ m > 0 /\ 2 \in Nat /\ m = 6 + k
    BY <2>1
  <2>3. Bytes(a \o path \o b, i + 2) /\ At(a \o path \o b, 0) = At(a \o path, 0)
    BY ONLY <1>7, <2>0, <2>1, <2>2, JoinedKeepsFirst
  <2>4. Bytes(a \o path \o b \o c, j + 2) /\ At(a \o path \o b \o c, 0) = At(a \o path \o b, 0)
    BY ONLY <1>7, <2>1, <2>2, <2>3, JoinedKeepsFirst
  <2>5. Bytes(a \o path \o b \o c \o e, m + 2 * n) /\ At(a \o path \o b \o c \o e, 0) = At(a \o path \o b \o c, 0)
    BY ONLY <1>4, <1>5, <2>1, <2>2, <2>4, JoinedKeepsFirst
  <2> QED BY <2>0, <2>2, <2>3, <2>4, <2>5
<1>9. 6 + k + 2 * n \in Nat /\ 6 + k + 2 * n <= 1300
  BY <1>4, <1>6
<1> QED BY <1>2, <1>8, <1>9

\* What is short is cut whole in the envelope the adapter puts it in, or without.
LEMMA EnvelopeIsCutWhole ==
  ASSUME NEW session, FitsWide(session), NEW k \in Nat, k <= 1300, NEW cip, Bytes(cip, k), NEW reply
  PROVE  /\ IsFrame("enip", ENIP!BuildSendRrData(session, cip, reply))
         /\ IsFrame("enip", ENIP!BuildSendRrData(session, ENIP!BuildUnconnectedSend(cip), reply))
<1>1. k <= 65519 /\ 7 + k \in Nat /\ 7 + k <= 65519
  OBVIOUS
<1>2. IsFrame("enip", ENIP!BuildSendRrData(session, cip, reply))
  BY <1>1, EnipDataIsCutWhole DEF IsFrame, Bytes
<1>3. Bytes(ENIP!BuildUnconnectedSend(cip), 7 + k)
  <2> DEFINE a == <<82>>
             b == S16(k)
             c == <<1, 1, 0, 0>>
  <2>1. ENIP!BuildUnconnectedSend(cip) = a \o b \o cip \o c
    BY DEF ENIP!BuildUnconnectedSend, ENIP!SVC_UNCONNECTED_SEND, ENIP!S16, S16, Bytes
  <2>2. Bytes(a, 1) /\ Bytes(c, 4)
    BY DEF Bytes
  <2>3. Bytes(b, 2)
    BY WordIs, FieldIsRead
  <2> HIDE DEF a, b, c
  <2>4. Bytes(a \o b \o cip, 3 + k)
    BY <2>2, <2>3, BytesJoined
  <2>5. 3 + k \in Nat /\ (3 + k) + 4 = 7 + k
    OBVIOUS
  <2>6. Bytes(a \o b \o cip \o c, (3 + k) + 4)
    BY <2>2, <2>4, <2>5, BytesJoined
  <2> QED BY <2>1, <2>5, <2>6
<1>4. IsFrame("enip", ENIP!BuildSendRrData(session, ENIP!BuildUnconnectedSend(cip), reply))
  <2> DEFINE sent == ENIP!BuildUnconnectedSend(cip)
  <2> HIDE DEF sent
  <2>1. Bytes(sent, 7 + k) /\ 7 + k \in Nat /\ 7 + k <= 65519
    BY <1>1, <1>3 DEF sent
  <2>2. /\ Bytes(ENIP!BuildSendRrData(session, sent, reply), 40 + (7 + k))
        /\ CutWhole("enip", ENIP!BuildSendRrData(session, sent, reply))
    BY ONLY FitsWide(session), <2>1, EnipDataIsCutWhole
  <2> QED BY ONLY <2>2 DEF IsFrame, Bytes, sent
<1> QED BY <1>2, <1>4

\* Every request for a tag, a read or a write, in the envelope the adapter puts it
\* in or without.
THEOREM EnipTagRequestIsCutWhole ==
  ASSUME NEW session, FitsWide(session), NEW name \in Seq(Int), NEW index \in Int,
         NEW count, NEW type, NEW values \in Seq(Int), \A i \in DOMAIN values : values[i] \in WORD,
         NEW cip \in {ENIP!BuildReadTag(name, index, count), ENIP!BuildWriteTag(name, index, type, values)},
         cip # <<>>, NEW reply
  PROVE  /\ IsFrame("enip", ENIP!BuildSendRrData(session, cip, reply))
         /\ IsFrame("enip", ENIP!BuildSendRrData(session, ENIP!BuildUnconnectedSend(cip), reply))
<1>1. PICK k \in Nat : k <= 1300 /\ Bytes(cip, k)
  BY ReadTagBytes, WriteTagBytes
<1>2. ASSUME NEW m \in Nat, m <= 1300, NEW f, Bytes(f, m)
      PROVE  /\ IsFrame("enip", ENIP!BuildSendRrData(session, f, reply))
             /\ IsFrame("enip", ENIP!BuildSendRrData(session, ENIP!BuildUnconnectedSend(f), reply))
  BY ONLY FitsWide(session), <1>2, EnvelopeIsCutWhole
<1> QED BY ONLY <1>1, <1>2

-----------------------------------------------------------------------------
(* MELSEC                                                                   *)

\* A part of a run: how long it is, and what is in it.
LEMMA MidBytes ==
  ASSUME NEW n \in Nat, NEW f, Bytes(f, n), NEW i \in Nat, NEW j \in Nat, i <= j, j <= n
  PROVE  /\ Bytes(Mid(f, i, j), j - i)
         /\ \A k \in Nat : k < j - i => At(Mid(f, i, j), k) = At(f, i + k)
<1> DEFINE u == Upto(f, j)
<1>1. u \in Seq(Int) /\ Len(u) = j /\ \A k \in Nat : k < j => At(u, k) = At(f, k)
  BY UptoIsPrefix DEF Bytes
<1> HIDE DEF u
<1>2. \A k \in 1..j : u[k] \in Int
  BY <1>1, ElementOfSeq
<1>3. Mid(f, i, j) = SubSeq(u, i + 1, j)
  BY <1>1 DEF Mid, From, u
<1>4. \A k \in (i + 1)..j : u[k] \in Int
  BY <1>2
<1>5. /\ SubSeq(u, i + 1, j) \in Seq(Int)
      /\ Len(SubSeq(u, i + 1, j)) = IF i + 1 <= j THEN j - (i + 1) + 1 ELSE 0
      /\ \A k \in 1..j - (i + 1) + 1 : SubSeq(u, i + 1, j)[k] = u[i + 1 + k - 1]
  BY <1>4, SubSeqProperties
<1>6. Len(SubSeq(u, i + 1, j)) = j - i
  BY <1>5
<1>7. ASSUME NEW k \in Nat, k < j - i PROVE At(SubSeq(u, i + 1, j), k) = At(f, i + k)
  <2>1. k + 1 \in 1..j - (i + 1) + 1 /\ i + 1 + (k + 1) - 1 = i + k + 1 /\ i + k \in Nat /\ i + k < j
    BY <1>7
  <2>2. At(SubSeq(u, i + 1, j), k) = u[i + k + 1]
    BY <1>5, <1>6, <1>7, <2>1 DEF At
  <2>3. At(u, i + k) = u[i + k + 1]
    BY <1>1, <2>1 DEF At
  <2> QED BY <1>1, <2>1, <2>2, <2>3
<1> QED BY <1>3, <1>5, <1>6, <1>7 DEF Bytes

\* Two runs of the same length with the same bytes are the same.
LEMMA SameBytes ==
  ASSUME NEW n \in Nat, NEW s, NEW t, Bytes(s, n), Bytes(t, n),
         \A k \in Nat : k < n => At(s, k) = At(t, k)
  PROVE  s = t
<1>1. s \in Seq(Int) /\ t \in Seq(Int) /\ Len(s) = n /\ Len(t) = n
  BY DEF Bytes
<1>2. ASSUME NEW k \in 1..n PROVE s[k] = t[k]
  <2>1. k - 1 \in Nat /\ k - 1 < n /\ (k - 1) + 1 = k
    OBVIOUS
  <2>2. At(s, k - 1) = At(t, k - 1)
    BY <2>1
  <2> QED BY <1>1, <2>1, <2>2 DEF At
<1> QED BY <1>1, <1>2, SeqEqual

\* A part that has the bytes of s is s.
LEMMA MidIs ==
  ASSUME NEW l \in Nat, NEW m \in Nat, NEW n \in Nat, NEW f, NEW s, Bytes(f, n), Bytes(s, m),
         l + m <= n, \A k \in Nat : k < m => At(f, l + k) = At(s, k)
  PROVE  Mid(f, l, l + m) = s
<1>1. l + m \in Nat /\ l <= l + m /\ (l + m) - l = m
  OBVIOUS
<1>2. Bytes(Mid(f, l, l + m), m) /\ \A k \in Nat : k < m => At(Mid(f, l, l + m), k) = At(f, l + k)
  BY <1>1, MidBytes
<1> QED BY <1>2, SameBytes

\* The rest of a run that has the bytes of s is s, and so is its beginning.
LEMMA FromIs ==
  ASSUME NEW l \in Nat, NEW m \in Nat, NEW f, NEW s, Bytes(f, l + m), Bytes(s, m),
         \A k \in Nat : k < m => At(f, l + k) = At(s, k)
  PROVE  From(f, l) = s
<1>1. l + m \in Nat /\ l + m <= l + m /\ Len(f) = l + m /\ f \in Seq(Int)
  BY DEF Bytes
<1>2. Mid(f, l, l + m) = s
  BY <1>1, MidIs
<1>3. Upto(f, l + m) = f
  <2>1. /\ Upto(f, l + m) \in Seq(Int) /\ Len(Upto(f, l + m)) = l + m
        /\ \A i \in Nat : i < l + m => At(Upto(f, l + m), i) = At(f, i)
    BY <1>1, UptoIsPrefix
  <2> DEFINE n == l + m
             u == Upto(f, n)
  <2>2. n \in Nat /\ Bytes(u, n) /\ Bytes(f, n) /\ \A i \in Nat : i < n => At(u, i) = At(f, i)
    BY <1>1, <2>1 DEF Bytes
  <2> HIDE DEF u, n
  <2>3. u = f
    BY ONLY <2>2, SameBytes
  <2> QED BY <2>3 DEF u, n
<1> QED BY <1>2, <1>3 DEF Mid

LEMMA UptoIs ==
  ASSUME NEW l \in Nat, NEW n \in Nat, NEW f, NEW s, Bytes(f, n), Bytes(s, l), l <= n,
         \A k \in Nat : k < l => At(f, k) = At(s, k)
  PROVE  Upto(f, l) = s
<1>1. /\ Upto(f, l) \in Seq(Int) /\ Len(Upto(f, l)) = l
      /\ \A i \in Nat : i < l => At(Upto(f, l), i) = At(f, i)
  BY UptoIsPrefix DEF Bytes
<1>2. Bytes(Upto(f, l), l) /\ \A i \in Nat : i < l => At(Upto(f, l), i) = At(s, i)
  BY <1>1 DEF Bytes
<1> QED BY <1>2, SameBytes

\* A hexadecimal digit is one, and of the value it was written for.
LEMMA DigitIsRead ==
  ASSUME NEW n \in Nat, n <= 15
  PROVE  Digit(n) \in Int /\ Nibble(Digit(n)) = n /\ Digit(n) \in (48..57) \cup (65..70) \cup (97..102)
<1>1. CASE n < 10
  <2>1. Digit(n) = 48 + n /\ 48 + n \in 48..57
    BY <1>1 DEF Digit
  <2> QED BY <2>1 DEF Nibble
<1>2. CASE ~(n < 10)
  <2>1. Digit(n) = 55 + n /\ 55 + n \in 65..70
    BY <1>2 DEF Digit
  <2>2. 55 + n \notin 48..57
    BY <1>2
  <2> QED BY <2>1, <2>2 DEF Nibble
<1> QED BY <1>1, <1>2

\* The value of four characters: of digits, what they are worth; of others, -1;
\* a number in any case.
LEMMA UnHexOfFour ==
  ASSUME NEW s, Bytes(s, 4)
  PROVE  /\ UnHex(s) = IF IsHex(s) THEN ((Nibble(s[1]) * 16 + Nibble(s[2])) * 16 + Nibble(s[3])) * 16 + Nibble(s[4])
                       ELSE -1
         /\ UnHex(s) \in Int
<1> DEFINE a == Nibble(s[1])
           b == Nibble(s[2])
           c == Nibble(s[3])
           d == Nibble(s[4])
           g == [i \in 0..4 |-> IF i = 0 THEN 0 ELSE IF i = 1 THEN a ELSE IF i = 2 THEN a * 16 + b
                                ELSE IF i = 3 THEN (a * 16 + b) * 16 + c ELSE ((a * 16 + b) * 16 + c) * 16 + d]
           Reads(h) == h = [i \in 0..4 |-> IF i = 0 THEN 0 ELSE h[i - 1] * 16 + Nibble(s[i])]
           G == CHOOSE h : Reads(h)
<1>1. Len(s) = 4 /\ \A i \in 1..4 : Nibble(s[i]) \in Int
  <2>1. Len(s) = 4 /\ \A i \in 1..4 : s[i] \in Int
    BY ElementOfSeq DEF Bytes
  <2> QED BY <2>1 DEF Nibble
<1>2. a \in Int /\ b \in Int /\ c \in Int /\ d \in Int
  BY <1>1
<1> HIDE DEF a, b, c, d
<1>3. Reads(g)
  <2>1. /\ g[0] = 0 /\ g[1] = g[0] * 16 + Nibble(s[1]) /\ g[2] = g[1] * 16 + Nibble(s[2])
        /\ g[3] = g[2] * 16 + Nibble(s[3]) /\ g[4] = g[3] * 16 + Nibble(s[4])
    BY <1>2 DEF a, b, c, d
  <2>2. \A i \in 0..4 : g[i] = IF i = 0 THEN 0 ELSE g[i - 1] * 16 + Nibble(s[i])
    BY <2>1
  <2>3. g = [i \in 0..4 |-> g[i]]
    OBVIOUS
  <2> HIDE DEF g
  <2> QED BY <2>2, <2>3
<1>4. ASSUME NEW h, Reads(h) PROVE h[4] = ((a * 16 + b) * 16 + c) * 16 + d
  <2>1. \A i \in 0..4 : h[i] = IF i = 0 THEN 0 ELSE h[i - 1] * 16 + Nibble(s[i])
    BY <1>4
  <2>2. h[0] = 0 /\ h[1] = h[0] * 16 + a /\ h[2] = h[1] * 16 + b /\ h[3] = h[2] * 16 + c /\ h[4] = h[3] * 16 + d
    BY <2>1 DEF a, b, c, d
  <2> QED BY <1>2, <2>2
<1>5. UnHex(s) = IF IsHex(s) THEN G[4] ELSE -1
  BY <1>1 DEF UnHex
<1>6. Reads(G)
  BY <1>3
<1> HIDE DEF G, Reads
<1>7. G[4] = ((a * 16 + b) * 16 + c) * 16 + d
  BY <1>4, <1>6
<1>8. ((a * 16 + b) * 16 + c) * 16 + d \in Int
  BY <1>2
<1> QED BY <1>5, <1>7, <1>8 DEF a, b, c, d

\* A field of two bytes, written in four digits.
LEMMA HexIsRead == ASSUME NEW n \in WORD PROVE Bytes(Hex(n, 4), 4) /\ UnHex(Hex(n, 4)) = n
<1> DEFINE a == (n \div 4096) % 16
           b == (n \div 256) % 16
           c == (n \div 16) % 16
           d == (n \div 1) % 16
           s == Hex(n, 4)
<1>1. /\ a \in Nat /\ b \in Nat /\ c \in Nat /\ d \in Nat /\ a <= 15 /\ b <= 15 /\ c <= 15 /\ d <= 15
      /\ ((a * 16 + b) * 16 + c) * 16 + d = n
  <2>1. n \in Nat /\ n <= 65535
    BY WordIs
  <2> QED BY <2>1
<1>2. /\ Len(s) = 4 /\ DOMAIN s = 1..4
      /\ s[1] = Digit(a) /\ s[2] = Digit(b) /\ s[3] = Digit(c) /\ s[4] = Digit(d)
  BY DEF Hex, SIXTEENS
<1> HIDE DEF a, b, c, d
<1>3. Bytes(s, 4)
  <2>1. s = [i \in 1..4 |-> s[i]] /\ \A i \in 1..4 : s[i] \in Int
    BY <1>1, <1>2, DigitIsRead DEF Hex
  <2> HIDE DEF s
  <2>2. s \in [1..4 -> Int] /\ 4 \in Nat
    BY <2>1
  <2>3. s \in Seq(Int)
    BY <2>2, SeqDef
  <2> QED BY <1>2, <2>3 DEF Bytes
<1> HIDE DEF s
<1>4. IsHex(s)
  <2>1. s # <<>>
    BY <1>2
  <2>2. \A i \in DOMAIN s : s[i] \in (48..57) \cup (65..70) \cup (97..102)
    BY <1>1, <1>2, DigitIsRead
  <2> QED BY <2>1, <2>2 DEF IsHex
<1>5. /\ Nibble(s[1]) = a /\ Nibble(s[2]) = b /\ Nibble(s[3]) = c /\ Nibble(s[4]) = d
  BY <1>1, <1>2, DigitIsRead
<1>6. UnHex(s) = n
  BY <1>1, <1>3, <1>4, <1>5, UnHexOfFour
<1> QED BY <1>3, <1>6 DEF s

\* What the length field at says, of two bytes or of four digits.
FieldValue(f, at, sz) == IF sz = 4 THEN UnHex(Mid(f, at, at + 4)) ELSE L16(f, at)

\* How the run before the length field begins, in the four formats, in requests and
\* in answers.
Begins(r, at, sz) ==
  \/ at = 7 /\ sz = 2 /\ At(r, 0) \in {80, 208} /\ At(r, 1) = 0
  \/ at = 11 /\ sz = 2 /\ At(r, 0) \in {84, 212} /\ At(r, 1) = 0
  \/ at = 14 /\ sz = 4 /\ At(r, 0) \in {53, 68} /\ At(r, 1) = 48 /\ At(r, 2) = 48 /\ At(r, 3) = 48
  \/ at = 22 /\ sz = 4 /\ At(r, 0) \in {53, 68} /\ At(r, 1) = 52 /\ At(r, 2) = 48 /\ At(r, 3) = 48

\* Four bytes tell where the length field is.
LEMMA LengthFieldIs ==
  ASSUME NEW n \in Nat, 4 <= n, NEW f, Bytes(f, n), NEW at, NEW sz, Begins(f, at, sz)
  PROVE  MelsecLengthField(f) = <<at, sz>>
<1>1. Bytes(Upto(f, 4), 4) /\ \A i \in Nat : i < 4 => At(Upto(f, 4), i) = At(f, i)
  BY UptoIsPrefix DEF Bytes
<1> DEFINE u == Upto(f, 4)
<1> HIDE DEF u
<1>2. /\ Len(u) = 4 /\ u \in Seq(Int)
      /\ u[1] = At(f, 0) /\ u[2] = At(f, 1) /\ u[3] = At(f, 2) /\ u[4] = At(f, 3)
  <2>1. /\ At(u, 0) = At(f, 0) /\ At(u, 1) = At(f, 1) /\ At(u, 2) = At(f, 2) /\ At(u, 3) = At(f, 3)
        /\ Len(u) = 4 /\ u \in Seq(Int)
    BY <1>1 DEF u, Bytes
  <2> QED BY <2>1 DEF At
<1>3. /\ u = <<53, 52, 48, 48>> <=> At(f, 0) = 53 /\ At(f, 1) = 52 /\ At(f, 2) = 48 /\ At(f, 3) = 48
      /\ u = <<68, 52, 48, 48>> <=> At(f, 0) = 68 /\ At(f, 1) = 52 /\ At(f, 2) = 48 /\ At(f, 3) = 48
  <2> DEFINE a == At(f, 0)
             b == At(f, 1)
             c == At(f, 2)
             d == At(f, 3)
  <2> HIDE DEF a, b, c, d
  <2>1. u = <<a, b, c, d>>
    BY <1>2, SeqEqual DEF a, b, c, d
  <2> QED BY <2>1 DEF a, b, c, d
<1>4. MelsecLengthField(f) =
        CASE At(f, 1) = 0 /\ At(f, 0) \in {80, 208} -> <<7, 2>>
          [] At(f, 1) = 0 /\ At(f, 0) \in {84, 212} -> <<11, 2>>
          [] At(f, 0) \in {53, 68} -> IF u \in {<<53, 52, 48, 48>>, <<68, 52, 48, 48>>} THEN <<22, 4>> ELSE <<14, 4>>
          [] OTHER -> <<0, 0>>
  BY DEF MelsecLengthField, u
<1> QED BY <1>3, <1>4 DEF Begins

\* Two are enough to tell that there is one.
LEMMA LengthFieldIsSome ==
  ASSUME NEW f, NEW at, NEW sz, Begins(f, at, sz)
  PROVE  \A u : At(u, 0) = At(f, 0) /\ At(u, 1) = At(f, 1) => MelsecLengthField(u)[2] # 0
<1> TAKE u
<1> HAVE At(u, 0) = At(f, 0) /\ At(u, 1) = At(f, 1)
<1>1. MelsecLengthField(u) \in {<<7, 2>>, <<11, 2>>, <<22, 4>>, <<14, 4>>}
  BY DEF Begins, MelsecLengthField
<1> QED BY <1>1

\* A frame whose length field tells what follows it is cut whole.
LEMMA MelsecFieldCutsWhole ==
  ASSUME NEW n \in Nat, n <= 16416, NEW f, Bytes(f, n), NEW at \in Nat, NEW sz \in {2, 4}, 4 <= at,
         at + sz <= n, Begins(f, at, sz), FieldValue(f, at, sz) = n - (at + sz)
  PROVE  CutWhole("melsec", f)
<1>1. f \in Seq(Int) /\ Len(f) = n /\ 4 <= n /\ n # 0 /\ sz \in Nat /\ sz # 0
  BY DEF Bytes
<1>2. \A b : TryFrameLen("melsec", b) = Bounded("melsec", b, MelsecFrameLen(b), 1)
  BY DEF TryFrameLen, ClaimedLen
<1>3. \A b : MelsecFrameLen(b) = FieldEnd(b, MelsecLengthField(b)[1], MelsecLengthField(b)[2],
                                         FieldValue(b, MelsecLengthField(b)[1], MelsecLengthField(b)[2]))
  BY DEF MelsecFrameLen, FieldValue
<1>4. ASSUME NEW b, NEW k \in Nat, Len(b) = k, at + sz <= k, MelsecLengthField(b) = <<at, sz>>,
             FieldValue(b, at, sz) = n - (at + sz)
      PROVE  MelsecFrameLen(b) = n
  <2>1. MelsecFrameLen(b) = FieldEnd(b, at, sz, n - (at + sz))
    BY <1>3, <1>4
  <2>2. n - (at + sz) # -1 /\ at + sz + (n - (at + sz)) = n
    BY <1>1
  <2> QED BY <1>1, <1>4, <2>1, <2>2 DEF FieldEnd
<1>5. TryFrameLen("melsec", f) = n
  <2>1. MelsecFrameLen(f) = n
    BY <1>1, <1>4, LengthFieldIs
  <2>2. TryFrameLen("melsec", f) = Bounded("melsec", f, n, 1)
    BY <1>2, <2>1
  <2>3. MAX_FRAME_LEN["melsec"] = 16416 /\ n # More
    BY DEF MAX_FRAME_LEN, More
  <2>4. ~(n > MAX_FRAME_LEN["melsec"] \/ n < 1) /\ ~(Len(f) < n)
    BY <1>1, <2>3
  <2>5. Bounded("melsec", f, n, 1) = n
    BY ONLY <2>3, <2>4 DEF Bounded
  <2> QED BY <2>2, <2>5
<1>6. ASSUME NEW k \in 0..n - 1 PROVE TryFrameLen("melsec", Upto(f, k)) = More
  <2> DEFINE u == Upto(f, k)
  <2>1. k \in Nat /\ k < n /\ k <= n
    BY <1>6
  <2>2. Bytes(u, k) /\ Len(u) = k /\ \A i \in Nat : i < k => At(u, i) = At(f, i)
    BY <1>1, <2>1, UptoIsPrefix DEF Bytes
  <2> HIDE DEF u
  <2>3. SUFFICES MelsecFrameLen(u) = More \/ MelsecFrameLen(u) = n
    <3>1. TryFrameLen("melsec", u) = Bounded("melsec", u, MelsecFrameLen(u), 1)
      BY <1>2
    <3>2. MelsecFrameLen(u) = More \/ MelsecFrameLen(u) = n => TryFrameLen("melsec", u) = More
      BY <1>1, <2>1, <2>2, <3>1 DEF Bounded, MAX_FRAME_LEN, More
    <3> QED BY <3>2 DEF u
  <2>4. CASE k < 2
    BY <1>3, <2>1, <2>2, <2>4 DEF FieldEnd
  <2>5. CASE 2 <= k /\ k < 4
    <3>1. MelsecLengthField(u)[2] # 0
      BY <2>2, <2>5, LengthFieldIsSome
    <3> QED BY <1>3, <2>1, <2>2, <2>5, <3>1 DEF FieldEnd
  <2>6. CASE 4 <= k
    <3>1. Begins(u, at, sz)
      <4>1. At(u, 0) = At(f, 0) /\ At(u, 1) = At(f, 1) /\ At(u, 2) = At(f, 2) /\ At(u, 3) = At(f, 3)
        BY <2>2, <2>6
      <4> QED BY <4>1 DEF Begins
    <3>2. MelsecLengthField(u) = <<at, sz>>
      BY <2>1, <2>2, <2>6, <3>1, LengthFieldIs
    <3>3. CASE k < at + sz
      <4>1. MelsecFrameLen(u) = FieldEnd(u, at, sz, FieldValue(u, at, sz))
        BY <1>3, <3>2
      <4> QED BY <1>1, <2>1, <2>2, <2>6, <3>3, <4>1 DEF FieldEnd
    <3>4. CASE at + sz <= k
      <4>1. CASE sz = 4
        <5>1. at + 4 \in Nat /\ at <= at + 4 /\ at + 4 <= k /\ at + 4 <= n /\ (at + 4) - at = 4
          BY <1>1, <2>1, <3>4, <4>1
        <5>2. Bytes(Mid(u, at, at + 4), 4) /\ \A i \in Nat : i < 4 => At(Mid(u, at, at + 4), i) = At(u, at + i)
          <6>1. k \in Nat /\ Bytes(u, k)
            BY <2>1, <2>2
          <6> QED BY ONLY at \in Nat, <5>1, <6>1, MidBytes
        <5>3. Bytes(Mid(f, at, at + 4), 4) /\ \A i \in Nat : i < 4 => At(Mid(f, at, at + 4), i) = At(f, at + i)
          BY <5>1, MidBytes
        <5>4. ASSUME NEW i \in Nat, i < 4 PROVE At(Mid(u, at, at + 4), i) = At(Mid(f, at, at + 4), i)
          <6>1. at + i \in Nat /\ at + i < k
            BY <5>1, <5>4
          <6> QED BY <2>2, <5>2, <5>3, <5>4, <6>1
        <5>5. Mid(u, at, at + 4) = Mid(f, at, at + 4)
          BY <5>2, <5>3, <5>4, SameBytes
        <5>6. FieldValue(u, at, sz) = FieldValue(f, at, sz)
          BY <4>1, <5>5 DEF FieldValue
        <5> QED BY <1>4, <2>1, <2>2, <3>2, <3>4, <5>6
      <4>2. CASE sz = 2
        <5>1. At(u, at) = At(f, at) /\ At(u, at + 1) = At(f, at + 1)
          <6>1. at + 1 \in Nat /\ at + 1 < k /\ at < k
            BY <2>1, <3>4, <4>2
          <6> QED BY <2>2, <6>1
        <5>2. FieldValue(u, at, sz) = FieldValue(f, at, sz)
          BY <4>2, <5>1 DEF FieldValue, L16
        <5> QED BY <1>4, <2>1, <2>2, <3>2, <3>4, <5>2
      <4> QED BY <4>1, <4>2
    <3>5. k < at + sz \/ at + sz <= k
      BY <1>1, <2>1
    <3> QED BY <3>3, <3>4, <3>5
  <2>7. k < 2 \/ (2 <= k /\ k < 4) \/ 4 <= k
    BY <2>1
  <2> QED BY <2>4, <2>5, <2>6, <2>7
<1> QED BY <1>1, <1>5, <1>6 DEF CutWhole

\* A run before the length field, the field with what follows it, and that: what is
\* where.
MelsecParts(f, r, l, s, e, sz, data, k) ==
  /\ Bytes(f, l + sz + sz + k) /\ From(f, l + sz + sz) = data
  /\ \A i \in Nat : i < l => At(f, i) = At(r, i)
  /\ \A i \in Nat : i < sz => At(f, l + i) = At(s, i) /\ At(f, l + sz + i) = At(e, i)
  /\ Begins(f, l, sz) /\ FieldValue(f, l, sz) = sz + k

LEMMA MelsecPartsAreRead ==
  ASSUME NEW l \in Nat, NEW sz \in Nat, NEW k \in Nat, k <= 4000, NEW r, NEW s, NEW e, NEW data,
         Bytes(r, l), Bytes(s, sz), Bytes(e, sz), Bytes(data, k), Begins(r, l, sz),
         s = IF sz = 4 THEN Hex(sz + k, 4) ELSE S16(sz + k)
  PROVE  MelsecParts(r \o s \o e \o data, r, l, s, e, sz, data, k)
<1> DEFINE rs == r \o s
           rse == rs \o e
           f == rse \o data
           n == l + sz + sz + k
           h == l + sz + sz
<1>1. /\ sz \in {2, 4} /\ 4 <= l /\ l + sz \in Nat /\ h \in Nat /\ n \in Nat
      /\ l + sz <= n /\ sz + k \in Nat /\ sz + k <= 65535 /\ n = h + k
  BY DEF Begins
<1>2. /\ Bytes(rs, l + sz) /\ \A i \in Nat : i < l => At(rs, i) = At(r, i)
      /\ \A i \in Nat : At(rs, l + i) = At(s, i)
  BY BytesJoined
<1> HIDE DEF rs
<1>4. /\ Bytes(rse, h) /\ \A i \in Nat : i < l + sz => At(rse, i) = At(rs, i)
      /\ \A i \in Nat : At(rse, l + sz + i) = At(e, i)
  BY <1>1, <1>2, BytesJoined
<1> HIDE DEF rse
<1>5. /\ Bytes(f, n) /\ \A i \in Nat : i < h => At(f, i) = At(rse, i)
      /\ \A i \in Nat : At(f, h + i) = At(data, i)
  <2> HIDE DEF h
  <2>1. Bytes(f, h + k) /\ (\A i \in Nat : i < h => At(f, i) = At(rse, i)) /\ \A i \in Nat : At(f, h + i) = At(data, i)
    BY <1>1, <1>4, BytesJoined
  <2> QED BY <1>1, <2>1
<1> HIDE DEF f
<1>6. ASSUME NEW i \in Nat, i < l PROVE At(f, i) = At(r, i)
  <2>1. i < l + sz /\ i < h
    BY <1>1, <1>6
  <2> QED BY <1>2, <1>4, <1>5, <1>6, <2>1
<1>7. ASSUME NEW i \in Nat, i < sz PROVE At(f, l + i) = At(s, i) /\ At(f, l + sz + i) = At(e, i)
  <2>1. l + i \in Nat /\ l + i < l + sz /\ l + i < h /\ l + sz + i \in Nat /\ l + sz + i < h
    BY <1>1, <1>7
  <2> QED BY <1>2, <1>4, <1>5, <2>1
<1>8. Begins(f, l, sz)
  <2>1. At(f, 0) = At(r, 0) /\ At(f, 1) = At(r, 1) /\ At(f, 2) = At(r, 2) /\ At(f, 3) = At(r, 3)
    BY <1>1, <1>6
  <2> QED BY <2>1 DEF Begins
<1> HIDE DEF n
<1>9. FieldValue(f, l, sz) = sz + k
  <2>1. sz + k \in WORD
    BY <1>1, WordIs
  <2>2. CASE sz = 4
    <3>1. s = Hex(sz + k, 4) /\ UnHex(s) = sz + k
      BY <2>1, <2>2, HexIsRead
    <3>2. l + 4 <= n /\ 4 \in Nat /\ Bytes(s, 4) /\ \A i \in Nat : i < 4 => At(f, l + i) = At(s, i)
      BY <1>1, <1>7, <2>2
    <3>3. Mid(f, l, l + 4) = s
      BY <1>1, <1>5, <3>2, MidIs
    <3> QED BY <2>2, <3>1, <3>3 DEF FieldValue
  <2>3. CASE sz # 4
    <3>1. At(s, 0) = (sz + k) % 256 /\ At(s, 1) = (sz + k) \div 256
      BY <2>1, <2>3, FieldIsRead
    <3>2. ((sz + k) \div 256) * 256 + ((sz + k) % 256) = sz + k
      BY <2>1, FieldIsRead
    <3>3. At(f, l + 0) = At(s, 0) /\ At(f, l + 1) = At(s, 1) /\ l + 0 = l
      BY <1>1, <1>7, <2>3
    <3> QED BY <2>3, <3>1, <3>2, <3>3 DEF FieldValue, L16
  <2> QED BY <2>2, <2>3
<1>10. From(f, h) = data
  <2>1. h \in Nat /\ Bytes(f, h + k) /\ \A i \in Nat : i < k => At(f, h + i) = At(data, i)
    BY <1>1, <1>5
  <2> HIDE DEF h
  <2> QED BY ONLY k \in Nat, Bytes(data, k), <2>1, FromIs
<1>11. MelsecParts(f, r, l, s, e, sz, data, k)
  BY <1>5, <1>6, <1>7, <1>8, <1>9, <1>10 DEF MelsecParts, n
<1> QED BY <1>11 DEF f, rse, rs

\* It is cut whole.
LEMMA MelsecIsCutWhole ==
  ASSUME NEW l \in Nat, NEW sz \in Nat, NEW k \in Nat, k <= 4000, NEW r, NEW s, NEW e, NEW data,
         Bytes(r, l), Bytes(s, sz), Bytes(e, sz), Bytes(data, k), Begins(r, l, sz),
         s = IF sz = 4 THEN Hex(sz + k, 4) ELSE S16(sz + k)
  PROVE  IsFrame("melsec", r \o s \o e \o data)
<1> DEFINE f == r \o s \o e \o data
           n == l + sz + sz + k
<1>1. /\ sz \in {2, 4} /\ 4 <= l /\ n \in Nat /\ n <= 16416 /\ l + sz <= n /\ n - (l + sz) = sz + k
  BY DEF Begins
<1>2. MelsecParts(f, r, l, s, e, sz, data, k)
  BY MelsecPartsAreRead
<1> HIDE DEF f
<1>3. Bytes(f, n) /\ Begins(f, l, sz) /\ FieldValue(f, l, sz) = n - (l + sz)
  BY <1>1, <1>2 DEF MelsecParts
<1> HIDE DEF n
<1>4. CutWhole("melsec", f)
  BY <1>1, <1>3, MelsecFieldCutsWhole
<1>5. f \in Seq(Int)
  BY <1>3 DEF Bytes
<1> QED BY <1>4, <1>5 DEF f, IsFrame

\* A number of either length in hexadecimal digits is a run of them.
LEMMA HexBytes == ASSUME NEW n \in Nat, NEW k \in {2, 4, 6} PROVE Bytes(Hex(n, k), k)
<1> DEFINE g == Hex(n, k)
<1>1. g = [j \in 1..k |-> Digit((n \div SIXTEENS[k - j + 1]) % 16)]
  BY DEF Hex
<1>2. ASSUME NEW j \in 1..k PROVE Digit((n \div SIXTEENS[k - j + 1]) % 16) \in Int
  <2>1. k - j + 1 \in 1..6
    OBVIOUS
  <2>2. SIXTEENS[k - j + 1] \in Nat \ {0}
    BY <2>1 DEF SIXTEENS
  <2> DEFINE d == (n \div SIXTEENS[k - j + 1]) % 16
  <2>3. d \in Nat /\ d <= 15
    BY <2>2
  <2> HIDE DEF d
  <2> QED BY <2>3, DigitIsRead DEF d
<1> HIDE DEF g
<1>3. g \in [1..k -> Int] /\ k \in Nat
  BY <1>1, <1>2
<1>4. g \in Seq(Int)
  BY <1>3, SeqDef
<1>5. Len(g) = k
  BY <1>3, <1>4, LenProperties
<1> QED BY <1>4, <1>5 DEF Bytes, g

\* A number of a point in decimal digits: six, and more where it has more.
LEMMA DecimalBytes ==
  ASSUME NEW n \in Nat
  PROVE  \E k \in 6..8 : Bytes(MC!Decimal(n), k)
<1> DEFINE g == MC!Decimal(n)
<1>1. PICK k \in 6..8 : g = [j \in 1..k |-> 48 + ((n \div MC!TENS[k - j + 1]) % 10)]
  BY DEF MC!Decimal
<1>2. ASSUME NEW j \in 1..k PROVE 48 + ((n \div MC!TENS[k - j + 1]) % 10) \in Int
  <2>1. k - j + 1 \in 1..8
    OBVIOUS
  <2>2. MC!TENS[k - j + 1] \in Nat \ {0}
    BY <2>1 DEF MC!TENS
  <2> QED BY <2>2
<1> HIDE DEF g
<1>3. g \in [1..k -> Int] /\ k \in Nat
  BY <1>1, <1>2
<1>4. g \in Seq(Int)
  BY <1>3, SeqDef
<1>5. Len(g) = k
  BY <1>3, <1>4, LenProperties
<1> QED BY <1>4, <1>5 DEF Bytes, g
\* The helpers as MelsecCodec's copies of them.
LEMMA MelsecCopies ==
  /\ MC!WORD = WORD /\ MC!BYTE = BYTE
  /\ \A n, k : MC!Hex(n, k) = Hex(n, k)
  /\ \A n : MC!B16(n) = B16(n) /\ MC!S16(n) = S16(n) /\ MC!S32(n) = S32(n)
  /\ \A f, k : MC!Upto(f, k) = Upto(f, k)
  /\ \A x : MC!FlattenSeq(x) = FlattenSeq(x)
<1>1. MC!WORD = WORD /\ MC!BYTE = BYTE
  BY DEF MC!WORD, WORD, MC!BYTE, BYTE
<1>2. ASSUME NEW n, NEW k PROVE MC!Hex(n, k) = Hex(n, k)
  BY DEF MC!Hex, Hex, MC!SIXTEENS, SIXTEENS, MC!Digit, Digit
<1>3. ASSUME NEW n PROVE MC!B16(n) = B16(n) /\ MC!S16(n) = S16(n) /\ MC!S32(n) = S32(n)
  BY DEF MC!B16, B16, MC!S16, S16, MC!S32, S32
<1>4. ASSUME NEW f, NEW k PROVE MC!Upto(f, k) = Upto(f, k)
  BY DEF MC!Upto, Upto
<1>5. ASSUME NEW x PROVE MC!FlattenSeq(x) = FlattenSeq(x)
  BY DEF MC!FlattenSeq, FlattenSeq
<1> QED BY <1>1, <1>2, <1>3, <1>4, <1>5

\* A field of two bytes takes two bytes, or four digits.
LEMMA MelsecWord ==
  ASSUME NEW fmt \in MC!FRAME_FORMATS, NEW n \in WORD
  PROVE  /\ MC!Size(fmt) \in {2, 4} /\ Bytes(MC!Word(fmt, n), MC!Size(fmt))
         /\ MC!Word(fmt, n) = IF MC!Size(fmt) = 4 THEN Hex(n, 4) ELSE S16(n)
<1>1. MC!Word(fmt, n) = IF MC!IsAscii(fmt) THEN Hex(n, 4) ELSE S16(n)
  BY MelsecCopies DEF MC!Word
<1> QED BY <1>1, HexIsRead, FieldIsRead DEF MC!Size

\* The subheaders, written in digits.
LEMMA SubheaderDigits ==
  /\ At(Hex(20480, 4), 0) = 53 /\ At(Hex(20480, 4), 1) = 48 /\ At(Hex(20480, 4), 2) = 48 /\ At(Hex(20480, 4), 3) = 48
  /\ At(Hex(21504, 4), 0) = 53 /\ At(Hex(21504, 4), 1) = 52 /\ At(Hex(21504, 4), 2) = 48 /\ At(Hex(21504, 4), 3) = 48
  /\ At(Hex(53248, 4), 0) = 68 /\ At(Hex(53248, 4), 1) = 48 /\ At(Hex(53248, 4), 2) = 48 /\ At(Hex(53248, 4), 3) = 48
  /\ At(Hex(54272, 4), 0) = 68 /\ At(Hex(54272, 4), 1) = 52 /\ At(Hex(54272, 4), 2) = 48 /\ At(Hex(54272, 4), 3) = 48
<1>1. ASSUME NEW n \in Nat, n <= 65535, NEW i \in 0..3
      PROVE  At(Hex(n, 4), i) = Digit((n \div SIXTEENS[4 - i]) % 16)
  <2>1. Len(Hex(n, 4)) = 4
    BY <1>1, WordIs, HexIsRead DEF Bytes
  <2>2. i + 1 \in 1..4 /\ 4 - (i + 1) + 1 = 4 - i
    BY <1>1
  <2> QED BY <2>1, <2>2 DEF At, Hex
<1>2. SIXTEENS[4] = 4096 /\ SIXTEENS[3] = 256 /\ SIXTEENS[2] = 16 /\ SIXTEENS[1] = 1
  BY DEF SIXTEENS
<1>3. Digit(5) = 53 /\ Digit(0) = 48 /\ Digit(4) = 52 /\ Digit(13) = 68
  BY DEF Digit
<1>4. ASSUME NEW n \in Nat, n <= 65535, NEW a, NEW b,
             (n \div 4096) % 16 = a, (n \div 256) % 16 = b, (n \div 16) % 16 = 0, (n \div 1) % 16 = 0
      PROVE  At(Hex(n, 4), 0) = Digit(a) /\ At(Hex(n, 4), 1) = Digit(b) /\ At(Hex(n, 4), 2) = 48 /\ At(Hex(n, 4), 3) = 48
  <2>1. /\ At(Hex(n, 4), 0) = Digit((n \div SIXTEENS[4 - 0]) % 16) /\ At(Hex(n, 4), 1) = Digit((n \div SIXTEENS[4 - 1]) % 16)
        /\ At(Hex(n, 4), 2) = Digit((n \div SIXTEENS[4 - 2]) % 16) /\ At(Hex(n, 4), 3) = Digit((n \div SIXTEENS[4 - 3]) % 16)
    BY <1>1, <1>4
  <2>2. 4 - 0 = 4 /\ 4 - 1 = 3 /\ 4 - 2 = 2 /\ 4 - 3 = 1
    OBVIOUS
  <2> QED BY <1>2, <1>3, <1>4, <2>1, <2>2
<1>5. /\ (20480 \div 4096) % 16 = 5 /\ (20480 \div 256) % 16 = 0 /\ (20480 \div 16) % 16 = 0 /\ (20480 \div 1) % 16 = 0
      /\ (21504 \div 4096) % 16 = 5 /\ (21504 \div 256) % 16 = 4 /\ (21504 \div 16) % 16 = 0 /\ (21504 \div 1) % 16 = 0
      /\ (53248 \div 4096) % 16 = 13 /\ (53248 \div 256) % 16 = 0 /\ (53248 \div 16) % 16 = 0 /\ (53248 \div 1) % 16 = 0
      /\ (54272 \div 4096) % 16 = 13 /\ (54272 \div 256) % 16 = 4 /\ (54272 \div 16) % 16 = 0 /\ (54272 \div 1) % 16 = 0
  OBVIOUS
<1> QED BY <1>3, <1>4, <1>5

\* What comes before the length field: the subheader of requests or of answers, the
\* serial number of a 4E frame, and the route.
Lead(fmt, dir, pc, station, serial) ==
  (IF MC!IsAscii(fmt) THEN Hex(MC!Subheader(fmt, dir), 4) ELSE B16(MC!Subheader(fmt, dir)))
  \o (IF MC!Is4e(fmt) THEN MC!Word(fmt, serial) \o MC!Word(fmt, 0) ELSE <<>>)
  \o (IF MC!IsAscii(fmt) THEN Hex(pc, 4) \o Hex(1023, 4) \o Hex(station, 2)
                          ELSE <<0, pc>> \o S16(1023) \o <<station>>)

\* The bytes that tell the format and the direction.
Opens(r, fmt, dir) ==
  IF MC!IsAscii(fmt)
  THEN At(r, 0) = (IF dir = "req" THEN 53 ELSE 68) /\ At(r, 1) = (IF MC!Is4e(fmt) THEN 52 ELSE 48)
         /\ At(r, 2) = 48 /\ At(r, 3) = 48
  ELSE At(r, 0) = (IF MC!Is4e(fmt) THEN IF dir = "req" THEN 84 ELSE 212 ELSE IF dir = "req" THEN 80 ELSE 208)
         /\ At(r, 1) = 0

LEMMA SubheaderOpens ==
  ASSUME NEW fmt \in MC!FRAME_FORMATS, NEW dir \in {"req", "resp"},
         NEW a, a = IF MC!IsAscii(fmt) THEN Hex(MC!Subheader(fmt, dir), 4) ELSE B16(MC!Subheader(fmt, dir))
  PROVE  Bytes(a, MC!Size(fmt)) /\ Opens(a, fmt, dir) /\ MC!Subheader(fmt, dir) \in WORD
<1>1. PICK x \in WORD : x = MC!Subheader(fmt, dir)
  BY WordIs DEF MC!Subheader
<1>2. x = IF MC!Is4e(fmt) THEN IF dir = "req" THEN 21504 ELSE 54272 ELSE IF dir = "req" THEN 20480 ELSE 53248
  BY <1>1 DEF MC!Subheader
<1>3. CASE MC!IsAscii(fmt)
  <2>1. a = Hex(x, 4) /\ MC!Size(fmt) = 4
    BY <1>1, <1>3 DEF MC!Size
  <2>2. Bytes(a, 4)
    BY <2>1, HexIsRead
  <2>3. Opens(a, fmt, dir)
    BY <1>2, <1>3, <2>1, SubheaderDigits DEF Opens
  <2> QED BY <1>1, <2>1, <2>2, <2>3
<1>4. CASE ~MC!IsAscii(fmt)
  <2>1. a = B16(x) /\ MC!Size(fmt) = 2
    BY <1>1, <1>4 DEF MC!Size
  <2>2. Bytes(a, 2) /\ At(a, 0) = x \div 256 /\ At(a, 1) = x % 256
    BY <2>1, FieldIsRead
  <2>3. Opens(a, fmt, dir)
    BY <1>2, <1>4, <2>2 DEF Opens
  <2> QED BY <1>1, <2>1, <2>2, <2>3
<1> QED BY <1>3, <1>4

\* It is as long as where the length field is, in every format.
LEMMA LeadBegins ==
  ASSUME NEW fmt \in MC!FRAME_FORMATS, NEW dir \in {"req", "resp"},
         NEW pc \in BYTE, NEW station \in BYTE, NEW serial \in WORD
  PROVE  \E l \in Nat : l <= 22 /\ l = MC!LenOffset(fmt) /\ Bytes(Lead(fmt, dir, pc, station, serial), l)
                          /\ Begins(Lead(fmt, dir, pc, station, serial), l, MC!Size(fmt))
                          /\ Opens(Lead(fmt, dir, pc, station, serial), fmt, dir)
<1> DEFINE a == IF MC!IsAscii(fmt) THEN Hex(MC!Subheader(fmt, dir), 4) ELSE B16(MC!Subheader(fmt, dir))
           b == IF MC!Is4e(fmt) THEN MC!Word(fmt, serial) \o MC!Word(fmt, 0) ELSE <<>>
           c == IF MC!IsAscii(fmt) THEN Hex(pc, 4) \o Hex(1023, 4) \o Hex(station, 2)
                                   ELSE <<0, pc>> \o S16(1023) \o <<station>>
           sz == MC!Size(fmt)
<1>1. Lead(fmt, dir, pc, station, serial) = a \o b \o c
  BY DEF Lead
<1>2. /\ pc \in Nat /\ station \in Nat /\ 1023 \in WORD /\ 0 \in WORD
  BY ByteIs, WordIs
<1>3. Bytes(b, IF MC!Is4e(fmt) THEN 2 * sz ELSE 0) /\ sz \in {2, 4}
  <2>1. Bytes(MC!Word(fmt, serial), sz) /\ Bytes(MC!Word(fmt, 0), sz) /\ sz \in {2, 4}
    BY <1>2, MelsecWord
  <2>2. sz \in Nat /\ sz + sz = 2 * sz
    BY <2>1
  <2>3. Bytes(MC!Word(fmt, serial) \o MC!Word(fmt, 0), sz + sz)
    BY <2>1, <2>2, BytesJoined
  <2>4. Bytes(<<>>, 0)
    BY DEF Bytes
  <2> QED BY <2>1, <2>2, <2>3, <2>4
<1>4. Bytes(c, IF MC!IsAscii(fmt) THEN 10 ELSE 5)
  <2>1. Bytes(Hex(pc, 4) \o Hex(1023, 4) \o Hex(station, 2), 10)
    <3>1. Bytes(Hex(pc, 4), 4) /\ Bytes(Hex(1023, 4), 4) /\ Bytes(Hex(station, 2), 2)
      BY <1>2, HexBytes
    <3> QED BY <3>1, BytesJoined
  <2>2. Bytes(<<0, pc>> \o S16(1023) \o <<station>>, 5)
    <3>1. Bytes(<<0, pc>>, 2) /\ Bytes(S16(1023), 2) /\ Bytes(<<station>>, 1)
      BY <1>2, BytesOfTwo, BytesOfOne, FieldIsRead
    <3> DEFINE x == <<0, pc>>
               y == <<station>>
    <3> HIDE DEF x, y
    <3>2. Bytes(x \o S16(1023) \o y, 5)
      BY <3>1, BytesJoined DEF x, y
    <3> QED BY <3>2 DEF x, y
  <2> QED BY <2>1, <2>2
<1>5. Bytes(a, sz) /\ Opens(a, fmt, dir)
  BY SubheaderOpens
<1> HIDE DEF a, b, c
<1>6. PICK n \in Nat : n = IF MC!Is4e(fmt) THEN 2 * sz ELSE 0
  BY <1>3
<1>7. PICK m \in Nat : m = IF MC!IsAscii(fmt) THEN 10 ELSE 5
  OBVIOUS
<1>8. sz = (IF MC!IsAscii(fmt) THEN 4 ELSE 2) /\ sz \in Nat
  BY DEF MC!Size
<1>9. MC!LenOffset(fmt) = sz + n + m
  BY <1>6, <1>7, <1>8 DEF MC!LenOffset, MC!Pick
<1> HIDE DEF sz
<1> DEFINE ab == a \o b
           r == ab \o c
<1>10. Bytes(ab, sz + n) /\ \A i \in Nat : i < sz => At(ab, i) = At(a, i)
  BY <1>3, <1>5, <1>6, <1>8, BytesJoined
<1> HIDE DEF ab
<1>11. Bytes(r, sz + n + m) /\ \A i \in Nat : i < sz + n => At(r, i) = At(ab, i)
  <2>1. sz + n \in Nat /\ Bytes(c, m)
    BY <1>4, <1>7, <1>8
  <2> QED BY <1>7, <1>10, <2>1, BytesJoined
<1> HIDE DEF r
<1>12. \A i \in Nat : i < sz => At(r, i) = At(a, i)
  BY <1>8, <1>10, <1>11
<1>13. Opens(r, fmt, dir)
  <2>1. /\ At(r, 0) = At(a, 0) /\ At(r, 1) = At(a, 1)
        /\ MC!IsAscii(fmt) => At(r, 2) = At(a, 2) /\ At(r, 3) = At(a, 3)
    BY <1>8, <1>12
  <2> QED BY <1>5, <2>1 DEF Opens
<1>14. Begins(r, sz + n + m, sz)
  <2>1. CASE MC!IsAscii(fmt)
    <3>1. sz = 4 /\ sz + n + m = (IF MC!Is4e(fmt) THEN 22 ELSE 14)
      BY <1>6, <1>7, <1>8, <2>1
    <3> QED BY <1>13, <2>1, <3>1 DEF Opens, Begins
  <2>2. CASE ~MC!IsAscii(fmt)
    <3>1. sz = 2 /\ sz + n + m = (IF MC!Is4e(fmt) THEN 11 ELSE 7)
      BY <1>6, <1>7, <1>8, <2>2
    <3> QED BY <1>13, <2>2, <3>1 DEF Opens, Begins
  <2> QED BY <2>1, <2>2
<1>15. sz + n + m \in Nat /\ sz + n + m <= 22
  BY <1>6, <1>7, <1>8
<1>16. Lead(fmt, dir, pc, station, serial) = r
  BY <1>1 DEF r, ab
<1> QED BY <1>9, <1>11, <1>13, <1>14, <1>15, <1>16 DEF sz

\* That of a request.
RequestLead(fmt, pc, station, serial) == Lead(fmt, "req", pc, station, serial)

LEMMA RequestBegins ==
  ASSUME NEW fmt \in MC!FRAME_FORMATS, NEW pc \in BYTE, NEW station \in BYTE, NEW serial \in WORD
  PROVE  \E l \in Nat : /\ l <= 22 /\ l = MC!LenOffset(fmt) /\ Bytes(RequestLead(fmt, pc, station, serial), l)
                        /\ Begins(RequestLead(fmt, pc, station, serial), l, MC!Size(fmt))
BY LeadBegins DEF RequestLead

\* The numbers of a point.
LEMMA TripleIs == ASSUME NEW n \in MC!TRIPLE PROVE n \in Nat /\ FitsWide(n)
<1>1. MC!MOST_OF_THREE \in Int /\ MC!MOST_OF_THREE < 2147483648
  BY DEF MC!MOST_OF_THREE
<1>2. n \in Int /\ 0 <= n /\ n <= MC!MOST_OF_THREE
  BY <1>1, InRange DEF MC!TRIPLE
<1> QED BY <1>1, <1>2 DEF FitsWide

\* Command, device and number of points: no more than twenty-two bytes.
LEMMA MelsecPduBytes ==
  ASSUME NEW fmt \in MC!FRAME_FORMATS, NEW cmd \in WORD, NEW device \in DOMAIN MC!DEVICE_CODES,
         NEW head \in MC!TRIPLE, NEW count \in WORD
  PROVE  \E k \in Nat : k <= 22 /\ Bytes(MC!EncodePdu(fmt, cmd, device, head, count), k)
<1>0. device \in {"X", "Y", "B", "W", "M", "D", "R"}
  BY DEF MC!DEVICE_CODES
<1>1. /\ cmd \in Nat /\ count \in Nat /\ head \in Nat /\ FitsWide(head) /\ 0 \in WORD
  BY WordIs, TripleIs
<1>2. CASE MC!IsAscii(fmt)
  <2> DEFINE a == Hex(cmd, 4)
             b == Hex(0, 4)
             c == <<MC!LETTERS[device], 42>>
             d == IF device \in MC!HEX_DEVICES THEN Hex(head, 6) ELSE MC!Decimal(head)
             e == Hex(count, 4)
  <2>1. MC!EncodePdu(fmt, cmd, device, head, count) = a \o b \o c \o d \o e
    BY <1>2, MelsecCopies DEF MC!EncodePdu
  <2>2. Bytes(a, 4) /\ Bytes(b, 4) /\ Bytes(e, 4)
    BY <1>1, HexBytes
  <2>3. Bytes(c, 2)
    <3>1. MC!LETTERS[device] \in Int
      BY <1>0 DEF MC!LETTERS
    <3> QED BY <3>1, BytesOfTwo
  <2>4. PICK m \in 6..8 : Bytes(d, m)
    BY <1>1, HexBytes, DecimalBytes
  <2> HIDE DEF a, b, c, d, e
  <2>5. Bytes(a \o b \o c, 10)
    BY <2>2, <2>3, BytesJoined
  <2>6. m \in Nat /\ 10 + m \in Nat /\ 10 + m + 4 \in Nat /\ 10 + m + 4 <= 22
    BY <2>4
  <2>7. Bytes(a \o b \o c \o d, 10 + m)
    BY <2>4, <2>5, <2>6, BytesJoined
  <2>8. Bytes(a \o b \o c \o d \o e, 10 + m + 4)
    BY <2>2, <2>6, <2>7, BytesJoined
  <2> QED BY <2>1, <2>6, <2>8
<1>3. CASE ~MC!IsAscii(fmt)
  <2> DEFINE a == S16(cmd)
             b == S16(0)
             c == Upto(S32(head), 3)
             d == <<MC!DEVICE_CODES[device]>>
             e == S16(count)
  <2>1. MC!EncodePdu(fmt, cmd, device, head, count) = a \o b \o c \o d \o e
    BY <1>3, MelsecCopies DEF MC!EncodePdu
  <2>2. Bytes(a, 2) /\ Bytes(b, 2) /\ Bytes(e, 2)
    BY <1>1, FieldIsRead
  <2>3. Bytes(c, 3)
    <3>1. Bytes(S32(head), 4)
      BY <1>1, LowFirstBytes
    <3>2. S32(head) \in Seq(Int) /\ 3 \in Nat /\ 3 <= Len(S32(head))
      BY <3>1 DEF Bytes
    <3> QED BY <3>2, UptoIsPrefix DEF Bytes
  <2>4. Bytes(d, 1)
    <3>1. MC!DEVICE_CODES[device] \in Int
      BY <1>0 DEF MC!DEVICE_CODES
    <3> QED BY <3>1, BytesOfOne
  <2> HIDE DEF a, b, c, d, e
  <2>5. Bytes(a \o b \o c, 7)
    BY <2>2, <2>3, BytesJoined
  <2>6. Bytes(a \o b \o c \o d \o e, 10)
    BY <2>2, <2>4, <2>5, BytesJoined
  <2> QED BY <2>1, <2>6
<1> QED BY <1>2, <1>3

\* What a request is made of, with no more values than a frame takes: the lead, the
\* length, the timer, and a PDU with the values after it.
RequestParts(f, fmt, pdu, pc, station, timer, serial, v, x, m) ==
  /\ x \in Nat /\ m \in Nat /\ m <= 4000 /\ Bytes(v, x) /\ Bytes(pdu \o v, m)
  /\ f = RequestLead(fmt, pc, station, serial) \o MC!Word(fmt, MC!Size(fmt) + m) \o MC!Word(fmt, timer) \o (pdu \o v)

LEMMA MelsecRequestIs ==
  ASSUME NEW fmt \in MC!FRAME_FORMATS, NEW cmd \in WORD, NEW device, NEW head, NEW count \in WORD,
         NEW pc, NEW station, NEW timer, MC!Addressable(device, head, pc, station, timer),
         NEW serial \in WORD, NEW n \in Nat, n <= 960, NEW values, values = <<>> <=> n = 0,
         Len(values) = n, DOMAIN values = 1..n, \A i \in 1..n : values[i] \in Int
  PROVE  \E v, x, m : RequestParts(MC!BuildRequest(fmt, cmd, device, head, count, values, pc, station, timer, serial),
                                   fmt, MC!EncodePdu(fmt, cmd, device, head, count), pc, station, timer, serial, v, x, m)
<1> DEFINE sz == MC!Size(fmt)
           words == [i \in DOMAIN values |-> MC!Word(fmt, values[i] % 65536)]
           pdu == MC!EncodePdu(fmt, cmd, device, head, count)
           v == FlattenSeq(words)
           r == RequestLead(fmt, pc, station, serial)
<1>1. /\ device \in DOMAIN MC!DEVICE_CODES /\ head \in MC!TRIPLE /\ pc \in BYTE /\ station \in BYTE
      /\ timer \in WORD
  <2>1. timer \in {0, 1, 2, 4, 10, 11}
    BY DEF MC!Addressable, MC!MONITOR_TIMER_VALUES
  <2>2. timer \in WORD
    BY <2>1, WordIs
  <2> QED BY <2>2, MelsecCopies DEF MC!Addressable
<1>2. sz \in {2, 4}
  BY DEF MC!Size
<1>3. PICK k \in Nat : k <= 22 /\ Bytes(pdu, k)
  BY <1>1, MelsecPduBytes
<1>4. Bytes(v, sz * n)
  <2>1. ASSUME NEW i \in 1..n PROVE Bytes(words[i], sz)
    <3>1. values[i] % 65536 \in WORD
      BY WordIs
    <3>2. words[i] = MC!Word(fmt, values[i] % 65536)
      OBVIOUS
    <3> QED BY <3>1, <3>2, MelsecWord
  <2>2. Len(words) = n /\ (words = <<>> <=> n = 0)
    <3>1. words \in [1..n -> {MC!Word(fmt, values[i] % 65536) : i \in 1..n}]
      OBVIOUS
    <3>2. DOMAIN words = 1..n
      OBVIOUS
    <3>3. words \in Seq({MC!Word(fmt, values[i] % 65536) : i \in 1..n})
      BY <3>1, SeqDef
    <3> HIDE DEF words
    <3>4. Len(words) = n
      BY <3>2, <3>3, LenProperties
    <3> QED BY <3>3, <3>4, EmptySeq, LenProperties
  <2> HIDE DEF words, sz
  <2> QED BY <1>2, <2>1, <2>2, FlattenedLength
<1> DEFINE m == k + sz * n
           data == pdu \o v
<1>6. sz \in Nat /\ sz * n \in Nat /\ m \in Nat /\ m <= 4000 /\ sz + m \in Nat /\ sz + m <= 65535
  <2> HIDE DEF sz
  <2>1. CASE sz = 2
    BY <1>3, <2>1
  <2>2. CASE sz = 4
    BY <1>3, <2>2
  <2> QED BY <1>2, <2>1, <2>2
<1>7. Bytes(data, m)
  <2> HIDE DEF v, pdu
  <2> QED BY <1>3, <1>4, <1>6, BytesJoined
<1>8. MC!BuildRequest(fmt, cmd, device, head, count, values, pc, station, timer, serial)
        = r \o MC!Word(fmt, sz + m) \o MC!Word(fmt, timer) \o data
  <2>1. MC!BuildRequest(fmt, cmd, device, head, count, values, pc, station, timer, serial)
          = MC!HeaderFmt(fmt, pc, station, timer, sz + Len(data), serial) \o data
    <3>1. MC!BuildRequest(fmt, cmd, device, head, count, values, pc, station, timer, serial)
            = MC!HeaderFmt(fmt, pc, station, timer, sz + Len(pdu \o MC!FlattenSeq(words)), serial)
                \o (pdu \o MC!FlattenSeq(words))
      BY DEF MC!BuildRequest
    <3> HIDE DEF words, pdu, sz
    <3>2. MC!FlattenSeq(words) = FlattenSeq(words)
      BY MelsecCopies
    <3> QED BY <3>1, <3>2
  <2>2. Len(data) = m
    BY <1>7 DEF Bytes
  <2> HIDE DEF data, m, sz
  <2>3. MC!HeaderFmt(fmt, pc, station, timer, sz + m, serial)
          = r \o MC!Word(fmt, sz + m) \o MC!Word(fmt, timer)
    <3> DEFINE x == sz + m
    <3> HIDE DEF x
    <3> DEFINE a == IF MC!IsAscii(fmt) THEN MC!Hex(MC!Subheader(fmt, "req"), 4)
                                       ELSE MC!B16(MC!Subheader(fmt, "req"))
               b == IF MC!Is4e(fmt) THEN MC!Word(fmt, serial) \o MC!Word(fmt, 0) ELSE <<>>
               c == IF MC!IsAscii(fmt) THEN MC!Hex(pc, 4) \o MC!Hex(1023, 4) \o MC!Hex(station, 2)
                                       ELSE <<0, pc>> \o MC!S16(1023) \o <<station>>
               ra == IF MC!IsAscii(fmt) THEN Hex(MC!Subheader(fmt, "req"), 4)
                                        ELSE B16(MC!Subheader(fmt, "req"))
               rc == IF MC!IsAscii(fmt) THEN Hex(pc, 4) \o Hex(1023, 4) \o Hex(station, 2)
                                        ELSE <<0, pc>> \o S16(1023) \o <<station>>
    <3>1. a = ra
      BY MelsecCopies
    <3>2. c = rc
      <4>1. /\ MC!Hex(pc, 4) = Hex(pc, 4) /\ MC!Hex(1023, 4) = Hex(1023, 4)
            /\ MC!Hex(station, 2) = Hex(station, 2) /\ MC!S16(1023) = S16(1023)
        BY MelsecCopies
      <4> QED BY ONLY <4>1
    <3>3. MC!HeaderFmt(fmt, pc, station, timer, x, serial) = a \o b \o c \o MC!Word(fmt, x) \o MC!Word(fmt, timer)
      BY DEF MC!HeaderFmt
    <3>4. r = ra \o b \o rc
      BY DEF Lead, RequestLead
    <3> HIDE DEF a, b, c, ra, rc, r
    <3>5. MC!HeaderFmt(fmt, pc, station, timer, x, serial) = r \o MC!Word(fmt, x) \o MC!Word(fmt, timer)
      BY <3>1, <3>2, <3>3, <3>4
    <3> QED BY <3>5 DEF x
  <2> QED BY <2>1, <2>2, <2>3
<1>9. sz * n \in Nat /\ m \in Nat /\ m <= 4000
  BY <1>6
<1> HIDE DEF m, v
<1> QED BY <1>4, <1>7, <1>8, <1>9 DEF RequestParts

\* It is cut whole.
LEMMA MelsecRequestIsCutWhole ==
  ASSUME NEW fmt \in MC!FRAME_FORMATS, NEW cmd \in WORD, NEW device, NEW head, NEW count \in WORD,
         NEW pc, NEW station, NEW timer, MC!Addressable(device, head, pc, station, timer),
         NEW serial \in WORD, NEW n \in Nat, n <= 960, NEW values, values = <<>> <=> n = 0,
         Len(values) = n, DOMAIN values = 1..n, \A i \in 1..n : values[i] \in Int
  PROVE  IsFrame("melsec", MC!BuildRequest(fmt, cmd, device, head, count, values, pc, station, timer, serial))
<1>1. pc \in BYTE /\ station \in BYTE /\ timer \in WORD
  <2>1. timer \in {0, 1, 2, 4, 10, 11}
    BY DEF MC!Addressable, MC!MONITOR_TIMER_VALUES
  <2>2. timer \in WORD
    BY <2>1, WordIs
  <2> QED BY <2>2, MelsecCopies DEF MC!Addressable
<1> DEFINE sz == MC!Size(fmt)
           r == RequestLead(fmt, pc, station, serial)
           pdu == MC!EncodePdu(fmt, cmd, device, head, count)
           f == MC!BuildRequest(fmt, cmd, device, head, count, values, pc, station, timer, serial)
<1>2. PICK v, x, m : RequestParts(f, fmt, pdu, pc, station, timer, serial, v, x, m)
  BY MelsecRequestIs
<1> DEFINE data == pdu \o v
           s == MC!Word(fmt, sz + m)
           e == MC!Word(fmt, timer)
<1> HIDE DEF f, pdu
<1>3. m \in Nat /\ m <= 4000 /\ Bytes(data, m) /\ f = r \o s \o e \o data
  BY <1>2 DEF RequestParts
<1>4. sz \in {2, 4}
  BY DEF MC!Size
<1>5. PICK l \in Nat : Bytes(r, l) /\ Begins(r, l, sz)
  BY <1>1, RequestBegins
<1> HIDE DEF r, data
<1>6. Bytes(s, sz) /\ Bytes(e, sz) /\ s = IF sz = 4 THEN Hex(sz + m, 4) ELSE S16(sz + m)
  <2>1. sz + m \in WORD
    BY <1>3, <1>4, WordIs
  <2> QED BY <1>1, <2>1, MelsecWord
<1>7. sz \in Nat
  BY <1>4
<1> HIDE DEF s, e, sz
<1>8. IsFrame("melsec", r \o s \o e \o data)
  BY <1>3, <1>5, <1>6, <1>7, MelsecIsCutWhole
<1> QED BY <1>3, <1>8 DEF f

\* Every MELSEC read a builder makes, in every format.  A serial number is what
\* two bytes take: struct.pack refuses any other.
THEOREM MelsecReadIsCutWhole ==
  ASSUME NEW fmt \in MC!FRAME_FORMATS, NEW device, NEW head, NEW count, NEW pc, NEW station, NEW timer,
         NEW serial \in WORD,
         NEW f, f = MC!BuildReadRequest(fmt, device, head, count, pc, station, timer, serial)
  PROVE  f = <<>> \/ IsFrame("melsec", f)
<1>1. SUFFICES ASSUME f # <<>> PROVE IsFrame("melsec", f)
  OBVIOUS
<1>2. /\ MC!Addressable(device, head, pc, station, timer) /\ count \in 1..960
      /\ f = MC!BuildRequest(fmt, 1025, device, head, count, <<>>, pc, station, timer, serial)
  BY <1>1 DEF MC!BuildReadRequest, MC!MAX_READ_POINTS, MC!CMD_BATCH_READ_WORD
<1>3. count \in WORD /\ 1025 \in WORD
  BY <1>2, WordIs
<1>4. 0 \in Nat /\ 0 <= 960 /\ Len(<<>>) = 0 /\ DOMAIN <<>> = 1..0 /\ \A i \in 1..0 : <<>>[i] \in Int
  OBVIOUS
<1> QED BY <1>2, <1>3, <1>4, MelsecRequestIsCutWhole

\* Every write.
THEOREM MelsecWriteIsCutWhole ==
  ASSUME NEW fmt \in MC!FRAME_FORMATS, NEW device, NEW head, NEW values \in Seq(Int), NEW pc, NEW station,
         NEW timer, NEW serial \in WORD,
         NEW f, f = MC!BuildWriteRequest(fmt, device, head, values, pc, station, timer, serial)
  PROVE  f = <<>> \/ IsFrame("melsec", f)
<1> DEFINE n == Len(values)
<1>1. SUFFICES ASSUME f # <<>> PROVE IsFrame("melsec", f)
  OBVIOUS
<1>2. /\ MC!Addressable(device, head, pc, station, timer) /\ n \in 1..MC!MAX_READ_POINTS
      /\ f = MC!BuildRequest(fmt, 5121, device, head, n, values, pc, station, timer, serial)
  BY <1>1 DEF MC!BuildWriteRequest, MC!CMD_BATCH_WRITE_WORD
<1>3. n \in Nat /\ n # 0 /\ n <= 960 /\ DOMAIN values = 1..n /\ \A i \in 1..n : values[i] \in Int
  <2>1. MC!MAX_READ_POINTS \in Int /\ MC!MAX_READ_POINTS <= 960
    BY DEF MC!MAX_READ_POINTS
  <2>2. n \in Int /\ 1 <= n /\ n <= MC!MAX_READ_POINTS
    BY <1>2, <2>1, InRange
  <2>3. DOMAIN values = 1..n
    BY LenProperties
  <2> QED BY <2>1, <2>2, <2>3, ElementOfSeq
<1>4. n \in WORD /\ 5121 \in WORD
  BY <1>3, WordIs
<1>5. values = <<>> <=> n = 0
  BY <1>3
<1> HIDE DEF n
<1> QED BY <1>2, <1>3, <1>4, <1>5, MelsecRequestIsCutWhole DEF n

-----------------------------------------------------------------------------
(* What the parsers say of requests: Modbus                                 *)

-----------------------------------------------------------------------------
(* What the parsers of requests say                                         *)

\* The reading of ModbusCodec's copies, and what a record of findings without any
\* that holds comes to.
LEMMA ModbusReading ==
  /\ \A f, i : MB!At(f, i) = At(f, i) /\ MB!U16(f, i) = U16(f, i)
  /\ \A r : MB!Found(r) = {} <=> \A name \in DOMAIN r : ~r[name]
<1>1. ASSUME NEW f, NEW i PROVE MB!At(f, i) = At(f, i) /\ MB!U16(f, i) = U16(f, i)
  BY DEF MB!At, At, MB!U16, U16
<1>2. ASSUME NEW r PROVE MB!Found(r) = {} <=> \A name \in DOMAIN r : ~r[name]
  BY DEF MB!Found
<1> QED BY <1>1, <1>2

\* What is where in a frame with the Modbus header.
LEMMA MbapIsRead ==
  ASSUME NEW tid \in WORD, NEW unit \in Int, NEW k \in Nat, k <= 253, NEW pdu, Bytes(pdu, k)
  PROVE  /\ Bytes(MB!Mbap(tid, unit, pdu), 7 + k)
         /\ U16(MB!Mbap(tid, unit, pdu), 2) = 0 /\ U16(MB!Mbap(tid, unit, pdu), 4) = k + 1
         /\ At(MB!Mbap(tid, unit, pdu), 6) = unit
         /\ \A i \in Nat : At(MB!Mbap(tid, unit, pdu), 7 + i) = At(pdu, i)
<1> DEFINE a == B16(tid)
           b == B16(0)
           n == B16(k + 1)
           u == <<unit>>
           f == a \o b \o n \o u \o pdu
<1>1. MB!Mbap(tid, unit, pdu) = f
  <2>1. Len(pdu) = k
    BY DEF Bytes
  <2> QED BY <2>1 DEF MB!Mbap, MB!B16, B16
<1>2. Bytes(a, 2) /\ Bytes(b, 2) /\ At(b, 0) * 256 + At(b, 1) = 0
  <2>1. 0 \in WORD
    BY WordIs
  <2> QED BY <2>1, FieldIsRead
<1>3. Bytes(n, 2) /\ At(n, 0) * 256 + At(n, 1) = k + 1 /\ Bytes(u, 1) /\ At(u, 0) = unit
  <2>1. k + 1 \in WORD
    BY WordIs
  <2> QED BY <2>1, FieldIsRead, BytesOfOne
<1> HIDE DEF a, b, n, u
<1> DEFINE h == a \o b \o n \o u
<1>4. /\ Bytes(h, 7) /\ At(h, 2) = At(b, 0) /\ At(h, 3) = At(b, 1)
      /\ At(h, 4) = At(n, 0) /\ At(h, 5) = At(n, 1) /\ At(h, 6) = At(u, 0)
  <2>1. Bytes(a \o b, 4) /\ At(a \o b, 2 + 0) = At(b, 0) /\ At(a \o b, 2 + 1) = At(b, 1)
    BY <1>2, BytesJoined
  <2>2. /\ Bytes(a \o b \o n, 6) /\ \A i \in Nat : i < 4 => At(a \o b \o n, i) = At(a \o b, i)
        /\ At(a \o b \o n, 4 + 0) = At(n, 0) /\ At(a \o b \o n, 4 + 1) = At(n, 1)
    BY <1>3, <2>1, BytesJoined
  <2>3. /\ Bytes(h, 7) /\ \A i \in Nat : i < 6 => At(h, i) = At(a \o b \o n, i)
        /\ At(h, 6 + 0) = At(u, 0)
    BY <1>3, <2>2, BytesJoined
  <2> QED BY <2>1, <2>2, <2>3
<1> HIDE DEF h
<1>5. /\ Bytes(f, 7 + k) /\ \A i \in Nat : i < 7 => At(f, i) = At(h, i)
      /\ \A i \in Nat : At(f, 7 + i) = At(pdu, i)
  BY <1>4, BytesJoined DEF h
<1> HIDE DEF f
<1>6. U16(f, 2) = 0 /\ U16(f, 4) = k + 1 /\ At(f, 6) = unit
  BY <1>2, <1>3, <1>4, <1>5 DEF U16
<1> QED BY <1>1, <1>5, <1>6

\* The names of the findings of a request.
LEMMA ModbusFindings ==
  ASSUME NEW a, NEW b, NEW c, NEW d, NEW e, NEW q, NEW k, NEW u,
         {a, b, c, d, e, q, k, u} \subseteq BOOLEAN, ~a, ~b, ~c, ~d, ~e
  PROVE  /\ MB!Found([protocol_id |-> a, length |-> b, no_fc |-> c, unknown_fc |-> d, truncated |-> e,
                      quantity |-> q, coil |-> k, unit_id |-> u]) \subseteq {"quantity", "coil", "unit_id"}
         /\ "quantity" \in MB!Found([protocol_id |-> a, length |-> b, no_fc |-> c, unknown_fc |-> d, truncated |-> e,
                      quantity |-> q, coil |-> k, unit_id |-> u]) <=> q
         /\ "coil" \in MB!Found([protocol_id |-> a, length |-> b, no_fc |-> c, unknown_fc |-> d, truncated |-> e,
                      quantity |-> q, coil |-> k, unit_id |-> u]) <=> k
         /\ "unit_id" \in MB!Found([protocol_id |-> a, length |-> b, no_fc |-> c, unknown_fc |-> d, truncated |-> e,
                      quantity |-> q, coil |-> k, unit_id |-> u]) <=> u
BY DEF MB!Found

\* Such a frame with a command of five bytes or more: the parser looks at the
\* operand and the unit only.
LEMMA ModbusParsed ==
  ASSUME NEW tid \in WORD, NEW unit \in Nat, NEW k \in Nat, 5 <= k, k <= 253, NEW pdu, Bytes(pdu, k),
         At(pdu, 0) \in MB!KNOWN_FCS,
         NEW f, f = MB!Mbap(tid, unit, pdu)
  PROVE  /\ MB!ParseRequest(f) \subseteq {"quantity", "coil", "unit_id"}
         /\ "quantity" \in MB!ParseRequest(f) <=>
              At(pdu, 0) \in MB!READ_FCS /\ U16(pdu, 3) \notin 1..MB!read_limit(At(pdu, 0))
         /\ "coil" \in MB!ParseRequest(f) <=> At(pdu, 0) = 5 /\ U16(pdu, 3) \notin {0, 65280}
         /\ "unit_id" \in MB!ParseRequest(f) <=> unit > 247
<1>1. /\ Bytes(f, 7 + k) /\ U16(f, 2) = 0 /\ U16(f, 4) = k + 1 /\ At(f, 6) = unit
      /\ \A i \in Nat : At(f, 7 + i) = At(pdu, i)
  BY MbapIsRead
<1>2. At(f, 7) = At(pdu, 0) /\ U16(f, 10) = U16(pdu, 3)
  <2>1. At(f, 7 + 0) = At(pdu, 0) /\ At(f, 7 + 3) = At(pdu, 3) /\ At(f, 7 + 4) = At(pdu, 4)
    BY <1>1
  <2>2. U16(f, 10) = At(f, 10) * 256 + At(f, 11) /\ U16(pdu, 3) = At(pdu, 3) * 256 + At(pdu, 4)
    BY DEF U16
  <2> QED BY <2>1, <2>2
<1>3. Len(f) = 7 + k
  BY <1>1 DEF Bytes
<1>4. /\ MB!U16(f, 2) = U16(f, 2) /\ MB!U16(f, 4) = U16(f, 4) /\ MB!U16(f, 10) = U16(f, 10)
      /\ MB!At(f, 6) = At(f, 6) /\ MB!At(f, 7) = At(f, 7)
  BY ModbusReading
<1> DEFINE fc == MB!At(f, 7)
           n == Len(f)
           operand == MB!U16(f, 10)
           whole == n >= 12 /\ fc \in MB!KNOWN_FCS
           p1 == MB!U16(f, 2) # 0
           p2 == MB!U16(f, 4) # n - 6
           p3 == n < 8
           p4 == n >= 8 /\ fc \notin MB!KNOWN_FCS
           p5 == n \in 8..11 /\ fc \in MB!KNOWN_FCS
           p6 == whole /\ fc \in MB!READ_FCS /\ operand \notin 1..MB!read_limit(fc)
           p7 == whole /\ fc = 5 /\ operand \notin {0, 65280}
           p8 == whole /\ MB!At(f, 6) > MB!MAX_UNIT_ID
<1>5. MB!ParseRequest(f) = IF n < 7 THEN {"too_short"}
        ELSE MB!Found([protocol_id |-> p1, length |-> p2, no_fc |-> p3, unknown_fc |-> p4, truncated |-> p5,
                       quantity |-> p6, coil |-> p7, unit_id |-> p8])
  BY DEF MB!ParseRequest, MB!MBAP_LEN
<1>6. /\ ~(n < 7) /\ ~p1 /\ ~p2 /\ ~p3 /\ ~p4 /\ ~p5 /\ {p1, p2, p3, p4, p5, p6, p7, p8} \subseteq BOOLEAN
      /\ p6 <=> At(pdu, 0) \in MB!READ_FCS /\ U16(pdu, 3) \notin 1..MB!read_limit(At(pdu, 0))
      /\ p7 <=> At(pdu, 0) = 5 /\ U16(pdu, 3) \notin {0, 65280}
      /\ p8 <=> unit > 247
  <2>1. /\ n = 7 + k /\ fc = At(pdu, 0) /\ operand = U16(pdu, 3) /\ MB!At(f, 6) = unit
        /\ MB!U16(f, 2) = 0 /\ MB!U16(f, 4) = k + 1
    BY <1>1, <1>2, <1>3, <1>4
  <2> HIDE DEF fc, n, operand
  <2>2. ~(n < 7) /\ n >= 12 /\ ~p1 /\ ~p2 /\ ~p3 /\ ~p4 /\ ~p5 /\ whole
    BY <2>1
  <2>3. /\ p6 <=> At(pdu, 0) \in MB!READ_FCS /\ U16(pdu, 3) \notin 1..MB!read_limit(At(pdu, 0))
        /\ p7 <=> At(pdu, 0) = 5 /\ U16(pdu, 3) \notin {0, 65280}
        /\ p8 <=> unit > 247
    BY <2>1, <2>2 DEF MB!MAX_UNIT_ID
  <2>4. {p1, p2, p3, p4, p5, p6, p7, p8} \subseteq BOOLEAN
    OBVIOUS
  <2> QED BY <2>2, <2>3, <2>4
<1> HIDE DEF p1, p2, p3, p4, p5, p6, p7, p8, n
<1> QED BY <1>5, <1>6, ModbusFindings

\* What is where in a command of five bytes.
LEMMA FiveBytesRead ==
  ASSUME NEW fc \in Int, NEW x \in WORD, NEW y \in WORD
  PROVE  /\ Bytes(<<fc>> \o MB!B16(x) \o MB!B16(y), 5)
         /\ At(<<fc>> \o MB!B16(x) \o MB!B16(y), 0) = fc
         /\ U16(<<fc>> \o MB!B16(x) \o MB!B16(y), 3) = y
<1> DEFINE a == <<fc>>
           b == B16(x)
           c == B16(y)
           pdu == a \o b \o c
<1>1. <<fc>> \o MB!B16(x) \o MB!B16(y) = pdu
  BY DEF MB!B16, B16
<1>2. Bytes(a, 1) /\ At(a, 0) = fc /\ Bytes(b, 2) /\ Bytes(c, 2) /\ At(c, 0) * 256 + At(c, 1) = y
  BY FieldIsRead, BytesOfOne
<1> HIDE DEF a, b, c
<1>3. Bytes(a \o b, 3) /\ At(a \o b, 0) = At(a, 0)
  BY <1>2, BytesJoined
<1>4. /\ Bytes(pdu, 5) /\ \A i \in Nat : i < 3 => At(pdu, i) = At(a \o b, i)
      /\ \A i \in Nat : At(pdu, 3 + i) = At(c, i)
  BY <1>2, <1>3, BytesJoined
<1> HIDE DEF pdu
<1>5. At(pdu, 0) = fc /\ At(pdu, 3 + 0) = At(c, 0) /\ At(pdu, 3 + 1) = At(c, 1)
  BY <1>2, <1>3, <1>4
<1>6. U16(pdu, 3) = y
  BY <1>2, <1>5 DEF U16
<1> QED BY <1>1, <1>4, <1>5, <1>6

\* Every Modbus request the builders make has no error for the parser: of reads, of
\* writes of one register or coil...
THEOREM ModbusReadIsAccepted ==
  ASSUME NEW tid, NEW unit, NEW fc, NEW address, NEW quantity,
         NEW f, f = MB!BuildReadRequest(tid, unit, fc, address, quantity)
  PROVE  f = <<>> \/ MB!ParseRequest(f) = {}
<1> DEFINE pdu == <<fc>> \o MB!B16(address) \o MB!B16(quantity)
<1>1. SUFFICES ASSUME f # <<>> PROVE MB!ParseRequest(f) = {}
  OBVIOUS
<1>2. /\ fc \in MB!READ_FCS /\ tid \in WORD /\ unit \in 0..MB!MAX_UNIT_ID /\ address \in WORD
      /\ quantity \in 1..MB!read_limit(fc)
      /\ f = MB!Mbap(tid, unit, pdu)
  BY <1>1, ModbusCopies DEF MB!BuildReadRequest
<1>3. fc \in Int /\ fc \in MB!KNOWN_FCS /\ fc # 5
  BY <1>2 DEF MB!READ_FCS, MB!KNOWN_FCS
<1>4. quantity \in WORD /\ unit \in Nat /\ ~(unit > 247)
  <2>1. MB!read_limit(fc) \in Int /\ MB!read_limit(fc) <= 2000
    BY DEF MB!read_limit
  <2>2. quantity \in Int /\ 1 <= quantity /\ quantity <= MB!read_limit(fc)
    BY <1>2, <2>1, InRange
  <2>3. unit \in Int /\ 0 <= unit /\ unit <= 247
    BY <1>2, InRange DEF MB!MAX_UNIT_ID
  <2> QED BY <2>1, <2>2, <2>3, WordIs
<1>5. Bytes(pdu, 5) /\ At(pdu, 0) = fc /\ U16(pdu, 3) = quantity
  BY ONLY <1>2, <1>3, <1>4, FiveBytesRead
<1> HIDE DEF pdu
<1>6. /\ MB!ParseRequest(f) \subseteq {"quantity", "coil", "unit_id"}
      /\ "quantity" \in MB!ParseRequest(f) <=> fc \in MB!READ_FCS /\ quantity \notin 1..MB!read_limit(fc)
      /\ "coil" \in MB!ParseRequest(f) <=> fc = 5 /\ quantity \notin {0, 65280}
      /\ "unit_id" \in MB!ParseRequest(f) <=> unit > 247
  <2>1. At(pdu, 0) \in MB!KNOWN_FCS /\ 5 \in Nat /\ 5 <= 5 /\ 5 <= 253
    BY <1>3, <1>5
  <2> QED BY <1>2, <1>4, <1>5, <2>1, ModbusParsed
<1> QED BY <1>2, <1>3, <1>4, <1>6

THEOREM ModbusWriteSingleIsAccepted ==
  ASSUME NEW tid, NEW unit, NEW fc, NEW address, NEW value,
         NEW f, f = MB!BuildWriteSingle(tid, unit, fc, address, value)
  PROVE  f = <<>> \/ MB!ParseRequest(f) = {}
<1> DEFINE operand == IF fc = 5 THEN value * 65280 ELSE value
           pdu == <<fc>> \o MB!B16(address) \o MB!B16(operand)
<1>1. SUFFICES ASSUME f # <<>> PROVE MB!ParseRequest(f) = {}
  OBVIOUS
<1>2. /\ fc \in MB!WRITE_FCS /\ tid \in WORD /\ unit \in 0..MB!MAX_UNIT_ID /\ address \in WORD
      /\ value \in (IF fc = 5 THEN {0, 1} ELSE WORD)
      /\ f = MB!Mbap(tid, unit, pdu)
  BY <1>1, ModbusCopies DEF MB!BuildWriteSingle
<1>3. fc \in Int /\ fc \in MB!KNOWN_FCS /\ fc \notin MB!READ_FCS
  BY <1>2 DEF MB!READ_FCS, MB!WRITE_FCS, MB!KNOWN_FCS
<1>4. operand \in WORD /\ (fc = 5 => operand \in {0, 65280})
  <2>1. CASE fc = 5
    <3>1. 0 * 65280 = 0 /\ 1 * 65280 = 65280 /\ 0 \in WORD /\ 65280 \in WORD
      BY WordIs
    <3> QED BY <1>2, <2>1, <3>1
  <2>2. CASE fc # 5
    BY <1>2, <2>2
  <2> QED BY <2>1, <2>2
<1>5. unit \in Nat /\ ~(unit > 247)
  <2>1. unit \in Int /\ 0 <= unit /\ unit <= 247
    BY <1>2, InRange DEF MB!MAX_UNIT_ID
  <2> QED BY <2>1
<1> HIDE DEF operand
<1>6. Bytes(pdu, 5) /\ At(pdu, 0) = fc /\ U16(pdu, 3) = operand
  BY ONLY <1>2, <1>3, <1>4, FiveBytesRead
<1> HIDE DEF pdu
<1>7. /\ MB!ParseRequest(f) \subseteq {"quantity", "coil", "unit_id"}
      /\ "quantity" \in MB!ParseRequest(f) <=> fc \in MB!READ_FCS /\ operand \notin 1..MB!read_limit(fc)
      /\ "coil" \in MB!ParseRequest(f) <=> fc = 5 /\ operand \notin {0, 65280}
      /\ "unit_id" \in MB!ParseRequest(f) <=> unit > 247
  <2>1. At(pdu, 0) \in MB!KNOWN_FCS /\ 5 \in Nat /\ 5 <= 5 /\ 5 <= 253
    BY <1>3, <1>6
  <2> QED BY <1>2, <1>5, <1>6, <2>1, ModbusParsed
<1> QED BY <1>3, <1>4, <1>5, <1>7

\* ...and of writes of many, those whose unit the parser knows of: this builder
\* takes any that one byte has room for.
THEOREM ModbusWriteMultipleIsAccepted ==
  ASSUME NEW tid, NEW unit, NEW address, NEW values \in Seq(Int),
         NEW f, f = MB!BuildWriteMultiple(tid, unit, address, values)
  PROVE  f = <<>> \/ MB!ParseRequest(f) = IF unit <= 247 THEN {} ELSE {"unit_id"}
<1> DEFINE n == Len(values)
           words == [i \in DOMAIN values |-> MB!B16(values[i])]
           a == <<MB!WRITE_MULTIPLE_REGISTERS>>
           b == MB!B16(address)
           c == MB!B16(n)
           d == <<2 * n>>
           e == MB!FlattenSeq(words)
           pdu == a \o b \o c \o d \o e
<1>1. SUFFICES ASSUME f # <<>> PROVE MB!ParseRequest(f) = IF unit <= 247 THEN {} ELSE {"unit_id"}
  OBVIOUS
<1>2. /\ tid \in WORD /\ address \in WORD /\ unit \in BYTE /\ n \in 1..123
      /\ \A i \in DOMAIN values : values[i] \in WORD
      /\ f = MB!Mbap(tid, unit, pdu)
  BY <1>1, ModbusCopies DEF MB!BuildWriteMultiple
<1>3. n \in Nat /\ n # 0 /\ n <= 123 /\ n \in WORD /\ 2 * n \in Int
  <2>1. 123 \in Nat /\ 1 \in Int /\ 123 \in Int
    OBVIOUS
  <2>2. n \in Int /\ 1 <= n /\ n <= 123
    BY ONLY <1>2, <2>1, InRange, Zenon
  <2> HIDE DEF n
  <2> QED BY <2>2, WordIs
<1>4. Bytes(e, 2 * n)
  <2>1. DOMAIN values = 1..n
    BY LenProperties
  <2>2. \A i \in 1..n : words[i] = B16(values[i]) /\ Bytes(B16(values[i]), 2)
    BY <1>2, <2>1, FieldIsRead DEF MB!B16, B16
  <2>3. Len(words) = n /\ words # <<>>
    BY <1>3, <2>1
  <2> HIDE DEF words, n
  <2>4. MB!FlattenSeq(words) = FlattenSeq(words)
    BY DEF MB!FlattenSeq, FlattenSeq
  <2> QED BY <1>3, <2>2, <2>3, <2>4, FlattenedLength
<1>5. Bytes(a, 1) /\ At(a, 0) = 16 /\ Bytes(b, 2) /\ Bytes(c, 2) /\ Bytes(d, 1)
  <2>1. b = B16(address) /\ c = B16(n) /\ MB!WRITE_MULTIPLE_REGISTERS = 16
    BY DEF MB!B16, B16, MB!WRITE_MULTIPLE_REGISTERS
  <2> HIDE DEF n, b, c
  <2> QED BY <1>2, <1>3, <2>1, FieldIsRead, BytesOfOne
<1> HIDE DEF a, b, c, d, e, n
<1>6. Bytes(pdu, 6 + 2 * n) /\ At(pdu, 0) = 16
  <2>1. Bytes(a \o b \o c \o d, 6) /\ At(a \o b \o c \o d, 0) = 16
    BY <1>5, BytesJoined
  <2> QED BY <1>3, <1>4, <2>1, BytesJoined
<1> HIDE DEF pdu
<1>7. /\ MB!ParseRequest(f) \subseteq {"quantity", "coil", "unit_id"}
      /\ "quantity" \in MB!ParseRequest(f) =>  16 \in MB!READ_FCS
      /\ "coil" \in MB!ParseRequest(f) => 16 = 5
      /\ "unit_id" \in MB!ParseRequest(f) <=> unit > 247
  <2> DEFINE k == 6 + 2 * n
  <2>1. At(pdu, 0) \in MB!KNOWN_FCS /\ k \in Nat /\ 5 <= k /\ k <= 253 /\ Bytes(pdu, k) /\ unit \in Nat
    BY <1>2, <1>3, <1>6, ByteIs DEF MB!KNOWN_FCS, MB!WRITE_MULTIPLE_REGISTERS
  <2> HIDE DEF k
  <2> QED BY <1>2, <1>6, <2>1, ModbusParsed
<1>8. 16 \notin MB!READ_FCS /\ unit \in Nat
  BY <1>2, ByteIs DEF MB!READ_FCS
<1>9. CASE unit <= 247
  BY <1>7, <1>8, <1>9
<1>10. CASE ~(unit <= 247)
  <2>1. unit > 247
    BY <1>8, <1>10
  <2> QED BY <1>7, <1>8, <1>10, <2>1
<1> QED BY <1>9, <1>10

-----------------------------------------------------------------------------
(* What the parsers say of requests: FINS                                   *)

\* A field of four bytes at i of f that has them of B32(n).
LEMMA WideIsRead ==
  ASSUME NEW n, FitsWide(n), NEW i \in Nat, NEW f, \A k \in 0..3 : At(f, i + k) = At(B32(n), k)
  PROVE  U32(f, i) = n
<1>1. /\ At(f, i + 0) = At(B32(n), 0) /\ At(f, i + 1) = At(B32(n), 1)
      /\ At(f, i + 2) = At(B32(n), 2) /\ At(f, i + 3) = At(B32(n), 3)
  OBVIOUS
<1>2. i + 0 = i /\ (i + 2) + 1 = i + 3
  OBVIOUS
<1>3. U32(f, i) = Wide(At(f, i) * 256 + At(f, i + 1), At(f, i + 2) * 256 + At(f, i + 3))
  BY <1>2 DEF U32, U16
<1> QED BY <1>1, <1>2, <1>3, WideFieldIsRead

\* What FinsCodec's copies read.
LEMMA FinsReading ==
  /\ \A f, i : FI!At(f, i) = At(f, i) /\ FI!U16(f, i) = U16(f, i) /\ FI!U32(f, i) = U32(f, i)
                 /\ FI!From(f, i) = From(f, i) /\ FI!Upto(f, i) = Upto(f, i)
  /\ \A n : FI!B32(n) = B32(n) /\ FI!B16(n) = B16(n)
<1>1. ASSUME NEW f, NEW i
      PROVE  FI!At(f, i) = At(f, i) /\ FI!U16(f, i) = U16(f, i) /\ FI!U32(f, i) = U32(f, i)
  BY DEF FI!At, At, FI!U16, U16, FI!U32, U32, FI!Wide, Wide
<1>2. ASSUME NEW f, NEW i PROVE FI!From(f, i) = From(f, i) /\ FI!Upto(f, i) = Upto(f, i)
  BY DEF FI!From, From, FI!Upto, Upto
<1>3. ASSUME NEW n PROVE FI!B32(n) = B32(n) /\ FI!B16(n) = B16(n)
  BY DEF FI!B32, B32, FI!B16, B16
<1> QED BY <1>1, <1>2, <1>3

\* What is where in a frame with the FINS/TCP header.
LEMMA TcpFrameIsRead ==
  ASSUME NEW command \in WORD, NEW k \in Nat, k <= 100000, NEW payload, Bytes(payload, k),
         NEW f, f = FI!BuildTcpFrame(command, payload)
  PROVE  /\ Bytes(f, 16 + k) /\ Upto(f, 4) = <<70, 73, 78, 83>>
         /\ U32(f, 4) = 8 + k /\ U32(f, 8) = command /\ U32(f, 12) = 0
         /\ From(f, 16) = payload
<1> DEFINE a == <<70, 73, 78, 83>>
           x == 8 + k
           b == B32(x)
           c == B32(command)
           d == B32(0)
           ab == a \o b
           abc == ab \o c
           h == abc \o d
           g == h \o payload
<1>1. f = g
  <2>1. Len(payload) = k
    BY DEF Bytes
  <2>2. FI!BuildTcpFrame(command, payload) = a \o FI!B32(8 + k) \o FI!B32(command) \o FI!B32(0) \o payload
    BY <2>1 DEF FI!BuildTcpFrame, FI!TCP_MAGIC
  <2>3. FI!B32(8 + k) = B32(8 + k) /\ FI!B32(command) = B32(command) /\ FI!B32(0) = B32(0)
    BY FinsReading
  <2> QED BY <2>2, <2>3
<1>2. Bytes(a, 4)
  BY DEF Bytes
<1>3. FitsWide(x) /\ FitsWide(command) /\ FitsWide(0) /\ x = 8 + k
  BY WordIs DEF FitsWide
<1> HIDE DEF x
<1>4. Bytes(b, 4) /\ Bytes(c, 4) /\ Bytes(d, 4)
  BY <1>3, WideFieldIsRead
<1> HIDE DEF a, b, c, d
<1>5. /\ Bytes(ab, 8) /\ \A i \in Nat : i < 4 => At(ab, i) = At(a, i)
      /\ \A i \in Nat : At(ab, 4 + i) = At(b, i)
  BY <1>2, <1>4, BytesJoined
<1> HIDE DEF ab
<1>6. /\ Bytes(abc, 12) /\ \A i \in Nat : i < 8 => At(abc, i) = At(ab, i)
      /\ \A i \in Nat : At(abc, 8 + i) = At(c, i)
  BY <1>4, <1>5, BytesJoined
<1> HIDE DEF abc
<1>7. /\ Bytes(h, 16) /\ \A i \in Nat : i < 12 => At(h, i) = At(abc, i)
      /\ \A i \in Nat : At(h, 12 + i) = At(d, i)
  BY <1>4, <1>6, BytesJoined
<1> HIDE DEF h
<1>8. /\ Bytes(g, 16 + k) /\ \A i \in Nat : i < 16 => At(g, i) = At(h, i)
      /\ \A i \in Nat : At(g, 16 + i) = At(payload, i)
  BY <1>7, BytesJoined
<1> HIDE DEF g
<1>9. Upto(g, 4) = a
  <2>1. \A i \in Nat : i < 4 => At(g, i) = At(a, i)
    BY <1>5, <1>6, <1>7, <1>8
  <2>2. 4 \in Nat /\ 16 + k \in Nat /\ 4 <= 16 + k
    OBVIOUS
  <2> QED BY ONLY <1>2, <1>8, <2>1, <2>2, UptoIs
<1>10. U32(g, 4) = x /\ U32(g, 8) = command /\ U32(g, 12) = 0
  <2>1. \A i \in 0..3 : At(g, 4 + i) = At(b, i) /\ At(g, 8 + i) = At(c, i) /\ At(g, 12 + i) = At(d, i)
    BY <1>5, <1>6, <1>7, <1>8
  <2> QED BY <1>3, <2>1, WideIsRead DEF b, c, d
<1>11. From(g, 16) = payload
  <2>1. 16 \in Nat
    OBVIOUS
  <2> QED BY <1>8, <2>1, FromIs
<1> QED BY <1>1, <1>3, <1>8, <1>9, <1>10, <1>11 DEF a

\* The names of the findings of a FINS request.
LEMMA FinsFindings ==
  ASSUME NEW a, NEW b, NEW c, NEW d, NEW e, NEW g, NEW h,
         {a, b, c, d, e, g, h} \subseteq BOOLEAN, ~a, ~b, ~c, ~d, ~e, ~g, ~h
  PROVE  FI!Found([tcp_error |-> a, too_short |-> b, unsupported |-> c, truncated |-> d, bit_address |-> e,
                   area |-> g, count |-> h]) = {}
BY DEF FI!Found

\* A frame the parser of requests finds nothing in: a handshake, or a request for
\* memory it knows of.
LEMMA FinsParsed ==
  ASSUME NEW command \in WORD, NEW k \in Nat, k <= 100000, NEW payload, Bytes(payload, k),
         NEW f, f = FI!BuildTcpFrame(command, payload),
         \/ command = 0
         \/ /\ command = 2 /\ 18 <= k /\ U16(payload, 10) \in {257, 258} /\ At(payload, 15) = 0
            /\ At(payload, 12) \in FI!AREA_CODES /\ U16(payload, 16) \in 1..FI!MAX_READ_WORDS
  PROVE  FI!ParseRequest(f) = {}
<1>1. /\ Bytes(f, 16 + k) /\ Upto(f, 4) = <<70, 73, 78, 83>>
      /\ U32(f, 4) = 8 + k /\ U32(f, 8) = command /\ U32(f, 12) = 0
      /\ From(f, 16) = payload
  BY TcpFrameIsRead
<1> DEFINE h == FI!ParseTcpHeader(f)
<1>2. h.ok /\ h.command = command /\ h.error = 0 /\ h.payload = payload
  <2>1. Len(f) = 16 + k /\ Len(payload) = k
    BY <1>1 DEF Bytes
  <2>2. /\ FI!From(f, 16) = payload /\ FI!Upto(f, 4) = <<70, 73, 78, 83>>
        /\ FI!U32(f, 4) = 8 + k /\ FI!U32(f, 8) = command /\ FI!U32(f, 12) = 0
    BY <1>1, FinsReading
  <2>3. Len(f) >= 16 /\ FI!U32(f, 4) = 8 + Len(FI!From(f, 16))
    BY <2>1, <2>2
  <2> QED BY <2>2, <2>3 DEF FI!ParseTcpHeader, FI!TCP_HEADER_LEN, FI!TCP_MAGIC
<1> HIDE DEF h
<1> DEFINE p == h.payload
           data == h.command \in FI!FINS_EXCHANGE_COMMANDS
           known == /\ data
                    /\ Len(p) >= 12
                    /\ FI!U16(p, 10) \in {257, 258}
           whole == known /\ Len(p) >= 18
           p1 == h.error # 0
           p2 == data /\ Len(p) < 12
           p3 == data /\ Len(p) >= 12 /\ ~known
           p4 == known /\ ~whole
           p5 == whole /\ FI!At(p, 15) # 0
           p6 == whole /\ FI!At(p, 12) \notin FI!AREA_CODES
           p7 == whole /\ FI!U16(p, 16) \notin 1..FI!MAX_READ_WORDS
<1>3. FI!ParseRequest(f) = IF ~h.ok THEN {"tcp_header"}
        ELSE FI!Found([tcp_error |-> p1, too_short |-> p2, unsupported |-> p3, truncated |-> p4,
                       bit_address |-> p5, area |-> p6, count |-> p7])
  BY DEF FI!ParseRequest, FI!FINS_HEADER_LEN, FI!CMD_MEMORY_AREA_READ, FI!CMD_MEMORY_AREA_WRITE, h
<1>4. {p1, p2, p3, p4, p5, p6, p7} \subseteq BOOLEAN
  OBVIOUS
<1>5. ~p1 /\ ~p2 /\ ~p3 /\ ~p4 /\ ~p5 /\ ~p6 /\ ~p7
  <2>1. CASE command = 0
    <3>1. ~data
      BY <1>2, <2>1 DEF FI!FINS_EXCHANGE_COMMANDS, FI!TCP_CMD_DATA_SEND, FI!TCP_CMD_EXCHANGE
    <3> QED BY <1>2, <3>1
  <2>2. CASE command # 0
    <3>1. Len(p) = k /\ 18 <= k
      BY <1>2, <2>2 DEF Bytes
    <3>2. /\ FI!U16(p, 10) = U16(payload, 10) /\ FI!At(p, 15) = At(payload, 15)
          /\ FI!At(p, 12) = At(payload, 12) /\ FI!U16(p, 16) = U16(payload, 16)
      BY <1>2, FinsReading
    <3>3. data /\ whole
      BY <1>2, <2>2, <3>1, <3>2 DEF FI!FINS_EXCHANGE_COMMANDS, FI!TCP_CMD_DATA_SEND
    <3> QED BY <1>2, <2>2, <3>1, <3>2, <3>3
  <2> QED BY <2>1, <2>2
<1> HIDE DEF p1, p2, p3, p4, p5, p6, p7
<1> QED BY <1>2, <1>3, <1>4, <1>5, FinsFindings

\* What is where in a request for memory.
LEMMA MemoryIsRead ==
  ASSUME NEW sid \in Int, NEW node \in Int, NEW command \in WORD, NEW area \in Int,
         NEW address \in WORD, NEW count \in WORD, NEW dest \in Int,
         NEW m, m = FI!Memory(sid, node, command, area, address, count, dest)
  PROVE  /\ Bytes(m, 18) /\ U16(m, 10) = command /\ At(m, 12) = area /\ At(m, 15) = 0
         /\ U16(m, 16) = count
<1> DEFINE a == <<128, 0, 2, 0, dest, 0, 0, node, 0, sid>>
           b == B16(command)
           c == <<area>>
           d == B16(address)
           e == <<0>>
           g == B16(count)
           ab == a \o b
           abc == ab \o c
           abcd == abc \o d
           h == abcd \o e
           all == h \o g
<1>1. m = all
  BY FinsReading DEF FI!Memory
<1>2. Bytes(a, 10)
  BY DEF Bytes
<1>3. /\ Bytes(b, 2) /\ At(b, 0) * 256 + At(b, 1) = command
      /\ Bytes(c, 1) /\ At(c, 0) = area /\ Bytes(d, 2) /\ Bytes(e, 1) /\ At(e, 0) = 0
      /\ Bytes(g, 2) /\ At(g, 0) * 256 + At(g, 1) = count
  BY FieldIsRead, BytesOfOne
<1> HIDE DEF a, b, c, d, e, g
<1>4. Bytes(ab, 12) /\ \A i \in Nat : At(ab, 10 + i) = At(b, i)
  BY <1>2, <1>3, BytesJoined
<1> HIDE DEF ab
<1>5. /\ Bytes(abc, 13) /\ \A i \in Nat : i < 12 => At(abc, i) = At(ab, i)
      /\ \A i \in Nat : At(abc, 12 + i) = At(c, i)
  BY <1>3, <1>4, BytesJoined
<1> HIDE DEF abc
<1>6. Bytes(abcd, 15) /\ \A i \in Nat : i < 13 => At(abcd, i) = At(abc, i)
  BY <1>3, <1>5, BytesJoined
<1> HIDE DEF abcd
<1>7. /\ Bytes(h, 16) /\ \A i \in Nat : i < 15 => At(h, i) = At(abcd, i)
      /\ \A i \in Nat : At(h, 15 + i) = At(e, i)
  BY <1>3, <1>6, BytesJoined
<1> HIDE DEF h
<1>8. /\ Bytes(all, 18) /\ \A i \in Nat : i < 16 => At(all, i) = At(h, i)
      /\ \A i \in Nat : At(all, 16 + i) = At(g, i)
  BY <1>3, <1>7, BytesJoined
<1> HIDE DEF all
<1>9. At(all, 12) = area /\ At(all, 15) = 0
  <2>1. At(abc, 12 + 0) = At(c, 0) /\ At(h, 15 + 0) = At(e, 0)
    BY <1>5, <1>7
  <2> QED BY <1>3, <1>6, <1>7, <1>8, <2>1
<1>10. U16(all, 10) = command
  <2>1. At(ab, 10 + 0) = At(b, 0) /\ At(ab, 10 + 1) = At(b, 1)
    BY <1>4
  <2>2. At(all, 10) = At(b, 0) /\ At(all, 11) = At(b, 1)
    BY <1>5, <1>6, <1>7, <1>8, <2>1
  <2> QED BY <1>3, <2>2 DEF U16
<1>11. U16(all, 16) = count
  <2>1. At(all, 16 + 0) = At(g, 0) /\ At(all, 16 + 1) = At(g, 1)
    BY <1>8
  <2> QED BY <1>3, <2>1 DEF U16
<1> QED BY <1>1, <1>8, <1>9, <1>10, <1>11

\* Every FINS request the builders make has no error for the parser: handshakes,
\* reads...
THEOREM FinsHandshakeIsAccepted ==
  ASSUME NEW node, NEW f, f = FI!BuildHandshakeRequest(node)
  PROVE  f = <<>> \/ FI!ParseRequest(f) = {}
<1>1. SUFFICES ASSUME f # <<>> PROVE FI!ParseRequest(f) = {}
  OBVIOUS
<1> DEFINE p == B32(node)
<1>2. node \in BYTE /\ f = FI!BuildTcpFrame(0, p)
  <2>1. FI!BYTE = BYTE /\ FI!B32(node) = p
    BY FinsReading DEF FI!BYTE, BYTE
  <2> QED BY <1>1, <2>1 DEF FI!BuildHandshakeRequest, FI!TCP_CMD_CONNECT_REQ
<1>3. Bytes(p, 4) /\ 0 \in WORD
  <2>1. FitsWide(node)
    BY <1>2, ByteIs DEF FitsWide
  <2> QED BY <2>1, WideFieldIsRead, WordIs
<1> HIDE DEF p
<1> QED BY <1>2, <1>3, FinsParsed

THEOREM FinsReadIsAccepted ==
  ASSUME NEW sid, NEW node \in Int, NEW area, NEW address, NEW count, NEW dest,
         NEW f, f = FI!BuildReadRequest(sid, node, area, address, count, dest)
  PROVE  f = <<>> \/ FI!ParseRequest(f) = {}
<1>1. SUFFICES ASSUME f # <<>> PROVE FI!ParseRequest(f) = {}
  OBVIOUS
<1> DEFINE m == FI!Memory(sid, node, 257, area, address, count, dest)
<1>2. /\ FI!Addressable(sid, area, address, dest) /\ count \in 1..FI!MAX_READ_WORDS
      /\ f = FI!BuildTcpFrame(2, m)
  BY <1>1 DEF FI!BuildReadRequest, FI!TCP_CMD_DATA_SEND, FI!CMD_MEMORY_AREA_READ
<1>3. count \in WORD /\ 257 \in WORD /\ 2 \in WORD
  <2>1. FI!MAX_READ_WORDS \in Int /\ FI!MAX_READ_WORDS <= 65535
    BY DEF FI!MAX_READ_WORDS
  <2>2. count \in Int /\ 1 <= count /\ count <= FI!MAX_READ_WORDS
    BY <1>2, <2>1, InRange
  <2> QED BY <2>1, <2>2, WordIs
<1>4. sid \in Int /\ area \in Int /\ address \in WORD /\ dest \in Int /\ area \in FI!AREA_CODES
  BY <1>2, AddressableIs DEF FI!Addressable
<1>5. Bytes(m, 18) /\ U16(m, 10) = 257 /\ At(m, 12) = area /\ At(m, 15) = 0 /\ U16(m, 16) = count
  BY <1>3, <1>4, MemoryIsRead
<1> HIDE DEF m
<1> QED BY <1>2, <1>3, <1>4, <1>5, FinsParsed

\* ...and writes, also those too long for streams.py to cut.
THEOREM FinsWriteIsAccepted ==
  ASSUME NEW sid, NEW node \in Int, NEW area, NEW address, NEW values \in Seq(Int), NEW dest,
         NEW f, f = FI!BuildMemoryAreaWrite(sid, node, area, address, values, dest)
  PROVE  f = <<>> \/ FI!ParseRequest(f) = {}
<1> DEFINE n == Len(values)
           words == [i \in DOMAIN values |-> FI!B16(values[i] % 65536)]
           m == FI!Memory(sid, node, 258, area, address, n, dest)
           e == FI!FlattenSeq(words)
           p == m \o e
           k == 18 + 2 * n
<1>1. SUFFICES ASSUME f # <<>> PROVE FI!ParseRequest(f) = {}
  OBVIOUS
<1>2. /\ FI!Addressable(sid, area, address, dest) /\ n \in 1..FI!MAX_READ_WORDS
      /\ f = FI!BuildTcpFrame(2, p)
  BY <1>1 DEF FI!BuildMemoryAreaWrite, FI!TCP_CMD_DATA_SEND, FI!CMD_MEMORY_AREA_WRITE
<1>3. n \in Nat /\ n # 0 /\ n <= 32766 /\ 2 * n \in Nat
  <2>1. FI!MAX_READ_WORDS \in Int /\ FI!MAX_READ_WORDS <= 32766
    BY DEF FI!MAX_READ_WORDS
  <2>2. n \in Int /\ 1 <= n /\ n <= FI!MAX_READ_WORDS
    BY <1>2, <2>1, InRange
  <2> QED BY <2>1, <2>2
<1>4. Bytes(e, 2 * n)
  <2>1. DOMAIN values = 1..n
    BY LenProperties
  <2>2. ASSUME NEW i \in 1..n PROVE words[i] = B16(values[i] % 65536) /\ Bytes(B16(values[i] % 65536), 2)
    <3>1. values[i] \in Int
      BY <2>1, ElementOfSeq
    <3>2. values[i] % 65536 \in WORD
      BY <3>1, WordIs
    <3>3. words[i] = B16(values[i] % 65536)
      BY <2>1, FinsReading
    <3> QED BY <3>2, <3>3, FieldIsRead
  <2>3. Len(words) = n /\ words # <<>>
    BY <1>3, <2>1
  <2> HIDE DEF words, n
  <2>4. FI!FlattenSeq(words) = FlattenSeq(words)
    BY DEF FI!FlattenSeq, FlattenSeq
  <2> QED BY <1>3, <2>2, <2>3, <2>4, FlattenedLength
<1> HIDE DEF e
<1>5. sid \in Int /\ area \in Int /\ address \in WORD /\ dest \in Int /\ area \in FI!AREA_CODES
  BY <1>2, AddressableIs DEF FI!Addressable
<1> HIDE DEF n
<1>6. Bytes(m, 18) /\ U16(m, 10) = 258 /\ At(m, 12) = area /\ At(m, 15) = 0 /\ U16(m, 16) = n
  <2>1. n \in WORD /\ 258 \in WORD
    BY <1>3, WordIs
  <2> QED BY <1>5, <2>1, MemoryIsRead
<1> HIDE DEF m
<1>7. Bytes(p, k) /\ \A i \in Nat : i < 18 => At(p, i) = At(m, i)
  BY <1>3, <1>4, <1>6, BytesJoined
<1> HIDE DEF p
<1>8. U16(p, 10) = 258 /\ At(p, 12) = area /\ At(p, 15) = 0 /\ U16(p, 16) = n
  BY <1>6, <1>7 DEF U16
<1>9. k \in Nat /\ k <= 100000 /\ 18 <= k /\ 2 \in WORD
  BY <1>3, WordIs
<1> HIDE DEF k
<1> QED BY <1>2, <1>5, <1>7, <1>8, <1>9, FinsParsed

-----------------------------------------------------------------------------
(* What the parsers say of requests: IEC 104                                *)

\* What Iec104Codec's copies read.
LEMMA Iec104Reading ==
  /\ \A f, i : IEC!At(f, i) = At(f, i) /\ IEC!L16(f, i) = L16(f, i) /\ IEC!From(f, i) = From(f, i)
  /\ \A f, i, j : IEC!Mid(f, i, j) = Mid(f, i, j)
  /\ \A n : IEC!S16(n) = S16(n) /\ IEC!S32(n) = S32(n) /\ IEC!Zeros(n) = Zeros(n)
  /\ \A f, i : IEC!Upto(f, i) = Upto(f, i)
<1>1. ASSUME NEW f, NEW i
      PROVE  /\ IEC!At(f, i) = At(f, i) /\ IEC!L16(f, i) = L16(f, i) /\ IEC!From(f, i) = From(f, i)
             /\ IEC!Upto(f, i) = Upto(f, i)
  BY DEF IEC!At, At, IEC!L16, L16, IEC!From, From, IEC!Upto, Upto
<1>2. ASSUME NEW f, NEW i, NEW j PROVE IEC!Mid(f, i, j) = Mid(f, i, j)
  BY DEF IEC!Mid, Mid, IEC!From, From, IEC!Upto, Upto
<1>3. ASSUME NEW n PROVE IEC!S16(n) = S16(n) /\ IEC!S32(n) = S32(n) /\ IEC!Zeros(n) = Zeros(n)
  BY DEF IEC!S16, S16, IEC!S32, S32, IEC!Zeros, Zeros
<1> QED BY <1>1, <1>2, <1>3

\* The names of the findings of a validation.
LEMMA Iec104Findings ==
  ASSUME NEW a, NEW b, NEW c, NEW d, {a, b, c, d} \subseteq BOOLEAN, ~a, ~b, ~c, ~d
  PROVE  /\ IEC!Found([start_byte |-> a, length_field |-> b]) = {}
         /\ IEC!Found([u_frame_shape |-> a, u_function_known |-> b, i_has_asdu |-> c, asdu_structure |-> d]) = {}
BY DEF IEC!Found

\* What a validation looks at in a frame with a sound head.
LEMMA Iec104Validated ==
  ASSUME NEW n \in Nat, 4 <= n, n <= 253, NEW f, Bytes(f, 2 + n), At(f, 0) = 104, At(f, 1) = n,
         IEC!ApciFormat(f) = "U" => n = 4 /\ Mid(f, 3, 6) = Zeros(3) /\ At(f, 2) \in IEC!U_FUNCTIONS,
         IEC!ApciFormat(f) = "I" => n # 4 /\ IEC!ParseAsdu(IEC!AsduOf(f)).errors = {}
  PROVE  IEC!ValidateFrame(f) = {}
<1> DEFINE fmt == IEC!ApciFormat(f)
           p1 == IEC!At(f, 0) # 104
           p2 == IEC!At(f, 1) \notin IEC!APDU_LENS \/ Len(f) # IEC!At(f, 1) + 2
           p3 == fmt = "U" /\ (Len(f) # 6 \/ IEC!Mid(f, 3, 6) # IEC!Zeros(3))
           p4 == fmt = "U" /\ IEC!At(f, 2) \notin IEC!U_FUNCTIONS
           p5 == fmt = "I" /\ Len(f) <= 6
           p6 == fmt = "I" /\ IEC!ParseAsdu(IEC!AsduOf(f)).errors # {}
<1>1. IEC!ValidateFrame(f) = IF Len(f) < 2 THEN {"length_field"} \cup IEC!Found([start_byte |-> p1])
        ELSE IEC!Found([start_byte |-> p1, length_field |-> p2])
          \cup (IF Len(f) < 6 \/ p1 THEN {}
                ELSE IEC!Found([u_frame_shape |-> p3, u_function_known |-> p4, i_has_asdu |-> p5, asdu_structure |-> p6]))
  BY DEF IEC!ValidateFrame, IEC!START_BYTE, IEC!APCI_LEN
<1>2. Len(f) = 2 + n /\ ~(Len(f) < 2) /\ ~(Len(f) < 6)
  BY DEF Bytes
<1>3. /\ IEC!At(f, 0) = 104 /\ IEC!At(f, 1) = n /\ IEC!At(f, 2) = At(f, 2)
      /\ IEC!Mid(f, 3, 6) = Mid(f, 3, 6) /\ IEC!Zeros(3) = Zeros(3)
  BY Iec104Reading
<1>4. n \in IEC!APDU_LENS
  BY DEF IEC!APDU_LENS
<1>5. ~p1 /\ ~p2 /\ ~p3 /\ ~p4 /\ ~p5 /\ ~p6 /\ {p1, p2, p3, p4, p5, p6} \subseteq BOOLEAN
  BY <1>2, <1>3, <1>4
<1> HIDE DEF p1, p2, p3, p4, p5, p6
<1> QED BY <1>1, <1>2, <1>5, Iec104Findings

\* Every control frame is valid, and a request.
THEOREM Iec104ControlFramesAreAccepted ==
  /\ \A rx : \/ IEC!BuildApciS(rx) = <<>>
             \/ /\ IEC!ValidateFrame(IEC!BuildApciS(rx)) = {}
                /\ IEC!ParseFrame(IEC!BuildApciS(rx)).direction = "req"
  /\ \A fn : \/ IEC!BuildApciU(fn) = <<>>
             \/ /\ IEC!ValidateFrame(IEC!BuildApciU(fn)) = {}
                /\ IEC!ParseFrame(IEC!BuildApciU(fn)).direction = "req"
<1>1. ASSUME NEW f, Bytes(f, 6), At(f, 0) = 104, IEC!ApciFormat(f) # "I"
      PROVE  IEC!ParseFrame(f).direction = "req"
  <2>1. Len(f) = 6 /\ IEC!At(f, 0) = 104
    BY <1>1, Iec104Reading DEF Bytes
  <2> QED BY <1>1, <2>1 DEF IEC!ParseFrame, IEC!APCI_LEN, IEC!START_BYTE
<1>2. ASSUME NEW rx, NEW f, f = IEC!BuildApciS(rx), f # <<>>
      PROVE  IEC!ValidateFrame(f) = {} /\ IEC!ParseFrame(f).direction = "req"
  <2> DEFINE a == <<104, 4, 1, 0>>
             b == S16(2 * rx)
  <2>1. rx \in IEC!SEQUENCE_NUMBERS /\ f = a \o b
    BY <1>2, Iec104Reading DEF IEC!BuildApciS, IEC!START_BYTE
  <2>2. Bytes(a, 4) /\ At(a, 0) = 104 /\ At(a, 1) = 4 /\ At(a, 2) = 1
    BY DEF Bytes, At
  <2>3. Bytes(b, 2)
    BY <2>1, SequenceNumberIs, FieldIsRead
  <2> HIDE DEF a, b
  <2>4. Bytes(f, 6) /\ At(f, 0) = 104 /\ At(f, 1) = 4 /\ At(f, 2) = 1
    BY <2>1, <2>2, <2>3, BytesJoined
  <2>5. IEC!ApciFormat(f) = "S"
    <3>1. IEC!At(f, 2) = 1
      BY <2>4, Iec104Reading
    <3> QED BY <3>1 DEF IEC!ApciFormat
  <2>6. 4 \in Nat /\ 2 + 4 = 6
    OBVIOUS
  <2>7. IEC!ValidateFrame(f) = {}
    BY <2>4, <2>5, <2>6, Iec104Validated
  <2> QED BY <1>1, <2>4, <2>5, <2>7
<1>3. ASSUME NEW fn, NEW f, f = IEC!BuildApciU(fn), f # <<>>
      PROVE  IEC!ValidateFrame(f) = {} /\ IEC!ParseFrame(f).direction = "req"
  <2>1. fn \in IEC!U_FUNCTIONS /\ f = <<104, 4, fn, 0, 0, 0>>
    BY <1>3 DEF IEC!BuildApciU, IEC!START_BYTE
  <2>2. fn \in {7, 11, 19, 23, 67, 131}
    BY <2>1 DEF IEC!U_FUNCTIONS, IEC!U_STARTDT_ACT, IEC!U_STARTDT_CON, IEC!U_TESTFR_ACT, IEC!U_TESTFR_CON
  <2>3. /\ Bytes(f, 6) /\ At(f, 0) = 104 /\ At(f, 1) = 4 /\ At(f, 2) = fn
        /\ At(f, 3) = 0 /\ At(f, 4) = 0 /\ At(f, 5) = 0
    BY <2>1, <2>2 DEF Bytes, At
  <2>4. IEC!ApciFormat(f) = "U"
    <3>1. IEC!At(f, 2) = fn
      BY <2>3, Iec104Reading
    <3>2. ~(fn % 2 = 0) /\ fn % 4 = 3
      BY <2>2
    <3> QED BY <3>1, <3>2 DEF IEC!ApciFormat
  <2>5. Mid(f, 3, 6) = Zeros(3)
    <3>1. Bytes(Zeros(3), 3) /\ \A k \in Nat : k < 3 => At(Zeros(3), k) = 0
      <4>1. Bytes(Zeros(3), 3)
        BY ZerosBytes
      <4>2. \A k \in Nat : k < 3 => At(Zeros(3), k) = 0
        BY DEF Zeros, At
      <4> QED BY <4>1, <4>2
    <3>2. \A k \in Nat : k < 3 => At(f, 3 + k) = At(Zeros(3), k)
      <4> TAKE k \in Nat
      <4> HAVE k < 3
      <4>1. k = 0 \/ k = 1 \/ k = 2
        OBVIOUS
      <4> QED BY <2>3, <3>1, <4>1
    <3>3. 3 \in Nat /\ 6 \in Nat /\ 3 + 3 <= 6 /\ 3 + 3 = 6
      OBVIOUS
    <3>4. Mid(f, 3, 3 + 3) = Zeros(3)
      BY ONLY <2>3, <3>1, <3>2, <3>3, MidIs
    <3> QED BY <3>3, <3>4
  <2>6. 4 \in Nat /\ 2 + 4 = 6
    OBVIOUS
  <2>7. IEC!ValidateFrame(f) = {}
    BY <2>1, <2>3, <2>4, <2>5, <2>6, Iec104Validated
  <2> QED BY <1>1, <2>3, <2>4, <2>7
<1> QED BY <1>2, <1>3

\* A sequence number is one.
LEMMA SequenceIsNumber == ASSUME NEW n \in IEC!SEQUENCE_NUMBERS PROVE n \in Int
<1>1. PICK k \in Nat : k = 32767
  OBVIOUS
<1>2. n \in 0..k
  BY <1>1, SMTT(30) DEF IEC!SEQUENCE_NUMBERS
<1> QED BY <1>2

\* What is where in an I-frame with an ASDU of k bytes.
IFrameOf(f, asdu, k) ==
  /\ k \in Nat /\ 1 <= k /\ 4 + k <= 253
  /\ Bytes(f, 6 + k) /\ At(f, 0) = 104 /\ At(f, 1) = 4 + k
  /\ IEC!ApciFormat(f) = "I" /\ IEC!AsduOf(f) = asdu
  /\ At(f, 6) = At(asdu, 0) /\ At(f, 8) = At(asdu, 2)

\* The builder makes such a frame or none.
LEMMA IFrameIsRead ==
  ASSUME NEW tx, NEW rx, NEW k \in Nat, NEW asdu, Bytes(asdu, k),
         IEC!BuildApciI(tx, rx, asdu) # <<>>
  PROVE  IFrameOf(IEC!BuildApciI(tx, rx, asdu), asdu, k)
<1>13. PICK f : f = IEC!BuildApciI(tx, rx, asdu)
  OBVIOUS
<1> DEFINE a == <<104, 4 + k>>
           b == S16(2 * tx)
           c == S16(2 * rx + 1)
           ab == a \o b
           h == ab \o c
           g == h \o asdu
<1>1. Len(asdu) = k
  BY DEF Bytes
<1>2. /\ tx \in IEC!SEQUENCE_NUMBERS /\ rx \in IEC!SEQUENCE_NUMBERS /\ 4 + k \in 5..253
      /\ f = g
  BY <1>1, <1>13, Iec104Reading DEF IEC!BuildApciI, IEC!START_BYTE
<1>3. 4 + k <= 253 /\ 5 <= 4 + k /\ 4 + k \in Nat /\ 1 <= k
  BY <1>2
<1>4. Bytes(b, 2) /\ Bytes(c, 2) /\ At(b, 0) = (2 * tx) % 256
  BY <1>2, SequenceNumberIs, FieldIsRead
<1>5. At(b, 0) % 2 = 0
  <2>1. tx \in Int
    BY ONLY <1>2, SequenceIsNumber
  <2> HIDE DEF b
  <2> QED BY <1>4, <2>1
<1>6. Bytes(a, 2) /\ At(a, 0) = 104 /\ At(a, 1) = 4 + k
  BY <1>3, BytesOfTwo
<1> HIDE DEF a, b, c
<1>7. /\ Bytes(ab, 4) /\ \A i \in Nat : i < 2 => At(ab, i) = At(a, i)
      /\ \A i \in Nat : At(ab, 2 + i) = At(b, i)
  BY <1>4, <1>6, BytesJoined
<1> HIDE DEF ab
<1>8. Bytes(h, 6) /\ \A i \in Nat : i < 4 => At(h, i) = At(ab, i)
  <2>1. 4 \in Nat /\ 2 \in Nat /\ 4 + 2 = 6
    OBVIOUS
  <2> QED BY ONLY <1>4, <1>7, <2>1, BytesJoined
<1> HIDE DEF h
<1>9. /\ Bytes(g, 6 + k) /\ \A i \in Nat : i < 6 => At(g, i) = At(h, i)
      /\ \A i \in Nat : At(g, 6 + i) = At(asdu, i)
  BY <1>8, BytesJoined
<1> HIDE DEF g
<1>10. At(g, 0) = 104 /\ At(g, 1) = 4 + k /\ At(g, 2) = At(b, 0)
  <2>1. At(ab, 2 + 0) = At(b, 0)
    BY <1>7
  <2> QED BY <1>6, <1>7, <1>8, <1>9, <2>1
<1>11. IEC!ApciFormat(g) = "I"
  <2>1. IEC!At(g, 2) = At(b, 0)
    BY <1>10, Iec104Reading
  <2> QED BY <1>5, <2>1 DEF IEC!ApciFormat
<1>12. IEC!AsduOf(g) = asdu
  <2>1. IEC!At(g, 1) = 4 + k /\ IEC!Mid(g, 6, 6 + k) = Mid(g, 6, 6 + k)
    BY <1>10, Iec104Reading
  <2>2. ~(4 + k = 4) /\ (4 + k) + 2 = 6 + k /\ 6 \in Nat /\ 6 + k \in Nat /\ 6 + k <= 6 + k
    BY <1>3
  <2>3. Mid(g, 6, 6 + k) = asdu
    <3>1. \A i \in Nat : i < k => At(g, 6 + i) = At(asdu, i)
      BY <1>9
    <3> QED BY ONLY k \in Nat, Bytes(asdu, k), <1>9, <2>2, <3>1, MidIs
  <2> QED BY <2>1, <2>2, <2>3 DEF IEC!AsduOf, IEC!APCI_LEN
<1>14. At(g, 6 + 0) = At(asdu, 0) /\ At(g, 6 + 2) = At(asdu, 2)
  BY <1>9
<1> QED BY <1>2, <1>3, <1>9, <1>10, <1>11, <1>12, <1>13, <1>14 DEF IFrameOf

\* The address of an information object takes three bytes.
LEMMA IoaBytes == ASSUME NEW n, FitsWide(n) PROVE Bytes(IEC!Ioa(n), 3)
<1>1. IEC!Ioa(n) = Upto(S32(n), 3)
  BY Iec104Reading DEF IEC!Ioa
<1>2. S32(n) \in Seq(Int) /\ Len(S32(n)) = 4 /\ 3 \in Nat /\ 3 <= 4
  BY LowFirstBytes DEF Bytes
<1>3. Upto(S32(n), 3) \in Seq(Int) /\ Len(Upto(S32(n), 3)) = 3
  BY ONLY <1>2, UptoIsPrefix
<1> QED BY <1>1, <1>3 DEF Bytes

\* What is where in an ASDU.
LEMMA AsduIsRead ==
  ASSUME NEW t, NEW num, NEW cot, NEW ca, NEW m \in Nat, NEW objects, Bytes(objects, m),
         NEW asdu, asdu = IEC!Asdu(t, num, cot, ca, objects), asdu # <<>>
  PROVE  /\ Bytes(asdu, 6 + m) /\ t \in IEC!TYPES /\ num \in 1..63 /\ cot \in 0..63
         /\ At(asdu, 0) = t /\ At(asdu, 1) = num /\ At(asdu, 2) = cot
<1> DEFINE a == <<t, num>>
           b == S16(cot)
           c == S16(ca)
           ab == a \o b
           h == ab \o c
           g == h \o objects
<1>1. t \in IEC!TYPES /\ num \in 1..63 /\ cot \in 0..63 /\ ca \in WORD /\ asdu = g
  <2>1. IEC!WORD = WORD
    BY DEF IEC!WORD, WORD
  <2> QED BY <2>1, Iec104Reading DEF IEC!Asdu
<1>2. t \in Int /\ num \in Int /\ cot \in WORD /\ cot % 256 = cot
  <2>1. t \in Int
    BY <1>1 DEF IEC!TYPES
  <2>2. num \in Int
    BY <1>1
  <2>3. cot \in Nat /\ cot <= 65535 /\ cot % 256 = cot
    BY <1>1
  <2> QED BY ONLY <2>1, <2>2, <2>3, WordIs
<1>3. Bytes(a, 2) /\ At(a, 0) = t /\ At(a, 1) = num
  BY <1>2, BytesOfTwo
<1>4. Bytes(b, 2) /\ At(b, 0) = cot /\ Bytes(c, 2)
  BY <1>1, <1>2, FieldIsRead
<1> HIDE DEF a, b, c
<1>5. /\ Bytes(ab, 4) /\ \A i \in Nat : i < 2 => At(ab, i) = At(a, i)
      /\ \A i \in Nat : At(ab, 2 + i) = At(b, i)
  BY <1>3, <1>4, BytesJoined
<1> HIDE DEF ab
<1>6. Bytes(h, 6) /\ \A i \in Nat : i < 4 => At(h, i) = At(ab, i)
  <2>1. 4 \in Nat /\ 2 \in Nat /\ 4 + 2 = 6
    OBVIOUS
  <2> QED BY ONLY <1>4, <1>5, <2>1, BytesJoined
<1> HIDE DEF h
<1>7. Bytes(g, 6 + m) /\ \A i \in Nat : i < 6 => At(g, i) = At(h, i)
  BY <1>6, BytesJoined
<1> HIDE DEF g
<1>8. At(g, 0) = t /\ At(g, 1) = num /\ At(g, 2) = cot
  <2>1. At(ab, 2 + 0) = At(b, 0)
    BY <1>5
  <2> QED BY <1>3, <1>4, <1>5, <1>6, <1>7, <2>1
<1> QED BY <1>1, <1>7, <1>8

\* An ASDU with as many objects as it says, each of its type's size, is sound.
LEMMA AsduParsed ==
  ASSUME NEW t \in IEC!TYPES, t \notin {103, 104}, NEW num \in 1..63, NEW m \in Nat,
         m = num * (3 + IEC!ElementSize(t)),
         NEW body, Bytes(body, 6 + m), At(body, 0) = t, At(body, 1) = num
  PROVE  IEC!ParseAsdu(body).errors = {}
<1> DEFINE size == IEC!ElementSize(t)
           sequence == IEC!At(body, 1) >= 128
           objects == Len(body) - 6
           expected == CASE IEC!At(body, 0) \in IEC!NO_IOA_TYPES -> (IEC!At(body, 1) % 64) * IEC!ElementSize(IEC!At(body, 0))
                         [] IEC!At(body, 0) \notin IEC!NO_IOA_TYPES /\ sequence
                              -> 3 + (IEC!At(body, 1) % 64) * IEC!ElementSize(IEC!At(body, 0))
                         [] OTHER -> (IEC!At(body, 1) % 64) * (3 + IEC!ElementSize(IEC!At(body, 0)))
           shaped == Len(body) >= 6 /\ IEC!At(body, 0) \in IEC!TYPES /\ objects = expected /\ IEC!At(body, 1) % 64 > 0
           p1 == IEC!At(body, 0) \notin IEC!TYPES
           p2 == IEC!At(body, 0) \in IEC!TYPES /\ objects # expected
           p3 == shaped /\ IEC!At(body, 0) = 103
<1>1. IEC!ParseAsdu(body).errors = IF Len(body) < 6 THEN {"asdu_short"}
        ELSE IEC!Found([unknown_type |-> p1, objects |-> p2, no_decoding |-> p3])
  BY DEF IEC!ParseAsdu, IEC!C_CS_NA_1
<1>2. IEC!At(body, 0) = t /\ IEC!At(body, 1) = num /\ Len(body) = 6 + m
  BY Iec104Reading DEF Bytes
<1>3. ~(Len(body) < 6) /\ objects = m /\ num % 64 = num /\ ~sequence
  BY <1>2
<1>4. expected = num * (3 + size)
  <2>1. t \notin IEC!NO_IOA_TYPES
    BY DEF IEC!NO_IOA_TYPES
  <2> HIDE DEF sequence, size
  <2> QED BY <1>2, <1>3, <2>1 DEF size
<1> HIDE DEF expected
<1>5. ~p1 /\ ~p2 /\ ~p3 /\ {p1, p2, p3} \subseteq BOOLEAN
  BY <1>2, <1>3, <1>4
<1>6. ASSUME NEW a, NEW b, NEW c, {a, b, c} \subseteq BOOLEAN, ~a, ~b, ~c
      PROVE  IEC!Found([unknown_type |-> a, objects |-> b, no_decoding |-> c]) = {}
  BY <1>6 DEF IEC!Found
<1> HIDE DEF p1, p2, p3, objects
<1> QED BY <1>1, <1>3, <1>5, <1>6

\* An ASDU of k bytes with nothing wrong, of an interrogation or a read, and its cause.
CommandAsdu(asdu, k, t, cot) ==
  /\ k \in Nat /\ 6 <= k /\ Bytes(asdu, k) /\ IEC!ParseAsdu(asdu).errors = {}
  /\ t \in {100, 102} /\ At(asdu, 0) = t /\ At(asdu, 2) = cot

\* The direction the parser gives a command, by its cause: 7, 9 and 10 are answers'.
CommandDirection(cot) == IF cot \in {7, 9, 10} THEN "resp" ELSE "req"

\* There is no frame, or it is valid and of this direction.
Iec104Accepted(f, dir) == f = <<>> \/ (IEC!ValidateFrame(f) = {} /\ IEC!ParseFrame(f).direction = dir)

\* An I-frame with a sound ASDU is valid, and a request or not by type and cause.
LEMMA IFrameIsAccepted ==
  ASSUME NEW tx, NEW rx, NEW asdu, NEW k, NEW t, NEW cot, CommandAsdu(asdu, k, t, cot)
  PROVE  Iec104Accepted(IEC!BuildApciI(tx, rx, asdu), CommandDirection(cot))
<1> PICK f : f = IEC!BuildApciI(tx, rx, asdu)
  OBVIOUS
<1>1. SUFFICES ASSUME f # <<>>
               PROVE  IEC!ValidateFrame(f) = {} /\ IEC!ParseFrame(f).direction = CommandDirection(cot)
  BY DEF Iec104Accepted
<1>2. /\ k \in Nat /\ 6 <= k /\ Bytes(asdu, k) /\ IEC!ParseAsdu(asdu).errors = {}
      /\ t \in {100, 102} /\ At(asdu, 0) = t /\ At(asdu, 2) = cot
  BY DEF CommandAsdu
<1>3. IFrameOf(f, asdu, k)
  BY ONLY <1>1, <1>2, f = IEC!BuildApciI(tx, rx, asdu), IFrameIsRead
<1>5. /\ 4 + k <= 253 /\ Bytes(f, 6 + k) /\ At(f, 0) = 104 /\ At(f, 1) = 4 + k
      /\ IEC!ApciFormat(f) = "I" /\ IEC!AsduOf(f) = asdu
      /\ At(f, 6) = At(asdu, 0) /\ At(f, 8) = At(asdu, 2)
  BY <1>3 DEF IFrameOf
<1>6. IEC!ValidateFrame(f) = {}
  <2> DEFINE n == 4 + k
  <2>1. n \in Nat /\ 4 <= n /\ n <= 253 /\ n # 4 /\ 2 + n = 6 + k
    BY <1>2, <1>5
  <2> HIDE DEF n
  <2>2. Bytes(f, 2 + n) /\ At(f, 1) = n
    BY <1>5, <2>1 DEF n
  <2>3. IEC!ParseAsdu(IEC!AsduOf(f)).errors = {} /\ At(f, 0) = 104 /\ IEC!ApciFormat(f) = "I"
    BY <1>2, <1>5
  <2> QED BY ONLY <2>1, <2>2, <2>3, Iec104Validated
<1>7. IEC!ParseFrame(f).direction = IF cot \in {7, 9, 10} THEN "resp" ELSE "req"
  <2>1. At(f, 6) = t /\ At(f, 8) = cot
    BY <1>2, <1>5
  <2>2. /\ IEC!At(f, 0) = 104 /\ IEC!At(f, 1) = 4 + k /\ IEC!At(f, 6) = t /\ IEC!At(f, 8) = cot
    BY <1>5, <2>1, Iec104Reading
  <2>3. /\ ~(Len(f) < 6) /\ ~(Len(f) < 9) /\ Len(f) >= 6 /\ Len(f) >= (4 + k) + 2
        /\ 4 + k \in IEC!APDU_LENS /\ t \in IEC!CONTROL_TYPES
    <3>1. Len(f) = 6 + k
      BY <1>5 DEF Bytes
    <3>2. t \in IEC!CONTROL_TYPES
      BY <1>2 DEF IEC!CONTROL_TYPES
    <3>3. 4 + k \in IEC!APDU_LENS
      BY ONLY <1>2, <1>5 DEF IEC!APDU_LENS
    <3> QED BY ONLY <1>2, <1>5, <3>1, <3>2, <3>3
  <2> QED BY ONLY <1>5, <2>2, <2>3 DEF IEC!ParseFrame, IEC!APCI_LEN, IEC!START_BYTE
<1> QED BY <1>6, <1>7 DEF CommandDirection

\* An ASDU with one object, of a command without a time, is what an I-frame carries.
LEMMA CommandIsSound ==
  ASSUME NEW t, t \in {100, 102}, NEW m, m \in Nat, m = 3 + IEC!ElementSize(t),
         NEW cot, NEW ca, NEW objects, Bytes(objects, m),
         NEW asdu, asdu = IEC!Asdu(t, 1, cot, ca, objects), asdu # <<>>
  PROVE  \E k : CommandAsdu(asdu, k, t, cot)
<1>1. PICK one : one = 1
  OBVIOUS
<1>2. asdu = IEC!Asdu(t, one, cot, ca, objects)
  BY <1>1
<1>3. /\ Bytes(asdu, 6 + m) /\ t \in IEC!TYPES /\ cot \in 0..63
      /\ At(asdu, 0) = t /\ At(asdu, 1) = one /\ At(asdu, 2) = cot
  BY ONLY m \in Nat, Bytes(objects, m), asdu # <<>>, <1>2, AsduIsRead
<1>4. IEC!ParseAsdu(asdu).errors = {}
  <2>1. IEC!ElementSize(t) \in Int
    BY DEF IEC!ElementSize, IEC!TIME_TAGGED
  <2>2. 1 * (3 + IEC!ElementSize(t)) = m /\ 1 \in 1..63 /\ t \notin {103, 104}
    BY <2>1
  <2> QED BY <1>1, <1>3, <2>2, AsduParsed
<1>5. 6 + m \in Nat /\ 6 <= 6 + m
  OBVIOUS
<1>6. CommandAsdu(asdu, 6 + m, t, cot)
  BY <1>3, <1>4, <1>5 DEF CommandAsdu
<1> QED BY <1>6

\* No ASDU, no frame.
LEMMA NoAsduNoFrame == \A tx, rx : IEC!BuildApciI(tx, rx, <<>>) = <<>>
<1> TAKE tx, rx
<1>1. Len(<<>>) = 0 /\ 4 + 0 \notin 5..253
  OBVIOUS
<1> QED BY <1>1 DEF IEC!BuildApciI

\* Every interrogation and every read command the builders make is valid, and the
\* parser takes it for a request, but an interrogation with the cause of an answer.
\* The session sends cause 6, an activation.
THEOREM Iec104CommandsAreAccepted ==
  ASSUME NEW tx, NEW rx, NEW ca, NEW qoi \in Int, NEW cot, NEW ioa, FitsWide(ioa)
  PROVE  /\ Iec104Accepted(IEC!BuildApciI(tx, rx, IEC!BuildAsduInterrogation(qoi, ca, cot)), CommandDirection(cot))
         /\ Iec104Accepted(IEC!BuildApciI(tx, rx, IEC!BuildAsduRead(ioa, ca)), "req")
<1>1. Iec104Accepted(IEC!BuildApciI(tx, rx, IEC!BuildAsduInterrogation(qoi, ca, cot)), CommandDirection(cot))
  <2>1. PICK asdu : asdu = IEC!BuildAsduInterrogation(qoi, ca, cot)
    OBVIOUS
  <2>2. CASE asdu = <<>>
    BY <2>1, <2>2, NoAsduNoFrame DEF Iec104Accepted
  <2>3. CASE asdu # <<>>
    <3>1. PICK objects : objects = IEC!Ioa(0) \o <<qoi>>
      OBVIOUS
    <3>2. Bytes(objects, 4)
      <4>1. Bytes(IEC!Ioa(0), 3) /\ Bytes(<<qoi>>, 1)
        BY IoaBytes, BytesOfOne DEF FitsWide
      <4> QED BY <3>1, <4>1, BytesJoined
    <3>3. asdu = IEC!Asdu(100, 1, cot, ca, objects)
      BY <2>1, <3>1 DEF IEC!BuildAsduInterrogation, IEC!C_IC_NA_1
    <3>4. 4 = 3 + IEC!ElementSize(100)
      BY DEF IEC!ElementSize, IEC!TIME_TAGGED
    <3>5. 100 \in {100, 102} /\ 4 \in Nat
      OBVIOUS
    <3>6. \E k : CommandAsdu(asdu, k, 100, cot)
      BY ONLY <2>3, <3>2, <3>3, <3>4, <3>5, CommandIsSound
    <3> QED BY <2>1, <3>6, IFrameIsAccepted
  <2> QED BY <2>2, <2>3
<1>2. Iec104Accepted(IEC!BuildApciI(tx, rx, IEC!BuildAsduRead(ioa, ca)), "req")
  <2>1. PICK asdu : asdu = IEC!BuildAsduRead(ioa, ca)
    OBVIOUS
  <2>2. CASE asdu = <<>>
    BY <2>1, <2>2, NoAsduNoFrame DEF Iec104Accepted
  <2>3. CASE asdu # <<>>
    <3>1. PICK objects : objects = IEC!Ioa(ioa)
      OBVIOUS
    <3>2. Bytes(objects, 3)
      BY <3>1, IoaBytes
    <3>3. asdu = IEC!Asdu(102, 1, 5, ca, objects)
      BY <2>1, <3>1 DEF IEC!BuildAsduRead, IEC!C_RD_NA_1
    <3>4. 3 = 3 + IEC!ElementSize(102)
      BY DEF IEC!ElementSize, IEC!TIME_TAGGED
    <3>5. 102 \in {100, 102} /\ 3 \in Nat
      OBVIOUS
    <3>6. \E k : CommandAsdu(asdu, k, 102, 5)
      BY ONLY <2>3, <3>2, <3>3, <3>4, <3>5, CommandIsSound
    <3>7. CommandDirection(5) = "req"
      BY DEF CommandDirection
    <3>8. Iec104Accepted(IEC!BuildApciI(tx, rx, asdu), CommandDirection(5))
      BY <3>6, IFrameIsAccepted
    <3> QED BY <2>1, <3>7, <3>8
  <2> QED BY <2>2, <2>3
<1> QED BY <1>1, <1>2

-----------------------------------------------------------------------------
(* What the parsers say of requests: EtherNet/IP                            *)

\* What EnipCodec's copies read.
LEMMA EnipReading ==
  /\ \A f, i : ENIP!At(f, i) = At(f, i) /\ ENIP!L16(f, i) = L16(f, i) /\ ENIP!From(f, i) = From(f, i)
  /\ \A f, i, j : ENIP!Mid(f, i, j) = Mid(f, i, j)
  /\ \A n : ENIP!S16(n) = S16(n) /\ ENIP!S32(n) = S32(n) /\ ENIP!Zeros(n) = Zeros(n)
<1>1. ASSUME NEW f, NEW i
      PROVE  ENIP!At(f, i) = At(f, i) /\ ENIP!L16(f, i) = L16(f, i) /\ ENIP!From(f, i) = From(f, i)
  BY DEF ENIP!At, At, ENIP!L16, L16, ENIP!From, From
<1>2. ASSUME NEW f, NEW i, NEW j PROVE ENIP!Mid(f, i, j) = Mid(f, i, j)
  BY DEF ENIP!Mid, Mid, ENIP!From, From, ENIP!Upto, Upto
<1>3. ASSUME NEW n PROVE ENIP!S16(n) = S16(n) /\ ENIP!S32(n) = S32(n) /\ ENIP!Zeros(n) = Zeros(n)
  BY DEF ENIP!S16, S16, ENIP!S32, S32, ENIP!Zeros, Zeros
<1> QED BY <1>1, <1>2, <1>3

\* What is where in a frame with the encapsulation header and k bytes after it.
EnipFrameOf(f, command, payload, k) ==
  /\ k \in Nat /\ Bytes(f, 24 + k) /\ Bytes(payload, k) /\ From(f, 24) = payload
  /\ L16(f, 0) = command /\ L16(f, 2) = k /\ L16(f, 8) = 0 /\ L16(f, 10) = 0
  /\ L16(f, 30) = L16(payload, 6)

\* The builder makes such a frame.
LEMMA EnipIsRead ==
  ASSUME NEW command \in ENIP_COMMANDS, NEW session, FitsWide(session),
         NEW k \in Nat, k <= 65535, NEW payload, Bytes(payload, k)
  PROVE  EnipFrameOf(ENIP!BuildEnip(command, payload, session), command, payload, k)
<1> DEFINE a == S16(command)
           b == S16(k)
           c == S32(session)
           d == S32(0)
           e == <<112, 108, 99, 116, 97, 112, 0, 0>>
           ab == a \o b
           abc == ab \o c
           abcd == abc \o d
           abcde == abcd \o e
           h == abcde \o d
           g == h \o payload
<1>1. ENIP!BuildEnip(command, payload, session) = g
  <2>1. Len(payload) = k
    BY DEF Bytes
  <2>2. /\ ENIP!S16(command) = a /\ ENIP!S16(k) = b /\ ENIP!S32(session) = c /\ ENIP!S32(0) = d
    BY EnipReading
  <2>3. ENIP!BuildEnip(command, payload, session) =
          ENIP!S16(command) \o ENIP!S16(k) \o ENIP!S32(session) \o ENIP!S32(0) \o e \o ENIP!S32(0) \o payload
    BY <2>1 DEF ENIP!BuildEnip
  <2> HIDE DEF a, b, c, d, e
  <2> QED BY ONLY <2>2, <2>3
<1>2. command \in WORD /\ k \in WORD
  BY WordIs DEF ENIP_COMMANDS
<1>3. /\ Bytes(a, 2) /\ At(a, 1) * 256 + At(a, 0) = command
      /\ Bytes(b, 2) /\ At(b, 1) * 256 + At(b, 0) = k
  BY <1>2, FieldIsRead
<1>4. Bytes(c, 4) /\ Bytes(d, 4)
  BY LowFirstBytes DEF FitsWide
<1>5. At(d, 0) = 0 /\ At(d, 1) = 0 /\ At(d, 2) = 0 /\ At(d, 3) = 0
  BY DEF S32, S16, At
<1>6. Bytes(e, 8)
  BY DEF Bytes
<1> HIDE DEF a, b, c, d, e
<1>7. /\ Bytes(ab, 4) /\ \A i \in Nat : i < 2 => At(ab, i) = At(a, i)
      /\ \A i \in Nat : At(ab, 2 + i) = At(b, i)
  BY <1>3, BytesJoined
<1> HIDE DEF ab
<1>8. Bytes(abc, 8) /\ \A i \in Nat : i < 4 => At(abc, i) = At(ab, i)
  BY <1>4, <1>7, BytesJoined
<1> HIDE DEF abc
<1>9. /\ Bytes(abcd, 12) /\ \A i \in Nat : i < 8 => At(abcd, i) = At(abc, i)
      /\ \A i \in Nat : At(abcd, 8 + i) = At(d, i)
  BY <1>4, <1>8, BytesJoined
<1> HIDE DEF abcd
<1>10. Bytes(abcde, 20) /\ \A i \in Nat : i < 12 => At(abcde, i) = At(abcd, i)
  BY <1>6, <1>9, BytesJoined
<1> HIDE DEF abcde
<1>11. Bytes(h, 24) /\ \A i \in Nat : i < 20 => At(h, i) = At(abcde, i)
  BY <1>4, <1>10, BytesJoined
<1> HIDE DEF h
<1>12. /\ Bytes(g, 24 + k) /\ \A i \in Nat : i < 24 => At(g, i) = At(h, i)
       /\ \A i \in Nat : At(g, 24 + i) = At(payload, i)
  BY <1>11, BytesJoined
<1> HIDE DEF g
<1>13. L16(g, 0) = command /\ L16(g, 2) = k
  <2>1. At(ab, 2 + 0) = At(b, 0) /\ At(ab, 2 + 1) = At(b, 1)
    BY <1>7
  <2>2. At(g, 0) = At(a, 0) /\ At(g, 1) = At(a, 1) /\ At(g, 2) = At(b, 0) /\ At(g, 3) = At(b, 1)
    BY <1>7, <1>8, <1>9, <1>10, <1>11, <1>12, <2>1
  <2> QED BY <1>3, <2>2 DEF L16
<1>14. L16(g, 8) = 0 /\ L16(g, 10) = 0
  <2>1. At(abcd, 8 + 0) = 0 /\ At(abcd, 8 + 1) = 0 /\ At(abcd, 8 + 2) = 0 /\ At(abcd, 8 + 3) = 0
    BY <1>5, <1>9
  <2>2. At(g, 8) = 0 /\ At(g, 9) = 0 /\ At(g, 10) = 0 /\ At(g, 11) = 0
    BY <1>10, <1>11, <1>12, <2>1
  <2> QED BY <2>2 DEF L16
<1>15. L16(g, 30) = L16(payload, 6)
  <2>1. At(g, 24 + 6) = At(payload, 6) /\ At(g, 24 + 7) = At(payload, 7)
    BY <1>12
  <2> QED BY <2>1 DEF L16
<1>16. From(g, 24) = payload
  <2>1. 24 \in Nat
    OBVIOUS
  <2> QED BY <1>12, <2>1, FromIs
<1> QED BY <1>1, <1>12, <1>13, <1>14, <1>15, <1>16 DEF EnipFrameOf

\* The names of the findings of a request and of a validation.
LEMMA EnipFindings ==
  ASSUME NEW a, NEW b, NEW c, NEW d, NEW e, NEW g, NEW h,
         {a, b, c, d, e, g, h} \subseteq BOOLEAN, ~a, ~b, ~c, ~d, ~e, ~g, ~h
  PROVE  /\ ENIP!Found([session_short |-> a, rrdata_short |-> b, address_short |-> c, item_header |-> d,
                        item_short |-> e, embedded_none |-> g, embedded_short |-> h]) = {}
         /\ ENIP!Found([command_known |-> a, length_field |-> b, enip_status |-> c, rrdata_items |-> d]) = {}
BY DEF ENIP!Found

\* A service of n bytes that is no envelope, or one with something in it.
ServiceIsWhole(cip, n) ==
  /\ n \in Nat /\ Bytes(cip, n)
  /\ \/ n < 3
     \/ At(cip, 0) # 82
     \/ L16(cip, 1) \in Nat /\ L16(cip, 1) > 0 /\ 3 + L16(cip, 1) <= n

\* The data of a request: an address and a service of n bytes.
DataIsWhole(p, k, n) ==
  /\ k = 16 + n /\ L16(p, 6) = 2 /\ L16(p, 10) = 0 /\ L16(p, 14) = n
  /\ ServiceIsWhole(Mid(p, 16, 16 + n), n)

\* A command with what it needs in its k bytes.
RequestIsWhole(command, p, k) ==
  \/ command = 99
  \/ command = 101 /\ 4 <= k
  \/ command = 111 /\ \E n \in Nat : DataIsWhole(p, k, n)

\* The parser of requests has nothing against it.
LEMMA EnipParsed ==
  ASSUME NEW f, NEW command, NEW p, NEW k, EnipFrameOf(f, command, p, k), RequestIsWhole(command, p, k)
  PROVE  ENIP!ParseRequest(f) = {}
<1>1. /\ k \in Nat /\ Bytes(f, 24 + k) /\ Bytes(p, k) /\ From(f, 24) = p
      /\ L16(f, 0) = command /\ L16(f, 2) = k
  BY DEF EnipFrameOf
<1>2. Len(f) = 24 + k /\ Len(p) = k
  BY <1>1 DEF Bytes
<1> DEFINE hdr == ENIP!ParseEnipHeader(f)
<1>3. hdr.ok /\ hdr.command = command /\ hdr.payload = p
  <2>1. ENIP!L16(f, 0) = command /\ ENIP!L16(f, 2) = k /\ ENIP!From(f, 24) = p
    BY <1>1, EnipReading
  <2>2. Len(f) >= 24 /\ k = Len(f) - 24
    BY <1>1, <1>2
  <2>3. command \in ENIP!COMMAND_NAMES
    BY DEF RequestIsWhole, ENIP!COMMAND_NAMES, ENIP!CMD_LIST_IDENTITY, ENIP!CMD_REGISTER_SESSION, ENIP!CMD_SEND_RR_DATA
  <2> QED BY <2>1, <2>2, <2>3 DEF ENIP!ParseEnipHeader, ENIP!ENIP_HEADER_LEN
<1> HIDE DEF hdr
<1> DEFINE pl == hdr.payload
           off == 12 + ENIP!L16(pl, 10)
           cip == ENIP!Mid(pl, off + 4, off + 4 + ENIP!L16(pl, off + 2))
           data == hdr.command = 111
           item == data /\ Len(pl) >= 12 /\ Len(pl) >= off + 4
           envelope == item /\ Len(cip) >= 3 /\ ENIP!At(cip, 0) = 82
           embedded == ENIP!Mid(cip, 3, 3 + ENIP!L16(cip, 1))
           p1 == hdr.command = 101 /\ Len(pl) < 4
           p2 == data /\ Len(pl) < 8
           p3 == data /\ Len(pl) \in 8..11
           p4 == data /\ Len(pl) >= 12 /\ Len(pl) < off + 4
           p5 == item /\ Len(cip) < ENIP!L16(pl, off + 2)
           p6 == envelope /\ embedded = <<>>
           p7 == envelope /\ embedded # <<>> /\ Len(cip) < 3 + ENIP!L16(cip, 1)
<1>4. ENIP!ParseRequest(f) = IF ~hdr.ok THEN {"header"}
        ELSE ENIP!Found([session_short |-> p1, rrdata_short |-> p2, address_short |-> p3, item_header |-> p4,
                         item_short |-> p5, embedded_none |-> p6, embedded_short |-> p7])
  BY DEF ENIP!ParseRequest, ENIP!CMD_SEND_RR_DATA, ENIP!CMD_REGISTER_SESSION, ENIP!SVC_UNCONNECTED_SEND, hdr
<1>5. {p1, p2, p3, p4, p5, p6, p7} \subseteq BOOLEAN
  OBVIOUS
<1>6. ~p1 /\ ~p2 /\ ~p3 /\ ~p4 /\ ~p5 /\ ~p6 /\ ~p7
  <2>1. CASE command # 111
    <3>1. ~data
      BY <1>3, <2>1
    <3> QED BY <1>2, <1>3, <2>1, <3>1 DEF RequestIsWhole
  <2>2. CASE command = 111
    <3>0. PICK n \in Nat : DataIsWhole(p, k, n)
      BY <2>2 DEF RequestIsWhole
    <3> DEFINE s == Mid(p, 16, 16 + n)
    <3>1. /\ n \in Nat /\ k = 16 + n /\ L16(p, 10) = 0 /\ L16(p, 14) = n /\ ServiceIsWhole(s, n)
      BY <3>0 DEF DataIsWhole
    <3>2. pl = p /\ data
      BY <1>3, <2>2
    <3> HIDE DEF pl
    <3>3. off = 12
      BY <3>1, <3>2, EnipReading
    <3>4. ENIP!L16(pl, off + 2) = n
      <4>1. ENIP!L16(p, 14) = n
        BY <3>1, EnipReading
      <4> QED BY <3>2, <3>3, <4>1
    <3> HIDE DEF off
    <3>5. cip = s
      <4>1. off + 4 = 16 /\ (off + 4) + n = 16 + n
        BY <3>1, <3>3
      <4> QED BY <3>2, <3>4, <4>1, EnipReading
    <3> HIDE DEF cip, s
    <3>6. Len(pl) = k /\ 16 <= k /\ item
      BY <1>2, <3>1, <3>2, <3>3
    <3>7. /\ Bytes(s, n) /\ Len(s) = n
          /\ \/ n < 3
             \/ At(s, 0) # 82
             \/ L16(s, 1) \in Nat /\ L16(s, 1) > 0 /\ 3 + L16(s, 1) <= n
      BY <3>1 DEF ServiceIsWhole, Bytes
    <3>8. ASSUME envelope PROVE embedded # <<>> /\ ~(Len(cip) < 3 + ENIP!L16(cip, 1))
      <4>1. L16(s, 1) \in Nat /\ L16(s, 1) > 0 /\ 3 + L16(s, 1) <= n
        <5>1. ~(n < 3) /\ ~(At(s, 0) # 82)
          BY <3>1, <3>5, <3>7, <3>8, EnipReading
        <5> QED BY <3>7, <5>1
      <4>2. Bytes(Mid(s, 3, 3 + L16(s, 1)), L16(s, 1))
        <5> DEFINE l == L16(s, 1)
        <5>1. l \in Nat /\ 3 + l <= n /\ 3 \in Nat /\ 3 + l \in Nat /\ 3 <= 3 + l /\ (3 + l) - 3 = l
          BY <4>1
        <5> HIDE DEF l
        <5>2. PICK j \in Nat, i \in Nat : j = 3 + l /\ i = 3
          BY <5>1
        <5>3. n \in Nat /\ Bytes(s, n) /\ i <= j /\ j <= n /\ j - i = l
          BY <3>1, <3>7, <5>1, <5>2
        <5>4. Bytes(Mid(s, i, j), l)
          BY ONLY i \in Nat, j \in Nat, <5>3, MidBytes
        <5> QED BY <5>2, <5>4 DEF l
      <4>3. embedded = Mid(s, 3, 3 + L16(s, 1)) /\ ENIP!L16(cip, 1) = L16(s, 1)
        BY <3>5, EnipReading
      <4>4. Len(Mid(s, 3, 3 + L16(s, 1))) # 0
        BY <4>1, <4>2 DEF Bytes
      <4>5. embedded # <<>>
        BY <4>3, <4>4
      <4> QED BY <3>1, <3>5, <3>7, <4>1, <4>3, <4>5
    <3> HIDE DEF envelope, embedded
    <3>9. ~p5
      BY <3>1, <3>4, <3>5, <3>7
    <3>10. ~p6 /\ ~p7
      BY <3>8
    <3> QED BY <1>3, <2>2, <3>1, <3>3, <3>6, <3>9, <3>10
  <2> QED BY <2>1, <2>2
<1> HIDE DEF p1, p2, p3, p4, p5, p6, p7
<1> QED BY <1>3, <1>4, <1>5, <1>6, EnipFindings

\* A frame of the builder is valid, if its data has two items.
LEMMA EnipValidated ==
  ASSUME NEW f, NEW command \in {99, 101, 111}, NEW p, NEW k, EnipFrameOf(f, command, p, k),
         command = 111 => L16(p, 6) = 2
  PROVE  ENIP!ValidateFrame(f) = {}
<1>1. /\ k \in Nat /\ Bytes(f, 24 + k) /\ L16(f, 0) = command /\ L16(f, 2) = k /\ L16(f, 8) = 0 /\ L16(f, 10) = 0
      /\ L16(f, 30) = L16(p, 6)
  BY DEF EnipFrameOf
<1> DEFINE p1 == ENIP!L16(f, 0) \notin ENIP!COMMAND_NAMES
           p2 == ENIP!L16(f, 2) # Len(f) - 24
           p3 == ENIP!Wide(ENIP!L16(f, 10), ENIP!L16(f, 8)) # 0
           p4 == ENIP!L16(f, 0) = 111 /\ Len(f) >= 34 /\ ENIP!L16(f, 30) # 2
<1>2. ENIP!ValidateFrame(f) = IF Len(f) < 24 THEN {"header_length"}
        ELSE ENIP!Found([command_known |-> p1, length_field |-> p2, enip_status |-> p3, rrdata_items |-> p4])
  BY DEF ENIP!ValidateFrame, ENIP!ENIP_HEADER_LEN, ENIP!CMD_SEND_RR_DATA
<1>3. /\ ENIP!L16(f, 0) = command /\ ENIP!L16(f, 2) = k /\ ENIP!L16(f, 8) = 0 /\ ENIP!L16(f, 10) = 0
      /\ ENIP!L16(f, 30) = L16(p, 6)
  BY <1>1, EnipReading
<1>4. Len(f) = 24 + k /\ ~(Len(f) < 24)
  BY <1>1 DEF Bytes
<1>5. command \in ENIP!COMMAND_NAMES
  BY DEF ENIP!COMMAND_NAMES, ENIP!CMD_LIST_IDENTITY, ENIP!CMD_REGISTER_SESSION, ENIP!CMD_SEND_RR_DATA
<1>6. ENIP!Wide(0, 0) = 0
  BY DEF ENIP!Wide
<1>7. ~p1 /\ ~p2 /\ ~p3 /\ ~p4 /\ {p1, p2, p3, p4} \subseteq BOOLEAN
  BY <1>1, <1>3, <1>4, <1>5, <1>6
<1> HIDE DEF p1, p2, p3, p4
<1> QED BY <1>2, <1>4, <1>7, EnipFindings

\* Nothing is wrong with a frame, for the parser of requests and for a validation.
EnipAccepted(f) == ENIP!ParseRequest(f) \cup ENIP!ValidateFrame(f) = {}

\* The frames that open a session and ask who is there are accepted.
THEOREM EnipSessionFramesAreAccepted ==
  EnipAccepted(ENIP!BuildRegisterSession) /\ EnipAccepted(ENIP!BuildListIdentity)
<1>1. Bytes(ENIP!S16(1) \o ENIP!S16(0), 4) /\ Bytes(<<>>, 0)
  <2>1. ENIP!S16(1) = S16(1) /\ ENIP!S16(0) = S16(0) /\ 0 \in WORD /\ 1 \in WORD
    BY WordIs, EnipReading
  <2>2. Bytes(<<>>, 0)
    BY DEF Bytes
  <2> QED BY <2>1, <2>2, FieldIsRead, BytesJoined
<1>2. /\ 101 \in ENIP_COMMANDS /\ 99 \in ENIP_COMMANDS /\ FitsWide(0)
      /\ ENIP!BuildRegisterSession = ENIP!BuildEnip(101, ENIP!S16(1) \o ENIP!S16(0), 0)
      /\ ENIP!BuildListIdentity = ENIP!BuildEnip(99, <<>>, 0)
  BY DEF ENIP_COMMANDS, ENIP!BuildRegisterSession, ENIP!BuildListIdentity,
         ENIP!CMD_REGISTER_SESSION, ENIP!CMD_LIST_IDENTITY, FitsWide
<1>3. PICK p : p = ENIP!S16(1) \o ENIP!S16(0)
  OBVIOUS
<1>4. EnipFrameOf(ENIP!BuildRegisterSession, 101, p, 4) /\ EnipFrameOf(ENIP!BuildListIdentity, 99, <<>>, 0)
  BY <1>1, <1>2, <1>3, EnipIsRead
<1>5. ENIP!ParseRequest(ENIP!BuildRegisterSession) = {} /\ ENIP!ParseRequest(ENIP!BuildListIdentity) = {}
  <2>1. RequestIsWhole(101, p, 4) /\ RequestIsWhole(99, <<>>, 0)
    BY DEF RequestIsWhole
  <2> QED BY <1>4, <2>1, EnipParsed
<1>6. ENIP!ValidateFrame(ENIP!BuildRegisterSession) = {} /\ ENIP!ValidateFrame(ENIP!BuildListIdentity) = {}
  BY <1>4, EnipValidated
<1> QED BY <1>5, <1>6 DEF EnipAccepted

\* Every frame that carries a service is, whoever built the service, unless it is an
\* envelope that has nothing in it or says it has more.
THEOREM EnipDataIsAccepted ==
  ASSUME NEW session, FitsWide(session), NEW reply,
         NEW k \in Nat, k <= 65519, NEW cip, ServiceIsWhole(cip, k)
  PROVE  EnipAccepted(ENIP!BuildSendRrData(session, cip, reply))
<1> DEFINE f == ENIP!BuildSendRrData(session, cip, reply)
           a == Zeros(6)
           b == S16(2)
           c == S16(0)
           type == IF reply THEN 177 ELSE 178
           t == S16(type)
           n == S16(k)
           ab == a \o b
           abc == ab \o c
           abcc == abc \o c
           abcct == abcc \o t
           h == abcct \o n
           p == h \o cip
<1>0. Bytes(cip, k)
  BY DEF ServiceIsWhole
<1>1. f = ENIP!BuildEnip(111, p, session)
  <2>1. Len(cip) = k
    BY <1>0 DEF Bytes
  <2>2. \A i : ENIP!S16(i) = S16(i)
    BY EnipReading
  <2>3. ENIP!Zeros(6) = a
    BY EnipReading
  <2>4. f = ENIP!BuildEnip(111, ENIP!Zeros(6) \o ENIP!S16(2) \o ENIP!S16(0) \o ENIP!S16(0)
                                  \o ENIP!S16(type) \o ENIP!S16(k) \o cip, session)
    BY <2>1 DEF ENIP!BuildSendRrData, ENIP!CMD_SEND_RR_DATA, ENIP!ITEM_ADDRESS_NULL,
                ENIP!ITEM_CIP_UNCONNECTED_REPLY, ENIP!ITEM_CIP_UNCONNECTED_REQUEST
  <2>5. ENIP!S16(2) = b /\ ENIP!S16(0) = c /\ ENIP!S16(type) = t /\ ENIP!S16(k) = n
    BY <2>2
  <2> QED BY <2>3, <2>4, <2>5
<1> HIDE DEF f
<1>2. 2 \in WORD /\ 0 \in WORD /\ type \in WORD /\ k \in WORD
  BY WordIs
<1>3. /\ Bytes(a, 6) /\ Bytes(b, 2) /\ Bytes(c, 2) /\ Bytes(t, 2) /\ Bytes(n, 2)
      /\ At(n, 1) * 256 + At(n, 0) = k
  BY <1>2, FieldIsRead, ZerosBytes
<1>4. At(b, 0) = 2 /\ At(b, 1) = 0 /\ At(c, 0) = 0 /\ At(c, 1) = 0
  BY DEF S16, At
<1> HIDE DEF a, b, c, t, n
<1>5. Bytes(ab, 8) /\ \A i \in Nat : At(ab, 6 + i) = At(b, i)
  BY <1>3, BytesJoined
<1> HIDE DEF ab
<1>6. /\ Bytes(abc, 10) /\ \A i \in Nat : i < 8 => At(abc, i) = At(ab, i)
  BY <1>3, <1>5, BytesJoined
<1> HIDE DEF abc
<1>7. /\ Bytes(abcc, 12) /\ \A i \in Nat : i < 10 => At(abcc, i) = At(abc, i)
      /\ \A i \in Nat : At(abcc, 10 + i) = At(c, i)
  BY <1>3, <1>6, BytesJoined
<1> HIDE DEF abcc
<1>8. Bytes(abcct, 14) /\ \A i \in Nat : i < 12 => At(abcct, i) = At(abcc, i)
  BY <1>3, <1>7, BytesJoined
<1> HIDE DEF abcct
<1>9. /\ Bytes(h, 16) /\ \A i \in Nat : i < 14 => At(h, i) = At(abcct, i)
      /\ \A i \in Nat : At(h, 14 + i) = At(n, i)
  BY <1>3, <1>8, BytesJoined
<1> HIDE DEF h
<1>10. /\ Bytes(p, 16 + k) /\ \A i \in Nat : i < 16 => At(p, i) = At(h, i)
       /\ \A i \in Nat : At(p, 16 + i) = At(cip, i)
  BY <1>0, <1>9, BytesJoined
<1> HIDE DEF p
<1>11. L16(p, 6) = 2 /\ L16(p, 10) = 0 /\ L16(p, 14) = k
  <2>1. /\ At(ab, 6 + 0) = At(b, 0) /\ At(ab, 6 + 1) = At(b, 1)
        /\ At(abcc, 10 + 0) = At(c, 0) /\ At(abcc, 10 + 1) = At(c, 1)
        /\ At(h, 14 + 0) = At(n, 0) /\ At(h, 14 + 1) = At(n, 1)
    BY <1>5, <1>7, <1>9
  <2>2. /\ At(p, 6) = At(b, 0) /\ At(p, 7) = At(b, 1) /\ At(p, 10) = At(c, 0) /\ At(p, 11) = At(c, 1)
        /\ At(p, 14) = At(n, 0) /\ At(p, 15) = At(n, 1)
    BY <1>6, <1>7, <1>8, <1>9, <1>10, <2>1
  <2> QED BY <1>3, <1>4, <2>2 DEF L16
<1>12. Mid(p, 16, 16 + k) = cip
  <2>1. 16 \in Nat /\ 16 + k \in Nat /\ 16 + k <= 16 + k /\ \A i \in Nat : i < k => At(p, 16 + i) = At(cip, i)
    BY <1>10
  <2> QED BY ONLY k \in Nat, <1>0, <1>10, <2>1, MidIs
<1>13. PICK m \in Nat : m = 16 + k
  OBVIOUS
<1>14. DataIsWhole(p, m, k)
  BY <1>11, <1>12, <1>13 DEF DataIsWhole
<1>15. EnipFrameOf(f, 111, p, m)
  <2>1. m <= 65535 /\ Bytes(p, m) /\ 111 \in ENIP_COMMANDS
    BY <1>10, <1>13 DEF ENIP_COMMANDS
  <2> QED BY ONLY <1>1, m \in Nat, FitsWide(session), <2>1, EnipIsRead
<1>16. ENIP!ParseRequest(f) = {}
  <2>1. RequestIsWhole(111, p, m)
    BY <1>14 DEF RequestIsWhole
  <2> QED BY <1>15, <2>1, EnipParsed
<1>17. ENIP!ValidateFrame(f) = {}
  BY <1>11, <1>15, EnipValidated
<1> QED BY <1>16, <1>17 DEF EnipAccepted, f

\* The envelope of a service has something in it, and says so.
LEMMA EnvelopeIsWhole ==
  ASSUME NEW k \in Nat, k <= 65500, k # 0, NEW cip, Bytes(cip, k)
  PROVE  ServiceIsWhole(ENIP!BuildUnconnectedSend(cip), 7 + k)
<1> DEFINE a == << 82 >>
           b == S16(k)
           c == <<1, 1, 0, 0>>
           ab == a \o b
           h == ab \o cip
           g == h \o c
<1>1. ENIP!BuildUnconnectedSend(cip) = g
  <2>1. Len(cip) = k
    BY DEF Bytes
  <2>2. ENIP!S16(k) = b
    BY EnipReading
  <2>3. ENIP!BuildUnconnectedSend(cip) = a \o ENIP!S16(k) \o cip \o c
    BY ONLY <2>1 DEF ENIP!BuildUnconnectedSend, ENIP!SVC_UNCONNECTED_SEND
  <2> HIDE DEF a, b, c
  <2> QED BY ONLY <2>2, <2>3
<1>2. Bytes(a, 1) /\ Bytes(c, 4)
  BY DEF Bytes
<1>3. Bytes(b, 2) /\ At(b, 1) * 256 + At(b, 0) = k
  <2>1. k \in WORD
    BY WordIs
  <2> QED BY <2>1, FieldIsRead
<1> HIDE DEF a, b, c
<1>4. Bytes(ab, 3) /\ \A i \in Nat : At(ab, 1 + i) = At(b, i)
  BY <1>2, <1>3, BytesJoined
<1> HIDE DEF ab
<1>5. Bytes(h, 3 + k) /\ \A i \in Nat : i < 3 => At(h, i) = At(ab, i)
  <2>1. 3 \in Nat /\ k \in Nat
    OBVIOUS
  <2> QED BY ONLY Bytes(cip, k), <1>4, <2>1, BytesJoined
<1> HIDE DEF h
<1>6. PICK m \in Nat : m = 7 + k
  OBVIOUS
<1>7. Bytes(g, m) /\ \A i \in Nat : i < 3 + k => At(g, i) = At(h, i)
  <2>1. 3 + k \in Nat /\ 4 \in Nat /\ (3 + k) + 4 = m
    BY <1>6
  <2>2. /\ Bytes(g, (3 + k) + 4)
        /\ \A i \in Nat : i < 3 + k => At(g, i) = At(h, i)
    BY ONLY <1>2, <1>5, <2>1, BytesJoined
  <2> QED BY <2>1, <2>2
<1> HIDE DEF g
<1>8. L16(g, 1) = k
  <2>1. At(ab, 1 + 0) = At(b, 0) /\ At(ab, 1 + 1) = At(b, 1)
    BY <1>4
  <2>2. At(g, 1) = At(b, 0) /\ At(g, 2) = At(b, 1)
    BY <1>5, <1>7, <2>1
  <2> QED BY <1>3, <2>2 DEF L16
<1>9. ServiceIsWhole(g, m)
  BY <1>6, <1>7, <1>8 DEF ServiceIsWhole
<1> QED BY <1>1, <1>6, <1>9

\* Every request for a tag is accepted, in the envelope the adapter puts it in and
\* without.
THEOREM EnipTagRequestIsAccepted ==
  ASSUME NEW session, FitsWide(session), NEW name \in Seq(Int), NEW index \in Int,
         NEW count, NEW type, NEW values \in Seq(Int), \A i \in DOMAIN values : values[i] \in WORD,
         NEW cip \in {ENIP!BuildReadTag(name, index, count), ENIP!BuildWriteTag(name, index, type, values)},
         cip # <<>>, NEW reply
  PROVE  /\ EnipAccepted(ENIP!BuildSendRrData(session, cip, reply))
         /\ EnipAccepted(ENIP!BuildSendRrData(session, ENIP!BuildUnconnectedSend(cip), reply))
<1>1. PICK k \in Nat : k <= 1300 /\ Bytes(cip, k) /\ At(cip, 0) \in {76, 77}
  BY ReadTagBytes, WriteTagBytes
<1>2. k <= 65519 /\ k # 0
  <2>1. k # 0
    BY <1>1 DEF Bytes
  <2> QED BY <1>1, <2>1
<1>3. EnipAccepted(ENIP!BuildSendRrData(session, cip, reply))
  <2>1. ServiceIsWhole(cip, k)
    BY <1>1 DEF ServiceIsWhole
  <2> QED BY ONLY FitsWide(session), k \in Nat, <1>2, <2>1, EnipDataIsAccepted
<1>4. EnipAccepted(ENIP!BuildSendRrData(session, ENIP!BuildUnconnectedSend(cip), reply))
  <2>1. PICK m \in Nat : m = 7 + k
    OBVIOUS
  <2>2. ServiceIsWhole(ENIP!BuildUnconnectedSend(cip), m) /\ m <= 65519
    <3>1. k <= 65500 /\ k # 0 /\ Bytes(cip, k)
      BY <1>1, <1>2
    <3> QED BY ONLY k \in Nat, <2>1, <3>1, EnvelopeIsWhole
  <2>3. PICK g : g = ENIP!BuildUnconnectedSend(cip)
    OBVIOUS
  <2>4. EnipAccepted(ENIP!BuildSendRrData(session, g, reply))
    BY ONLY FitsWide(session), m \in Nat, <2>2, <2>3, EnipDataIsAccepted
  <2> QED BY <2>3, <2>4
<1> QED BY <1>3, <1>4

-----------------------------------------------------------------------------
(* What the parsers say of requests: MELSEC                                 *)

\* What MelsecCodec's copies read.
LEMMA MelsecReading ==
  /\ \A f, i : MC!At(f, i) = At(f, i) /\ MC!L16(f, i) = L16(f, i) /\ MC!U16(f, i) = U16(f, i) /\ MC!From(f, i) = From(f, i)
  /\ \A f, i, j : MC!Mid(f, i, j) = Mid(f, i, j)
  /\ \A s : MC!IsHex(s) = IsHex(s) /\ MC!UnHex(s) = UnHex(s)
<1>1. ASSUME NEW f, NEW i
      PROVE  MC!At(f, i) = At(f, i) /\ MC!L16(f, i) = L16(f, i) /\ MC!U16(f, i) = U16(f, i) /\ MC!From(f, i) = From(f, i)
  BY DEF MC!At, At, MC!L16, L16, MC!U16, U16, MC!From, From
<1>2. ASSUME NEW f, NEW i, NEW j PROVE MC!Mid(f, i, j) = Mid(f, i, j)
  BY DEF MC!Mid, Mid, MC!From, From, MC!Upto, Upto
<1>3. ASSUME NEW s PROVE MC!IsHex(s) = IsHex(s)
  BY DEF MC!IsHex, IsHex
<1>4. ASSUME NEW s PROVE MC!UnHex(s) = UnHex(s)
  BY DEF MC!UnHex, UnHex, MC!IsHex, IsHex, MC!Nibble, Nibble
<1> QED BY <1>1, <1>2, <1>3, <1>4

\* A run of hexadecimal digits.
HexRun(s, n) ==
  Bytes(s, n) /\ \A i \in Nat : i < n => At(s, i) \in (48..57) \cup (65..70) \cup (97..102)

LEMMA HexRunsJoined ==
  ASSUME NEW s, NEW t, NEW m, NEW n, m \in Nat, n \in Nat, HexRun(s, m), HexRun(t, n)
  PROVE  HexRun(s \o t, m + n)
<1>1. Bytes(s, m) /\ Bytes(t, n)
  BY DEF HexRun
<1> DEFINE g == s \o t
<1>2. /\ Bytes(g, m + n) /\ \A i \in Nat : i < m => At(g, i) = At(s, i)
      /\ \A i \in Nat : At(g, m + i) = At(t, i)
  BY <1>1, BytesJoined
<1> HIDE DEF g
<1>3. ASSUME NEW i \in Nat, i < m + n PROVE At(g, i) \in (48..57) \cup (65..70) \cup (97..102)
  <2>1. CASE i < m
    BY <1>2, <2>1 DEF HexRun
  <2>2. CASE ~(i < m)
    <3>1. i - m \in Nat /\ i - m < n /\ m + (i - m) = i
      BY <1>3, <2>2
    <3>2. At(g, m + (i - m)) = At(t, i - m)
      BY <1>2, <3>1
    <3> QED BY <3>1, <3>2 DEF HexRun
  <2> QED BY <2>1, <2>2
<1> QED BY <1>2, <1>3 DEF HexRun, g

\* What Hex writes is one, however many of the digits there is room for.
LEMMA HexIsRun == ASSUME NEW n \in Nat, NEW k \in {2, 4, 6} PROVE HexRun(Hex(n, k), k)
<1> DEFINE g == Hex(n, k)
<1>1. Bytes(g, k)
  BY HexBytes
<1>2. ASSUME NEW i \in Nat, i < k PROVE At(g, i) \in (48..57) \cup (65..70) \cup (97..102)
  <2>1. k - (i + 1) + 1 \in 1..6 /\ i + 1 \in 1..k
    BY <1>2
  <2> DEFINE d == (n \div SIXTEENS[k - (i + 1) + 1]) % 16
  <2>2. SIXTEENS[k - (i + 1) + 1] \in Nat \ {0}
    BY <2>1 DEF SIXTEENS
  <2>3. d \in Nat /\ d <= 15
    BY <2>2
  <2>4. At(g, i) = g[i + 1]
    BY <1>1, <1>2 DEF At, Bytes
  <2>5. g[i + 1] = Digit(d)
    BY <2>1 DEF Hex
  <2> HIDE DEF d, g
  <2> QED BY <2>3, <2>4, <2>5, DigitIsRead
<1> QED BY <1>1, <1>2 DEF HexRun

\* In ASCII, what comes before the length field is a run of digits.
LEMMA LeadIsHex ==
  ASSUME NEW fmt \in MC!FRAME_FORMATS, NEW dir, NEW pc \in BYTE, NEW station \in BYTE, NEW serial \in WORD,
         MC!IsAscii(fmt)
  PROVE  HexRun(Lead(fmt, dir, pc, station, serial), MC!LenOffset(fmt))
<1>1. /\ pc \in Nat /\ station \in Nat /\ serial \in Nat /\ MC!Subheader(fmt, dir) \in Nat
  BY ByteIs, WordIs DEF MC!Subheader
<1>2. MC!Word(fmt, serial) = Hex(serial, 4) /\ MC!Word(fmt, 0) = Hex(0, 4)
  BY MelsecCopies DEF MC!Word
<1> DEFINE a == Hex(MC!Subheader(fmt, dir), 4)
           b == Hex(serial, 4)
           c == Hex(0, 4)
           d == Hex(pc, 4)
           e == Hex(1023, 4)
           g == Hex(station, 2)
<1>3. HexRun(a, 4) /\ HexRun(b, 4) /\ HexRun(c, 4) /\ HexRun(d, 4) /\ HexRun(e, 4) /\ HexRun(g, 2)
  BY <1>1, HexIsRun
<1>4. Lead(fmt, dir, pc, station, serial) = a \o (IF MC!Is4e(fmt) THEN b \o c ELSE <<>>) \o (d \o e \o g)
  <2> DEFINE x == IF MC!IsAscii(fmt) THEN a ELSE B16(MC!Subheader(fmt, dir))
             y == IF MC!Is4e(fmt) THEN MC!Word(fmt, serial) \o MC!Word(fmt, 0) ELSE <<>>
             z == IF MC!IsAscii(fmt) THEN d \o e \o g
                  ELSE <<0, pc>> \o S16(1023) \o <<station>>
  <2>1. Lead(fmt, dir, pc, station, serial) = x \o y \o z
    BY DEF Lead
  <2>2. x = a /\ z = d \o e \o g
    BY Zenon
  <2>3. y = IF MC!Is4e(fmt) THEN b \o c ELSE <<>>
    BY <1>2
  <2> HIDE DEF x, y, z
  <2> QED BY <2>1, <2>2, <2>3
<1> HIDE DEF a, b, c, d, e, g
<1>5. HexRun(d \o e \o g, 10)
  <2>1. HexRun(d \o e, 4 + 4)
    BY <1>3, HexRunsJoined
  <2>2. HexRun(d \o e, 8)
    BY <2>1
  <2>3. HexRun(d \o e \o g, 8 + 2)
    BY <1>3, <2>2, HexRunsJoined
  <2> QED BY <2>3
<1> DEFINE r == d \o e \o g
<1> HIDE DEF r
<1>6. CASE MC!Is4e(fmt)
  <2>1. MC!LenOffset(fmt) = 22
    BY <1>6 DEF MC!LenOffset, MC!Pick
  <2>2. HexRun(b \o c, 4 + 4)
    BY <1>3, HexRunsJoined
  <2>3. HexRun(b \o c, 8)
    BY <2>2
  <2>4. HexRun(a \o (b \o c), 4 + 8)
    BY <1>3, <2>3, HexRunsJoined
  <2>5. HexRun(a \o (b \o c), 12)
    BY <2>4
  <2>6. HexRun(a \o (b \o c) \o r, 12 + 10)
    BY <1>5, <2>5, HexRunsJoined DEF r
  <2> QED BY <1>4, <1>6, <2>1, <2>6 DEF r
<1>7. CASE ~MC!Is4e(fmt)
  <2>1. MC!LenOffset(fmt) = 14
    BY <1>7 DEF MC!LenOffset, MC!Pick
  <2>2. HexRun(<<>>, 0)
    BY DEF HexRun, Bytes
  <2>3. HexRun(a \o <<>>, 4 + 0)
    BY <1>3, <2>2, HexRunsJoined
  <2>5. HexRun(a \o <<>>, 4)
    BY <2>3
  <2>6. HexRun(a \o <<>> \o r, 4 + 10)
    BY <1>5, <2>5, HexRunsJoined DEF r
  <2> QED BY <1>4, <1>7, <2>1, <2>6 DEF r
<1> QED BY <1>6, <1>7

\* The head of a request or an answer of k bytes after it has nothing wrong; where
\* a request has its timer, an answer has its end code.
MelsecHeadIsSound(f, fmt, dir, timer, data, k) ==
  /\ Bytes(f, MC!HeaderLen(fmt) + k) /\ From(f, MC!HeaderLen(fmt)) = data
  /\ MC!HeaderIsSound(f, fmt)
  /\ MC!SubheaderAt(fmt, f) = MC!Subheader(fmt, dir)
  /\ MC!WordAt(fmt, f, MC!LenOffset(fmt)) = MC!TailBytes(f, fmt)
  /\ MC!WordAt(fmt, f, MC!EndOffset(fmt)) = timer
  /\ Opens(f, fmt, dir)

LEMMA MelsecHeadIsRead ==
  ASSUME NEW fmt \in MC!FRAME_FORMATS, NEW dir \in {"req", "resp"}, NEW pc \in BYTE, NEW station \in BYTE, NEW serial \in WORD,
         NEW timer \in WORD, NEW m \in Nat, m <= 4000, NEW data, Bytes(data, m)
  PROVE  MelsecHeadIsSound(Lead(fmt, dir, pc, station, serial) \o MC!Word(fmt, MC!Size(fmt) + m)
                             \o MC!Word(fmt, timer) \o data, fmt, dir, timer, data, m)
<1> DEFINE sz == MC!Size(fmt)
           r == Lead(fmt, dir, pc, station, serial)
           s == MC!Word(fmt, sz + m)
           e == MC!Word(fmt, timer)
           f == r \o s \o e \o data
<1>1. sz \in {2, 4} /\ sz \in Nat
  BY DEF MC!Size
<1>2. PICK l \in Nat : l <= 22 /\ l = MC!LenOffset(fmt) /\ Bytes(r, l) /\ Begins(r, l, sz) /\ Opens(r, fmt, dir)
  BY LeadBegins
<1>3. Bytes(s, sz) /\ Bytes(e, sz) /\ s = IF sz = 4 THEN Hex(sz + m, 4) ELSE S16(sz + m)
  <2>1. sz + m \in WORD
    BY <1>1, WordIs
  <2> QED BY <2>1, MelsecWord
<1>4. MC!IsAscii(fmt) => HexRun(r, l) /\ HexRun(e, 4) /\ sz = 4 /\ HexRun(s, 4)
  <2> SUFFICES ASSUME MC!IsAscii(fmt) PROVE HexRun(r, l) /\ HexRun(e, 4) /\ sz = 4 /\ HexRun(s, 4)
    OBVIOUS
  <2>1. HexRun(r, l)
    BY <1>2, LeadIsHex
  <2>2. e = Hex(timer, 4) /\ s = Hex(sz + m, 4) /\ sz = 4
    BY MelsecCopies DEF MC!Word, MC!Size
  <2>3. timer \in Nat /\ sz + m \in Nat
    BY <1>1, WordIs
  <2> QED BY <2>1, <2>2, <2>3, HexIsRun
<1>5. ~MC!IsAscii(fmt) => sz = 2
  BY DEF MC!Size
<1> HIDE DEF r, s, e, sz
<1>6. MelsecParts(f, r, l, s, e, sz, data, m)
  BY <1>1, <1>2, <1>3, MelsecPartsAreRead
<1> HIDE DEF f
<1>7. /\ Bytes(f, l + sz + sz + m) /\ From(f, l + sz + sz) = data
      /\ \A i \in Nat : i < l => At(f, i) = At(r, i)
      /\ \A i \in Nat : i < sz => At(f, l + i) = At(s, i) /\ At(f, l + sz + i) = At(e, i)
      /\ Begins(f, l, sz) /\ FieldValue(f, l, sz) = sz + m
  BY <1>6 DEF MelsecParts
<1>8. MC!HeaderLen(fmt) = l + sz + sz /\ l + sz + sz \in Nat /\ l + sz + sz <= 30
  <2>1. CASE MC!IsAscii(fmt)
    <3>1. sz = 4 /\ MC!HeaderLen(fmt) = MC!LenOffset(fmt) + 8
      BY <1>4, <2>1 DEF MC!HeaderLen, MC!HEADER_LENS, MC!LenOffset, MC!Pick
    <3> QED BY <1>2, <3>1
  <2>2. CASE ~MC!IsAscii(fmt)
    <3>1. sz = 2 /\ MC!HeaderLen(fmt) = MC!LenOffset(fmt) + 4
      BY <1>5, <2>2 DEF MC!HeaderLen, MC!HEADER_LENS, MC!LenOffset, MC!Pick
    <3> QED BY <1>2, <3>1
  <2> QED BY <2>1, <2>2
<1> DEFINE h == l + sz + sz
<1>9. Bytes(f, h + m) /\ From(f, h) = data /\ Len(f) = h + m
  BY <1>7 DEF Bytes
<1>10. MC!HeaderIsSound(f, fmt)
  <2>1. Len(f) >= MC!HeaderLen(fmt)
    BY <1>8, <1>9
  <2>2. ASSUME MC!IsAscii(fmt), NEW i \in 0..MC!HeaderLen(fmt) - 1 PROVE MC!IsHex(<<MC!At(f, i)>>)
    <3>1. i \in Nat /\ i < l + 4 + 4 /\ sz = 4
      BY <1>4, <1>8, <2>2
    <3>2. At(f, i) \in (48..57) \cup (65..70) \cup (97..102)
      <4>1. CASE i < l
        BY <1>4, <1>7, <2>2, <3>1, <4>1 DEF HexRun
      <4>2. CASE l <= i /\ i < l + 4
        <5>1. i - l \in Nat /\ i - l < 4 /\ l + (i - l) = i
          BY <3>1, <4>2
        <5>2. At(f, l + (i - l)) = At(s, i - l)
          BY <1>7, <3>1, <5>1
        <5> QED BY <1>4, <2>2, <5>1, <5>2 DEF HexRun
      <4>3. CASE l + 4 <= i
        <5>1. i - (l + 4) \in Nat /\ i - (l + 4) < 4 /\ l + 4 + (i - (l + 4)) = i
          BY <3>1, <4>3
        <5>2. At(f, l + 4 + (i - (l + 4))) = At(e, i - (l + 4))
          BY <1>7, <3>1, <5>1
        <5> QED BY <1>4, <2>2, <5>1, <5>2 DEF HexRun
      <4> QED BY <3>1, <4>1, <4>2, <4>3
    <3>3. IsHex(<<At(f, i)>>)
      BY <3>2 DEF IsHex
    <3> QED BY <3>3, MelsecReading
  <2> QED BY <2>1, <2>2 DEF MC!HeaderIsSound
<1>14. Opens(f, fmt, dir)
  <2>1. 4 <= l
    BY <1>2 DEF Begins
  <2>2. At(f, 0) = At(r, 0) /\ At(f, 1) = At(r, 1) /\ At(f, 2) = At(r, 2) /\ At(f, 3) = At(r, 3)
    BY <1>7, <2>1
  <2> QED BY <1>2, <2>2 DEF Opens
<1>11. MC!SubheaderAt(fmt, f) = MC!Subheader(fmt, dir)
  <2> DEFINE sub == MC!Subheader(fmt, dir)
  <2>1. CASE MC!IsAscii(fmt)
    <3> DEFINE x == Hex(sub, 4)
    <3>1. Bytes(x, 4) /\ Opens(x, fmt, dir) /\ sub \in WORD
      <4>1. MC!Size(fmt) = 4
        BY <2>1 DEF MC!Size
      <4> QED BY <2>1, <4>1, SubheaderOpens
    <3>2. UnHex(x) = sub
      BY <3>1, HexIsRead
    <3> HIDE DEF x, sub
    <3>3. /\ At(f, 0) = At(x, 0) /\ At(f, 1) = At(x, 1) /\ At(f, 2) = At(x, 2) /\ At(f, 3) = At(x, 3)
      BY <1>14, <2>1, <3>1 DEF Opens
    <3>4. Upto(f, 4) = x
      <4>1. \A k \in Nat : k < 4 => At(f, k) = At(x, k)
        <5> TAKE k \in Nat
        <5> HAVE k < 4
        <5>1. k = 0 \/ k = 1 \/ k = 2 \/ k = 3
          OBVIOUS
        <5> QED BY <3>3, <5>1
      <4>2. 4 \in Nat /\ h + m \in Nat /\ 4 <= h + m
        BY <1>2, <1>4, <2>1 DEF Begins
      <4> QED BY ONLY <1>9, <3>1, <4>1, <4>2, UptoIs
    <3>5. MC!SubheaderAt(fmt, f) = UnHex(Upto(f, 4))
      BY <2>1, MelsecReading, MelsecCopies DEF MC!SubheaderAt
    <3> QED BY <3>2, <3>4, <3>5 DEF sub
  <2>2. CASE ~MC!IsAscii(fmt)
    <3>1. MC!SubheaderAt(fmt, f) = At(f, 0) * 256 + At(f, 1)
      BY <2>2, MelsecReading DEF MC!SubheaderAt, U16
    <3>2. sub = IF MC!Is4e(fmt) THEN IF dir = "req" THEN 21504 ELSE 54272 ELSE IF dir = "req" THEN 20480 ELSE 53248
      BY DEF MC!Subheader
    <3> QED BY <1>14, <2>2, <3>1, <3>2 DEF Opens
  <2> QED BY <2>1, <2>2
<1>12. MC!WordAt(fmt, f, MC!LenOffset(fmt)) = MC!TailBytes(f, fmt)
  <2>1. MC!TailBytes(f, fmt) = sz + m
    BY <1>1, <1>2, <1>9 DEF MC!TailBytes, sz
  <2>2. MC!WordAt(fmt, f, l) = FieldValue(f, l, sz)
    BY <1>4, <1>5, MelsecReading DEF MC!WordAt, FieldValue
  <2> QED BY <1>2, <1>7, <2>1, <2>2
<1>15. MC!WordAt(fmt, f, MC!EndOffset(fmt)) = timer
  <2>1. MC!EndOffset(fmt) = l + sz
    <3>1. CASE MC!IsAscii(fmt)
      BY <1>2, <1>4, <3>1 DEF MC!EndOffset, MC!LenOffset, MC!Pick
    <3>2. CASE ~MC!IsAscii(fmt)
      BY <1>2, <1>5, <3>2 DEF MC!EndOffset, MC!LenOffset, MC!Pick
    <3> QED BY <3>1, <3>2
  <2>2. CASE MC!IsAscii(fmt)
    <3>1. UnHex(e) = timer /\ Bytes(e, 4) /\ sz = 4
      <4>1. e = Hex(timer, 4)
        BY <2>2, MelsecCopies DEF e, MC!Word
      <4> QED BY <1>4, <2>2, <4>1, HexIsRead
    <3>2. l + sz \in Nat /\ 4 \in Nat /\ l + sz + 4 <= h + m /\ h + m \in Nat
      BY <1>1, <3>1
    <3>3. PICK j \in Nat : j = l + sz
      BY <3>2
    <3>4. \A i \in Nat : i < 4 => At(f, j + i) = At(e, i)
      BY <1>7, <3>1, <3>3
    <3>5. Mid(f, j, j + 4) = e
      <4>1. j + 4 <= h + m
        BY <3>2, <3>3
      <4> HIDE DEF h
      <4> QED BY ONLY j \in Nat, <1>9, <3>1, <3>2, <3>4, <4>1, MidIs
    <3>6. MC!WordAt(fmt, f, j) = UnHex(Mid(f, j, j + 4))
      BY <2>2, MelsecReading DEF MC!WordAt
    <3> QED BY <2>1, <3>1, <3>3, <3>5, <3>6
  <2>3. CASE ~MC!IsAscii(fmt)
    <3>1. At(e, 1) * 256 + At(e, 0) = timer /\ sz = 2
      <4>1. e = S16(timer)
        BY <2>3, MelsecCopies DEF e, MC!Word
      <4> QED BY <1>5, <2>3, <4>1, FieldIsRead
    <3>2. PICK j \in Nat : j = l + sz
      BY <1>1
    <3>3. At(f, j + 0) = At(e, 0) /\ At(f, j + 1) = At(e, 1) /\ j + 0 = j
      BY <1>7, <3>1, <3>2
    <3>4. MC!WordAt(fmt, f, j) = At(f, j + 1) * 256 + At(f, j)
      BY <2>3, MelsecReading DEF MC!WordAt, L16
    <3> QED BY <2>1, <3>1, <3>2, <3>3, <3>4
  <2> QED BY <2>2, <2>3
<1>13. MelsecHeadIsSound(f, fmt, dir, timer, data, m)
  BY <1>8, <1>9, <1>10, <1>11, <1>12, <1>14, <1>15 DEF MelsecHeadIsSound
<1> QED BY <1>13 DEF f, r, s, e, sz

\* That of a request.
RequestIsSound(f, fmt, timer, data, k) == MelsecHeadIsSound(f, fmt, "req", timer, data, k)

LEMMA RequestHeadIsRead ==
  ASSUME NEW fmt \in MC!FRAME_FORMATS, NEW pc \in BYTE, NEW station \in BYTE, NEW serial \in WORD,
         NEW timer \in WORD, NEW m \in Nat, m <= 4000, NEW data, Bytes(data, m)
  PROVE  RequestIsSound(RequestLead(fmt, pc, station, serial) \o MC!Word(fmt, MC!Size(fmt) + m)
                          \o MC!Word(fmt, timer) \o data, fmt, timer, data, m)
BY MelsecHeadIsRead DEF RequestIsSound, RequestLead

\* Devices differ in their codes and in their letters.
LEMMA DevicesDiffer ==
  ASSUME NEW d \in DOMAIN MC!DEVICE_CODES
  PROVE  /\ \A e \in DOMAIN MC!DEVICE_CODES : MC!DEVICE_CODES[e] = MC!DEVICE_CODES[d] => e = d
         /\ \A e \in DOMAIN MC!DEVICE_CODES : MC!LETTERS[e] = MC!LETTERS[d] => e = d
         /\ MC!DEVICE_CODES[d] \in Int /\ MC!LETTERS[d] \in Int /\ MC!LETTERS[d] < 128
<1>1. d \in {"X", "Y", "B", "W", "M", "D", "R"}
  BY DEF MC!DEVICE_CODES
<1>2. ASSUME NEW e \in DOMAIN MC!DEVICE_CODES
      PROVE  /\ MC!DEVICE_CODES[e] = MC!DEVICE_CODES[d] => e = d
             /\ MC!LETTERS[e] = MC!LETTERS[d] => e = d
  <2>1. e \in {"X", "Y", "B", "W", "M", "D", "R"}
    BY DEF MC!DEVICE_CODES
  <2>2. MC!DEVICE_CODES[e] = MC!DEVICE_CODES[d] => e = d
    BY <1>1, <2>1 DEF MC!DEVICE_CODES
  <2>3. MC!LETTERS[e] = MC!LETTERS[d] => e = d
    BY <1>1, <2>1 DEF MC!LETTERS
  <2> QED BY <2>2, <2>3
<1>3. MC!DEVICE_CODES[d] \in Int /\ MC!LETTERS[d] \in Int /\ MC!LETTERS[d] < 128
  BY <1>1 DEF MC!DEVICE_CODES, MC!LETTERS
<1> QED BY <1>2, <1>3

LEMMA RunIsHex == ASSUME NEW s, NEW n, n \in Nat, 1 <= n, HexRun(s, n) PROVE IsHex(s)
<1>1. s \in Seq(Int) /\ Len(s) = n /\ DOMAIN s = 1..n
  BY DEF HexRun, Bytes
<1>2. ASSUME NEW i \in 1..n PROVE s[i] \in (48..57) \cup (65..70) \cup (97..102)
  <2>1. i - 1 \in Nat /\ i - 1 < n /\ (i - 1) + 1 = i
    OBVIOUS
  <2>2. At(s, i - 1) = s[i]
    BY <1>1, <2>1 DEF At
  <2>3. At(s, i - 1) \in (48..57) \cup (65..70) \cup (97..102)
    BY <2>1 DEF HexRun
  <2> QED BY <2>2, <2>3
<1>3. s # <<>>
  BY <1>1
<1> QED BY <1>1, <1>2, <1>3 DEF IsHex

\* Six decimal digits, of a number that has no more.
LEMMA SixDigits ==
  ASSUME NEW n \in Nat, n < MC!TENS[7]
  PROVE  HexRun(MC!Decimal(n), 6) /\ \A i \in Nat : i < 6 => At(MC!Decimal(n), i) <= 57
<1> DEFINE g == MC!Decimal(n)
<1>1. g = [j \in 1..6 |-> 48 + ((n \div MC!TENS[6 - j + 1]) % 10)]
  BY DEF MC!Decimal
<1>2. ASSUME NEW j \in 1..6 PROVE 48 + ((n \div MC!TENS[6 - j + 1]) % 10) \in 48..57
  <2>1. MC!TENS[6 - j + 1] \in Nat \ {0}
    BY DEF MC!TENS
  <2> QED BY <2>1
<1> HIDE DEF g
<1>3. g \in [1..6 -> Int] /\ 6 \in Nat
  BY <1>1, <1>2
<1>4. g \in Seq(Int)
  BY <1>3, SeqDef
<1>5. Len(g) = 6
  BY <1>3, <1>4, LenProperties
<1>6. ASSUME NEW i \in Nat, i < 6 PROVE At(g, i) \in 48..57
  <2>1. i + 1 \in 1..6
    BY <1>6
  <2>2. At(g, i) = g[i + 1]
    BY <1>5, <1>6 DEF At
  <2> QED BY <1>1, <1>2, <2>1, <2>2
<1>7. HexRun(g, 6)
  <2>1. \A i \in Nat : i < 6 => At(g, i) \in (48..57) \cup (65..70) \cup (97..102)
    BY <1>6
  <2> QED BY <1>4, <1>5, <2>1 DEF HexRun, Bytes
<1>8. \A i \in Nat : i < 6 => At(g, i) <= 57
  BY <1>6
<1> QED BY <1>7, <1>8 DEF g

\* What the parser finds in the part of a request after its header: what was put there.
PduIsRead(fmt, data, cmd, device, count) ==
  /\ Len(data) >= MC!PduAsciiLen(fmt)
  /\ MC!DecodePdu(fmt, data).ok
  /\ MC!DecodePdu(fmt, data).cmd = cmd
  /\ MC!DecodePdu(fmt, data).device = device
  /\ MC!DecodePdu(fmt, data).count = count

LEMMA BinaryPduIsRead ==
  ASSUME NEW fmt \in MC!FRAME_FORMATS, ~MC!IsAscii(fmt), NEW cmd \in WORD, NEW device \in DOMAIN MC!DEVICE_CODES,
         NEW head \in MC!TRIPLE, NEW count \in WORD, NEW x \in Nat, NEW v, Bytes(v, x)
  PROVE  PduIsRead(fmt, MC!EncodePdu(fmt, cmd, device, head, count) \o v, cmd, device, count)
<1>1. FitsWide(head) /\ 0 \in WORD
  BY WordIs, TripleIs
<1> DEFINE a == S16(cmd)
           b == S16(0)
           c == Upto(S32(head), 3)
           d == <<MC!DEVICE_CODES[device]>>
           e == S16(count)
           ab == a \o b
           abc == ab \o c
           abcd == abc \o d
           pdu == abcd \o e
           data == pdu \o v
<1>2. MC!EncodePdu(fmt, cmd, device, head, count) = pdu
  BY MelsecCopies DEF MC!EncodePdu
<1>3. /\ Bytes(a, 2) /\ Bytes(b, 2) /\ Bytes(e, 2)
      /\ At(a, 1) * 256 + At(a, 0) = cmd /\ At(e, 1) * 256 + At(e, 0) = count
  BY <1>1, FieldIsRead
<1>4. Bytes(c, 3)
  <2>1. Bytes(S32(head), 4)
    BY <1>1, LowFirstBytes
  <2>2. S32(head) \in Seq(Int) /\ 3 \in Nat /\ 3 <= Len(S32(head))
    BY <2>1 DEF Bytes
  <2> QED BY <2>2, UptoIsPrefix DEF Bytes
<1>5. Bytes(d, 1) /\ At(d, 0) = MC!DEVICE_CODES[device]
  BY DevicesDiffer, BytesOfOne
<1> HIDE DEF a, b, c, d, e
<1>6. Bytes(ab, 4) /\ \A i \in Nat : i < 2 => At(ab, i) = At(a, i)
  BY <1>3, BytesJoined
<1> HIDE DEF ab
<1>7. Bytes(abc, 7) /\ \A i \in Nat : i < 4 => At(abc, i) = At(ab, i)
  BY <1>4, <1>6, BytesJoined
<1> HIDE DEF abc
<1>8. /\ Bytes(abcd, 8) /\ \A i \in Nat : i < 7 => At(abcd, i) = At(abc, i)
      /\ \A i \in Nat : At(abcd, 7 + i) = At(d, i)
  BY <1>5, <1>7, BytesJoined
<1> HIDE DEF abcd
<1>9. /\ Bytes(pdu, 10) /\ \A i \in Nat : i < 8 => At(pdu, i) = At(abcd, i)
      /\ \A i \in Nat : At(pdu, 8 + i) = At(e, i)
  BY <1>3, <1>8, BytesJoined
<1> HIDE DEF pdu
<1>10. Bytes(data, 10 + x) /\ \A i \in Nat : i < 10 => At(data, i) = At(pdu, i)
  BY <1>9, BytesJoined
<1> HIDE DEF data
<1>11. At(data, 0) = At(a, 0) /\ At(data, 1) = At(a, 1)
  BY <1>6, <1>7, <1>8, <1>9, <1>10
<1>12. At(data, 7) = MC!DEVICE_CODES[device]
  <2>1. At(abcd, 7 + 0) = At(d, 0)
    BY <1>8
  <2>2. At(pdu, 7) = At(abcd, 7) /\ At(data, 7) = At(pdu, 7)
    BY <1>9, <1>10
  <2> QED BY <1>5, <2>1, <2>2
<1>13. At(data, 8) = At(e, 0) /\ At(data, 9) = At(e, 1)
  <2>1. At(pdu, 8 + 0) = At(e, 0) /\ At(pdu, 8 + 1) = At(e, 1)
    BY <1>9
  <2>2. At(data, 8) = At(pdu, 8) /\ At(data, 9) = At(pdu, 9)
    BY <1>10
  <2> QED BY <2>1, <2>2
<1>14. Len(data) >= 10 /\ MC!PduAsciiLen(fmt) = 10
  BY <1>10 DEF Bytes, MC!PduAsciiLen
<1> DEFINE named == {k \in DOMAIN MC!DEVICE_CODES : IF MC!IsAscii(fmt) THEN <<MC!LETTERS[k], 42>> = MC!Mid(data, 8, 10)
                                                        ELSE MC!DEVICE_CODES[k] = MC!At(data, 7)}
           found == IF named = {} THEN "" ELSE CHOOSE k \in named : TRUE
           number == MC!Mid(data, 10, 16)
           ok == IF MC!IsAscii(fmt)
                 THEN /\ \A i \in {0, 4, 16} : MC!IsHex(MC!Mid(data, i, i + 4))
                      /\ MC!IsHex(number)
                      /\ named \cap MC!HEX_DEVICES = {} => \A i \in DOMAIN number : number[i] <= 57
                      /\ \A i \in 8..9 : MC!At(data, i) < 128
                 ELSE Len(data) >= 8
           said == MC!WordAt(fmt, data, 0)
           points == IF MC!IsAscii(fmt) THEN MC!UnHex(MC!Mid(data, 16, 20)) ELSE MC!L16(data, 8)
           read == MC!DecodePdu(fmt, data)
<1>15. read = [ok |-> ok, cmd |-> said, device |-> found, count |-> points]
  BY DEF MC!DecodePdu
<1>16. named = {device}
  BY <1>12, DevicesDiffer, MelsecReading
<1>17. ok
  BY <1>14
<1>18. said = L16(data, 0) /\ points = L16(data, 8)
  BY MelsecReading DEF MC!WordAt
<1> HIDE DEF named, number, ok, said, points, read
<1>20. found = device
  BY <1>16
<1>21. L16(data, 0) = cmd /\ L16(data, 8) = count
  <2>1. 0 + 1 = 1 /\ 8 + 1 = 9
    OBVIOUS
  <2> QED BY <1>3, <1>11, <1>13, <2>1 DEF L16
<1> HIDE DEF found
<1>19. PduIsRead(fmt, data, cmd, device, count)
  <2>1. read.ok /\ read.cmd = cmd /\ read.device = device /\ read.count = count
    BY <1>15, <1>17, <1>18, <1>20, <1>21
  <2> QED BY <1>14, <2>1 DEF PduIsRead, read
<1> QED BY <1>2, <1>19 DEF data

\* In an ASCII frame a decimal device number has to fit the six digits it is read from.
AsciiHeadFits(fmt, device, head) == MC!IsAscii(fmt) => device \in MC!HEX_DEVICES \/ head < MC!TENS[7]

LEMMA AsciiPduIsRead ==
  ASSUME NEW fmt \in MC!FRAME_FORMATS, MC!IsAscii(fmt), NEW cmd \in WORD, NEW device \in DOMAIN MC!DEVICE_CODES,
         NEW head \in MC!TRIPLE, AsciiHeadFits(fmt, device, head), NEW count \in WORD,
         NEW x \in Nat, NEW v, Bytes(v, x)
  PROVE  PduIsRead(fmt, MC!EncodePdu(fmt, cmd, device, head, count) \o v, cmd, device, count)
<1>1. head \in Nat /\ 0 \in WORD
  BY WordIs, TripleIs
<1> DEFINE a == Hex(cmd, 4)
           b == Hex(0, 4)
           c == <<MC!LETTERS[device], 42>>
           d == IF device \in MC!HEX_DEVICES THEN Hex(head, 6) ELSE MC!Decimal(head)
           e == Hex(count, 4)
           ab == a \o b
           abc == ab \o c
           abcd == abc \o d
           pdu == abcd \o e
           data == pdu \o v
<1>2. MC!EncodePdu(fmt, cmd, device, head, count) = pdu
  BY MelsecCopies DEF MC!EncodePdu
<1>3. /\ Bytes(a, 4) /\ Bytes(b, 4) /\ Bytes(e, 4) /\ UnHex(a) = cmd /\ UnHex(e) = count
      /\ IsHex(a) /\ IsHex(b) /\ IsHex(e)
  <2>1. Bytes(a, 4) /\ Bytes(b, 4) /\ Bytes(e, 4) /\ UnHex(a) = cmd /\ UnHex(e) = count
    BY <1>1, HexIsRead
  <2>2. HexRun(a, 4) /\ HexRun(b, 4) /\ HexRun(e, 4)
    BY <1>1, WordIs, HexIsRun
  <2> HIDE DEF a, b, e
  <2> QED BY <2>1, <2>2, RunIsHex
<1>4. Bytes(c, 2) /\ At(c, 0) = MC!LETTERS[device] /\ At(c, 1) = 42
  BY DevicesDiffer, BytesOfTwo
<1>5. Bytes(d, 6) /\ IsHex(d) /\ (device \notin MC!HEX_DEVICES => \A i \in Nat : i < 6 => At(d, i) <= 57)
  <2>1. HexRun(d, 6) /\ (device \notin MC!HEX_DEVICES => \A i \in Nat : i < 6 => At(d, i) <= 57)
    <3>1. CASE device \in MC!HEX_DEVICES
      <4>1. d = Hex(head, 6)
        BY <3>1
      <4>2. HexRun(Hex(head, 6), 6)
        BY <1>1, HexIsRun
      <4> QED BY <3>1, <4>1, <4>2
    <3>2. CASE device \notin MC!HEX_DEVICES
      <4>1. d = MC!Decimal(head)
        BY <3>2
      <4>2. head < MC!TENS[7]
        BY <3>2 DEF AsciiHeadFits
      <4> QED BY <1>1, <4>1, <4>2, SixDigits
    <3> QED BY <3>1, <3>2
  <2> HIDE DEF d
  <2> QED BY <2>1, RunIsHex DEF HexRun
<1> HIDE DEF a, b, c, d, e
<1>6. /\ Bytes(ab, 8) /\ \A i \in Nat : i < 4 => At(ab, i) = At(a, i)
      /\ \A i \in Nat : At(ab, 4 + i) = At(b, i)
  BY <1>3, BytesJoined
<1> HIDE DEF ab
<1>7. /\ Bytes(abc, 10) /\ \A i \in Nat : i < 8 => At(abc, i) = At(ab, i)
      /\ \A i \in Nat : At(abc, 8 + i) = At(c, i)
  BY <1>4, <1>6, BytesJoined
<1> HIDE DEF abc
<1>8. /\ Bytes(abcd, 16) /\ \A i \in Nat : i < 10 => At(abcd, i) = At(abc, i)
      /\ \A i \in Nat : At(abcd, 10 + i) = At(d, i)
  BY <1>5, <1>7, BytesJoined
<1> HIDE DEF abcd
<1>9. /\ Bytes(pdu, 20) /\ \A i \in Nat : i < 16 => At(pdu, i) = At(abcd, i)
      /\ \A i \in Nat : At(pdu, 16 + i) = At(e, i)
  BY <1>3, <1>8, BytesJoined
<1> HIDE DEF pdu
<1>10. Bytes(data, 20 + x) /\ \A i \in Nat : i < 20 => At(data, i) = At(pdu, i)
  BY <1>9, BytesJoined
<1> HIDE DEF data
<1>11. Mid(data, 0, 4) = a
  <2>1. \A k \in Nat : k < 4 => At(data, 0 + k) = At(a, k)
    BY <1>6, <1>7, <1>8, <1>9, <1>10
  <2>2. Mid(data, 0, 0 + 4) = a
    BY <1>3, <1>10, <2>1, MidIs
  <2> QED BY <2>2
<1>12. Mid(data, 4, 8) = b
  <2>1. ASSUME NEW k \in Nat, k < 4 PROVE At(data, 4 + k) = At(b, k)
    <3>1. At(ab, 4 + k) = At(b, k)
      BY <1>6
    <3>2. 4 + k \in Nat /\ 4 + k < 8
      BY <2>1
    <3> QED BY <1>7, <1>8, <1>9, <1>10, <3>1, <3>2
  <2>2. Mid(data, 4, 4 + 4) = b
    BY <1>3, <1>10, <2>1, MidIs
  <2> QED BY <2>2
<1>13. At(data, 8) = MC!LETTERS[device] /\ At(data, 9) = 42 /\ Mid(data, 8, 10) = c
  <2>1. ASSUME NEW k \in Nat, k < 2 PROVE At(data, 8 + k) = At(c, k)
    <3>1. At(abc, 8 + k) = At(c, k)
      BY <1>7
    <3>2. 8 + k \in Nat /\ 8 + k < 10
      BY <2>1
    <3> QED BY <1>8, <1>9, <1>10, <3>1, <3>2
  <2>2. Mid(data, 8, 8 + 2) = c
    <3>1. /\ 8 \in Nat /\ 2 \in Nat /\ 20 + x \in Nat /\ 8 + 2 <= 20 + x /\ Bytes(c, 2) /\ Bytes(data, 20 + x)
          /\ \A k \in Nat : k < 2 => At(data, 8 + k) = At(c, k)
      BY <1>4, <1>10, <2>1
    <3> QED BY ONLY <3>1, MidIs
  <2>3. At(data, 8 + 0) = At(c, 0) /\ At(data, 8 + 1) = At(c, 1)
    BY <2>1
  <2> QED BY <1>4, <2>2, <2>3
<1>14. Mid(data, 10, 16) = d
  <2>1. ASSUME NEW k \in Nat, k < 6 PROVE At(data, 10 + k) = At(d, k)
    <3>1. At(abcd, 10 + k) = At(d, k)
      BY <1>8
    <3>2. 10 + k \in Nat /\ 10 + k < 16
      BY <2>1
    <3> QED BY <1>9, <1>10, <3>1, <3>2
  <2>2. Mid(data, 10, 10 + 6) = d
    BY <1>5, <1>10, <2>1, MidIs
  <2> QED BY <2>2
<1>15. Mid(data, 16, 20) = e
  <2>1. ASSUME NEW k \in Nat, k < 4 PROVE At(data, 16 + k) = At(e, k)
    <3>1. At(pdu, 16 + k) = At(e, k)
      BY <1>9
    <3>2. 16 + k \in Nat /\ 16 + k < 20
      BY <2>1
    <3> QED BY <1>10, <3>1, <3>2
  <2>2. Mid(data, 16, 16 + 4) = e
    BY <1>3, <1>10, <2>1, MidIs
  <2> QED BY <2>2
<1>16. Len(data) >= 20 /\ MC!PduAsciiLen(fmt) = 20
  BY <1>10 DEF Bytes, MC!PduAsciiLen
<1> DEFINE named == {k \in DOMAIN MC!DEVICE_CODES : IF MC!IsAscii(fmt) THEN <<MC!LETTERS[k], 42>> = MC!Mid(data, 8, 10)
                                                        ELSE MC!DEVICE_CODES[k] = MC!At(data, 7)}
           found == IF named = {} THEN "" ELSE CHOOSE k \in named : TRUE
           number == MC!Mid(data, 10, 16)
           ok == IF MC!IsAscii(fmt)
                 THEN /\ \A i \in {0, 4, 16} : MC!IsHex(MC!Mid(data, i, i + 4))
                      /\ MC!IsHex(number)
                      /\ named \cap MC!HEX_DEVICES = {} => \A i \in DOMAIN number : number[i] <= 57
                      /\ \A i \in 8..9 : MC!At(data, i) < 128
                 ELSE Len(data) >= 8
           said == MC!WordAt(fmt, data, 0)
           points == IF MC!IsAscii(fmt) THEN MC!UnHex(MC!Mid(data, 16, 20)) ELSE MC!L16(data, 8)
           read == MC!DecodePdu(fmt, data)
<1>17. read = [ok |-> ok, cmd |-> said, device |-> found, count |-> points]
  BY DEF MC!DecodePdu
<1>18. named = {device}
  <2>1. named = {k \in DOMAIN MC!DEVICE_CODES : <<MC!LETTERS[k], 42>> = <<MC!LETTERS[device], 42>>}
    BY <1>13, MelsecReading DEF c
  <2> HIDE DEF named
  <2> QED BY <2>1, DevicesDiffer
<1>19. ok
  <2>1. /\ MC!IsHex(MC!Mid(data, 0, 0 + 4)) /\ MC!IsHex(MC!Mid(data, 4, 4 + 4)) /\ MC!IsHex(MC!Mid(data, 16, 16 + 4))
    <3>1. 0 + 4 = 4 /\ 4 + 4 = 8 /\ 16 + 4 = 20
      OBVIOUS
    <3> QED BY <1>3, <1>11, <1>12, <1>15, <3>1, MelsecReading
  <2>2. number = d
    BY <1>14, MelsecReading
  <2>3. \A i \in 8..9 : MC!At(data, i) < 128
    <3>1. MC!At(data, 8) < 128 /\ MC!At(data, 9) < 128
      BY <1>13, DevicesDiffer, MelsecReading
    <3> QED BY <3>1
  <2>4. ASSUME named \cap MC!HEX_DEVICES = {} PROVE \A i \in DOMAIN d : d[i] <= 57
    <3>1. device \notin MC!HEX_DEVICES
      BY <1>18, <2>4
    <3>2. Len(d) = 6 /\ DOMAIN d = 1..6
      BY <1>5 DEF Bytes
    <3> TAKE i \in DOMAIN d
    <3>3. i \in 1..6 /\ i - 1 \in Nat /\ i - 1 < 6 /\ (i - 1) + 1 = i
      BY <3>2
    <3>4. At(d, i - 1) <= 57 /\ At(d, i - 1) = d[i]
      BY <1>5, <3>1, <3>2, <3>3 DEF At
    <3> QED BY <3>4
  <2>5. MC!IsHex(d)
    BY <1>5, MelsecReading
  <2> HIDE DEF named, number
  <2> QED BY <2>1, <2>2, <2>3, <2>4, <2>5
<1>20. said = cmd /\ points = count
  <2>1. said = MC!UnHex(MC!Mid(data, 0, 0 + 4)) /\ points = MC!UnHex(MC!Mid(data, 16, 20))
    BY DEF MC!WordAt
  <2>2. 0 + 4 = 4
    OBVIOUS
  <2> HIDE DEF said, points
  <2> QED BY <1>3, <1>11, <1>15, <2>1, <2>2, MelsecReading
<1> HIDE DEF named, number, ok, said, points, read
<1>21. found = device
  BY <1>18
<1> HIDE DEF found
<1>22. PduIsRead(fmt, data, cmd, device, count)
  <2>1. read.ok /\ read.cmd = cmd /\ read.device = device /\ read.count = count
    BY <1>17, <1>19, <1>20, <1>21
  <2> QED BY <1>16, <2>1 DEF PduIsRead, read
<1> QED BY <1>2, <1>22 DEF data

\* MELSEC findings in one place: none where none of the seven conditions holds.
LEMMA MelsecFindings ==
  ASSUME NEW a, NEW b, NEW c, NEW d, NEW e, NEW g, NEW h, {a, b, c, d, e, g, h} \subseteq BOOLEAN,
         ~a, ~b, ~c, ~d, ~e, ~g, ~h
  PROVE  MC!Found([subheader |-> a, data_length |-> b, too_short |-> c, undecodable |-> d,
                   unsupported |-> e, device |-> g, count |-> h]) = {}
<1> DEFINE r == [subheader |-> a, data_length |-> b, too_short |-> c, undecodable |-> d,
                 unsupported |-> e, device |-> g, count |-> h]
<1>1. DOMAIN r = {"subheader", "data_length", "too_short", "undecodable", "unsupported", "device", "count"}
  OBVIOUS
<1>2. /\ ~r["subheader"] /\ ~r["data_length"] /\ ~r["too_short"] /\ ~r["undecodable"]
      /\ ~r["unsupported"] /\ ~r["device"] /\ ~r["count"]
  OBVIOUS
<1> HIDE DEF r
<1>3. MC!Found(r) = {}
  BY <1>1, <1>2 DEF MC!Found
<1> QED BY <1>3 DEF r

LEMMA DevicesHaveNames == "" \notin DOMAIN MC!DEVICE_CODES
BY DEF MC!DEVICE_CODES

\* A sound header, whatever the timer.
HeadIsSound(f, fmt, data, k) == \E timer : RequestIsSound(f, fmt, timer, data, k)

\* A sound header, and after it what EncodePdu wrote of a command the parser knows
\* and a number of points it allows.
LEMMA MelsecParsed ==
  ASSUME NEW fmt \in MC!FRAME_FORMATS, NEW f, NEW data, NEW k \in Nat,
         HeadIsSound(f, fmt, data, k),
         NEW cmd \in {MC!CMD_BATCH_READ_WORD, MC!CMD_BATCH_WRITE_WORD}, NEW device \in DOMAIN MC!DEVICE_CODES, NEW count \in 1..MC!MAX_READ_POINTS,
         PduIsRead(fmt, data, cmd, device, count)
  PROVE  MC!ParseRequestFmt(f, fmt) = {}
<1> DEFINE rest == MC!From(f, MC!HeaderLen(fmt))
           pdu == MC!DecodePdu(fmt, rest)
           whole == Len(rest) >= MC!PduAsciiLen(fmt)
           p1 == MC!SubheaderAt(fmt, f) # MC!Subheader(fmt, "req")
           p2 == MC!WordAt(fmt, f, MC!LenOffset(fmt)) # MC!TailBytes(f, fmt)
           p3 == ~whole
           p4 == whole /\ ~pdu.ok
           p5 == whole /\ pdu.ok /\ pdu.cmd \notin {MC!CMD_BATCH_READ_WORD, MC!CMD_BATCH_WRITE_WORD}
           p6 == whole /\ pdu.ok /\ pdu.device = ""
           p7 == whole /\ pdu.ok /\ pdu.count \notin 1..MC!MAX_READ_POINTS
<1>0. PICK timer : RequestIsSound(f, fmt, timer, data, k)
  BY DEF HeadIsSound
<1>1. MC!ParseRequestFmt(f, fmt)
        = IF ~MC!HeaderIsSound(f, fmt) THEN {"header"}
          ELSE MC!Found([subheader |-> p1, data_length |-> p2, too_short |-> p3, undecodable |-> p4,
                         unsupported |-> p5, device |-> p6, count |-> p7])
  BY DEF MC!ParseRequestFmt
<1>2. rest = data
  BY <1>0, MelsecReading DEF RequestIsSound, MelsecHeadIsSound
<1> HIDE DEF rest
<1>3. /\ whole /\ pdu.ok /\ pdu.cmd = cmd /\ pdu.device = device /\ pdu.count = count
  BY <1>2 DEF PduIsRead
<1>4. MC!HeaderIsSound(f, fmt) /\ ~p1 /\ ~p2
  BY <1>0 DEF RequestIsSound, MelsecHeadIsSound
<1>5. device # ""
  BY DevicesHaveNames
<1> HIDE DEF pdu, whole
<1>7. ~p3 /\ ~p4 /\ ~p5 /\ ~p6 /\ ~p7
  <2>1. ~p3 /\ ~p4
    BY <1>3
  <2>2. ~p5
    BY <1>3
  <2>3. ~p6
    BY <1>3, <1>5
  <2>4. ~p7
    BY <1>3
  <2> HIDE DEF p3, p4, p5, p6, p7
  <2> QED BY <2>1, <2>2, <2>3, <2>4
<1>8. {p1, p2, p3, p4, p5, p6, p7} \subseteq BOOLEAN
  OBVIOUS
<1> HIDE DEF p1, p2, p3, p4, p5, p6, p7
<1>9. MC!Found([subheader |-> p1, data_length |-> p2, too_short |-> p3, undecodable |-> p4,
                unsupported |-> p5, device |-> p6, count |-> p7]) = {}
  BY <1>4, <1>7, <1>8, MelsecFindings
<1> QED BY <1>1, <1>4, <1>9

LEMMA MelsecRequestIsAccepted ==
  ASSUME NEW fmt \in MC!FRAME_FORMATS, NEW cmd \in {1025, 5121}, NEW device, NEW head,
         NEW count \in 1..MC!MAX_READ_POINTS,
         NEW pc, NEW station, NEW timer, MC!Addressable(device, head, pc, station, timer),
         AsciiHeadFits(fmt, device, head),
         NEW serial \in WORD, NEW n \in Nat, n <= 960, NEW values, values = <<>> <=> n = 0,
         Len(values) = n, DOMAIN values = 1..n, \A i \in 1..n : values[i] \in Int
  PROVE  MC!ParseRequestFmt(MC!BuildRequest(fmt, cmd, device, head, count, values, pc, station, timer, serial), fmt) = {}
<1>1. /\ pc \in BYTE /\ station \in BYTE /\ timer \in WORD
      /\ device \in DOMAIN MC!DEVICE_CODES /\ head \in MC!TRIPLE
  <2>1. timer \in {0, 1, 2, 4, 10, 11}
    BY DEF MC!Addressable, MC!MONITOR_TIMER_VALUES
  <2>2. timer \in WORD
    BY <2>1, WordIs
  <2> QED BY <2>2, MelsecCopies DEF MC!Addressable
<1>2. cmd \in WORD /\ count \in WORD
  <2>1. MC!MAX_READ_POINTS \in Int /\ MC!MAX_READ_POINTS <= 960
    BY DEF MC!MAX_READ_POINTS
  <2>2. count \in Int /\ 1 <= count /\ count <= MC!MAX_READ_POINTS
    BY <2>1, InRange
  <2> QED BY <2>1, <2>2, WordIs
<1> DEFINE pdu == MC!EncodePdu(fmt, cmd, device, head, count)
           f == MC!BuildRequest(fmt, cmd, device, head, count, values, pc, station, timer, serial)
<1>3. PICK v, x, m : RequestParts(f, fmt, pdu, pc, station, timer, serial, v, x, m)
  BY <1>2, MelsecRequestIs
<1> HIDE DEF f
<1> DEFINE data == pdu \o v
<1>4. /\ x \in Nat /\ m \in Nat /\ m <= 4000 /\ Bytes(v, x) /\ Bytes(data, m)
      /\ f = RequestLead(fmt, pc, station, serial) \o MC!Word(fmt, MC!Size(fmt) + m) \o MC!Word(fmt, timer) \o data
  BY <1>3 DEF RequestParts
<1>5. PduIsRead(fmt, data, cmd, device, count)
  <2>1. CASE MC!IsAscii(fmt)
    BY <1>1, <1>2, <1>4, <2>1, AsciiPduIsRead
  <2>2. CASE ~MC!IsAscii(fmt)
    BY <1>1, <1>2, <1>4, <2>2, BinaryPduIsRead
  <2> QED BY <2>1, <2>2
<1> HIDE DEF data, pdu
<1>6. HeadIsSound(f, fmt, data, m)
  <2>1. RequestIsSound(f, fmt, timer, data, m)
    BY <1>1, <1>4, RequestHeadIsRead
  <2> QED BY <2>1 DEF HeadIsSound
<1>7. cmd \in {MC!CMD_BATCH_READ_WORD, MC!CMD_BATCH_WRITE_WORD}
  BY DEF MC!CMD_BATCH_READ_WORD, MC!CMD_BATCH_WRITE_WORD
<1>8. MC!ParseRequestFmt(f, fmt) = {}
  BY <1>1, <1>4, <1>5, <1>6, <1>7, MelsecParsed
<1> QED BY <1>8 DEF f

\* parse_request finds nothing to object to in a read that build_read_request makes.
THEOREM MelsecReadIsAccepted ==
  ASSUME NEW fmt \in MC!FRAME_FORMATS, NEW device, NEW head, AsciiHeadFits(fmt, device, head),
         NEW count, NEW pc, NEW station, NEW timer, NEW serial \in WORD,
         NEW f, f = MC!BuildReadRequest(fmt, device, head, count, pc, station, timer, serial)
  PROVE  f = <<>> \/ MC!ParseRequestFmt(f, fmt) = {}
<1>1. SUFFICES ASSUME f # <<>> PROVE MC!ParseRequestFmt(f, fmt) = {}
  OBVIOUS
<1>2. /\ MC!Addressable(device, head, pc, station, timer) /\ count \in 1..MC!MAX_READ_POINTS
      /\ f = MC!BuildRequest(fmt, 1025, device, head, count, <<>>, pc, station, timer, serial)
  BY <1>1 DEF MC!BuildReadRequest, MC!CMD_BATCH_READ_WORD
<1>3. 0 \in Nat /\ 0 <= 960 /\ Len(<<>>) = 0 /\ DOMAIN <<>> = 1..0 /\ \A i \in 1..0 : <<>>[i] \in Int
  OBVIOUS
<1> QED BY <1>2, <1>3, MelsecRequestIsAccepted

\* ...nor in a write that build_write_request makes.
THEOREM MelsecWriteIsAccepted ==
  ASSUME NEW fmt \in MC!FRAME_FORMATS, NEW device, NEW head, AsciiHeadFits(fmt, device, head),
         NEW values \in Seq(Int), NEW pc, NEW station, NEW timer, NEW serial \in WORD,
         NEW f, f = MC!BuildWriteRequest(fmt, device, head, values, pc, station, timer, serial)
  PROVE  f = <<>> \/ MC!ParseRequestFmt(f, fmt) = {}
<1> DEFINE n == Len(values)
<1>1. SUFFICES ASSUME f # <<>> PROVE MC!ParseRequestFmt(f, fmt) = {}
  OBVIOUS
<1>2. /\ MC!Addressable(device, head, pc, station, timer) /\ n \in 1..MC!MAX_READ_POINTS
      /\ f = MC!BuildRequest(fmt, 5121, device, head, n, values, pc, station, timer, serial)
  BY <1>1 DEF MC!BuildWriteRequest, MC!CMD_BATCH_WRITE_WORD
<1>3. n \in Nat /\ n # 0 /\ n <= 960 /\ DOMAIN values = 1..n /\ \A i \in 1..n : values[i] \in Int
  <2>1. MC!MAX_READ_POINTS \in Int /\ MC!MAX_READ_POINTS <= 960
    BY DEF MC!MAX_READ_POINTS
  <2>2. n \in Int /\ 1 <= n /\ n <= MC!MAX_READ_POINTS
    BY <1>2, <2>1, InRange
  <2>3. DOMAIN values = 1..n
    BY LenProperties
  <2> QED BY <2>1, <2>2, <2>3, ElementOfSeq
<1>4. values = <<>> <=> n = 0
  BY <1>3
<1> HIDE DEF n
<1> QED BY <1>2, <1>3, <1>4, MelsecRequestIsAccepted DEF n

-----------------------------------------------------------------------------
(* Numbers                                                                  *)

\* The numbers the requests are made of.
LEMMA SmallNumbers ==
  /\ \A n \in {0, 1, 2, 3, 4, 5, 7, 8, 9, 16, 20, 130, 200, 255} : n \in BYTE /\ n \in WORD /\ n \in MC!BYTE
  /\ MB!BYTE = BYTE /\ MB!WORD = WORD /\ FI!BYTE = BYTE /\ FI!WORD = WORD /\ MC!BYTE = BYTE
  /\ ENIP!WORD = WORD
<1>1. MB!BYTE = BYTE /\ MB!WORD = WORD /\ FI!BYTE = BYTE /\ FI!WORD = WORD /\ MC!BYTE = BYTE
      /\ ENIP!WORD = WORD
  BY DEF MB!BYTE, BYTE, MB!WORD, WORD, FI!BYTE, FI!WORD, MC!BYTE, ENIP!WORD
<1>2. ASSUME NEW n \in {0, 1, 2, 3, 4, 5, 7, 8, 9, 16, 20, 130, 200, 255} PROVE n \in BYTE /\ n \in WORD
  BY ByteIs, WordIs
<1> QED BY <1>1, <1>2

-----------------------------------------------------------------------------
(* Streams: what split_frames cuts of frames that are joined                *)

\* What a head claims is a number, whatever the head.
LEMMA FieldValueIsInt ==
  ASSUME NEW b \in Seq(Int), NEW at \in Nat, NEW sz \in {2, 4}, at + sz <= Len(b)
  PROVE  FieldValue(b, at, sz) \in Int
<1>1. CASE sz = 4
  <2>1. Len(b) \in Nat /\ Bytes(b, Len(b)) /\ at + 4 \in Nat /\ at <= at + 4 /\ at + 4 <= Len(b) /\ (at + 4) - at = 4
    BY <1>1, LenProperties DEF Bytes
  <2>2. Bytes(Mid(b, at, at + 4), (at + 4) - at)
    BY ONLY at \in Nat, <2>1, MidBytes
  <2>3. Bytes(Mid(b, at, at + 4), 4)
    BY <2>1, <2>2
  <2> QED BY <1>1, <2>3, UnHexOfFour DEF FieldValue
<1>2. CASE sz = 2
  <2>1. At(b, at) \in Int /\ At(b, at + 1) \in Int
    BY AtIsInt
  <2> QED BY <1>2, <2>1 DEF FieldValue, L16
<1> QED BY <1>1, <1>2

\* The length field of MELSEC is in one of five places.
LEMMA LengthFieldIsOneOf ==
  ASSUME NEW b
  PROVE  MelsecLengthField(b) \in {<<7, 2>>, <<11, 2>>, <<22, 4>>, <<14, 4>>, <<0, 0>>}
<1>1. At(b, 1) = 0 /\ At(b, 0) \in {80, 208} => ~(At(b, 1) = 0 /\ At(b, 0) \in {84, 212}) /\ At(b, 0) \notin {53, 68}
  OBVIOUS
<1>2. At(b, 1) = 0 /\ At(b, 0) \in {84, 212} => At(b, 0) \notin {53, 68}
  OBVIOUS
<1> QED BY <1>1, <1>2 DEF MelsecLengthField

\* The end of a MELSEC frame, with its length field named.
LEMMA MelsecEnd ==
  ASSUME NEW b, NEW at, NEW sz, MelsecLengthField(b) = <<at, sz>>
  PROVE  MelsecFrameLen(b) = FieldEnd(b, at, sz, FieldValue(b, at, sz))
BY DEF MelsecFrameLen, FieldValue

\* What _melsec_frame_len returns is a number, whatever the bytes.
LEMMA MelsecFrameLenIsInt == ASSUME NEW b \in Seq(Int) PROVE MelsecFrameLen(b) \in Int
<1>1. Len(b) \in Nat /\ More \in Int
  BY LenProperties DEF More
<1>2. CASE Len(b) < 2
  <2>1. \A at, sz, length : FieldEnd(b, at, sz, length) = More
    BY <1>1, <1>2 DEF FieldEnd
  <2> QED BY <1>1, <2>1 DEF MelsecFrameLen
<1>3. CASE ~(Len(b) < 2)
  <2>1. PICK at, sz : MelsecLengthField(b) = <<at, sz>> /\ at \in Nat /\ (sz = 0 \/ sz \in {2, 4})
    BY LengthFieldIsOneOf
  <2>2. CASE sz = 0
    <3>1. FieldEnd(b, at, sz, FieldValue(b, at, sz)) = 0
      BY <1>1, <1>3, <2>2 DEF FieldEnd
    <3> QED BY <2>1, <3>1, MelsecEnd
  <2>3. CASE sz \in {2, 4}
    <3> DEFINE need == IF Len(b) < 4 THEN 4 ELSE at + sz
    <3>1. CASE Len(b) < need
      <4>1. FieldEnd(b, at, sz, FieldValue(b, at, sz)) = More
        BY <1>1, <1>3, <2>3, <3>1 DEF FieldEnd
      <4> QED BY <1>1, <2>1, <4>1, MelsecEnd
    <3>2. CASE ~(Len(b) < need)
      <4>1. at + sz <= Len(b)
        BY <1>1, <2>1, <2>3, <3>2
      <4>2. FieldValue(b, at, sz) \in Int
        BY <2>1, <2>3, <4>1, FieldValueIsInt
      <4>3. FieldEnd(b, at, sz, FieldValue(b, at, sz)) =
              IF FieldValue(b, at, sz) = -1 THEN 0 ELSE at + sz + FieldValue(b, at, sz)
        BY <1>1, <1>3, <2>3, <3>2 DEF FieldEnd
      <4> QED BY <2>1, <2>3, <4>2, <4>3, MelsecEnd
    <3> QED BY <3>1, <3>2
  <2> QED BY <2>1, <2>2, <2>3
<1> QED BY <1>2, <1>3

\* So is what a head claims, in each of the five protocols.
LEMMA ClaimIsInt ==
  ASSUME NEW p \in LengthFirst \cup {"melsec"}, NEW b \in Seq(Int)
  PROVE  ClaimedLen(p, b) \in Int
<1>1. \A i \in Nat : At(b, i) \in Int
  BY AtIsInt
<1>2. U16(b, 4) \in Int /\ L16(b, 2) \in Int /\ At(b, 1) \in Int /\ U16(b, 6) \in Int
  <2>1. \A i \in Nat : i + 1 \in Nat
    OBVIOUS
  <2>2. \A i \in Nat : U16(b, i) \in Int /\ L16(b, i) \in Int
    BY <1>1, <2>1 DEF U16, L16
  <2> QED BY <1>1, <2>2
<1>3. U32(b, 4) \in Int
  BY <1>2 DEF U32, Wide
<1>4. p = "modbus" \/ p = "iec104" \/ p = "enip" \/ p = "fins" \/ p = "melsec"
  BY DEF LengthFirst
<1>5. CASE p = "modbus"
  BY <1>2, <1>5 DEF ClaimedLen
<1>6. CASE p = "iec104"
  BY <1>2, <1>6 DEF ClaimedLen
<1>7. CASE p = "enip"
  BY <1>2, <1>7 DEF ClaimedLen
<1>8. CASE p = "fins"
  BY <1>3, <1>8 DEF ClaimedLen
<1>9. CASE p = "melsec"
  BY <1>9, MelsecFrameLenIsInt DEF ClaimedLen
<1> QED BY <1>4, <1>5, <1>6, <1>7, <1>8, <1>9

\* try_frame_len tells of no frame that is not there.
LEMMA FrameLenIsThere ==
  ASSUME NEW p \in LengthFirst \cup {"melsec"}, NEW b \in Seq(Int)
  PROVE  TryFrameLen(p, b) \in Int /\ TryFrameLen(p, b) <= Len(b)
<1>1. ClaimedLen(p, b) \in Int /\ Len(b) \in Nat /\ More = -1
  BY ClaimIsInt, LenProperties DEF More
<1> DEFINE total == ClaimedLen(p, b)
           least == IF p = "melsec" THEN 1 ELSE FRAME_HEADER_LEN[p]
<1>2. TryFrameLen(p, b) \in {More, 0} \/ (TryFrameLen(p, b) = total /\ ~(Len(b) < total))
  <2>1. TryFrameLen(p, b) = Bounded(p, b, total, least)
    BY DEF TryFrameLen
  <2> HIDE DEF total, least
  <2>2. CASE p # "melsec" /\ Len(b) < least
    BY <2>1, <2>2 DEF Bounded
  <2>3. CASE p = "melsec" /\ total = More
    BY <2>1, <2>3 DEF Bounded
  <2>4. CASE ~(p # "melsec" /\ Len(b) < least) /\ ~(p = "melsec" /\ total = More)
    BY <2>1, <2>4 DEF Bounded
  <2> QED BY <2>2, <2>3, <2>4
<1> HIDE DEF total, least
<1>3. total \in Int
  BY <1>1 DEF total
<1> QED BY <1>1, <1>2, <1>3

\* A frame is cut also when more follows it.
LEMMA FrameIsCut ==
  ASSUME NEW p \in LengthFirst \cup {"melsec"}, NEW f, IsFrame(p, f), NEW t \in Seq(Int)
  PROVE  TryFrameLen(p, f \o t) = Len(f)
<1> DEFINE b == f \o t
           n == Len(f)
<1>1. f \in Seq(Int) /\ n \in Nat /\ TryFrameLen(p, f) = n
  BY LenProperties DEF IsFrame, CutWhole
<1>2. b \in Seq(Int) /\ Len(b) \in Nat /\ n <= Len(b) /\ Bytes(b, Len(b)) /\ Bytes(f, n)
  BY <1>1, LenProperties, ConcatProperties DEF Bytes
<1>3. \A i \in Nat : i < n => At(b, i) = At(f, i)
  BY <1>1, AtOfJoined
<1> HIDE DEF b
<1>4. Upto(b, n) = f
  BY ONLY <1>1, <1>2, <1>3, UptoIs
<1> DEFINE least == IF p = "melsec" THEN 1 ELSE FRAME_HEADER_LEN[p]
           most  == MAX_FRAME_LEN[p]
           total == ClaimedLen(p, f)
<1>5. least \in Nat \ {0} /\ most \in Nat
  BY DEF LengthFirst, FRAME_HEADER_LEN, MAX_FRAME_LEN
<1>6. \A s : TryFrameLen(p, s) = Bounded(p, s, ClaimedLen(p, s), least)
  BY DEF TryFrameLen
<1>7. total \in Int /\ More = -1
  BY <1>1, ClaimIsInt DEF More
<1> HIDE DEF least, n
<1>8. /\ total = n /\ least <= n /\ n <= most /\ (p = "melsec" => total # More)
  <2>1. Bounded(p, f, total, least) = n
    BY <1>1, <1>6
  <2> HIDE DEF total, most
  <2>2. ~(p # "melsec" /\ Len(f) < least) /\ ~(p = "melsec" /\ total = More)
    BY <1>1, <1>7, <2>1 DEF Bounded
  <2>3. n = IF total > most \/ total < least THEN 0 ELSE IF Len(f) < total THEN More ELSE total
    BY <2>1, <2>2 DEF Bounded, most
  <2>4. n # 0
    <3>1. CASE p = "melsec"
      <4>1. n = 0 => Len(f) < 2
        BY <1>1 DEF n
      <4>2. Len(f) < 2 => \A at, sz, length : FieldEnd(f, at, sz, length) = More
        BY <1>1 DEF FieldEnd
      <4>3. Len(f) < 2 => total = More
        BY <3>1, <4>2 DEF total, ClaimedLen, MelsecFrameLen
      <4> QED BY <2>2, <3>1, <4>1, <4>3
    <3>2. CASE p # "melsec"
      BY <1>1, <1>5, <2>2, <3>2 DEF n
    <3> QED BY <3>1, <3>2
  <2> QED BY <1>1, <1>5, <1>7, <2>2, <2>3, <2>4
<1>9. ClaimedLen(p, b) = total
  <2>1. CASE p # "melsec"
    <3>1. p \in LengthFirst /\ FRAME_HEADER_LEN[p] <= n
      BY <1>8, <2>1 DEF least
    <3>2. ClaimedLen(p, Upto(b, n)) = ClaimedLen(p, b)
      BY <1>1, <1>2, <3>1, HeadDecides
    <3> QED BY <1>4, <3>2
  <2>2. CASE p = "melsec"
    <3>1. PICK at, sz : MelsecLengthField(f) = <<at, sz>> /\ at \in Nat /\ (sz = 0 \/ (sz \in {2, 4} /\ 4 <= at))
      BY LengthFieldIsOneOf
    <3>2. total = FieldEnd(f, at, sz, FieldValue(f, at, sz))
      BY <2>2, <3>1, MelsecEnd DEF ClaimedLen
    <3>3. n # 0
      BY <1>1, <1>5, <1>8
    <3>4. /\ ~(Len(f) < 2) /\ sz # 0 /\ ~(Len(f) < (IF Len(f) < 4 THEN 4 ELSE at + sz))
          /\ FieldValue(f, at, sz) # -1 /\ total = at + sz + FieldValue(f, at, sz)
      <4> HIDE DEF total
      <4>1. total # More /\ total # 0
        BY <1>8, <2>2, <3>3
      <4> QED BY <3>2, <4>1 DEF FieldEnd
    <3>5. at + sz <= n /\ 4 <= n /\ sz \in {2, 4} /\ 4 <= at
      BY <1>1, <3>1, <3>4 DEF n
    <3>6. MelsecLengthField(b) = <<at, sz>>
      <4>1. At(b, 0) = At(f, 0) /\ At(b, 1) = At(f, 1)
        BY <1>3, <3>5, <1>1
      <4>2. Upto(b, 4) = Upto(f, 4)
        <5>1. /\ Bytes(Upto(b, 4), 4) /\ Bytes(Upto(f, 4), 4)
              /\ \A i \in Nat : i < 4 => At(Upto(b, 4), i) = At(b, i) /\ At(Upto(f, 4), i) = At(f, i)
          <6>1. b \in Seq(Int) /\ f \in Seq(Int) /\ 4 \in Nat /\ 4 <= Len(b) /\ 4 <= Len(f)
            BY <1>1, <1>2, <3>5 DEF n
          <6> QED BY ONLY <6>1, UptoIsPrefix DEF Bytes
        <5>2. \A i \in Nat : i < 4 => At(Upto(b, 4), i) = At(Upto(f, 4), i)
          BY <1>1, <1>3, <3>5, <5>1
        <5> QED BY <5>1, <5>2, SameBytes
      <4> QED BY <3>1, <4>1, <4>2 DEF MelsecLengthField
    <3>7. FieldValue(b, at, sz) = FieldValue(f, at, sz)
      <4>1. CASE sz = 4
        <5>1. at + 4 \in Nat /\ at <= at + 4 /\ at + 4 <= n /\ (at + 4) - at = 4
          BY <3>1, <3>5, <4>1
        <5>2. /\ Bytes(Mid(f, at, at + 4), 4) /\ \A i \in Nat : i < 4 => At(Mid(f, at, at + 4), i) = At(f, at + i)
          <6>1. /\ Bytes(Mid(f, at, at + 4), (at + 4) - at)
                /\ \A i \in Nat : i < (at + 4) - at => At(Mid(f, at, at + 4), i) = At(f, at + i)
            <7>1. PICK j \in Nat : j = at + 4
              BY <5>1
            <7>2. n \in Nat /\ Bytes(f, n) /\ at \in Nat /\ at <= j /\ j <= n
              BY <1>1, <1>2, <3>1, <5>1, <7>1
            <7>3. Bytes(Mid(f, at, j), j - at) /\ \A i \in Nat : i < j - at => At(Mid(f, at, j), i) = At(f, at + i)
              BY ONLY <7>1, <7>2, MidBytes
            <7> QED BY <7>1, <7>3
          <6> QED BY <5>1, <6>1
        <5>3. \A i \in Nat : i < 4 => At(b, at + i) = At(Mid(f, at, at + 4), i)
          <6> SUFFICES ASSUME NEW i \in Nat, i < 4 PROVE At(b, at + i) = At(Mid(f, at, at + 4), i)
            OBVIOUS
          <6>1. at + i \in Nat /\ at + i < n
            BY <1>1, <3>1, <5>1
          <6> QED BY <1>3, <5>2, <6>1
        <5>4. at + 4 <= Len(b) /\ Len(b) \in Nat /\ 4 \in Nat
          BY <1>1, <1>2, <3>1, <5>1
        <5>5. Mid(b, at, at + 4) = Mid(f, at, at + 4)
          BY ONLY <1>2, <3>1, <5>2, <5>3, <5>4, MidIs
        <5> QED BY <4>1, <5>5 DEF FieldValue
      <4>2. CASE sz = 2
        <5>1. at + 1 \in Nat /\ at + 1 < n /\ at < n
          BY <1>1, <3>1, <3>5, <4>2
        <5>2. At(b, at) = At(f, at) /\ At(b, at + 1) = At(f, at + 1)
          BY <1>3, <3>1, <5>1
        <5> QED BY <4>2, <5>2 DEF FieldValue, L16
      <4> QED BY <3>5, <4>1, <4>2
    <3>8. MelsecFrameLen(b) = at + sz + FieldValue(f, at, sz)
      <4>1. MelsecFrameLen(b) = FieldEnd(b, at, sz, FieldValue(f, at, sz))
        BY <3>6, <3>7, MelsecEnd
      <4>2. ~(Len(b) < 2) /\ ~(Len(b) < 4) /\ ~(Len(b) < at + sz)
        BY <1>1, <1>2, <3>1, <3>5
      <4> QED BY <3>4, <4>1, <4>2 DEF FieldEnd
    <3> QED BY <2>2, <3>4, <3>8 DEF ClaimedLen
  <2> QED BY <2>1, <2>2
<1>10. TryFrameLen(p, b) = Bounded(p, b, n, least)
  BY <1>6, <1>8, <1>9
<1>11. Bounded(p, b, n, least) = n
  <2> HIDE DEF total
  <2>1. ~(n > most) /\ ~(n < least) /\ ~(Len(b) < n) /\ ~(Len(b) < least) /\ ~(p = "melsec" /\ n = More)
    BY <1>1, <1>2, <1>5, <1>7, <1>8
  <2> QED BY <2>1 DEF Bounded
<1> QED BY <1>10, <1>11 DEF b, n

\* Two lists of runs that begin alike join alike.
LEMMA JoinsAgree ==
  ASSUME NEW s, NEW t, NEW k \in Nat, NEW n \in Nat, k <= n, NEW g, NEW h, Joins(g, s, k), Joins(h, t, n),
         \A i \in 1..k : s[i] = t[i]
  PROVE  \A i \in 1..k : g[i] = h[i]
<1> DEFINE T == {i \in 1..k : g[i] # h[i]}
<1>1. SUFFICES ASSUME T # {} PROVE FALSE
  OBVIOUS
<1>2. PICK i \in T : \A j \in T : i <= j
  <2>1. T \in SUBSET Nat
    OBVIOUS
  <2> QED BY <1>1, <2>1, LeastNumber
<1>3. i \in 1..k /\ i \in 1..n /\ g[i] # h[i]
  BY <1>2
<1>4. g[i] = (IF i = 1 THEN s[i] ELSE g[i - 1] \o s[i]) /\ h[i] = IF i = 1 THEN t[i] ELSE h[i - 1] \o t[i]
  BY <1>3 DEF Joins
<1>5. CASE i = 1
  BY <1>3, <1>4, <1>5
<1>6. CASE i # 1
  <2>1. i - 1 \in 1..k /\ ~(i <= i - 1)
    BY <1>3, <1>6
  <2>2. g[i - 1] = h[i - 1]
    BY <1>2, <2>1
  <2> QED BY <1>3, <1>4, <1>6, <2>2
<1> QED BY <1>5, <1>6

\* FlattenSeq is the last of the joins.
LEMMA FlattenIs ==
  ASSUME NEW s, NEW n \in Nat, n # 0, Len(s) = n, NEW g, Joins(g, s, n)
  PROVE  FlattenSeq(s) = g[n]
<1> DEFINE G == CHOOSE h : Joins(h, s, n)
<1>1. Joins(G, s, n)
  BY JoinsExist
<1>2. FlattenSeq(s) = G[n]
  BY DEF FlattenSeq, Joins
<1> HIDE DEF G
<1>3. \A i \in 1..n : G[i] = g[i]
  BY <1>1, JoinsAgree
<1> QED BY <1>2, <1>3

\* The first i of s.
IsStart(r, s, i) == Len(r) = i /\ \A j \in 1..i : r[j] = s[j]

\* The joins on the way are those of the first runs.
LEMMA JoinedSoFar ==
  ASSUME NEW s, NEW n \in Nat, NEW g, Joins(g, s, n), NEW i \in 1..n, NEW r, IsStart(r, s, i)
  PROVE  FlattenSeq(r) = g[i]
<1>1. i \in Nat /\ i # 0 /\ i <= n
  OBVIOUS
<1>2. PICK h : Joins(h, r, i)
  BY <1>1, JoinsExist
<1>3. FlattenSeq(r) = h[i]
  BY <1>1, <1>2, FlattenIs DEF IsStart
<1>4. \A j \in 1..i : h[j] = g[j]
  BY <1>1, <1>2, JoinsAgree DEF IsStart
<1> QED BY <1>1, <1>3, <1>4

\* The first i runs, joined.
FirstRuns(seqs, i) == FlattenSeq(SubSeq(seqs, 1, i))

\* Each front of a list of runs is the one before it and one run more; the last
\* is all of them.
LEMMA FrontsGrow ==
  ASSUME NEW S, NEW seqs \in Seq(Seq(S))
  PROVE  /\ FirstRuns(seqs, 0) = <<>> /\ FirstRuns(seqs, Len(seqs)) = FlattenSeq(seqs)
         /\ \A i \in 0..Len(seqs) : FirstRuns(seqs, i) \in Seq(S)
         /\ \A i \in 0..Len(seqs) - 1 : FirstRuns(seqs, i + 1) = FirstRuns(seqs, i) \o seqs[i + 1]
<1> DEFINE n == Len(seqs)
<1>1. n \in Nat /\ \A i \in 1..n : seqs[i] \in Seq(S)
  BY LenProperties, ElementOfSeq
<1>2. ASSUME NEW i \in 0..n
      PROVE  /\ SubSeq(seqs, 1, i) \in Seq(Seq(S)) /\ Len(SubSeq(seqs, 1, i)) = i
             /\ \A j \in 1..i : SubSeq(seqs, 1, i)[j] = seqs[j]
  <2>1. i \in Int /\ 1 \in Int /\ \A j \in 1..i : seqs[j] \in Seq(S)
    BY <1>1
  <2>2. /\ SubSeq(seqs, 1, i) \in Seq(Seq(S)) /\ Len(SubSeq(seqs, 1, i)) = IF 1 <= i THEN i - 1 + 1 ELSE 0
        /\ \A j \in 1..i - 1 + 1 : SubSeq(seqs, 1, i)[j] = seqs[1 + j - 1]
    BY <2>1, SubSeqProperties
  <2> QED BY <1>1, <2>2
<1>3. FirstRuns(seqs, 0) = <<>>
  <2>1. SubSeq(seqs, 1, 0) = <<>>
    BY SubSeqEmpty
  <2> QED BY <2>1 DEF FirstRuns, FlattenSeq
<1>4. FirstRuns(seqs, n) = FlattenSeq(seqs)
  BY SubSeqFull DEF FirstRuns
<1>5. PICK g : Joins(g, seqs, n)
  BY <1>1, JoinsExist
<1> HIDE DEF n
<1>6. \A i \in 1..n : g[i] = IF i = 1 THEN seqs[i] ELSE g[i - 1] \o seqs[i]
  BY <1>5 DEF Joins
<1>7. ASSUME NEW i \in 1..n PROVE FirstRuns(seqs, i) = g[i]
  <2>1. i \in Nat /\ i # 0 /\ i \in 0..n /\ i <= n
    BY <1>1, <1>7
  <2>2. IsStart(SubSeq(seqs, 1, i), seqs, i)
    BY <1>2, <2>1 DEF IsStart
  <2> QED BY <1>1, <1>5, <1>7, <2>2, JoinedSoFar DEF FirstRuns
<1>8. \A i \in 1..n : g[i] \in Seq(S)
  <2> DEFINE T == {i \in 1..n : g[i] \notin Seq(S)}
  <2>1. SUFFICES ASSUME T # {} PROVE FALSE
    OBVIOUS
  <2>2. PICK i \in T : \A j \in T : i <= j
    <3>1. T \in SUBSET Nat
      OBVIOUS
    <3> QED BY <2>1, <3>1, LeastNumber
  <2>3. i \in 1..n /\ g[i] \notin Seq(S)
    BY <2>2
  <2>4. CASE i = 1
    BY <1>1, <1>6, <2>3, <2>4
  <2>5. CASE i # 1
    <3>1. i - 1 \in 1..n /\ ~(i <= i - 1)
      BY <1>1, <2>3, <2>5
    <3>2. g[i - 1] \in Seq(S)
      BY <2>2, <3>1
    <3> QED BY <1>1, <1>6, <2>3, <2>5, <3>2, ConcatProperties
  <2> QED BY <2>4, <2>5
<1>9. ASSUME NEW i \in 0..n - 1 PROVE FirstRuns(seqs, i + 1) = FirstRuns(seqs, i) \o seqs[i + 1]
  <2>1. i + 1 \in 1..n /\ (i # 0 => i \in 1..n) /\ (i + 1) - 1 = i /\ (i + 1 = 1 <=> i = 0)
    BY <1>1, <1>9
  <2>2. CASE i = 0
    <3>1. seqs[1] \in Seq(S) /\ <<>> \o seqs[1] = seqs[1]
      BY <1>1, <2>1, <2>2, ConcatEmptySeq
    <3> QED BY <1>3, <1>6, <1>7, <2>1, <2>2, <3>1
  <2>3. CASE i # 0
    BY <1>6, <1>7, <2>1, <2>3
  <2> QED BY <2>2, <2>3
<1>10. ASSUME NEW i \in 0..n PROVE FirstRuns(seqs, i) \in Seq(S)
  <2>1. CASE i = 0
    BY <1>3, <2>1, EmptySeq
  <2>2. CASE i # 0
    <3>1. i \in 1..n
      BY <1>1, <2>2
    <3> QED BY <1>7, <1>8, <3>1
  <2> QED BY <2>1, <2>2
<1> QED BY <1>3, <1>4, <1>9, <1>10 DEF n

\* Joining is associative, and stays in the type.
LEMMA Regrouped ==
  ASSUME NEW S, NEW a \in Seq(S), NEW b \in Seq(S), NEW c \in Seq(S)
  PROVE  (a \o b) \o c = a \o (b \o c) /\ b \o c \in Seq(S)
BY ConcatAssociative, ConcatProperties

\* A longer front begins with a shorter one.
LEMMA FrontsBegin ==
  ASSUME NEW S, NEW seqs \in Seq(Seq(S)), NEW i \in 0..Len(seqs)
  PROVE  \A j \in i..Len(seqs) : \E t \in Seq(S) : FirstRuns(seqs, j) = FirstRuns(seqs, i) \o t
<1> DEFINE n == Len(seqs)
           T == {j \in i..n : ~\E t \in Seq(S) : FirstRuns(seqs, j) = FirstRuns(seqs, i) \o t}
<1>1. n \in Nat /\ \A j \in 1..n : seqs[j] \in Seq(S)
  BY LenProperties, ElementOfSeq
<1>2. SUFFICES ASSUME T # {} PROVE FALSE
  OBVIOUS
<1>3. PICK j \in T : \A k \in T : j <= k
  <2>1. T \in SUBSET Nat
    BY <1>1
  <2> QED BY <1>2, <2>1, LeastNumber
<1>4. j \in i..n /\ j \in 0..n /\ ~\E t \in Seq(S) : FirstRuns(seqs, j) = FirstRuns(seqs, i) \o t
  BY <1>1, <1>3
<1>5. \A k \in 0..n : FirstRuns(seqs, k) \in Seq(S)
  BY FrontsGrow
<1>6. CASE j = i
  <2>1. FirstRuns(seqs, i) = FirstRuns(seqs, i) \o <<>> /\ <<>> \in Seq(S)
    BY <1>5, ConcatEmptySeq, EmptySeq
  <2> QED BY <1>4, <1>6, <2>1
<1>7. CASE j # i
  <2>1. /\ j - 1 \in i..n /\ ~(j <= j - 1) /\ j - 1 \in 0..n - 1 /\ (j - 1) + 1 = j /\ j \in 1..n
    BY <1>1, <1>4, <1>7
  <2>2. PICK t \in Seq(S) : FirstRuns(seqs, j - 1) = FirstRuns(seqs, i) \o t
    BY <1>3, <2>1
  <2>3. FirstRuns(seqs, j) = (FirstRuns(seqs, i) \o t) \o seqs[j]
    BY <2>1, <2>2, FrontsGrow
  <2>4. FirstRuns(seqs, j) = FirstRuns(seqs, i) \o (t \o seqs[j]) /\ t \o seqs[j] \in Seq(S)
    <3>1. FirstRuns(seqs, i) \in Seq(S) /\ seqs[j] \in Seq(S)
      BY <1>1, <1>5, <2>1
    <3>2. /\ (FirstRuns(seqs, i) \o t) \o seqs[j] = FirstRuns(seqs, i) \o (t \o seqs[j])
          /\ t \o seqs[j] \in Seq(S)
      <4>1. PICK a \in Seq(S) : a = FirstRuns(seqs, i)
        BY <3>1
      <4>2. PICK c \in Seq(S) : c = seqs[j]
        BY <3>1
      <4>3. (a \o t) \o c = a \o (t \o c) /\ t \o c \in Seq(S)
        BY ONLY Regrouped
      <4> QED BY <4>1, <4>2, <4>3
    <3> QED BY <2>3, <3>2
  <2> QED BY <1>4, <2>4
<1> QED BY <1>6, <1>7

\* Of runs that are not empty, longer fronts are longer.
LEMMA FrontsAreLonger ==
  ASSUME NEW S, NEW seqs \in Seq(Seq(S)), \A k \in 1..Len(seqs) : seqs[k] # <<>>,
         NEW i \in 0..Len(seqs), NEW j \in 0..Len(seqs), i < j
  PROVE  Len(FirstRuns(seqs, i)) < Len(FirstRuns(seqs, j))
<1>1. /\ Len(seqs) \in Nat /\ i \in 0..Len(seqs) - 1 /\ i + 1 \in 1..Len(seqs) /\ i + 1 \in 0..Len(seqs)
      /\ j \in i + 1..Len(seqs)
  BY LenProperties
<1>2. /\ FirstRuns(seqs, i) \in Seq(S) /\ FirstRuns(seqs, i + 1) \in Seq(S) /\ seqs[i + 1] \in Seq(S)
      /\ FirstRuns(seqs, i + 1) = FirstRuns(seqs, i) \o seqs[i + 1]
  BY <1>1, FrontsGrow, ElementOfSeq
<1>3. PICK t \in Seq(S) : FirstRuns(seqs, j) = FirstRuns(seqs, i + 1) \o t
  BY <1>1, FrontsBegin
<1>4. Len(seqs[i + 1]) \in Nat \ {0} /\ Len(t) \in Nat /\ Len(FirstRuns(seqs, i)) \in Nat
  BY <1>1, <1>2, EmptySeq, LenProperties
<1>5. /\ Len(FirstRuns(seqs, i + 1)) = Len(FirstRuns(seqs, i)) + Len(seqs[i + 1])
      /\ Len(FirstRuns(seqs, j)) = Len(FirstRuns(seqs, i + 1)) + Len(t)
  BY <1>2, <1>3, ConcatProperties
<1> QED BY <1>4, <1>5

\* The protocols split_frames can cut.
Wires == LengthFirst \cup {"melsec"}

\* What SplitFrames has from i on, given what g has behind.
CutFrom(g, protocol, data, i) ==
  LET n == TryFrameLen(protocol, From(data, i))
  IN IF n <= 0 THEN [frames |-> <<>>, tail |-> From(data, i)]
     ELSE [frames |-> <<Mid(data, i, i + n)>> \o g[i + n].frames, tail |-> g[i + n].tail]
Cuts(g, protocol, data) == g = [i \in 0..Len(data) |-> CutFrom(g, protocol, data, i)]

\* What is left from i on is a run of bytes, as long as what was not passed.
LEMMA FromIsSeq ==
  ASSUME NEW data \in Seq(Int), NEW i \in 0..Len(data)
  PROVE  From(data, i) \in Seq(Int) /\ Len(From(data, i)) = Len(data) - i
<1>1. Len(data) \in Nat /\ i + 1 \in Int /\ \A j \in i + 1..Len(data) : data[j] \in Int
  BY LenProperties, ElementOfSeq
<1>2. /\ SubSeq(data, i + 1, Len(data)) \in Seq(Int)
      /\ Len(SubSeq(data, i + 1, Len(data))) = IF i + 1 <= Len(data) THEN Len(data) - (i + 1) + 1 ELSE 0
  BY <1>1, SubSeqProperties
<1> QED BY <1>1, <1>2 DEF From

\* A frame that is cut at i ends behind i, and not behind the end.
LEMMA CutGoesOn ==
  ASSUME NEW protocol \in Wires, NEW data \in Seq(Int), NEW i \in 0..Len(data),
         NEW n, n = TryFrameLen(protocol, From(data, i))
  PROVE  n \in Int /\ (n <= 0 \/ i + n \in i + 1..Len(data))
<1>1. From(data, i) \in Seq(Int) /\ Len(From(data, i)) = Len(data) - i /\ Len(data) \in Nat
  BY FromIsSeq, LenProperties
<1>2. n \in Int /\ n <= Len(data) - i
  BY <1>1, FrameLenIsThere DEF Wires
<1> QED BY <1>1, <1>2

\* There is such a function: were there a least number of bytes at the end for which
\* there is none, there would be one for what is behind the first of them.
LEMMA CutsExist ==
  ASSUME NEW protocol \in Wires, NEW data \in Seq(Int)
  PROVE  \E g : Cuts(g, protocol, data)
<1> DEFINE n == Len(data)
           Does(g, k) == g = [i \in n - k..n |-> CutFrom(g, protocol, data, i)]
           T == {k \in 0..n : ~\E g : Does(g, k)}
<1>1. n \in Nat
  BY LenProperties
<1>2. T = {}
  <2>1. SUFFICES ASSUME T # {} PROVE FALSE
    OBVIOUS
  <2>2. PICK k \in T : \A j \in T : k <= j
    <3>1. T \in SUBSET Nat
      BY <1>1
    <3> HIDE DEF T
    <3> QED BY <2>1, <3>1, LeastNumber
  <2>3. k \in 0..n /\ ~\E g : Does(g, k)
    BY <2>2
  <2> DEFINE at == n - k
  <2>4. at \in 0..n /\ n - (k - 1) = at + 1
    BY <1>1, <2>3
  <2>5. \E g : g = [i \in at + 1..n |-> CutFrom(g, protocol, data, i)]
    <3>1. CASE k = 0
      <4>1. \A i : i \notin at + 1..n
        BY <1>1, <3>1
      <4>2. [i \in at + 1..n |-> 0] = [i \in at + 1..n |-> CutFrom([j \in at + 1..n |-> 0], protocol, data, i)]
        BY <4>1
      <4> QED BY <4>2
    <3>2. CASE k # 0
      <4>1. k - 1 \in 0..n /\ ~(k <= k - 1)
        BY <1>1, <2>3, <3>2
      <4>2. k - 1 \notin T
        BY <2>2, <4>1
      <4>3. \E g : Does(g, k - 1)
        BY <4>1, <4>2
      <4> QED BY <2>4, <4>3
    <3> QED BY <3>1, <3>2
  <2>6. PICK g : g = [i \in at + 1..n |-> CutFrom(g, protocol, data, i)]
    BY <2>5
  <2> HIDE DEF at, T
  <2> DEFINE h == [i \in at..n |-> IF i = at THEN CutFrom(g, protocol, data, i) ELSE g[i]]
  <2>7. \A i \in at + 1..n : h[i] = g[i] /\ i # at /\ i \in at..n
    BY <1>1, <2>4
  <2>8. ASSUME NEW i \in at..n PROVE CutFrom(h, protocol, data, i) = CutFrom(g, protocol, data, i)
    <3>1. PICK m : m = TryFrameLen(protocol, From(data, i))
      OBVIOUS
    <3>2. i \in 0..n
      BY <1>1, <2>4
    <3>3. m \in Int /\ (m <= 0 \/ i + m \in i + 1..n)
      BY <3>1, <3>2, CutGoesOn
    <3>4. CASE m <= 0
      BY <3>1, <3>4 DEF CutFrom
    <3>5. CASE ~(m <= 0)
      <4>1. i + m \in at + 1..n
        BY <1>1, <2>4, <3>3, <3>5
      <4>2. h[i + m] = g[i + m]
        BY <2>7, <4>1
      <4> HIDE DEF h
      <4> QED BY <3>1, <4>2 DEF CutFrom
    <3> QED BY <3>4, <3>5
  <2>9. ASSUME NEW i \in at..n PROVE h[i] = CutFrom(h, protocol, data, i)
    <3>1. CASE i = at
      BY <2>8, <3>1
    <3>2. CASE i # at
      <4>1. i \in at + 1..n
        BY <1>1, <2>4, <3>2
      <4>2. g[i] = CutFrom(g, protocol, data, i)
        BY <2>6, <4>1
      <4>3. h[i] = g[i]
        BY <2>7, <4>1
      <4> HIDE DEF h
      <4> QED BY <2>8, <4>2, <4>3
    <3> QED BY <3>1, <3>2
  <2>10. h = [i \in at..n |-> CutFrom(h, protocol, data, i)]
    <3>1. h = [i \in at..n |-> h[i]]
      OBVIOUS
    <3> HIDE DEF h
    <3> QED BY <2>9, <3>1
  <2> HIDE DEF h
  <2>11. Does(h, k)
    BY <2>10 DEF at
  <2> QED BY <2>3, <2>11
<1>3. n \in 0..n /\ n - n = 0
  BY <1>1
<1>4. PICK g : Does(g, n)
  BY <1>2, <1>3
<1> QED BY <1>3, <1>4 DEF Cuts

\* split_frames cuts as CutFrom says, at every place of the data.
LEMMA SplitIs ==
  ASSUME NEW protocol \in Wires, NEW data \in Seq(Int)
  PROVE  \E g : /\ SplitFrames(protocol, data) = g[0]
                /\ \A i \in 0..Len(data) : g[i] = CutFrom(g, protocol, data, i)
<1> DEFINE G == CHOOSE g : Cuts(g, protocol, data)
<1>1. Cuts(G, protocol, data)
  BY CutsExist
<1>2. SplitFrames(protocol, data) = G[0]
  BY DEF SplitFrames, Cuts, CutFrom
<1> HIDE DEF G
<1> QED BY <1>1, <1>2 DEF Cuts

\* Nothing is no frame, and nothing is cut from nothing.
LEMMA FrameIsSomething ==
  ASSUME NEW p \in Wires, NEW q, IsFrame(p, q)
  PROVE  q # <<>> /\ Len(q) \in Nat /\ Len(q) # 0 /\ TryFrameLen(p, <<>>) = More
<1>1. TryFrameLen(p, <<>>) = More
  <2>1. CASE p = "melsec"
    <3>1. MelsecFrameLen(<<>>) = More
      BY DEF MelsecFrameLen, FieldEnd
    <3> QED BY <2>1, <3>1 DEF TryFrameLen, ClaimedLen, Bounded
  <2>2. CASE p # "melsec"
    <3>1. FRAME_HEADER_LEN[p] \in Nat /\ FRAME_HEADER_LEN[p] > 0 /\ Len(<<>>) = 0
      BY <2>2 DEF LengthFirst, FRAME_HEADER_LEN, Wires
    <3> QED BY <2>2, <3>1 DEF TryFrameLen, Bounded
  <2> QED BY <2>1, <2>2
<1>2. TryFrameLen(p, q) = Len(q) /\ q \in Seq(Int)
  BY DEF IsFrame, CutWhole
<1>3. q # <<>>
  BY <1>1, <1>2 DEF More
<1> QED BY <1>1, <1>2, <1>3, EmptySeq, LenProperties

\* A prefix, by index.
LEMMA PrefixAt ==
  ASSUME NEW S, NEW s \in Seq(S), NEW t \in Seq(S), IsPrefix(s, t)
  PROVE  Len(s) <= Len(t) /\ \A j \in 1..Len(s) : s[j] = t[j]
<1>1. Len(s) \in Nat /\ Len(t) \in Nat /\ Len(s) <= Len(t) /\ SubSeq(s, 1, Len(s)) = SubSeq(t, 1, Len(s))
  BY LenProperties DEF IsPrefix
<1>2. SubSeq(s, 1, Len(s)) = s
  BY SubSeqFull
<1>3. \A j \in 1..Len(s) : t[j] \in S
  BY <1>1, ElementOfSeq
<1>4. \A j \in 1..Len(s) - 1 + 1 : SubSeq(t, 1, Len(s))[j] = t[1 + j - 1]
  BY <1>1, <1>3, SubSeqProperties
<1>5. \A j \in 1..Len(s) : j \in 1..Len(s) - 1 + 1 /\ 1 + j - 1 = j
  BY <1>1
<1> QED BY <1>1, <1>2, <1>4, <1>5

\* What is behind the first of two runs, and what is between two.
LEMMA FromOfJoined ==
  ASSUME NEW s \in Seq(Int), NEW t \in Seq(Int)
  PROVE  From(s \o t, Len(s)) = t
<1>1. Bytes(s, Len(s)) /\ Bytes(t, Len(t)) /\ Len(s) \in Nat /\ Len(t) \in Nat
  BY LenProperties DEF Bytes
<1>2. Bytes(s \o t, Len(s) + Len(t)) /\ \A i \in Nat : At(s \o t, Len(s) + i) = At(t, i)
  BY <1>1, BytesJoined
<1> QED BY <1>1, <1>2, FromIs

\* What lies between a first run and the rest is the run joined there.
LEMMA MidOfJoined ==
  ASSUME NEW s \in Seq(Int), NEW t \in Seq(Int), NEW u \in Seq(Int)
  PROVE  Mid(s \o (t \o u), Len(s), Len(s) + Len(t)) = t
<1> DEFINE tu == t \o u
           f == s \o tu
<1>1. Bytes(s, Len(s)) /\ Bytes(t, Len(t)) /\ Bytes(u, Len(u)) /\ Len(s) \in Nat /\ Len(t) \in Nat /\ Len(u) \in Nat
  BY LenProperties DEF Bytes
<1>2. Bytes(tu, Len(t) + Len(u)) /\ \A i \in Nat : i < Len(t) => At(tu, i) = At(t, i)
  BY <1>1, BytesJoined
<1>3. Len(t) + Len(u) \in Nat
  BY <1>1
<1> HIDE DEF tu
<1>4. Bytes(f, Len(s) + (Len(t) + Len(u))) /\ \A i \in Nat : At(f, Len(s) + i) = At(tu, i)
  BY <1>1, <1>2, <1>3, BytesJoined
<1> HIDE DEF f
<1>5. \A k \in Nat : k < Len(t) => At(f, Len(s) + k) = At(t, k)
  BY <1>2, <1>4
<1>6. PICK l \in Nat, m \in Nat, n \in Nat : l = Len(s) /\ m = Len(t) /\ n = Len(s) + (Len(t) + Len(u))
  BY <1>1, <1>3
<1>7. Bytes(f, n) /\ Bytes(t, m) /\ l + m <= n /\ \A k \in Nat : k < m => At(f, l + k) = At(t, k)
  BY <1>1, <1>4, <1>5, <1>6
<1>8. Mid(f, l, l + m) = t
  BY ONLY l \in Nat, m \in Nat, n \in Nat, <1>7, MidIs
<1> QED BY <1>6, <1>8 DEF f, tu

\* A prefix that reaches beyond the first of two runs begins with it.
LEMMA PrefixInTwo ==
  ASSUME NEW s \in Seq(Int), NEW t \in Seq(Int), NEW p \in Seq(Int), IsPrefix(p, s \o t), Len(s) <= Len(p)
  PROVE  p = s \o From(p, Len(s))
<1> DEFINE u == From(p, Len(s))
           r == s \o u
<1>1. Len(s) \in Nat /\ Len(t) \in Nat /\ Len(p) \in Nat /\ Len(s) \in 0..Len(p) /\ s \o t \in Seq(Int)
  BY LenProperties, ConcatProperties
<1>2. u \in Seq(Int) /\ Len(u) = Len(p) - Len(s)
  BY <1>1, FromIsSeq
<1>3. \A j \in 1..Len(u) : u[j] = p[Len(s) + j]
  <2>1. \A j \in Len(s) + 1..Len(p) : p[j] \in Int
    BY <1>1, ElementOfSeq
  <2>2. \A j \in 1..Len(p) - (Len(s) + 1) + 1 : SubSeq(p, Len(s) + 1, Len(p))[j] = p[(Len(s) + 1) + j - 1]
    BY <1>1, <2>1, SubSeqProperties
  <2>3. \A j \in 1..Len(u) : j \in 1..Len(p) - (Len(s) + 1) + 1 /\ (Len(s) + 1) + j - 1 = Len(s) + j
    BY <1>1, <1>2
  <2> QED BY <2>2, <2>3 DEF From
<1> HIDE DEF u
<1>4. /\ r \in Seq(Int) /\ Len(r) = Len(p)
      /\ \A j \in 1..Len(p) : r[j] = IF j <= Len(s) THEN s[j] ELSE u[j - Len(s)]
  BY <1>1, <1>2, ConcatProperties
<1>5. \A j \in 1..Len(s) : (s \o t)[j] = s[j]
  BY <1>1, ConcatProperties
<1>6. \A j \in 1..Len(p) : p[j] = (s \o t)[j]
  BY <1>1, PrefixAt
<1> HIDE DEF r
<1>7. ASSUME NEW j \in 1..Len(p) PROVE r[j] = p[j]
  <2>1. CASE j <= Len(s)
    <3>1. j \in 1..Len(s) /\ j \in 1..Len(p)
      BY <1>1, <2>1
    <3> QED BY <1>4, <1>5, <1>6, <2>1, <3>1
  <2>2. CASE ~(j <= Len(s))
    <3>1. j - Len(s) \in 1..Len(u) /\ Len(s) + (j - Len(s)) = j
      BY <1>1, <1>2, <2>2
    <3> QED BY <1>3, <1>4, <2>2, <3>1
  <2> QED BY <2>1, <2>2
<1>8. r = p
  BY <1>4, <1>7, SeqEqual
<1> QED BY <1>8 DEF r, u

\* How many of the first runs lie within the first k.
Ends(seqs, w, k) ==
  /\ w \in 0..Len(seqs) /\ Len(FirstRuns(seqs, w)) <= k
  /\ w # Len(seqs) => ~(Len(FirstRuns(seqs, w + 1)) <= k)

\* Of runs that are not empty, those that lie within the first k bytes are the
\* first w, for one w: Within counts them.
LEMMA RunsWithin ==
  ASSUME NEW S, NEW seqs \in Seq(Seq(S)), \A i \in 1..Len(seqs) : seqs[i] # <<>>, NEW k \in Nat
  PROVE  \E w : /\ Ends(seqs, w, k)
                /\ Cardinality({i \in DOMAIN seqs : Len(FirstRuns(seqs, i)) <= k}) = w
<1> DEFINE n == Len(seqs)
           T == {i \in 1..n : ~(Len(FirstRuns(seqs, i)) <= k)}
<1>1. n \in Nat /\ DOMAIN seqs = 1..n /\ \A i \in 0..n : Len(FirstRuns(seqs, i)) \in Nat
  BY LenProperties, FrontsGrow
<1>2. FirstRuns(seqs, 0) = <<>> /\ Len(<<>>) = 0
  BY FrontsGrow
<1>3. \E w \in 0..n : /\ \A i \in 0..w : Len(FirstRuns(seqs, i)) <= k
                      /\ \A i \in w + 1..n : ~(Len(FirstRuns(seqs, i)) <= k)
  <2>1. CASE T = {}
    <3>1. \A i \in 0..n : i = 0 \/ i \in 1..n
      BY <1>1
    <3>2. n \in 0..n /\ \A i \in 0..n : Len(FirstRuns(seqs, i)) <= k
      BY <1>1, <1>2, <2>1, <3>1
    <3>3. \A i : i \notin n + 1..n
      BY <1>1
    <3> QED BY <3>2, <3>3
  <2>2. CASE T # {}
    <3>1. PICK x \in T : \A y \in T : x <= y
      <4>1. T \in SUBSET Nat
        BY <1>1
      <4> HIDE DEF T
      <4> QED BY <2>2, <4>1, LeastNumber
    <3>2. x \in 1..n /\ ~(Len(FirstRuns(seqs, x)) <= k) /\ x - 1 \in 0..n /\ x \in 0..n
      BY <1>1, <3>1
    <3>3. ASSUME NEW i \in 0..x - 1 PROVE Len(FirstRuns(seqs, i)) <= k
      <4>1. CASE i = 0
        BY <1>2, <4>1
      <4>2. CASE i # 0
        <5>1. i \in 1..n /\ ~(x <= i)
          BY <1>1, <3>2, <4>2
        <5> QED BY <3>1, <5>1
      <4> QED BY <4>1, <4>2
    <3>4. ASSUME NEW i \in (x - 1) + 1..n PROVE ~(Len(FirstRuns(seqs, i)) <= k)
      <4>1. i = x \/ (i \in 0..n /\ x < i)
        BY <1>1, <3>2
      <4>2. CASE i = x
        BY <3>2, <4>2
      <4>3. CASE i \in 0..n /\ x < i
        <5>1. Len(FirstRuns(seqs, x)) < Len(FirstRuns(seqs, i))
          BY <3>2, <4>3, FrontsAreLonger
        <5> QED BY <1>1, <3>2, <4>3, <5>1
      <4> QED BY <4>1, <4>2, <4>3
    <3> QED BY <3>2, <3>3, <3>4
  <2> QED BY <2>1, <2>2
<1> HIDE DEF T
<1>4. PICK w \in 0..n : /\ \A i \in 0..w : Len(FirstRuns(seqs, i)) <= k
                        /\ \A i \in w + 1..n : ~(Len(FirstRuns(seqs, i)) <= k)
  BY <1>3
<1>5. {i \in DOMAIN seqs : Len(FirstRuns(seqs, i)) <= k} = 1..w
  <2>1. \A i \in 1..n : i \in 1..w <=> i \in 0..w
    BY <1>1
  <2>2. \A i \in 1..n : i \in 0..w \/ i \in w + 1..n
    BY <1>1
  <2>3. 1..w \subseteq 1..n
    BY <1>1
  <2> QED BY <1>1, <1>4, <2>1, <2>2, <2>3
<1>6. Cardinality(1..w) = w
  BY <1>1, <1>4, FS_Interval
<1>7. Ends(seqs, w, k)
  <2>1. w \in 0..w /\ (w # n => w + 1 \in w + 1..n)
    BY <1>1
  <2> QED BY <1>4, <2>1 DEF Ends
<1> QED BY <1>5, <1>6, <1>7

\* From nothing nothing is cut: more has to come.
LEMMA NothingIsCut == ASSUME NEW p \in Wires PROVE TryFrameLen(p, <<>>) = More
<1>1. CASE p = "melsec"
  <2>1. MelsecFrameLen(<<>>) = More
    BY DEF MelsecFrameLen, FieldEnd
  <2> QED BY <1>1, <2>1 DEF TryFrameLen, ClaimedLen, Bounded
<1>2. CASE p # "melsec"
  <2>1. FRAME_HEADER_LEN[p] \in Nat /\ FRAME_HEADER_LEN[p] > 0 /\ Len(<<>>) = 0
    BY <1>2 DEF LengthFirst, FRAME_HEADER_LEN, Wires
  <2> QED BY <1>2, <2>1 DEF TryFrameLen, Bounded
<1> QED BY <1>1, <1>2

\* One element and those after it are the elements from it on.
LEMMA OneBefore ==
  ASSUME NEW S, NEW s \in Seq(S), NEW i \in Nat, NEW w \in Nat, i < w, w <= Len(s)
  PROVE  <<s[i + 1]>> \o SubSeq(s, i + 2, w) = SubSeq(s, i + 1, w)
<1> DEFINE a == SubSeq(s, i + 2, w)
           b == SubSeq(s, i + 1, w)
           c == <<s[i + 1]>>
           d == c \o a
<1>1. Len(s) \in Nat /\ \A j \in 1..Len(s) : s[j] \in S
  BY LenProperties, ElementOfSeq
<1>2. \A j \in i + 1..w : s[j] \in S
  BY <1>1
<1>3. /\ a \in Seq(S) /\ Len(a) = (w - i) - 1
      /\ \A j \in 1..w - (i + 2) + 1 : a[j] = s[(i + 2) + j - 1]
  <2>1. i + 2 \in Int /\ w \in Int /\ \A j \in i + 2..w : s[j] \in S
    BY <1>2
  <2>2. /\ SubSeq(s, i + 2, w) \in Seq(S) /\ Len(SubSeq(s, i + 2, w)) = IF i + 2 <= w THEN w - (i + 2) + 1 ELSE 0
        /\ \A j \in 1..w - (i + 2) + 1 : SubSeq(s, i + 2, w)[j] = s[(i + 2) + j - 1]
    BY <2>1, SubSeqProperties
  <2> QED BY <2>2
<1>4. /\ b \in Seq(S) /\ Len(b) = w - i
      /\ \A j \in 1..w - (i + 1) + 1 : b[j] = s[(i + 1) + j - 1]
  <2>1. i + 1 \in Int /\ w \in Int /\ \A j \in i + 1..w : s[j] \in S
    BY <1>2
  <2>2. /\ SubSeq(s, i + 1, w) \in Seq(S) /\ Len(SubSeq(s, i + 1, w)) = IF i + 1 <= w THEN w - (i + 1) + 1 ELSE 0
        /\ \A j \in 1..w - (i + 1) + 1 : SubSeq(s, i + 1, w)[j] = s[(i + 1) + j - 1]
    BY <2>1, SubSeqProperties
  <2> QED BY <2>2
<1>5. s[i + 1] \in S
  BY <1>2
<1>6. c \in Seq(S) /\ Len(c) = 1 /\ c[1] = s[i + 1]
  BY <1>5
<1> HIDE DEF a, b, c
<1>7. d \in Seq(S) /\ Len(d) = 1 + Len(a) /\ \A j \in 1..1 + Len(a) : d[j] = IF j <= 1 THEN c[j] ELSE a[j - 1]
  <2>1. d \in Seq(S) /\ Len(d) = Len(c) + Len(a) /\ \A j \in 1..Len(c) + Len(a) : d[j] = IF j <= Len(c) THEN c[j] ELSE a[j - Len(c)]
    <3>1. c \in Seq(S) /\ a \in Seq(S)
      BY <1>3, <1>6
    <3> QED BY ONLY <3>1, ConcatProperties
  <2> HIDE DEF d
  <2> QED BY <1>6, <2>1
<1> HIDE DEF d
<1>8. Len(d) = w - i /\ Len(b) = w - i
  BY <1>3, <1>4, <1>7
<1>9. ASSUME NEW j \in 1..w - i PROVE d[j] = b[j]
  <2>1. b[j] = s[i + j]
    <3>1. j \in 1..w - (i + 1) + 1 /\ (i + 1) + j - 1 = i + j
      OBVIOUS
    <3> QED BY <1>4, <3>1
  <2>2. CASE j = 1
    <3>1. j \in 1..1 + Len(a) /\ j <= 1
      BY <1>3, <2>2
    <3> QED BY <1>6, <1>7, <2>1, <2>2, <3>1
  <2>3. CASE j # 1
    <3>1. PICK k \in Nat : k = j - 1
      BY <2>3
    <3>2. k \in 1..w - (i + 2) + 1 /\ (i + 2) + k - 1 = i + j /\ j \in 1..1 + Len(a) /\ ~(j <= 1)
      BY <1>3, <2>3, <3>1
    <3>3. a[k] = s[i + j]
      BY <1>3, <3>2
    <3> QED BY <1>7, <2>1, <3>1, <3>2, <3>3
  <2> QED BY <2>2, <2>3
<1>10. d = b
  BY <1>4, <1>7, <1>8, <1>9, SeqEqual
<1> QED BY <1>10 DEF a, b, c, d

\* What is joined of the beginning of two runs, from the second on, is its beginning.
LEMMA RestOfPrefix ==
  ASSUME NEW s \in Seq(Int), NEW t \in Seq(Int), NEW p \in Seq(Int), IsPrefix(p, s \o t), Len(s) <= Len(p)
  PROVE  /\ Len(From(p, Len(s))) <= Len(t)
         /\ \A j \in 1..Len(From(p, Len(s))) : From(p, Len(s))[j] = t[j]
<1> DEFINE u == From(p, Len(s))
           r == s \o u
           st == s \o t
<1>1. p = r
  BY PrefixInTwo
<1>2. u \in Seq(Int) /\ Len(s) \in Nat /\ Len(t) \in Nat /\ Len(u) \in Nat
  <2>1. Len(s) \in 0..Len(p)
    BY LenProperties
  <2> QED BY <2>1, FromIsSeq, LenProperties
<1> HIDE DEF u
<1>3. Len(r) = Len(s) + Len(u) /\ \A j \in 1..Len(s) + Len(u) : r[j] = IF j <= Len(s) THEN s[j] ELSE u[j - Len(s)]
  BY <1>2, ConcatProperties
<1>4. st \in Seq(Int) /\ Len(st) = Len(s) + Len(t) /\ \A j \in 1..Len(s) + Len(t) : st[j] = IF j <= Len(s) THEN s[j] ELSE t[j - Len(s)]
  BY <1>2, ConcatProperties
<1>5. Len(p) <= Len(st) /\ \A j \in 1..Len(p) : p[j] = st[j]
  BY <1>4, PrefixAt
<1> HIDE DEF r, st
<1>6. Len(u) <= Len(t)
  BY <1>1, <1>2, <1>3, <1>4, <1>5
<1>7. ASSUME NEW j \in 1..Len(u) PROVE u[j] = t[j]
  <2>1. PICK k \in Nat : k = Len(s) + j
    BY <1>2
  <2>2. k \in 1..Len(s) + Len(u) /\ k \in 1..Len(s) + Len(t) /\ ~(k <= Len(s)) /\ k - Len(s) = j /\ k \in 1..Len(p)
    BY <1>1, <1>2, <1>3, <1>6, <2>1
  <2>3. r[k] = u[j] /\ st[k] = t[j]
    BY <1>3, <1>4, <2>2
  <2> QED BY <1>1, <1>5, <2>2, <2>3
<1> QED BY <1>6, <1>7 DEF u

AreFrames(protocol, frames) == \A i \in 1..Len(frames) : IsFrame(protocol, frames[i])

\* What reaches into a frame and not to its end needs more.
LEMMA TailNeedsMore ==
  ASSUME NEW protocol \in Wires, NEW q, IsFrame(protocol, q), NEW t \in Seq(Int), NEW u \in Seq(Int), Len(u) < Len(q),
         \A j \in 1..Len(u) : u[j] = (q \o t)[j]
  PROVE  TryFrameLen(protocol, u) = More
<1>1. q \in Seq(Int) /\ Len(q) \in Nat /\ Len(u) \in Nat /\ Len(t) \in Nat
  BY LenProperties DEF IsFrame
<1>2. \A j \in 1..Len(u) : (q \o t)[j] = q[j]
  <2>1. \A j \in 1..Len(q) + Len(t) : (q \o t)[j] = IF j <= Len(q) THEN q[j] ELSE t[j - Len(q)]
    BY <1>1, ConcatProperties
  <2>2. \A j \in 1..Len(u) : j \in 1..Len(q) + Len(t) /\ j <= Len(q)
    BY <1>1
  <2> QED BY <2>1, <2>2
<1>3. Upto(q, Len(u)) = u
  <2>1. \A j \in 1..Len(u) : q[j] \in Int
    BY <1>1, ElementOfSeq
  <2>2. /\ SubSeq(q, 1, Len(u)) \in Seq(Int) /\ Len(SubSeq(q, 1, Len(u))) = IF 1 <= Len(u) THEN Len(u) - 1 + 1 ELSE 0
        /\ \A j \in 1..Len(u) - 1 + 1 : SubSeq(q, 1, Len(u))[j] = q[1 + j - 1]
    BY <1>1, <2>1, SubSeqProperties
  <2>3. \A j \in 1..Len(u) : j \in 1..Len(u) - 1 + 1 /\ 1 + j - 1 = j
    BY <1>1
  <2>4. /\ SubSeq(q, 1, Len(u)) \in Seq(Int) /\ Len(SubSeq(q, 1, Len(u))) = Len(u)
        /\ \A j \in 1..Len(u) : SubSeq(q, 1, Len(u))[j] = u[j]
    BY <1>1, <1>2, <2>2, <2>3
  <2>5. SubSeq(q, 1, Len(u)) = u
    BY <2>4, SeqEqual
  <2> QED BY <2>5 DEF Upto
<1>4. Len(u) \in 0..Len(q) - 1
  BY <1>1
<1> QED BY <1>3, <1>4 DEF IsFrame, CutWhole

\* Cutting any beginning of joined frames gives the frames that are wholly there, and what is behind them.
THEOREM SplitIsTrue ==
  ASSUME NEW protocol \in Wires, NEW frames \in Seq(Seq(Int)), AreFrames(protocol, frames),
         NEW parts \in Seq(Int), IsPrefix(parts, FlattenSeq(frames)), NEW w, Ends(frames, w, Len(parts))
  PROVE  SplitFrames(protocol, parts) =
           [frames |-> SubSeq(frames, 1, w), tail |-> From(parts, Len(FirstRuns(frames, w)))]
<1> DEFINE n == Len(parts)
           L(i) == Len(FirstRuns(frames, i))
           tail == From(parts, L(w))
           Right(i) == [frames |-> SubSeq(frames, i + 1, w), tail |-> tail]
<1>1. /\ n \in Nat /\ Len(frames) \in Nat /\ w \in 0..Len(frames) /\ L(w) <= n /\ (w # Len(frames) => ~(L(w + 1) <= n))
      /\ \A i \in 0..Len(frames) : FirstRuns(frames, i) \in Seq(Int) /\ L(i) \in Nat
  <2>1. \A i \in 0..Len(frames) : FirstRuns(frames, i) \in Seq(Int)
    BY FrontsGrow
  <2>2. \A i \in 0..Len(frames) : Len(FirstRuns(frames, i)) \in Nat
    BY <2>1, LenProperties
  <2>3. n \in Nat /\ Len(frames) \in Nat
    BY LenProperties
  <2> QED BY <2>1, <2>2, <2>3 DEF Ends
<1>2. ASSUME NEW i \in 1..Len(frames)
      PROVE  frames[i] \in Seq(Int) /\ IsFrame(protocol, frames[i]) /\ Len(frames[i]) \in Nat \ {0}
  <2>1. frames[i] \in Seq(Int) /\ IsFrame(protocol, frames[i])
    BY ElementOfSeq DEF AreFrames
  <2> QED BY <2>1, FrameIsSomething
<1>3. \A i \in 0..w : i \in 0..Len(frames) /\ L(i) <= n
  <2> TAKE i \in 0..w
  <2>1. i \in 0..Len(frames)
    BY <1>1
  <2>2. CASE i = w
    BY <1>1, <2>1, <2>2
  <2>3. CASE i # w
    <3>1. i < w /\ \A k \in 1..Len(frames) : frames[k] # <<>>
      <4>1. \A k \in 1..Len(frames) : IsFrame(protocol, frames[k])
        BY <1>2
      <4> QED BY <1>1, <2>3, <4>1, FrameIsSomething
    <3>2. Len(FirstRuns(frames, i)) < Len(FirstRuns(frames, w))
      BY <1>1, <2>1, <3>1, FrontsAreLonger
    <3> QED BY <1>1, <2>1, <3>2
  <2> QED BY <2>2, <2>3
<1>4. ASSUME NEW i \in 0..w
      PROVE  parts = FirstRuns(frames, i) \o From(parts, L(i)) /\ From(parts, L(i)) \in Seq(Int) /\ Len(From(parts, L(i))) = n - L(i)
  <2>1. PICK t \in Seq(Int) : FirstRuns(frames, Len(frames)) = FirstRuns(frames, i) \o t
    <3>1. i \in 0..Len(frames) /\ Len(frames) \in i..Len(frames)
      BY <1>1, <1>3
    <3> QED BY <3>1, FrontsBegin
  <2>2. FlattenSeq(frames) = FirstRuns(frames, i) \o t
    BY <2>1, FrontsGrow
  <2>3. FirstRuns(frames, i) \in Seq(Int) /\ L(i) <= n /\ L(i) \in 0..n
    BY <1>1, <1>3
  <2>4. parts = FirstRuns(frames, i) \o From(parts, L(i))
    BY <2>2, <2>3, PrefixInTwo
  <2>5. From(parts, L(i)) \in Seq(Int) /\ Len(From(parts, L(i))) = n - L(i)
    BY <2>3, FromIsSeq
  <2> QED BY <2>4, <2>5
<1>5. TryFrameLen(protocol, tail) = More
  <2>1. tail \in Seq(Int) /\ Len(tail) = n - L(w)
    BY <1>1, <1>4
  <2>2. CASE w = Len(frames)
    <3>1. FlattenSeq(frames) = FirstRuns(frames, w) /\ FlattenSeq(frames) \in Seq(Int)
      BY <1>1, <2>2, FrontsGrow
    <3>2. n <= L(w)
      BY <3>1, PrefixAt
    <3>3. Len(tail) = 0
      BY <1>1, <2>1, <3>2
    <3>4. tail = <<>>
      BY <2>1, <3>3, EmptySeq
    <3> QED BY <3>4, NothingIsCut
  <2>3. CASE w # Len(frames)
    <3>1. w \in 0..Len(frames) - 1 /\ w + 1 \in 1..Len(frames) /\ w + 1 \in 0..Len(frames) /\ Len(frames) \in w + 1..Len(frames)
      BY <1>1, <2>3
    <3>2. PICK t \in Seq(Int) : FirstRuns(frames, Len(frames)) = FirstRuns(frames, w + 1) \o t
      BY <3>1, FrontsBegin
    <3>3. PICK q \in Seq(Int) : q = frames[w + 1] /\ IsFrame(protocol, q) /\ Len(q) \in Nat
      BY <1>2, <3>1
    <3>4. PICK a \in Seq(Int) : a = FirstRuns(frames, w)
      BY <1>1
    <3>5. FirstRuns(frames, w + 1) = a \o q
      BY <3>1, <3>3, <3>4, FrontsGrow
    <3>6. (a \o q) \o t = a \o (q \o t) /\ q \o t \in Seq(Int)
      BY ONLY Regrouped
    <3>7. FlattenSeq(frames) = a \o (q \o t)
      BY <3>2, <3>5, <3>6, FrontsGrow
    <3>8. Len(a) <= n /\ Len(a) + Len(q) > n /\ Len(tail) = n - Len(a) /\ tail = From(parts, Len(a))
      <4>1. L(w + 1) = Len(a) + Len(q)
        BY <3>5, ConcatProperties
      <4> QED BY <1>1, <2>1, <2>3, <3>1, <3>3, <3>4, <4>1
    <3>9. PICK b \in Seq(Int) : b = q \o t
      BY <3>6
    <3>10. \A j \in 1..Len(tail) : tail[j] = b[j]
      <4>1. IsPrefix(parts, a \o b) /\ Len(a) <= Len(parts)
        BY <3>7, <3>8, <3>9
      <4>2. \A j \in 1..Len(From(parts, Len(a))) : From(parts, Len(a))[j] = b[j]
        BY <4>1, RestOfPrefix
      <4> QED BY <3>8, <4>2
    <3>11. Len(tail) < Len(q)
      <4>1. Len(a) \in Nat
        BY LenProperties
      <4> QED BY <1>1, <3>3, <3>8, <4>1
    <3> HIDE DEF tail
    <3> QED BY <2>1, <3>3, <3>9, <3>10, <3>11, TailNeedsMore
  <2> QED BY <2>2, <2>3
<1>6. PICK g : /\ SplitFrames(protocol, parts) = g[0]
               /\ \A i \in 0..n : g[i] = CutFrom(g, protocol, parts, i)
  BY SplitIs
<1>7. g[L(w)] = Right(w)
  <2>1. L(w) \in 0..n
    BY <1>1
  <2>2. CutFrom(g, protocol, parts, L(w)) = [frames |-> <<>>, tail |-> tail]
    <3> HIDE DEF L
    <3>1. TryFrameLen(protocol, From(parts, L(w))) <= 0
      BY <1>5 DEF More
    <3> QED BY <3>1 DEF CutFrom
  <2>3. SubSeq(frames, w + 1, w) = <<>>
    <3>1. w + 1 > w
      BY <1>1
    <3> QED BY <1>1, <3>1, SubSeqEmpty
  <2> QED BY <1>6, <2>1, <2>2, <2>3
<1>8. ASSUME NEW i \in 0..w, i # w, g[L(i + 1)] = Right(i + 1) PROVE g[L(i)] = Right(i)
  <2>1. /\ i \in Nat /\ i < w /\ i + 1 \in 0..w /\ i + 1 \in 1..Len(frames) /\ i \in 0..Len(frames) - 1
        /\ L(i) \in Nat /\ L(i) \in 0..n /\ w \in Nat /\ w <= Len(frames)
    <3>1. i \in Nat /\ i < w /\ i + 1 \in 0..w /\ i + 1 \in 1..Len(frames) /\ i \in 0..Len(frames) - 1 /\ w \in Nat /\ w <= Len(frames)
      <4>1. PICK m \in Nat : m = Len(frames) /\ w \in 0..m
        BY <1>1
      <4>2. i \in 0..w /\ i # w
        BY <1>8
      <4>3. i \in Nat /\ i < w /\ i + 1 \in 0..w /\ i + 1 \in 1..m /\ i \in 0..m - 1 /\ w \in Nat /\ w <= m
        BY ONLY <4>1, <4>2
      <4> QED BY <4>1, <4>3
    <3>2. L(i) \in Nat /\ L(i) <= n
      BY <1>1, <1>3
    <3> QED BY <1>1, <3>1, <3>2
  <2>2. PICK q \in Seq(Int) : q = frames[i + 1] /\ IsFrame(protocol, q) /\ Len(q) \in Nat \ {0}
    BY <1>2, <2>1
  <2>3. PICK a \in Seq(Int) : a = FirstRuns(frames, i)
    BY <1>1, <1>3
  <2>4. PICK u \in Seq(Int) : u = From(parts, L(i + 1))
    BY <1>4, <2>1
  <2>5. FirstRuns(frames, i + 1) = a \o q
    BY <2>1, <2>2, <2>3, FrontsGrow
  <2>6. parts = (a \o q) \o u
    BY <1>4, <2>1, <2>4, <2>5
  <2>7. (a \o q) \o u = a \o (q \o u) /\ q \o u \in Seq(Int)
    BY ONLY Regrouped
  <2>8. PICK b \in Seq(Int) : b = q \o u
    BY <2>7
  <2>9. parts = a \o b
    BY <2>6, <2>7, <2>8
  <2>10. From(parts, L(i)) = b
    BY <2>3, <2>9, FromOfJoined
  <2>11. TryFrameLen(protocol, b) = Len(q)
    BY <2>2, <2>8, FrameIsCut DEF Wires
  <2>12. L(i + 1) = L(i) + Len(q)
    BY <2>3, <2>5, ConcatProperties
  <2>13. Mid(parts, L(i), L(i) + Len(q)) = q
    BY <2>3, <2>6, <2>7, MidOfJoined
  <2> HIDE DEF L, tail
  <2>14. CutFrom(g, protocol, parts, L(i)) =
           [frames |-> <<q>> \o g[L(i) + Len(q)].frames, tail |-> g[L(i) + Len(q)].tail]
    <3>1. ~(Len(q) <= 0)
      BY <2>2
    <3> QED BY <2>10, <2>11, <2>13, <3>1 DEF CutFrom
  <2>15. g[L(i)] = [frames |-> <<q>> \o SubSeq(frames, (i + 1) + 1, w), tail |-> tail]
    <3>1. g[L(i)] = CutFrom(g, protocol, parts, L(i))
      BY <1>6, <2>1
    <3>2. g[L(i) + Len(q)] = [frames |-> SubSeq(frames, (i + 1) + 1, w), tail |-> tail]
      BY <1>8, <2>12
    <3> QED BY <2>14, <3>1, <3>2
  <2>16. <<q>> \o SubSeq(frames, (i + 1) + 1, w) = SubSeq(frames, i + 1, w)
    <3>1. (i + 1) + 1 = i + 2
      BY <2>1
    <3> QED BY <2>1, <2>2, <3>1, OneBefore
  <2> QED BY <2>15, <2>16
<1>9. g[L(0)] = Right(0)
  <2> HIDE DEF Right, L
  <2> DEFINE T == {k \in 0..w : g[L(w - k)] # Right(w - k)}
  <2>1. SUFFICES T = {}
    <3>1. w \in 0..w /\ w - w = 0
      BY <1>1
    <3> QED BY <3>1
  <2>2. SUFFICES ASSUME T # {} PROVE FALSE
    OBVIOUS
  <2>3. PICK k \in T : \A y \in T : k <= y
    <3>1. T \in SUBSET Nat
      BY <1>1
    <3> HIDE DEF T
    <3> QED BY <2>2, <3>1, LeastNumber
  <2>4. k \in 0..w /\ g[L(w - k)] # Right(w - k)
    BY <2>3
  <2>5. k # 0
    <3>1. w - 0 = w
      BY <1>1
    <3> QED BY <1>7, <2>4, <3>1
  <2>6. k - 1 \in 0..w /\ ~(k <= k - 1)
    BY <1>1, <2>4, <2>5
  <2>7. g[L(w - (k - 1))] = Right(w - (k - 1))
    BY <2>3, <2>6
  <2>8. w - (k - 1) = (w - k) + 1 /\ w - k \in 0..w /\ w - k # w
    BY <1>1, <2>4, <2>5
  <2> QED BY <1>8, <2>4, <2>7, <2>8
<1>10. L(0) = 0 /\ 0 + 1 = 1
  <2>1. FirstRuns(frames, 0) = <<>>
    BY FrontsGrow
  <2> QED BY <2>1
<1> QED BY <1>6, <1>9, <1>10

=============================================================================
