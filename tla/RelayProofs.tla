---------------------------- MODULE RelayProofs ----------------------------
(***************************************************************************)
(* Proofs about the proxy session, for every length of the streams, every  *)
(* blind limit and every size of the ring.                                 *)
(***************************************************************************)
EXTENDS Relay, SequenceTheorems, TLAPS

\* The kind of thing a ring holds.
Records == Dirs \X Nat

-----------------------------------------------------------------------------
(* Sequences                                                                *)

\* A stream that grows by its next piece.
LEMMA NumbersGrow ==
  ASSUME NEW n \in Nat
  PROVE  /\ Numbers(n) \in Seq(Nat) /\ Len(Numbers(n)) = n
         /\ Append(Numbers(n), n + 1) = Numbers(n + 1)
<1>1. /\ Numbers(n) \in Seq(Nat) /\ Len(Numbers(n)) = n
      /\ Numbers(n + 1) \in Seq(Nat) /\ Len(Numbers(n + 1)) = n + 1
  BY DEF Numbers
<1>2. /\ Append(Numbers(n), n + 1) \in Seq(Nat)
      /\ Len(Append(Numbers(n), n + 1)) = n + 1
      /\ \A i \in 1..n : Append(Numbers(n), n + 1)[i] = Numbers(n)[i]
      /\ Append(Numbers(n), n + 1)[n + 1] = n + 1
  BY <1>1, AppendProperties
<1>3. \A i \in 1..n + 1 : Append(Numbers(n), n + 1)[i] = Numbers(n + 1)[i]
  BY <1>2 DEF Numbers
<1> QED BY <1>1, <1>2, <1>3, SeqEqual

\* Appending to the end of a concatenation.
LEMMA ConcatAppend ==
  ASSUME NEW S, NEW s \in Seq(S), NEW t \in Seq(S), NEW e \in S
  PROVE  s \o Append(t, e) = Append(s \o t, e)
<1>1. /\ Append(t, e) = t \o <<e>> /\ s \o t \in Seq(S) /\ <<e>> \in Seq(S)
      /\ Append(s \o t, e) = (s \o t) \o <<e>>
  BY AppendIsConcat, ConcatProperties
<1> QED BY <1>1, ConcatAssociative

\* What is appended makes a sequence no shorter.
LEMMA ConcatIsLonger ==
  ASSUME NEW S, NEW s \in Seq(S), NEW t \in Seq(S)
  PROVE  s \o t \in Seq(S) /\ Len(s \o t) >= Len(s)
<1>1. s \o t \in Seq(S) /\ Len(s \o t) = Len(s) + Len(t)
  BY ConcatProperties
<1>2. Len(s) \in Nat /\ Len(t) \in Nat
  BY LenProperties
<1> QED BY <1>1, <1>2

\* What is cut off the head of a sequence and what is left are the sequence.
LEMMA CutInTwo ==
  ASSUME NEW S, NEW b \in Seq(S), Len(b) >= 2
  PROVE  /\ SubSeq(b, 1, 2) \in Seq(S) /\ SubSeq(b, 3, Len(b)) \in Seq(S)
         /\ SubSeq(b, 1, 2) \o SubSeq(b, 3, Len(b)) = b
<1>1. Len(b) \in Nat /\ \A i \in 1..Len(b) : b[i] \in S
  BY LenProperties, ElementOfSeq
<1>2. SubSeq(b, 1, 2) \in Seq(S) /\ SubSeq(b, 3, Len(b)) \in Seq(S)
  BY <1>1, SubSeqProperties
<1>3. SubSeq(b, 1, 2) \o SubSeq(b, 2 + 1, Len(b)) = SubSeq(b, 1, Len(b))
  <2>1. 1 \in 1..Len(b) + 1 /\ 2 \in (1 - 1)..Len(b) /\ Len(b) \in 2..Len(b)
    BY <1>1
  <2> QED BY <2>1, ConcatAdjacentSubSeq
<1> QED BY <1>2, <1>3, SubSeqFull

\* What a pump has sent, with a frame cut off its buffer and what is left there.
LEMMA CutFlow ==
  ASSUME NEW S, NEW o \in Seq(S), NEW b \in Seq(S), Len(b) >= 2
  PROVE  /\ o \o SubSeq(b, 1, 2) \in Seq(S)
         /\ (o \o SubSeq(b, 1, 2)) \o SubSeq(b, 3, Len(b)) = o \o b
<1>1. /\ SubSeq(b, 1, 2) \in Seq(S) /\ SubSeq(b, 3, Len(b)) \in Seq(S)
      /\ SubSeq(b, 1, 2) \o SubSeq(b, 3, Len(b)) = b
  BY CutInTwo
<1>2. ASSUME NEW h \in Seq(S), NEW r \in Seq(S)
      PROVE  o \o h \in Seq(S) /\ (o \o h) \o r = o \o (h \o r)
  <2>1. (o \o h) \o r = o \o (h \o r)
    BY ConcatAssociative
  <2>2. o \o h \in Seq(S)
    BY ConcatProperties
  <2> QED BY <2>1, <2>2
<1>3. /\ o \o SubSeq(b, 1, 2) \in Seq(S)
      /\ (o \o SubSeq(b, 1, 2)) \o SubSeq(b, 3, Len(b)) = o \o (SubSeq(b, 1, 2) \o SubSeq(b, 3, Len(b)))
  BY <1>1, <1>2
<1> QED BY <1>1, <1>3

\* A suffix, index by index.
LEMMA SuffixByIndex ==
  ASSUME NEW S, NEW s \in Seq(S), NEW t \in Seq(S), Len(s) <= Len(t),
         \A i \in 1..Len(s) : s[i] = t[Len(t) - Len(s) + i]
  PROVE  IsSuffix(s, t)
<1> DEFINE rs == Reverse(s)
           rt == Reverse(t)
<1>0. Len(s) \in Nat /\ Len(t) \in Nat
  BY LenProperties
<1>1. /\ rs \in Seq(S) /\ Len(rs) = Len(s) /\ \A i \in 1..Len(s) : rs[i] = s[(Len(s) - i) + 1]
      /\ rt \in Seq(S) /\ Len(rt) = Len(t) /\ \A i \in 1..Len(t) : rt[i] = t[(Len(t) - i) + 1]
  BY <1>0, ElementOfSeq DEF Reverse
<1>2. \A i \in 1..Len(s) : rs[i] = rt[i]
  <2> TAKE i \in 1..Len(s)
  <2>1. (Len(s) - i) + 1 \in 1..Len(s) /\ i \in 1..Len(t)
    BY <1>0
  <2>2. s[(Len(s) - i) + 1] = t[Len(t) - Len(s) + ((Len(s) - i) + 1)]
    BY <2>1
  <2>3. Len(t) - Len(s) + ((Len(s) - i) + 1) = (Len(t) - i) + 1
    BY <1>0
  <2> QED BY <1>1, <2>1, <2>2, <2>3
<1>3. SubSeq(rs, 1, Len(rs)) = rs
  BY <1>1, SubSeqFull
<1>4. /\ SubSeq(rt, 1, Len(rs)) \in Seq(S) /\ Len(SubSeq(rt, 1, Len(rs))) = Len(s)
      /\ \A i \in 1..Len(s) : SubSeq(rt, 1, Len(rs))[i] = rt[i]
  <2>1. \A i \in 1..Len(rs) : rt[i] \in S
    BY <1>0, <1>1, ElementOfSeq
  <2> HIDE DEF rs, rt
  <2>2. /\ SubSeq(rt, 1, Len(rs)) \in Seq(S)
        /\ Len(SubSeq(rt, 1, Len(rs))) = (IF 1 <= Len(rs) THEN Len(rs) - 1 + 1 ELSE 0)
        /\ \A i \in 1..Len(rs) - 1 + 1 : SubSeq(rt, 1, Len(rs))[i] = rt[1 + i - 1]
    BY <1>0, <1>1, <2>1, SubSeqProperties
  <2> QED BY <1>0, <1>1, <2>2
<1> HIDE DEF rs, rt
<1>5. rs = SubSeq(rt, 1, Len(rs))
  BY <1>1, <1>2, <1>4, SeqEqual
<1>6. Len(rs) <= Len(rt)
  BY <1>1
<1>7. IsPrefix(rs, rt)
  BY <1>3, <1>5, <1>6 DEF IsPrefix
<1> QED BY <1>7 DEF IsSuffix, rs, rt

\* A ring that is trimmed, or grows with its log, stays the end of the log.
LEMMA TrimKeeps ==
  ASSUME FrameLimit \in Nat \ {0}, NEW S, NEW fs \in Seq(S), NEW l \in Seq(S), EndOf(fs, l)
  PROVE  Trim(fs) \in Seq(S) /\ EndOf(Trim(fs), l)
<1> DEFINE t == Trim(fs)
           m == Len(fs) - FrameLimit + 1
<1>0. /\ Len(fs) \in Nat /\ Len(l) \in Nat /\ \A i \in 1..Len(fs) : fs[i] \in S
      /\ Len(fs) <= Len(l) /\ \A i \in 1..Len(fs) : fs[i] = l[Len(l) - Len(fs) + i]
  BY LenProperties, ElementOfSeq DEF EndOf
<1>1. CASE Len(fs) <= FrameLimit
  <2>1. t = fs
    BY <1>0, <1>1 DEF Trim
  <2> QED BY <2>1
<1>2. CASE Len(fs) > FrameLimit
  <2>1. t = SubSeq(fs, m, Len(fs)) /\ m \in Int /\ 1 <= m /\ m <= Len(fs)
    BY <1>0, <1>2 DEF Trim
  <2> HIDE DEF t, m
  <2>2. /\ t \in Seq(S)
        /\ Len(t) = (IF m <= Len(fs) THEN Len(fs) - m + 1 ELSE 0)
        /\ \A i \in 1..Len(fs) - m + 1 : t[i] = fs[m + i - 1]
    BY <1>0, <2>1, SubSeqProperties
  <2>3. Len(t) = FrameLimit /\ \A i \in 1..FrameLimit : t[i] = fs[m + i - 1] /\ m + i - 1 \in 1..Len(fs)
    BY <1>0, <1>2, <2>1, <2>2 DEF m
  <2>4. \A i \in 1..Len(t) : t[i] = l[Len(l) - Len(t) + i]
    <3> TAKE i \in 1..Len(t)
    <3>1. t[i] = l[Len(l) - Len(fs) + (m + i - 1)]
      BY <1>0, <2>3
    <3>2. Len(l) - Len(fs) + (m + i - 1) = Len(l) - Len(t) + i
      BY <1>0, <2>3 DEF m
    <3> QED BY <3>1, <3>2
  <2>5. EndOf(t, l)
    BY <1>0, <1>2, <2>3, <2>4 DEF EndOf
  <2> QED BY <2>2, <2>5 DEF t
<1> QED BY <1>0, <1>1, <1>2

\* A record put into both.
LEMMA AppendKeeps ==
  ASSUME FrameLimit \in Nat \ {0}, NEW S, NEW fs \in Seq(S), NEW l \in Seq(S), NEW e \in S,
         EndOf(fs, l)
  PROVE  Append(fs, e) \in Seq(S) /\ Append(l, e) \in Seq(S) /\ EndOf(Append(fs, e), Append(l, e))
<1> DEFINE f2 == Append(fs, e)
           l2 == Append(l, e)
<1>0. /\ Len(fs) \in Nat /\ Len(l) \in Nat
      /\ Len(fs) <= Len(l) /\ \A i \in 1..Len(fs) : fs[i] = l[Len(l) - Len(fs) + i]
      /\ Len(fs) >= FrameLimit \/ Len(fs) = Len(l)
  BY LenProperties DEF EndOf
<1>1. /\ f2 \in Seq(S) /\ Len(f2) = Len(fs) + 1 /\ f2[Len(fs) + 1] = e
      /\ \A i \in 1..Len(fs) : f2[i] = fs[i]
      /\ l2 \in Seq(S) /\ Len(l2) = Len(l) + 1 /\ l2[Len(l) + 1] = e
      /\ \A i \in 1..Len(l) : l2[i] = l[i]
  BY AppendProperties
<1> HIDE DEF f2, l2
<1>2. \A i \in 1..Len(f2) : f2[i] = l2[Len(l2) - Len(f2) + i]
  <2> TAKE i \in 1..Len(f2)
  <2>1. CASE i = Len(fs) + 1
    BY <1>0, <1>1, <2>1
  <2>2. CASE i # Len(fs) + 1
    <3>1. i \in 1..Len(fs) /\ Len(l) - Len(fs) + i \in 1..Len(l)
      BY <1>0, <1>1, <2>2
    <3>2. Len(l2) - Len(f2) + i = Len(l) - Len(fs) + i
      BY <1>0, <1>1
    <3>3. f2[i] = l[Len(l) - Len(fs) + i]
      BY <1>0, <1>1, <3>1
    <3> QED BY <1>1, <3>1, <3>2, <3>3
  <2> QED BY <2>1, <2>2
<1>3. EndOf(f2, l2)
  <2>1. Len(f2) <= Len(l2) /\ (Len(f2) >= FrameLimit \/ Len(f2) = Len(l2))
    BY <1>0, <1>1
  <2> QED BY <1>2, <2>1 DEF EndOf
<1> QED BY <1>1, <1>3 DEF f2, l2

-----------------------------------------------------------------------------
(* The inner loop                                                           *)

\* Whatever Cut does with what is in the buffer of a pump that is not blind, or
\* has nothing in it: nothing of the stream is lost, and the ring is kept.
LEMMA CutKeeps ==
  ASSUME RelayInv, NEW d \in Dirs, NEW b \in Seq(Nat), blind[d] => b = <<>>, Cut(d, b)
  PROVE  /\ out' \in [Dirs -> Seq(Nat)] /\ buf' \in [Dirs -> Seq(Nat)]
         /\ blind' \in [Dirs -> BOOLEAN]
         /\ pump' \in [Dirs -> {"reading", "sending", "flushing", "passing", "ended"}]
         /\ {frames, log}' \subseteq Seq(Records)
         /\ out'[d] \o buf'[d] = out[d] \o b
         /\ \A e \in Dirs \ {d} : out'[e] = out[e] /\ buf'[e] = buf[e] /\ blind'[e] = blind[e]
         /\ blind'[d] => buf'[d] = <<>>
         /\ NewestByIndex'
<1>0. /\ out \in [Dirs -> Seq(Nat)] /\ buf \in [Dirs -> Seq(Nat)] /\ blind \in [Dirs -> BOOLEAN]
      /\ pump \in [Dirs -> {"reading", "sending", "flushing", "passing", "ended"}]
      /\ frames \in Seq(Records) /\ log \in Seq(Records) /\ NewestByIndex
      /\ FrameLimit \in Nat \ {0}
      /\ out[d] \in Seq(Nat) /\ Len(b) \in Nat
  BY LimitAssumption, LenProperties DEF RelayInv, TypeOK, Records
<1>1. CASE StartsWithFrame(d, b)
  <2>0. SendFrame(d, b) /\ Len(b) >= 2
    BY <1>1 DEF Cut, StartsWithFrame
  <2>1. b[1] \in Nat /\ <<d, b[1]>> \in Records
    BY <1>0, <2>0, ElementOfSeq DEF Records
  <2>2. SubSeq(b, 3, Len(b)) \in Seq(Nat)
    BY <2>0, CutInTwo
  <2>3. /\ out[d] \o SubSeq(b, 1, 2) \in Seq(Nat)
        /\ (out[d] \o SubSeq(b, 1, 2)) \o SubSeq(b, 3, Len(b)) = out[d] \o b
    BY <1>0, <2>0, CutFlow
  <2>5. ~blind[d]
    BY <2>0, EmptySeq
  <2>6. NewestByIndex' /\ {frames, log}' \subseteq Seq(Records)
    <3>1. frames' = Append(frames, <<d, b[1]>>) /\ log' = Append(log, <<d, b[1]>>)
      BY <2>0 DEF SendFrame
    <3>2. /\ Append(frames, <<d, b[1]>>) \in Seq(Records) /\ Append(log, <<d, b[1]>>) \in Seq(Records)
          /\ EndOf(Append(frames, <<d, b[1]>>), Append(log, <<d, b[1]>>))
      BY <1>0, <2>1, AppendKeeps DEF NewestByIndex
    <3> QED BY <3>1, <3>2 DEF NewestByIndex
  <2>7. /\ out' = [out EXCEPT ![d] = out[d] \o SubSeq(b, 1, 2)]
        /\ buf' = [buf EXCEPT ![d] = SubSeq(b, 3, Len(b))]
        /\ pump' = [pump EXCEPT ![d] = "sending"] /\ blind' = blind
    BY <2>0 DEF SendFrame
  <2> QED BY <1>0, <2>2, <2>3, <2>5, <2>6, <2>7
<1>2. CASE ~StartsWithFrame(d, b) /\ Len(b) > BlindLimit
  <2>1. /\ out' = [out EXCEPT ![d] = out[d] \o b] /\ buf' = [buf EXCEPT ![d] = <<>>]
        /\ blind' = [blind EXCEPT ![d] = TRUE] /\ pump' = [pump EXCEPT ![d] = "flushing"]
        /\ frames' = frames /\ log' = log
    BY <1>2 DEF Cut, Flush, ringVars
  <2>2. out[d] \o b \in Seq(Nat) /\ <<>> \in Seq(Nat) /\ (out[d] \o b) \o <<>> = out[d] \o b
    BY <1>0, ConcatProperties, EmptySeq, ConcatEmptySeq
  <2>3. NewestByIndex' /\ {frames, log}' \subseteq Seq(Records)
    BY <1>0, <2>1 DEF NewestByIndex
  <2> QED BY <1>0, <2>1, <2>2, <2>3
<1>3. CASE ~StartsWithFrame(d, b) /\ ~(Len(b) > BlindLimit)
  <2>1. /\ out' = out /\ buf' = [buf EXCEPT ![d] = b]
        /\ blind' = blind /\ pump' = [pump EXCEPT ![d] = "reading"]
        /\ frames' = Trim(frames) /\ log' = log
    BY <1>3 DEF Cut, Wait
  <2>2. NewestByIndex' /\ {frames, log}' \subseteq Seq(Records)
    <3>1. Trim(frames) \in Seq(Records) /\ EndOf(Trim(frames), log)
      BY <1>0, TrimKeeps DEF NewestByIndex
    <3> QED BY <1>0, <2>1, <3>1 DEF NewestByIndex
  <2> QED BY <1>0, <2>1, <2>2
<1> QED BY <1>1, <1>2, <1>3

-----------------------------------------------------------------------------
(* The steps                                                                *)

\* A piece arrives at the end of what is not read.
LEMMA ArriveKeeps ==
  ASSUME RelayInv, NEW d \in Dirs, NEW kind \in Kinds, Arrive(d, kind)
  PROVE  RelayInv'
<1>0. /\ what \in [Dirs -> Seq(Kinds)] /\ inbox \in [Dirs -> Seq(Nat)]
      /\ buf \in [Dirs -> Seq(Nat)] /\ out \in [Dirs -> Seq(Nat)]
      /\ what[d] \in Seq(Kinds) /\ Len(what[d]) \in Nat
      /\ inbox[d] \in Seq(Nat) /\ buf[d] \in Seq(Nat) /\ out[d] \in Seq(Nat)
  BY LenProperties DEF RelayInv, TypeOK
<1>1. /\ what' = [what EXCEPT ![d] = Append(what[d], kind)]
      /\ inbox' = [inbox EXCEPT ![d] = Append(inbox[d], Len(what[d]) + 1)]
      /\ UNCHANGED <<buf, blind, out, pump, frames, log, session, fin, gone, stalled>>
  BY DEF Arrive, ringVars, peerVars
<1>2. /\ Append(what[d], kind) \in Seq(Kinds) /\ Len(Append(what[d], kind)) = Len(what[d]) + 1
      /\ Append(inbox[d], Len(what[d]) + 1) \in Seq(Nat)
  BY <1>0, AppendProperties
<1>3. TypeOK'
  BY <1>0, <1>1, <1>2 DEF RelayInv, TypeOK
<1>4. (out[d] \o buf[d]) \o Append(inbox[d], Len(what[d]) + 1) = Numbers(Len(what[d]) + 1)
  <2>1. out[d] \o buf[d] \in Seq(Nat)
    BY <1>0, ConcatProperties
  <2>2. (out[d] \o buf[d]) \o inbox[d] = Numbers(Len(what[d]))
    BY DEF RelayInv, StreamIsIntact
  <2>3. (out[d] \o buf[d]) \o Append(inbox[d], Len(what[d]) + 1)
          = Append((out[d] \o buf[d]) \o inbox[d], Len(what[d]) + 1)
    <3>1. Len(what[d]) + 1 \in Nat
      BY <1>0
    <3> QED BY <1>0, <2>1, <3>1, ConcatAppend
  <2>4. Append(Numbers(Len(what[d])), Len(what[d]) + 1) = Numbers(Len(what[d]) + 1)
    BY <1>0, NumbersGrow
  <2> QED BY <2>2, <2>3, <2>4
<1>5. StreamIsIntact'
  <2> SUFFICES ASSUME NEW e \in Dirs PROVE (out[e] \o buf[e]) \o inbox'[e] = Numbers(Len(what'[e]))
    BY <1>1 DEF StreamIsIntact
  <2>1. CASE e = d
    BY <1>0, <1>1, <1>2, <1>4, <2>1
  <2>2. CASE e # d
    BY <1>0, <1>1, <2>2 DEF RelayInv, StreamIsIntact
  <2> QED BY <2>1, <2>2
<1>6. NewestByIndex'
  BY <1>1 DEF RelayInv, NewestByIndex
<1> QED BY <1>3, <1>5, <1>6 DEF RelayInv

\* A chunk is read: it is passed on, or cut up with what was in the buffer.
LEMMA ReadKeeps ==
  ASSUME RelayInv, NEW d \in Dirs, ReadChunk(d)
  PROVE  RelayInv'
<1>0. /\ inbox \in [Dirs -> Seq(Nat)] /\ buf \in [Dirs -> Seq(Nat)] /\ out \in [Dirs -> Seq(Nat)]
      /\ inbox[d] \in Seq(Nat) /\ buf[d] \in Seq(Nat) /\ out[d] \in Seq(Nat)
      /\ blind \in [Dirs -> BOOLEAN]
      /\ pump \in [Dirs -> {"reading", "sending", "flushing", "passing", "ended"}]
  BY DEF RelayInv, TypeOK
<1>1. /\ inbox' = [inbox EXCEPT ![d] = <<>>] /\ <<>> \in Seq(Nat)
      /\ UNCHANGED <<what, session, fin, gone, stalled>>
  BY EmptySeq DEF ReadChunk, peerVars
<1>2. inbox' \in [Dirs -> Seq(Nat)]
  BY <1>0, <1>1
<1>3. (out[d] \o buf[d]) \o inbox[d] = Numbers(Len(what[d]))
  BY DEF RelayInv, StreamIsIntact
<1>4. CASE blind[d]
  <2>1. /\ out' = [out EXCEPT ![d] = out[d] \o inbox[d]] /\ pump' = [pump EXCEPT ![d] = "passing"]
        /\ UNCHANGED <<buf, blind, frames, log>>
    BY <1>4 DEF ReadChunk, ringVars
  <2>2. buf[d] = <<>> /\ out[d] \o inbox[d] \in Seq(Nat)
    BY <1>0, <1>4, ConcatProperties DEF RelayInv, TypeOK
  <2>3. TypeOK'
    BY <1>0, <1>1, <1>2, <2>1, <2>2 DEF RelayInv, TypeOK
  <2>4. ((out[d] \o inbox[d]) \o buf[d]) \o <<>> = Numbers(Len(what[d]))
    BY <1>0, <1>3, <2>2, ConcatEmptySeq
  <2>5. StreamIsIntact'
    <3> SUFFICES ASSUME NEW e \in Dirs PROVE (out'[e] \o buf[e]) \o inbox'[e] = Numbers(Len(what[e]))
      BY <1>1, <2>1 DEF StreamIsIntact
    <3>1. CASE e = d
      BY <1>0, <1>1, <2>1, <2>4, <3>1
    <3>2. CASE e # d
      BY <1>0, <1>1, <2>1, <3>2 DEF RelayInv, StreamIsIntact
    <3> QED BY <3>1, <3>2
  <2> QED BY <2>1, <2>3, <2>5 DEF RelayInv, NewestByIndex
<1>5. CASE ~blind[d]
  <2>1. Cut(d, Joined(d)) /\ Joined(d) \in Seq(Nat) /\ Joined(d) = buf[d] \o inbox[d]
    BY <1>0, <1>5, ConcatProperties DEF ReadChunk, Joined
  <2>2. /\ out' \in [Dirs -> Seq(Nat)] /\ buf' \in [Dirs -> Seq(Nat)] /\ blind' \in [Dirs -> BOOLEAN]
        /\ pump' \in [Dirs -> {"reading", "sending", "flushing", "passing", "ended"}]
        /\ {frames, log}' \subseteq Seq(Records)
        /\ out'[d] \o buf'[d] = out[d] \o Joined(d)
        /\ \A e \in Dirs \ {d} : out'[e] = out[e] /\ buf'[e] = buf[e] /\ blind'[e] = blind[e]
        /\ blind'[d] => buf'[d] = <<>>
        /\ NewestByIndex'
    BY <1>5, <2>1, CutKeeps
  <2>3. TypeOK'
    BY <1>0, <1>1, <1>2, <2>2 DEF RelayInv, TypeOK, Records
  <2>4. (out'[d] \o buf'[d]) \o <<>> = Numbers(Len(what[d]))
    <3>1. out[d] \o (buf[d] \o inbox[d]) = Numbers(Len(what[d]))
      <4>1. (out[d] \o buf[d]) \o inbox[d] = out[d] \o (buf[d] \o inbox[d])
        BY <1>0, ConcatAssociative
      <4> QED BY <1>3, <4>1
    <3>2. out'[d] \o buf'[d] \in Seq(Nat)
      BY <2>2, ConcatProperties
    <3> QED BY <2>1, <2>2, <3>1, <3>2, ConcatEmptySeq
  <2>5. StreamIsIntact'
    <3> SUFFICES ASSUME NEW e \in Dirs PROVE (out'[e] \o buf'[e]) \o inbox'[e] = Numbers(Len(what[e]))
      BY <1>1 DEF StreamIsIntact
    <3>1. CASE e = d
      BY <1>0, <1>1, <2>4, <3>1
    <3>2. CASE e # d
      BY <1>0, <1>1, <2>2, <3>2 DEF RelayInv, StreamIsIntact
    <3> QED BY <3>1, <3>2
  <2> QED BY <2>2, <2>3, <2>5 DEF RelayInv
<1> QED BY <1>0, <1>4, <1>5

\* A write is done: the pump goes on with what is left in its buffer, or reads on.
LEMMA DrainedKeeps ==
  ASSUME RelayInv, NEW d \in Dirs, Drained(d)
  PROVE  RelayInv'
<1>0. /\ buf \in [Dirs -> Seq(Nat)] /\ buf[d] \in Seq(Nat) /\ (blind[d] => buf[d] = <<>>)
      /\ frames \in Seq(Records) /\ log \in Seq(Records) /\ NewestByIndex
      /\ pump \in [Dirs -> {"reading", "sending", "flushing", "passing", "ended"}]
      /\ FrameLimit \in Nat \ {0}
  BY LimitAssumption DEF RelayInv, TypeOK, Records
<1>1. UNCHANGED <<what, inbox, session, fin, gone, stalled>>
  BY DEF Drained, peerVars
<1>2. CASE pump[d] = "sending"
  <2>1. Cut(d, buf[d])
    BY <1>2 DEF Drained
  <2>2. /\ out' \in [Dirs -> Seq(Nat)] /\ buf' \in [Dirs -> Seq(Nat)] /\ blind' \in [Dirs -> BOOLEAN]
        /\ pump' \in [Dirs -> {"reading", "sending", "flushing", "passing", "ended"}]
        /\ {frames, log}' \subseteq Seq(Records)
        /\ out'[d] \o buf'[d] = out[d] \o buf[d]
        /\ \A e \in Dirs \ {d} : out'[e] = out[e] /\ buf'[e] = buf[e] /\ blind'[e] = blind[e]
        /\ blind'[d] => buf'[d] = <<>>
        /\ NewestByIndex'
    BY <1>0, <2>1, CutKeeps
  <2>3. TypeOK'
    BY <1>0, <1>1, <2>2 DEF RelayInv, TypeOK, Records
  <2>4. StreamIsIntact'
    <3> SUFFICES ASSUME NEW e \in Dirs PROVE (out'[e] \o buf'[e]) \o inbox[e] = Numbers(Len(what[e]))
      BY <1>1 DEF StreamIsIntact
    <3>1. (out[e] \o buf[e]) \o inbox[e] = Numbers(Len(what[e]))
      BY DEF RelayInv, StreamIsIntact
    <3>2. out'[e] \o buf'[e] = out[e] \o buf[e]
      BY <2>2
    <3> QED BY <3>1, <3>2
  <2> QED BY <2>2, <2>3, <2>4 DEF RelayInv
<1>3. CASE pump[d] = "flushing"
  <2>1. /\ buf' = [buf EXCEPT ![d] = buf[d]] /\ pump' = [pump EXCEPT ![d] = "reading"]
        /\ frames' = Trim(frames) /\ UNCHANGED <<out, blind, log>>
    BY <1>3 DEF Drained, Wait
  <2>2. buf' = buf
    BY <1>0, <2>1
  <2>3. Trim(frames) \in Seq(Records) /\ EndOf(Trim(frames), log)
    BY <1>0, TrimKeeps DEF NewestByIndex
  <2>4. TypeOK' /\ NewestByIndex'
    BY <1>0, <1>1, <2>1, <2>2, <2>3 DEF RelayInv, TypeOK, Records, NewestByIndex
  <2>5. StreamIsIntact'
    BY <1>1, <2>1, <2>2 DEF RelayInv, StreamIsIntact
  <2> QED BY <2>4, <2>5 DEF RelayInv
<1>4. CASE pump[d] = "passing"
  <2>1. pump' = [pump EXCEPT ![d] = "reading"] /\ UNCHANGED <<buf, blind, out, frames, log>>
    BY <1>4 DEF Drained, ringVars
  <2>2. TypeOK' /\ NewestByIndex'
    BY <1>0, <1>1, <2>1 DEF RelayInv, TypeOK, NewestByIndex
  <2>3. StreamIsIntact'
    BY <1>1, <2>1 DEF RelayInv, StreamIsIntact
  <2> QED BY <2>2, <2>3 DEF RelayInv
<1> QED BY <1>2, <1>3, <1>4 DEF Drained

\* A step that leaves the pieces, their record and the flags alone.
LEMMA RestKeeps ==
  ASSUME RelayInv, UNCHANGED <<what, inbox, buf, blind, out, frames, log>>,
         pump' \in [Dirs -> {"reading", "sending", "flushing", "passing", "ended"}],
         session' \in {"open", "closed"}, {fin, gone, stalled}' \subseteq [Sides -> BOOLEAN]
  PROVE  RelayInv'
BY DEF RelayInv, TypeOK, StreamIsIntact, NewestByIndex

\* A pump ends, for whatever reason.
LEMMA EndPumpKeeps ==
  ASSUME RelayInv, NEW d \in Dirs, EndPump(d)
  PROVE  RelayInv'
<1>1. /\ pump \in [Dirs -> {"reading", "sending", "flushing", "passing", "ended"}]
      /\ session \in {"open", "closed"} /\ {fin, gone, stalled} \subseteq [Sides -> BOOLEAN]
  BY DEF RelayInv, TypeOK
<1>2. /\ pump' = [pump EXCEPT ![d] = "ended"]
      /\ UNCHANGED <<what, inbox, buf, blind, out, frames, log, session, fin, gone, stalled>>
  BY DEF EndPump, streamVars, ringVars, peerVars
<1> QED BY <1>1, <1>2, RestKeeps

\* An end closes, breaks off or stops reading.
LEMMA PeerKeeps ==
  ASSUME RelayInv, NEW s \in Sides, Closes(s) \/ Resets(s) \/ Stalls(s)
  PROVE  RelayInv'
<1>1. /\ pump \in [Dirs -> {"reading", "sending", "flushing", "passing", "ended"}]
      /\ session \in {"open", "closed"} /\ {fin, gone, stalled} \subseteq [Sides -> BOOLEAN]
  BY DEF RelayInv, TypeOK
<1>2. UNCHANGED <<what, inbox, buf, blind, out, frames, log, pump, session>>
  BY DEF Closes, Resets, Stalls, OnPeer, streamVars, ringVars
<1>3. {fin, gone, stalled}' \subseteq [Sides -> BOOLEAN]
  BY <1>1 DEF Closes, Resets, Stalls
<1> QED BY <1>1, <1>2, <1>3, RestKeeps

-----------------------------------------------------------------------------
(* The invariant                                                            *)

\* A session begins with nothing sent.
LEMMA RelayInit == Init => RelayInv
<1> SUFFICES ASSUME Init PROVE RelayInv
  OBVIOUS
<1>1. TypeOK
  BY EmptySeq DEF Init, TypeOK, Dirs, Sides
<1>2. StreamIsIntact
  <2>1. Numbers(0) = <<>>
    BY DEF Numbers
  <2>2. <<>> \o <<>> \o <<>> = <<>> /\ Len(<<>>) = 0
    OBVIOUS
  <2> QED BY <2>1, <2>2 DEF Init, StreamIsIntact
<1>3. NewestByIndex
  BY DEF Init, NewestByIndex, EndOf
<1> QED BY <1>1, <1>2, <1>3 DEF RelayInv

\* Every step of the pumps and of the two ends keeps it.
LEMMA RelayStep == RelayInv /\ [Next]_vars => RelayInv'
<1> SUFFICES ASSUME RelayInv, [Next]_vars PROVE RelayInv'
  OBVIOUS
<1>1. ASSUME NEW d \in Dirs, Step(d)
      PROVE  RelayInv'
  <2>1. CASE ReadChunk(d)
    BY <2>1, ReadKeeps
  <2>2. CASE Drained(d)
    BY <2>2, DrainedKeeps
  <2>3. CASE DrainFails(d) \/ ReadFails(d) \/ EndOfFile(d)
    BY <2>3, EndPumpKeeps DEF DrainFails, ReadFails, EndOfFile
  <2> QED BY <1>1, <2>1, <2>2, <2>3 DEF Step
<1>2. ASSUME NEW d \in Dirs, IdleTimeout(d)
      PROVE  RelayInv'
  BY <1>2, EndPumpKeeps DEF IdleTimeout
<1>3. ASSUME NEW d \in Dirs, NEW kind \in Kinds, Arrive(d, kind)
      PROVE  RelayInv'
  BY <1>3, ArriveKeeps
<1>4. ASSUME NEW s \in Sides, Closes(s) \/ Resets(s) \/ Stalls(s)
      PROVE  RelayInv'
  BY <1>4, PeerKeeps
<1>5. CASE CloseSession
  BY <1>5, RestKeeps DEF CloseSession, streamVars, ringVars, peerVars, RelayInv, TypeOK
<1>6. CASE UNCHANGED vars
  BY <1>6, RestKeeps DEF vars, streamVars, ringVars, peerVars, RelayInv, TypeOK
<1> QED BY <1>1, <1>2, <1>3, <1>4, <1>5, <1>6 DEF Next

\* The inductive invariant holds in every session.
THEOREM RelayInvHolds == Spec => []RelayInv
<1> QED BY RelayInit, RelayStep, PTL DEF Spec

\* The types of the session's state hold for all lengths and limits.
THEOREM TypeOKHolds == Spec => []TypeOK
<1>1. RelayInv => TypeOK
  BY DEF RelayInv
<1> QED BY <1>1, RelayInvHolds, PTL

\* Whatever the arrivals, nothing that was sent to the proxy is lost, repeated or
\* reordered between what it has not read and what it has sent on.
THEOREM StreamIsIntactHolds == Spec => []StreamIsIntact
<1>1. RelayInv => StreamIsIntact
  BY DEF RelayInv
<1> QED BY <1>1, RelayInvHolds, PTL

\* The ring holds the newest records, whichever pump trimmed it last.
THEOREM RingIsNewestHolds == Spec => []RingIsNewest
<1>1. RelayInv => RingIsNewest
  <2> SUFFICES ASSUME RelayInv PROVE RingIsNewest
    OBVIOUS
  <2>1. /\ frames \in Seq(Records) /\ log \in Seq(Records)
        /\ Len(frames) <= Len(log) /\ \A i \in 1..Len(frames) : frames[i] = log[Len(log) - Len(frames) + i]
        /\ Len(frames) >= FrameLimit \/ Len(frames) = Len(log)
        /\ Len(frames) \in Nat /\ Len(log) \in Nat
    BY LenProperties DEF RelayInv, TypeOK, Records, NewestByIndex, EndOf
  <2>2. IsSuffix(frames, log)
    BY <2>1, SuffixByIndex
  <2>3. ASSUME Len(frames) = Len(log)
        PROVE  frames = log
    <3>1. \A i \in 1..Len(frames) : frames[i] = log[i]
      BY <2>1, <2>3
    <3> QED BY <2>1, <2>3, <3>1, SeqEqual
  <2> QED BY <2>1, <2>2, <2>3 DEF RingIsNewest
<1> QED BY <1>1, RelayInvHolds, PTL

-----------------------------------------------------------------------------
(* The record                                                               *)

\* What is sent on is the first of a stream of n pieces, and what is kept goes on
\* where it ends.
Continues(o, b, n) ==
  /\ Len(o) \in Nat /\ Len(b) \in Nat /\ Len(o) + Len(b) <= n
  /\ \A i \in 1..Len(o) : o[i] = i
  /\ \A i \in 1..Len(b) : b[i] = Len(o) + i

\* Where the pieces of an intact stream are: sent on, kept, not read.
LEMMA Places ==
  ASSUME NEW o \in Seq(Nat), NEW b \in Seq(Nat), NEW r \in Seq(Nat), NEW n \in Nat,
         (o \o b) \o r = Numbers(n)
  PROVE  Continues(o, b, n)
<1>0. Len(o) \in Nat /\ Len(b) \in Nat /\ Len(r) \in Nat
  BY LenProperties
<1>1. /\ o \o b \in Seq(Nat) /\ Len(o \o b) = Len(o) + Len(b)
      /\ \A i \in 1..Len(o) + Len(b) : (o \o b)[i] = IF i <= Len(o) THEN o[i] ELSE b[i - Len(o)]
  BY ConcatProperties
<1> DEFINE q == o \o b
<1> HIDE DEF q
<1>9. /\ q \in Seq(Nat) /\ Len(q) = Len(o) + Len(b)
       /\ \A i \in 1..Len(o) + Len(b) : q[i] = IF i <= Len(o) THEN o[i] ELSE b[i - Len(o)]
  BY <1>1 DEF q
<1>2. /\ Len(q \o r) = Len(q) + Len(r)
      /\ \A i \in 1..Len(q) + Len(r) : (q \o r)[i] = IF i <= Len(q) THEN q[i] ELSE r[i - Len(q)]
  <2>1. q \in Seq(Nat)
    BY <1>9
  <2> QED BY ONLY <2>1, r \in Seq(Nat), ConcatProperties
<1>3. q \o r = Numbers(n) /\ Len(Numbers(n)) = n /\ \A i \in 1..n : Numbers(n)[i] = i
  BY NumbersGrow DEF q, Numbers
<1>4. n = Len(o) + Len(b) + Len(r)
  BY <1>0, <1>9, <1>2, <1>3
<1>5. \A i \in 1..Len(o) + Len(b) : q[i] = i
  <2> TAKE i \in 1..Len(o) + Len(b)
  <2>1. i \in 1..Len(q) + Len(r) /\ i <= Len(q) /\ i \in 1..n
    BY <1>0, <1>9, <1>4
  <2>2. (q \o r)[i] = q[i]
    BY <1>2, <2>1
  <2> QED BY <1>3, <2>1, <2>2
<1>6. \A i \in 1..Len(o) : o[i] = i
  BY <1>0, <1>1, <1>5 DEF q
<1>7. \A i \in 1..Len(b) : b[i] = Len(o) + i
  <2> TAKE i \in 1..Len(b)
  <2>1. Len(o) + i \in 1..Len(o) + Len(b) /\ ~(Len(o) + i <= Len(o)) /\ (Len(o) + i) - Len(o) = i
    BY <1>0
  <2> QED BY <1>1, <1>5, <2>1 DEF q
<1> QED BY <1>0, <1>4, <1>6, <1>7 DEF Continues

\* So the buffer of a pump goes on where it stopped sending.
LEMMA BufContinues ==
  ASSUME RelayInv, NEW d \in Dirs
  PROVE  buf[d] \in Seq(Nat) /\ Continues(out[d], buf[d], Len(what[d]))
<1>1. /\ out[d] \in Seq(Nat) /\ buf[d] \in Seq(Nat) /\ inbox[d] \in Seq(Nat)
      /\ Len(what[d]) \in Nat
      /\ (out[d] \o buf[d]) \o inbox[d] = Numbers(Len(what[d]))
  BY LenProperties DEF RelayInv, TypeOK, StreamIsIntact
<1> QED BY <1>1, Places

\* As does what it finds joined when it reads a chunk.
LEMMA JoinedContinues ==
  ASSUME RelayInv, NEW d \in Dirs
  PROVE  Joined(d) \in Seq(Nat) /\ Continues(out[d], Joined(d), Len(what[d]))
<1>1. /\ out[d] \in Seq(Nat) /\ buf[d] \in Seq(Nat) /\ inbox[d] \in Seq(Nat)
      /\ Len(what[d]) \in Nat /\ <<>> \in Seq(Nat)
  BY LenProperties, EmptySeq DEF RelayInv, TypeOK
<1>2. (out[d] \o buf[d]) \o inbox[d] = out[d] \o (buf[d] \o inbox[d])
  <2>1. ASSUME NEW o \in Seq(Nat), NEW b \in Seq(Nat), NEW r \in Seq(Nat)
        PROVE  (o \o b) \o r = o \o (b \o r)
    BY ConcatAssociative
  <2> QED BY <1>1, <2>1
<1>3. (out[d] \o buf[d]) \o inbox[d] = Numbers(Len(what[d]))
  BY DEF RelayInv, StreamIsIntact
<1>4. Joined(d) \in Seq(Nat) /\ out[d] \o Joined(d) \in Seq(Nat)
  BY <1>1, ConcatProperties DEF Joined
<1>5. (out[d] \o Joined(d)) \o <<>> = Numbers(Len(what[d]))
  BY <1>2, <1>3, <1>4, ConcatEmptySeq DEF Joined
<1> QED BY <1>1, <1>4, <1>5, Places

\* A step that sends nothing on and records nothing.
LEMMA NothingRecorded ==
  ASSUME RecordInv, UNCHANGED <<what, out, log, blind>>
  PROVE  RecordInv'
BY DEF RecordInv, RecordInOrder, Framed, IsRecorded, RecordedWhole

\* A piece arrives: what was sent on is of the kinds it was.
LEMMA ArriveRecords ==
  ASSUME RelayInv, RecordInv, NEW d \in Dirs, NEW kind \in Kinds, Arrive(d, kind)
  PROVE  RecordInv'
<1>1. /\ what \in [Dirs -> Seq(Kinds)] /\ what' = [what EXCEPT ![d] = Append(what[d], kind)]
      /\ UNCHANGED <<out, log, blind>>
      /\ (kind = "tail") = (what[d] # <<>> /\ Last(what[d]) = "head")
  BY DEF Arrive, ringVars, RelayInv, TypeOK
<1>2. /\ what[d] \in Seq(Kinds) /\ Len(what[d]) \in Nat /\ (what[d] = <<>> <=> Len(what[d]) = 0)
      /\ DOMAIN what[d] = 1..Len(what[d])
  BY <1>1, LenProperties, EmptySeq
<1>3. /\ what'[d] \in Seq(Kinds) /\ Len(what'[d]) = Len(what[d]) + 1
      /\ DOMAIN what'[d] = 1..Len(what[d]) + 1
      /\ \A i \in 1..Len(what[d]) : what'[d][i] = what[d][i]
      /\ what'[d][Len(what[d]) + 1] = kind
  BY <1>1, <1>2, AppendProperties, LenProperties
<1>4. Framed(d)'
  <2> SUFFICES ASSUME NEW i \in 1..Len(what[d]) + 1
               PROVE  (what'[d][i] = "tail") = (i > 1 /\ what'[d][i - 1] = "head")
    BY <1>3 DEF Framed
  <2>1. CASE i \in 1..Len(what[d])
    <3>1. (what[d][i] = "tail") = (i > 1 /\ what[d][i - 1] = "head")
      BY <1>2, <2>1 DEF RecordInv, Framed
    <3>2. what'[d][i] = what[d][i] /\ (i > 1 => what'[d][i - 1] = what[d][i - 1])
      BY <1>2, <1>3, <2>1
    <3> QED BY <3>1, <3>2
  <2>2. CASE i = Len(what[d]) + 1
    <3>1. (kind = "tail") = (Len(what[d]) > 0 /\ what[d][Len(what[d])] = "head")
      BY <1>1, <1>2 DEF Last
    <3>2. Len(what[d]) > 0 => what'[d][Len(what[d])] = what[d][Len(what[d])]
      BY <1>2, <1>3
    <3> QED BY <1>2, <1>3, <2>2, <3>1, <3>2
  <2> QED BY <1>2, <2>1, <2>2
<1>5. ASSUME NEW e \in Dirs, NEW n \in 1..Len(out[e])
      PROVE  what'[e][n] = what[e][n]
  <2>1. what[e] \in Seq(Kinds) /\ Len(what[e]) \in Nat
    BY <1>1, LenProperties
  <2>2. n \in 1..Len(what[e])
    <3>1. Continues(out[e], buf[e], Len(what[e])) /\ Len(what[e]) \in Nat
      BY <2>1, BufContinues
    <3>2. Len(out[e]) \in Nat /\ Len(buf[e]) \in Nat /\ Len(out[e]) + Len(buf[e]) <= Len(what[e])
      BY <3>1 DEF Continues
    <3>3. \A k, l, m \in Nat : k + l <= m => 1..k \subseteq 1..m
      OBVIOUS
    <3>4. 1..Len(out[e]) \subseteq 1..Len(what[e])
      BY <2>1, <3>2, <3>3
    <3> QED BY <3>4
  <2> QED BY <1>1, <1>3, <2>2
<1>6. \A e \in Dirs : Framed(e)'
  BY <1>1, <1>4 DEF RecordInv, Framed
<1>7. ASSUME NEW e \in Dirs
      PROVE  /\ \A n \in Nat : IsRecorded(e, n)' => n \in 1..Len(out'[e]) /\ what'[e][n] = "head"
             /\ \A m, n \in 1..Len(out'[e]) :
                  what'[e][m] = "head" /\ m <= n /\ IsRecorded(e, n)' => IsRecorded(e, m)'
             /\ ~blind'[e] => RecordedWhole(e)'
  <2>1. \A n \in Nat : IsRecorded(e, n)' <=> IsRecorded(e, n)
    BY <1>1 DEF IsRecorded
  <2>2. Len(out[e]) \in Nat
    BY BufContinues DEF Continues
  <2>3. ASSUME ~blind[e] PROVE RecordedWhole(e)'
    <3> SUFFICES ASSUME NEW n \in 1..Len(out[e])
                 PROVE  IF what'[e][n] = "head" THEN n < Len(out[e]) /\ IsRecorded(e, n)'
                        ELSE n > 1 /\ what'[e][n - 1] = "head"
      BY <1>1 DEF RecordedWhole
    <3>1. IF what[e][n] = "head" THEN n < Len(out[e]) /\ IsRecorded(e, n)
          ELSE n > 1 /\ what[e][n - 1] = "head"
      BY <2>3 DEF RecordInv, RecordedWhole
    <3>2. n > 1 => n - 1 \in 1..Len(out[e])
      BY <2>2
    <3>3. what'[e][n] = what[e][n] /\ (n > 1 => what'[e][n - 1] = what[e][n - 1])
      BY <1>5, <3>2
    <3> QED BY <2>1, <3>1, <3>3
  <2>4. /\ \A n \in Nat : IsRecorded(e, n) => n \in 1..Len(out[e]) /\ what[e][n] = "head"
        /\ \A m, n \in 1..Len(out[e]) :
             what[e][m] = "head" /\ m <= n /\ IsRecorded(e, n) => IsRecorded(e, m)
    BY DEF RecordInv
  <2>5. /\ \A n \in Nat : IsRecorded(e, n)' => n \in 1..Len(out[e]) /\ what'[e][n] = "head"
        /\ \A m, n \in 1..Len(out[e]) :
             what'[e][m] = "head" /\ m <= n /\ IsRecorded(e, n)' => IsRecorded(e, m)'
    BY <1>5, <2>1, <2>2, <2>4
  <2> QED BY <1>1, <2>3, <2>5
<1> QED BY <1>1, <1>6, <1>7 DEF RecordInv, RecordInOrder

\* A blind pump sends on what it likes: the record is what it was.
LEMMA BlindRecords ==
  ASSUME RelayInv, RecordInv, NEW d \in Dirs, NEW o \in Seq(Nat), Len(o) >= Len(out[d]),
         out' = [out EXCEPT ![d] = o], UNCHANGED <<what, log>>,
         blind' = [blind EXCEPT ![d] = TRUE]
  PROVE  RecordInv'
<1>1. out \in [Dirs -> Seq(Nat)] /\ blind \in [Dirs -> BOOLEAN] /\ Len(out[d]) \in Nat /\ Len(o) \in Nat
  BY LenProperties DEF RelayInv, TypeOK
<1>2. \A e, n : IsRecorded(e, n)' <=> IsRecorded(e, n)
  BY DEF IsRecorded
<1>3. ASSUME NEW e \in Dirs
      PROVE  /\ Framed(e)'
             /\ \A n \in Nat : IsRecorded(e, n)' => n \in 1..Len(out'[e]) /\ what'[e][n] = "head"
             /\ \A m, n \in 1..Len(out'[e]) :
                  what'[e][m] = "head" /\ m <= n /\ IsRecorded(e, n)' => IsRecorded(e, m)'
             /\ ~blind'[e] => RecordedWhole(e)'
  <2>1. Framed(e)'
    BY DEF RecordInv, Framed
  <2>2. CASE e = d
    <3>1. out'[e] = o /\ blind'[e]
      BY <1>1, <2>2
    <3>2. \A n \in Nat : IsRecorded(e, n) => n \in 1..Len(out[d]) /\ what[e][n] = "head"
      BY <2>2 DEF RecordInv
    <3>3. \A m, n \in 1..Len(o) : what[e][m] = "head" /\ m <= n /\ IsRecorded(e, n) => IsRecorded(e, m)
      <4> SUFFICES ASSUME NEW m \in 1..Len(o), NEW n \in 1..Len(o), what[e][m] = "head", m <= n, IsRecorded(e, n)
                   PROVE  IsRecorded(e, m)
        OBVIOUS
      <4>1. n \in 1..Len(out[d]) /\ m \in 1..Len(out[d])
        BY <1>1, <3>2
      <4> QED BY <2>2, <4>1 DEF RecordInv
    <3> QED BY <1>1, <1>2, <2>1, <3>1, <3>2, <3>3
  <2>3. CASE e # d
    <3>1. out'[e] = out[e] /\ blind'[e] = blind[e]
      BY <1>1, <2>3
    <3>2. ~blind[e] => RecordedWhole(e)'
      BY <1>2, <3>1 DEF RecordInv, RecordedWhole
    <3> QED BY <1>2, <2>1, <3>1, <3>2 DEF RecordInv
  <2> QED BY <2>2, <2>3
<1>4. RecordInOrder'
  BY DEF RecordInv, RecordInOrder
<1> QED BY <1>3, <1>4 DEF RecordInv

\* A frame is sent on and recorded: its head comes after all that are on record.
LEMMA SendRecords ==
  ASSUME RelayInv, RecordInv, NEW d \in Dirs, NEW b \in Seq(Nat),
         Continues(out[d], b, Len(what[d])), ~blind[d],
         StartsWithFrame(d, b), SendFrame(d, b), UNCHANGED what
  PROVE  RecordInv'
<1> DEFINE L == Len(out[d])
<1>1. /\ out \in [Dirs -> Seq(Nat)] /\ out[d] \in Seq(Nat) /\ log \in Seq(Records)
      /\ what[d] \in Seq(Kinds) /\ Len(what[d]) \in Nat /\ DOMAIN what[d] = 1..Len(what[d])
      /\ Len(log) \in Nat /\ DOMAIN log = 1..Len(log)
  BY LenProperties DEF RelayInv, TypeOK, Records
<1>2. /\ L \in Nat /\ Len(b) \in Nat /\ Len(b) >= 2 /\ L + Len(b) <= Len(what[d])
      /\ b[1] = L + 1 /\ what[d][L + 1] = "head"
  BY DEF Continues, StartsWithFrame
<1>3. L + 2 \in 1..Len(what[d]) /\ what[d][L + 2] = "tail"
  <2>1. L + 2 \in 1..Len(what[d]) /\ L + 2 > 1 /\ (L + 2) - 1 = L + 1
    BY <1>1, <1>2
  <2>2. (what[d][L + 2] = "tail") = (L + 2 > 1 /\ what[d][(L + 2) - 1] = "head")
    BY <1>1, <2>1 DEF RecordInv, Framed
  <2> QED BY <1>2, <2>1, <2>2
<1>4. /\ out' = [out EXCEPT ![d] = out[d] \o SubSeq(b, 1, 2)]
      /\ log' = Append(log, <<d, L + 1>>) /\ blind' = blind
  BY <1>2 DEF SendFrame
<1>5. Len(out'[d]) = L + 2
  <2>1. SubSeq(b, 1, 2) \in Seq(Nat) /\ Len(SubSeq(b, 1, 2)) = 2
    <3>1. \A i \in 1..2 : b[i] \in Nat
      BY <1>2, ElementOfSeq
    <3> QED BY <3>1, SubSeqProperties
  <2>2. Len(out[d] \o SubSeq(b, 1, 2)) = L + 2
    BY <1>1, <2>1, ConcatProperties
  <2> QED BY <1>1, <1>4, <2>2
<1>6. /\ log' \in Seq(Records) /\ Len(log') = Len(log) + 1 /\ DOMAIN log' = 1..Len(log) + 1
      /\ \A i \in 1..Len(log) : log'[i] = log[i]
      /\ log'[Len(log) + 1] = <<d, L + 1>>
  <2>1. <<d, L + 1>> \in Records
    BY <1>2 DEF Records
  <2> QED BY <1>1, <1>4, <2>1, AppendProperties, LenProperties
<1> HIDE DEF L
<1>7. \A e, n : IsRecorded(e, n)' <=> IsRecorded(e, n) \/ <<e, n>> = <<d, L + 1>>
  <2> SUFFICES ASSUME NEW e, NEW n
               PROVE  (\E j \in 1..Len(log) + 1 : log'[j] = <<e, n>>)
                        <=> (\E j \in 1..Len(log) : log[j] = <<e, n>>) \/ <<e, n>> = <<d, L + 1>>
    BY <1>1, <1>6 DEF IsRecorded
  <2>1. \A j \in 1..Len(log) + 1 : j \in 1..Len(log) \/ j = Len(log) + 1
    BY <1>1
  <2>2. 1..Len(log) \subseteq 1..Len(log) + 1 /\ Len(log) + 1 \in 1..Len(log) + 1
    BY <1>1
  <2> QED BY <1>6, <2>1, <2>2
<1>8. /\ \A n \in Nat : IsRecorded(d, n) => n \in 1..L /\ what[d][n] = "head"
      /\ RecordedWhole(d) /\ RecordInOrder
  BY DEF RecordInv, L
<1>9. RecordInOrder'
  <2> SUFFICES ASSUME NEW i \in 1..Len(log) + 1, NEW j \in 1..Len(log) + 1, i < j,
                      log'[i][1] = log'[j][1]
               PROVE  log'[i][2] < log'[j][2]
    BY <1>6 DEF RecordInOrder
  <2>1. i \in 1..Len(log)
    BY <1>1
  <2>2. CASE j \in 1..Len(log)
    BY <1>1, <1>6, <1>8, <2>1, <2>2 DEF RecordInOrder
  <2>3. CASE j = Len(log) + 1
    <3>1. log[i] \in Records /\ log[i][1] = d
      BY <1>1, <1>6, <2>1, <2>3, ElementOfSeq
    <3>2. log[i] = <<d, log[i][2]>> /\ log[i][2] \in Nat
      BY <3>1 DEF Records
    <3>3. IsRecorded(d, log[i][2])
      BY <1>1, <2>1, <3>2 DEF IsRecorded
    <3> QED BY <1>2, <1>6, <1>8, <2>1, <2>3, <3>2, <3>3 DEF L
  <2> QED BY <1>1, <2>2, <2>3
<1>10. ASSUME NEW e \in Dirs
       PROVE  /\ Framed(e)'
              /\ \A n \in Nat : IsRecorded(e, n)' => n \in 1..Len(out'[e]) /\ what'[e][n] = "head"
              /\ \A m, n \in 1..Len(out'[e]) :
                   what'[e][m] = "head" /\ m <= n /\ IsRecorded(e, n)' => IsRecorded(e, m)'
              /\ ~blind'[e] => RecordedWhole(e)'
  <2>1. Framed(e)'
    BY DEF RecordInv, Framed
  <2>2. CASE e = d
    <3>1. ASSUME NEW n \in 1..L + 2
          PROVE  IF what[d][n] = "head" THEN n < L + 2 /\ IsRecorded(d, n)'
                 ELSE n > 1 /\ what[d][n - 1] = "head"
      <4>1. CASE n \in 1..L
        <5>1. IF what[d][n] = "head" THEN n < L /\ IsRecorded(d, n)
              ELSE n > 1 /\ what[d][n - 1] = "head"
          BY <1>8, <4>1 DEF RecordedWhole, L
        <5> QED BY <1>2, <1>7, <4>1, <5>1 DEF L
      <4>2. CASE n = L + 1
        BY <1>2, <1>7, <4>2 DEF L
      <4>3. CASE n = L + 2
        BY <1>2, <1>3, <4>3 DEF L
      <4> QED BY <1>2, <4>1, <4>2, <4>3 DEF L
    <3>2. RecordedWhole(d)'
      BY <1>5, <3>1 DEF RecordedWhole
    <3>3. \A n \in Nat : IsRecorded(d, n)' => n \in 1..L + 2 /\ what[d][n] = "head"
      <4> SUFFICES ASSUME NEW n \in Nat, IsRecorded(d, n)' PROVE n \in 1..L + 2 /\ what[d][n] = "head"
        OBVIOUS
      <4>1. CASE IsRecorded(d, n)
        BY <1>2, <1>8, <4>1 DEF L
      <4>2. CASE n = L + 1
        BY <1>2, <4>2 DEF L
      <4> QED BY <1>7, <4>1, <4>2
    <3>4. \A m, n \in 1..L + 2 : what[d][m] = "head" => IsRecorded(d, m)'
      BY <3>1
    <3> QED BY <1>5, <2>1, <2>2, <3>2, <3>3, <3>4
  <2>3. CASE e # d
    <3>1. out'[e] = out[e]
      BY <1>1, <1>4, <2>3
    <3>2. \A n : IsRecorded(e, n)' <=> IsRecorded(e, n)
      BY <1>7, <2>3
    <3>3. /\ \A n \in Nat : IsRecorded(e, n) => n \in 1..Len(out[e]) /\ what[e][n] = "head"
          /\ \A m, n \in 1..Len(out[e]) :
               what[e][m] = "head" /\ m <= n /\ IsRecorded(e, n) => IsRecorded(e, m)
          /\ ~blind[e] => RecordedWhole(e)
      BY DEF RecordInv
    <3>4. ~blind'[e] => RecordedWhole(e)'
      BY <1>4, <3>1, <3>2, <3>3 DEF RecordedWhole
    <3> QED BY <2>1, <3>1, <3>2, <3>3, <3>4
  <2> QED BY <2>2, <2>3
<1> QED BY <1>9, <1>10 DEF RecordInv

\* The inner loop: a frame, a flush, or nothing.
LEMMA CutRecords ==
  ASSUME RelayInv, RecordInv, NEW d \in Dirs, NEW b \in Seq(Nat),
         Continues(out[d], b, Len(what[d])), blind[d] => b = <<>>, Cut(d, b), UNCHANGED what
  PROVE  RecordInv'
<1>1. CASE StartsWithFrame(d, b)
  <2>1. SendFrame(d, b) /\ ~blind[d]
    BY <1>1, EmptySeq DEF Cut, StartsWithFrame
  <2> QED BY <1>1, <2>1, SendRecords
<1>2. CASE ~StartsWithFrame(d, b) /\ Len(b) > BlindLimit
  <2>1. /\ out' = [out EXCEPT ![d] = out[d] \o b] /\ log' = log
        /\ blind' = [blind EXCEPT ![d] = TRUE]
    BY <1>2 DEF Cut, Flush, ringVars
  <2>2. out[d] \o b \in Seq(Nat) /\ Len(out[d] \o b) >= Len(out[d])
    <3>1. out[d] \in Seq(Nat)
      BY DEF RelayInv, TypeOK
    <3> QED BY <3>1, ConcatIsLonger
  <2> QED BY <2>1, <2>2, BlindRecords
<1>3. CASE ~StartsWithFrame(d, b) /\ ~(Len(b) > BlindLimit)
  BY <1>3, NothingRecorded DEF Cut, Wait
<1> QED BY <1>1, <1>2, <1>3

\* Every step keeps it.
LEMMA RecordStep == RelayInv /\ RecordInv /\ [Next]_vars => RecordInv'
<1> SUFFICES ASSUME RelayInv, RecordInv, [Next]_vars PROVE RecordInv'
  OBVIOUS
<1>1. ASSUME NEW d \in Dirs, ReadChunk(d)
      PROVE  RecordInv'
  <2>1. UNCHANGED what
    BY <1>1 DEF ReadChunk
  <2>2. CASE ~blind[d]
    <3>1. Cut(d, Joined(d))
      BY <1>1, <2>2 DEF ReadChunk
    <3>2. Joined(d) \in Seq(Nat) /\ Continues(out[d], Joined(d), Len(what[d]))
      BY JoinedContinues
    <3> QED BY <2>1, <2>2, <3>1, <3>2, CutRecords
  <2>3. CASE blind[d]
    <3>1. /\ out' = [out EXCEPT ![d] = out[d] \o inbox[d]] /\ UNCHANGED <<blind, log>>
      BY <1>1, <2>3 DEF ReadChunk, ringVars
    <3>2. out[d] \in Seq(Nat) /\ inbox[d] \in Seq(Nat) /\ blind \in [Dirs -> BOOLEAN]
      BY DEF RelayInv, TypeOK
    <3>3. blind' = [blind EXCEPT ![d] = TRUE]
      BY <2>3, <3>1, <3>2
    <3>4. out[d] \o inbox[d] \in Seq(Nat) /\ Len(out[d] \o inbox[d]) >= Len(out[d])
      BY <3>2, ConcatIsLonger
    <3> QED BY <2>1, <3>1, <3>3, <3>4, BlindRecords
  <2> QED BY <2>2, <2>3
<1>2. ASSUME NEW d \in Dirs, Drained(d)
      PROVE  RecordInv'
  <2>1. UNCHANGED what
    BY <1>2 DEF Drained
  <2>2. CASE pump[d] = "sending"
    <3>1. Cut(d, buf[d]) /\ (blind[d] => buf[d] = <<>>)
      BY <1>2, <2>2 DEF Drained, RelayInv, TypeOK
    <3>2. buf[d] \in Seq(Nat) /\ Continues(out[d], buf[d], Len(what[d]))
      BY BufContinues
    <3> QED BY <2>1, <3>1, <3>2, CutRecords
  <2>3. CASE pump[d] = "flushing"
    BY <1>2, <2>1, <2>3, NothingRecorded DEF Drained, Wait
  <2>4. CASE pump[d] = "passing"
    BY <1>2, <2>1, <2>4, NothingRecorded DEF Drained, ringVars
  <2> QED BY <1>2, <2>2, <2>3, <2>4 DEF Drained
<1>3. ASSUME NEW d \in Dirs, DrainFails(d) \/ ReadFails(d) \/ EndOfFile(d) \/ IdleTimeout(d)
      PROVE  RecordInv'
  BY <1>3, NothingRecorded DEF DrainFails, ReadFails, EndOfFile, IdleTimeout, EndPump,
                               streamVars, ringVars
<1>4. ASSUME NEW d \in Dirs, NEW kind \in Kinds, Arrive(d, kind)
      PROVE  RecordInv'
  BY <1>4, ArriveRecords
<1>5. ASSUME NEW s \in Sides, Closes(s) \/ Resets(s) \/ Stalls(s)
      PROVE  RecordInv'
  BY <1>5, NothingRecorded DEF Closes, Resets, Stalls, OnPeer, streamVars, ringVars
<1>6. CASE CloseSession \/ UNCHANGED vars
  BY <1>6, NothingRecorded DEF CloseSession, vars, streamVars, ringVars
<1> QED BY <1>1, <1>2, <1>3, <1>4, <1>5, <1>6 DEF Next, Step

\* The inductive invariant of the record holds in every session.
THEOREM RecordInvHolds == Spec => []RecordInv
<1>1. Init => RecordInv
  <2> SUFFICES ASSUME Init PROVE RecordInv
    OBVIOUS
  <2>1. log = <<>> /\ DOMAIN log = {}
    BY DEF Init
  <2>2. \A d \in Dirs : what[d] = <<>> /\ out[d] = <<>> /\ Len(out[d]) = 0 /\ DOMAIN what[d] = {}
    BY DEF Init
  <2> QED BY <2>1, <2>2 DEF RecordInv, RecordInOrder, Framed, IsRecorded, RecordedWhole
<1> QED BY <1>1, RelayInvHolds, RecordStep, PTL DEF Spec

\* The frames on record are those the receiver got, in their order, and it got them
\* whole, until the direction is blind; what was recorded by then stays true.
THEOREM RecordIsTruthfulHolds == Spec => []RecordIsTruthful
<1>1. RelayInv /\ RecordInv => RecordIsTruthful
  <2> SUFFICES ASSUME RelayInv, RecordInv PROVE RecordIsTruthful
    OBVIOUS
  <2>1. ASSUME NEW d \in Dirs
        PROVE  IF blind[d]
               THEN /\ Recorded(d) \subseteq Heads(d)
                    /\ \A r \in Recorded(d), h \in Heads(d) : h <= r => h \in Recorded(d)
               ELSE Recorded(d) = Heads(d) /\ WholeFrames(d)
    <3> DEFINE L == Len(out[d])
    <3>1. /\ out[d] \in Seq(Nat) /\ DOMAIN out[d] = 1..L /\ L \in Nat
          /\ \A i \in 1..L : out[d][i] = i
      BY BufContinues, LenProperties DEF RelayInv, TypeOK, Continues
    <3>2. /\ \A n \in Nat : IsRecorded(d, n) => n \in 1..L /\ what[d][n] = "head"
          /\ \A m, n \in 1..L : what[d][m] = "head" /\ m <= n /\ IsRecorded(d, n) => IsRecorded(d, m)
          /\ ~blind[d] => RecordedWhole(d)
      BY DEF RecordInv
    <3>3. ASSUME ~blind[d], NEW n \in 1..L
          PROVE  IF what[d][n] = "head" THEN n < L /\ IsRecorded(d, n)
                 ELSE n > 1 /\ what[d][n - 1] = "head"
      BY <3>2, <3>3 DEF RecordedWhole
    <3> HIDE DEF L
    <3>4. \A n : n \in Recorded(d) <=> n \in Nat /\ IsRecorded(d, n)
      <4>1. log \in Seq(Records) /\ \A j \in DOMAIN log : log[j] \in Records
        BY ElementOfSeq, LenProperties DEF RelayInv, TypeOK, Records
      <4>2. \A j \in DOMAIN log : log[j] = <<log[j][1], log[j][2]>> /\ log[j][2] \in Nat
        BY <4>1 DEF Records
      <4> QED BY <4>2 DEF Recorded, IsRecorded
    <3>5. \A n : n \in Heads(d) <=> n \in 1..L /\ what[d][n] = "head"
      BY <3>1 DEF Heads, Kind
    <3>6. CASE blind[d]
      <4>1. Recorded(d) \subseteq Heads(d)
        BY <3>2, <3>4, <3>5
      <4>2. \A r \in Recorded(d), h \in Heads(d) : h <= r => h \in Recorded(d)
        BY <3>1, <3>2, <3>4, <3>5
      <4> QED BY <3>6, <4>1, <4>2
    <3>7. CASE ~blind[d]
      <4>1. \A n : n \in Recorded(d) <=> n \in Heads(d)
        BY <3>1, <3>2, <3>3, <3>4, <3>5, <3>7
      <4>2. Recorded(d) = Heads(d)
        BY <4>1 DEF Recorded, Heads
      <4>3. WholeFrames(d)
        <5> SUFFICES ASSUME NEW i \in 1..L
                     PROVE  IF Kind(d, i) = "head" THEN i + 1 \in 1..L ELSE i > 1 /\ Kind(d, i - 1) = "head"
          BY <3>1 DEF WholeFrames
        <5>1. Kind(d, i) = what[d][i] /\ (i > 1 => Kind(d, i - 1) = what[d][i - 1])
          BY <3>1 DEF Kind
        <5>2. i < L => i + 1 \in 1..L
          BY <3>1
        <5> QED BY <3>3, <3>7, <5>1, <5>2
      <4> QED BY <3>7, <4>2, <4>3
    <3> QED BY <3>6, <3>7
  <2> QED BY <2>1 DEF RecordIsTruthful, RecordInv
<1> QED BY <1>1, RelayInvHolds, RecordInvHolds, PTL
=============================================================================
