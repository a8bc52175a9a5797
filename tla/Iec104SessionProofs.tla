------------------------- MODULE Iec104SessionProofs -------------------------
(***************************************************************************)
(* Proofs about the reads of the iec104 adapter, for every modulus of the  *)
(* sequence numbers, every window of the station and of the adapter, every *)
(* length of the answers and any number of frames nobody asked for.        *)
(***************************************************************************)
EXTENDS Iec104Session, SequenceTheorems, TLAPS

-----------------------------------------------------------------------------
(* Sequences, numbers and frames                                            *)

\* A frame sent: the one before it keep their places.
LEMMA Appended ==
  ASSUME NEW S, NEW s \in Seq(S), NEW e \in S
  PROVE  /\ Len(s) \in Nat /\ DOMAIN s = 1..Len(s)
         /\ Append(s, e) \in Seq(S) /\ DOMAIN Append(s, e) = 1..Len(s) + 1
         /\ \A i \in 1..Len(s) : Append(s, e)[i] = s[i]
         /\ Append(s, e)[Len(s) + 1] = e
<1>1. Len(s) \in Nat /\ DOMAIN s = 1..Len(s)
  BY LenProperties
<1>2. /\ Append(s, e) \in Seq(S) /\ Len(Append(s, e)) = Len(s) + 1
      /\ \A i \in 1..Len(s) : Append(s, e)[i] = s[i]
      /\ Append(s, e)[Len(s) + 1] = e
  BY AppendProperties
<1>3. DOMAIN Append(s, e) = 1..Len(Append(s, e))
  BY <1>2, LenProperties
<1> QED BY <1>1, <1>2, <1>3

\* A frame taken: the others move up by one place.
LEMMA Shortened ==
  ASSUME NEW S, NEW s \in Seq(S), s # <<>>
  PROVE  /\ Len(s) \in Nat \ {0} /\ DOMAIN s = 1..Len(s)
         /\ Head(s) = s[1] /\ Head(s) \in S
         /\ Tail(s) \in Seq(S) /\ Len(Tail(s)) = Len(s) - 1 /\ DOMAIN Tail(s) = 1..Len(s) - 1
         /\ \A i \in 1..Len(s) - 1 : Tail(s)[i] = s[i + 1]
<1>1. Len(s) \in Nat /\ DOMAIN s = 1..Len(s) /\ Len(s) # 0
  BY LenProperties, EmptySeq
<1>2. /\ Head(s) = s[1] /\ Head(s) \in S
      /\ Tail(s) \in Seq(S) /\ Len(Tail(s)) = Len(s) - 1
      /\ \A i \in 1..Len(Tail(s)) : Tail(s)[i] = s[i + 1]
  BY HeadTailProperties
<1>3. DOMAIN Tail(s) = 1..Len(Tail(s))
  BY <1>2, LenProperties
<1> QED BY <1>1, <1>2, <1>3

\* The next number is a number.
LEMMA NextSeqType == \A n \in SeqNos : NextSeq(n) \in SeqNos
BY ModulusAssumption DEF SeqNos, NextSeq

LEMMA FrameTypes ==
  /\ \A s, r \in SeqNos, w \in Kinds : Iframe(s, r, w) \in Frames
  /\ \A r \in SeqNos : Sframe(r) \in Frames
  /\ \A f \in {"STARTDT_ACT", "STARTDT_CON", "STOPDT_CON", "TESTFR_ACT", "TESTFR_CON"} : Uframe(f) \in Frames
  /\ Garbage \in Frames
BY DEF Frames, Iframe, Sframe

LEMMA FrameParts ==
  /\ \A f \in Frames : f.fmt = "I" => f.ns \in SeqNos /\ f.nr \in SeqNos /\ f.what \in Kinds
  /\ \A f \in Frames : f.fmt = "S" => f.nr \in SeqNos
BY DEF Frames, Uframe, Garbage

LEMMA FrameForms ==
  /\ \A s, r, w : /\ Iframe(s, r, w).fmt = "I" /\ Iframe(s, r, w).ns = s
                  /\ Iframe(s, r, w).nr = r /\ Iframe(s, r, w).what = w
  /\ \A r : Sframe(r).fmt = "S"
  /\ \A u : Uframe(u).fmt = "U" /\ Uframe(u).what = u
  /\ Garbage.fmt = "bad"
BY DEF Iframe, Sframe, Uframe, Garbage

-----------------------------------------------------------------------------
(* What a frame more or less on the way means                               *)

\* A frame that is no request and does not start the transfer.
LEMMA UpGrows ==
  ASSUME TypeOK, RequestInv, NEW f \in Frames, f.fmt # "I", f # Uframe("STARTDT_ACT"),
         up' = Append(up, f), dev' = dev
  PROVE  /\ up' \in Seq(Frames) /\ RequestInv'
         /\ NoRequest(up) <=> NoRequest(up')
         /\ \A i \in DOMAIN up' : up'[i] = Uframe("STARTDT_ACT") => i \in DOMAIN up /\ up[i] = up'[i]
<1>1. /\ Len(up) \in Nat /\ DOMAIN up = 1..Len(up)
      /\ up' \in Seq(Frames) /\ DOMAIN up' = 1..Len(up) + 1
      /\ \A i \in 1..Len(up) : up'[i] = up[i]
      /\ up'[Len(up) + 1] = f
  BY Appended DEF TypeOK
<1>2. \A i \in DOMAIN up' : (i \in DOMAIN up /\ up'[i] = up[i]) \/ up'[i] = f
  BY <1>1
<1>3. \A i \in DOMAIN up : i \in DOMAIN up' /\ up'[i] = up[i]
  BY <1>1
<1>4. RequestInv'
  BY <1>2 DEF RequestInv
<1>5. NoRequest(up) <=> NoRequest(up')
  BY <1>2, <1>3 DEF NoRequest
<1> QED BY <1>1, <1>2, <1>4, <1>5

\* A frame the adapter takes.
LEMMA DownShrinks ==
  ASSUME TypeOK, down # <<>>, Read
  PROVE  /\ down' \in Seq(Frames) /\ Head(down) \in Frames /\ Head(down) = down[1] /\ 1 \in DOMAIN down
         /\ \A i \in DOMAIN down' : i \in Nat \ {0} /\ i + 1 \in DOMAIN down /\ down'[i] = down[i + 1]
         /\ OnlyPoints(down) => OnlyPoints(down')
         /\ NoTerm(down) => NoTerm(down')
         /\ \A n \in DOMAIN down : TermAt(down, n) /\ n # 1 => n - 1 \in DOMAIN down' /\ TermAt(down', n - 1)
         /\ TermAt(down, 1) => OnlyPoints(down')
<1>1. /\ Len(down) \in Nat \ {0} /\ DOMAIN down = 1..Len(down)
      /\ Head(down) = down[1] /\ Head(down) \in Frames
      /\ down' \in Seq(Frames) /\ DOMAIN down' = 1..Len(down) - 1
      /\ \A i \in 1..Len(down) - 1 : down'[i] = down[i + 1]
  BY Shortened DEF TypeOK, Read
<1>2. \A i \in DOMAIN down' : i \in Nat \ {0} /\ i + 1 \in DOMAIN down /\ down'[i] = down[i + 1]
  BY <1>1
<1>3. OnlyPoints(down) => OnlyPoints(down')
  BY <1>2 DEF OnlyPoints
<1>4. NoTerm(down) => NoTerm(down')
  BY <1>2 DEF NoTerm
<1>5. ASSUME NEW n \in DOMAIN down, TermAt(down, n), n # 1
      PROVE  n - 1 \in DOMAIN down' /\ TermAt(down', n - 1)
  <2>1. n - 1 \in DOMAIN down' /\ down'[n - 1] = down[n]
    BY <1>1, <1>5
  <2>2. \A i \in DOMAIN down' : i < n - 1 => i + 1 < n
    BY <1>1, <1>2
  <2>3. \A i \in DOMAIN down' : i > n - 1 => i + 1 > n
    BY <1>1, <1>2
  <2> QED BY <1>2, <1>5, <2>1, <2>2, <2>3 DEF TermAt
<1>6. TermAt(down, 1) => OnlyPoints(down')
  <2>1. \A i \in DOMAIN down' : i + 1 > 1
    BY <1>2
  <2> QED BY <1>2, <2>1 DEF TermAt, OnlyPoints
<1> QED BY <1>1, <1>2, <1>3, <1>4, <1>5, <1>6

\* A frame the station takes.
LEMMA UpShrinks ==
  ASSUME TypeOK, RequestInv, up # <<>>, up' = Tail(up)
  PROVE  /\ up' \in Seq(Frames) /\ Head(up) \in Frames /\ Head(up) = up[1] /\ 1 \in DOMAIN up
         /\ \A i \in DOMAIN up' : i \in Nat \ {0} /\ i + 1 \in DOMAIN up /\ up'[i] = up[i + 1]
         /\ NoRequest(up) => NoRequest(up')
         /\ Head(up).fmt = "I" => NoRequest(up')
         /\ Head(up).fmt # "I" /\ NoRequest(up') => NoRequest(up)
<1>1. /\ Len(up) \in Nat \ {0} /\ DOMAIN up = 1..Len(up)
      /\ Head(up) = up[1] /\ Head(up) \in Frames
      /\ up' \in Seq(Frames) /\ DOMAIN up' = 1..Len(up) - 1
      /\ \A i \in 1..Len(up) - 1 : up'[i] = up[i + 1]
  BY Shortened DEF TypeOK
<1>2. \A i \in DOMAIN up' : i \in Nat \ {0} /\ i + 1 \in DOMAIN up /\ up'[i] = up[i + 1]
  BY <1>1
<1>3. NoRequest(up) => NoRequest(up')
  BY <1>2 DEF NoRequest
<1>4. Head(up).fmt = "I" => NoRequest(up')
  <2>1. \A i \in DOMAIN up' : i + 1 # 1
    BY <1>2
  <2> QED BY <1>1, <1>2, <2>1 DEF NoRequest, RequestInv
<1>5. Head(up).fmt # "I" /\ NoRequest(up') => NoRequest(up)
  <2>1. \A i \in DOMAIN up : i = 1 \/ (i - 1 \in DOMAIN up' /\ up'[i - 1] = up[i])
    BY <1>1
  <2> QED BY <1>1, <2>1 DEF NoRequest
<1> QED BY <1>1, <1>2, <1>3, <1>4, <1>5

\* A frame the station sends.
LEMMA DownGrows ==
  ASSUME TypeOK, NEW f \in Frames, down' = Append(down, f)
  PROVE  /\ down' \in Seq(Frames)
         /\ \A i \in DOMAIN down' : (i \in DOMAIN down /\ down'[i] = down[i]) \/ down'[i] = f
         /\ (f.fmt = "I" => f.what = "point") =>
              /\ OnlyPoints(down) => OnlyPoints(down')
              /\ \A n \in DOMAIN down : TermAt(down, n) => n \in DOMAIN down' /\ TermAt(down', n)
         /\ (f.fmt = "I" => f.what # "term") /\ NoTerm(down) => NoTerm(down')
         /\ f.fmt = "I" /\ f.what = "term" /\ NoTerm(down) => \E n \in DOMAIN down' : TermAt(down', n)
<1>1. /\ Len(down) \in Nat /\ DOMAIN down = 1..Len(down)
      /\ down' \in Seq(Frames) /\ DOMAIN down' = 1..Len(down) + 1
      /\ \A i \in 1..Len(down) : down'[i] = down[i]
      /\ down'[Len(down) + 1] = f
  BY Appended DEF TypeOK
<1>2. \A i \in DOMAIN down' : (i \in DOMAIN down /\ down'[i] = down[i]) \/ (i = Len(down) + 1 /\ down'[i] = f)
  BY <1>1
<1>3. ASSUME f.fmt = "I" => f.what = "point"
      PROVE  /\ OnlyPoints(down) => OnlyPoints(down')
             /\ \A n \in DOMAIN down : TermAt(down, n) => n \in DOMAIN down' /\ TermAt(down', n)
  <2>1. OnlyPoints(down) => OnlyPoints(down')
    BY <1>2, <1>3 DEF OnlyPoints
  <2>2. ASSUME NEW n \in DOMAIN down, TermAt(down, n)
        PROVE  n \in DOMAIN down' /\ TermAt(down', n)
    <3>1. n \in DOMAIN down' /\ down'[n] = down[n] /\ ~(Len(down) + 1 < n)
      BY <1>1
    <3> QED BY <1>2, <1>3, <2>2, <3>1 DEF TermAt
  <2> QED BY <2>1, <2>2
<1>4. (f.fmt = "I" => f.what # "term") /\ NoTerm(down) => NoTerm(down')
  BY <1>2 DEF NoTerm
<1>5. ASSUME f.fmt = "I", f.what = "term", NoTerm(down)
      PROVE  TermAt(down', Len(down) + 1) /\ Len(down) + 1 \in DOMAIN down'
  <2>1. \A i \in DOMAIN down' : ~(i > Len(down) + 1)
    BY <1>1
  <2>2. \A i \in DOMAIN down' : i < Len(down) + 1 => i \in DOMAIN down /\ down'[i] = down[i]
    BY <1>1
  <2> QED BY <1>1, <1>5, <2>1, <2>2 DEF TermAt, NoTerm
<1> QED BY <1>1, <1>2, <1>3, <1>4, <1>5

\* The number the station has seen acknowledged is all that Acknowledge changes.
Stations ==
  [alive : BOOLEAN, started : BOOLEAN, vs : SeqNos, vr : SeqNos,
   va : SeqNos, todo : Seq(Kinds), extra : 0..MaxUnsolicited]
LEMMA AcknowledgeKeeps ==
  ASSUME NEW d \in Stations, NEW r \in SeqNos
  PROVE  /\ Acknowledge(d, r) \in Stations
         /\ Acknowledge(d, r).started = d.started /\ Acknowledge(d, r).vr = d.vr
         /\ Acknowledge(d, r).todo = d.todo
BY DEF Acknowledge, Stations

\* An answer: its end comes once, and last.
LEMMA AnswerShape ==
  ASSUME NEW a \in Answers
  PROVE  a \in Seq(Kinds) /\ EndsInTerm(a)
<1>0. PICK n \in 0..MaxPoints : \E p \in [1..n -> {"point", "odd"}] : a = <<"con">> \o p \o <<"term">>
  BY DEF Answers
<1>1. PICK p \in [1..n -> {"point", "odd"}] : a = <<"con">> \o p \o <<"term">>
  BY <1>0
<1>2. n \in Nat
  BY BoundsAssumption
<1>3. p \in Seq(Kinds) /\ Len(p) = n /\ \A i \in 1..n : p[i] # "term"
  BY <1>1, <1>2 DEF Kinds
<1> DEFINE b == <<"con">> \o p
<1>4. <<"con">> \in Seq(Kinds) /\ <<"term">> \in Seq(Kinds) /\ Len(<<"con">>) = 1 /\ Len(<<"term">>) = 1
  BY DEF Kinds
<1>5. /\ b \in Seq(Kinds) /\ Len(b) = 1 + n
      /\ \A i \in 1..1 + n : b[i] = IF i <= 1 THEN <<"con">>[i] ELSE p[i - 1]
  BY <1>2, <1>3, <1>4, ConcatProperties
<1>6. \A i \in 1..1 + n : b[i] # "term"
  BY <1>2, <1>3, <1>5
<1> HIDE DEF b
<1>7. a = b \o <<"term">>
  BY <1>1 DEF b
<1>8. /\ a \in Seq(Kinds) /\ Len(a) = 2 + n
      /\ \A i \in 1..2 + n : a[i] = IF i <= 1 + n THEN b[i] ELSE <<"term">>[i - (1 + n)]
  BY <1>2, <1>4, <1>5, <1>7, ConcatProperties
<1>9. DOMAIN a = 1..2 + n /\ a # <<>>
  BY <1>2, <1>8, LenProperties, EmptySeq
<1>10. \A i \in 1..2 + n : a[i] = "term" <=> i = 2 + n
  BY <1>2, <1>6, <1>8
<1> QED BY <1>8, <1>9, <1>10 DEF EndsInTerm

-----------------------------------------------------------------------------
(* The steps of a read                                                      *)

\* A connection from the pool, or a fresh one.
LEMMA BeginKeeps ==
  ASSUME SessionInv, Begin
  PROVE  SessionInv'
<1>1. call = "out" /\ conn' = "leased" /\ call' = "begin" /\ alarm' = FALSE
  BY DEF Begin
<1>2. local' = [tx |-> meta'.tx, rx |-> meta'.rx, unacked |-> 0]
  BY DEF Begin
<1>3. CASE Reuse
  <2>1. conn = "pooled" /\ UNCHANGED <<meta, up, down, dev, got, acked>>
    BY <1>3 DEF Reuse, history
  <2>2. TypeOK'
    BY <1>1, <1>2, <2>1 DEF SessionInv, TypeOK
  <2>3. RequestInv' /\ StartInv'
    BY <2>1 DEF SessionInv, RequestInv, StartInv
  <2>4. AllAnswered /\ meta.tx = dev.vr /\ meta.started /\ dev.started
    BY <1>1, <2>1 DEF SessionInv, CallInv
  <2>5. AllAnswered' /\ local'.tx = meta'.tx
    BY <1>2, <2>1, <2>4 DEF AllAnswered
  <2> QED BY <1>1, <2>1, <2>2, <2>3, <2>4, <2>5 DEF SessionInv, CallInv
<1>4. CASE Connect
  <2>1. /\ meta' = [started |-> FALSE, tx |-> 0, rx |-> 0] /\ up' = <<>> /\ down' = <<>>
        /\ dev' = [alive |-> TRUE, started |-> FALSE, vs |-> 0, vr |-> 0, va |-> 0,
                   todo |-> <<>>, extra |-> MaxUnsolicited]
        /\ got' = 0 /\ acked' = 0
    BY <1>4 DEF Connect, NewMeta, FreshStation
  <2>2. 0 \in SeqNos /\ MaxUnsolicited \in 0..MaxUnsolicited
    BY ModulusAssumption, BoundsAssumption DEF SeqNos
  <2>3. TypeOK'
    <3>1. <<>> \in Seq(Kinds) /\ up' \in Seq(Frames) /\ down' \in Seq(Frames)
      BY <2>1, EmptySeq
    <3>2. dev' \in Stations
      BY <2>1, <2>2, <3>1 DEF Stations
    <3>3. meta' \in [started : BOOLEAN, tx : SeqNos, rx : SeqNos]
      BY <2>1, <2>2
    <3>4. local' \in [tx : SeqNos, rx : SeqNos, unacked : Nat]
      BY <1>2, <2>1, <2>2
    <3> QED BY <1>1, <2>1, <2>2, <3>1, <3>2, <3>3, <3>4 DEF TypeOK, Stations
  <2>4. DOMAIN up' = {} /\ DOMAIN down' = {}
    BY <2>1
  <2>5. RequestInv' /\ StartInv'
    BY <2>4 DEF RequestInv, StartInv
  <2>6. AllAnswered'
    BY <2>1, <2>4 DEF AllAnswered, NoRequest, OnlyPoints
  <2>7. meta'.tx = dev'.vr /\ local'.tx = meta'.tx /\ ~meta'.started /\ ~dev'.started
    BY <1>2, <2>1
  <2> QED BY <1>1, <2>3, <2>4, <2>5, <2>6, <2>7 DEF SessionInv, CallInv
<1> QED BY <1>3, <1>4 DEF Begin

\* The adapter asks for the transfer to start.
LEMMA StartTransferKeeps ==
  ASSUME SessionInv, StartTransfer
  PROVE  SessionInv'
<1> DEFINE act == Uframe("STARTDT_ACT")
<1>1. /\ call = "begin" /\ ~meta.started /\ call' = "start"
      /\ up' = Append(up, act)
      /\ UNCHANGED <<conn, meta, local, alarm, down, dev, got, acked>>
  BY DEF StartTransfer, Send, history
<1>2. act \in Frames /\ act.fmt = "U"
  BY FrameTypes, FrameForms
<1>3. /\ Len(up) \in Nat /\ DOMAIN up = 1..Len(up)
      /\ up' \in Seq(Frames) /\ DOMAIN up' = 1..Len(up) + 1
      /\ \A i \in 1..Len(up) : up'[i] = up[i]
      /\ up'[Len(up) + 1] = act
  BY <1>1, <1>2, Appended DEF SessionInv, TypeOK
<1>4. \A i \in DOMAIN up' : (i \in DOMAIN up /\ up'[i] = up[i]) \/ (i = Len(up) + 1 /\ up'[i] = act)
  BY <1>3
<1>5. TypeOK'
  BY <1>1, <1>3 DEF SessionInv, TypeOK
<1>6. RequestInv'
  BY <1>1, <1>2, <1>4 DEF SessionInv, RequestInv
<1>7. conn = "leased" /\ AllAnswered /\ meta.tx = dev.vr /\ local.tx = meta.tx
      /\ ~dev.started /\ \A i \in DOMAIN up : up[i] # act
  BY <1>1 DEF SessionInv, CallInv
<1>8. StartInv'
  <2>1. \A i \in DOMAIN up' : up'[i] = act => i = Len(up) + 1
    BY <1>4, <1>7
  <2> QED BY <1>1, <1>7, <2>1 DEF SessionInv, StartInv
<1>9. AllAnswered'
  BY <1>1, <1>2, <1>4, <1>7 DEF AllAnswered, NoRequest
<1> QED BY <1>1, <1>5, <1>6, <1>7, <1>8, <1>9 DEF SessionInv, CallInv

\* A read that discards its connection.
LEMMA DiscardKeeps ==
  ASSUME SessionInv, Discard
  PROVE  SessionInv'
<1>1. conn' = "none" /\ call' = "out" /\ UNCHANGED <<meta, local, alarm, up, down, dev, got, acked>>
  BY DEF Discard, history
<1>2. TypeOK'
  BY <1>1 DEF SessionInv, TypeOK
<1>3. RequestInv' /\ StartInv'
  BY <1>1 DEF SessionInv, RequestInv, StartInv
<1> QED BY <1>1, <1>2, <1>3 DEF SessionInv, CallInv

\* A frame that is neither a request nor a reply changes nothing on either way.
LEMMA ChannelsKeep ==
  ASSUME SessionInv, UNCHANGED <<conn, call, meta, dev>>,
         down # <<>>, Read, local'.tx = local.tx,
         Head(down).fmt = "I" => call = "collect" /\ Head(down).what # "term",
         \/ up' = up
         \/ \E f \in Frames : f.fmt # "I" /\ f # Uframe("STARTDT_ACT") /\ up' = Append(up, f)
  PROVE  up' \in Seq(Frames) /\ down' \in Seq(Frames) /\ RequestInv' /\ StartInv' /\ CallInv'
<1>1. TypeOK /\ RequestInv /\ StartInv /\ CallInv
  BY DEF SessionInv
<1>2. /\ up' \in Seq(Frames) /\ RequestInv'
      /\ NoRequest(up) <=> NoRequest(up')
      /\ \A i \in DOMAIN up' : up'[i] = Uframe("STARTDT_ACT") => i \in DOMAIN up /\ up[i] = up'[i]
  <2>1. CASE up' = up
    BY <1>1, <2>1 DEF TypeOK, RequestInv
  <2>2. CASE \E f \in Frames : f.fmt # "I" /\ f # Uframe("STARTDT_ACT") /\ up' = Append(up, f)
    BY <1>1, <2>2, UpGrows
  <2> QED BY <2>1, <2>2
<1>3. /\ down' \in Seq(Frames) /\ Head(down) = down[1] /\ 1 \in DOMAIN down
      /\ \A i \in DOMAIN down' : i \in Nat \ {0} /\ i + 1 \in DOMAIN down /\ down'[i] = down[i + 1]
      /\ OnlyPoints(down) => OnlyPoints(down')
      /\ NoTerm(down) => NoTerm(down')
      /\ \A n \in DOMAIN down : TermAt(down, n) /\ n # 1 => n - 1 \in DOMAIN down' /\ TermAt(down', n - 1)
  BY <1>1, DownShrinks
<1>4. StartInv'
  BY <1>1, <1>2, <1>3 DEF StartInv
<1>5. AllAnswered => AllAnswered'
  BY <1>2, <1>3 DEF AllAnswered
<1>6. RequestOnWay => RequestOnWay'
  BY <1>2, <1>3 DEF RequestOnWay
<1>7. AnswerDue => AnswerDue'
  BY <1>2, <1>3 DEF AnswerDue
<1>8. AnswerOnWay => AnswerOnWay'
  <2> SUFFICES ASSUME AnswerOnWay PROVE AnswerOnWay'
    OBVIOUS
  <2>1. PICK n \in DOMAIN down : TermAt(down, n)
    BY DEF AnswerOnWay
  <2>2. n # 1
    BY <1>3, <2>1 DEF TermAt
  <2> QED BY <1>2, <1>3, <2>1, <2>2 DEF AnswerOnWay
<1>9. CallInv'
  BY <1>1, <1>2, <1>5, <1>6, <1>7, <1>8 DEF CallInv
<1> QED BY <1>2, <1>3, <1>4, <1>9

\* A reply to STARTDT_ACT, a test of the link, a stray or a wrong frame.
LEMMA HearStartingKeeps ==
  ASSUME SessionInv, HearStarting
  PROVE  SessionInv'
<1> DEFINE f == Head(down)
<1>0. call = "start" /\ down # <<>> /\ TypeOK /\ RequestInv /\ StartInv /\ CallInv
  BY DEF HearStarting, SessionInv
<1>1. CASE /\ f = Uframe("STARTDT_CON") /\ Read
           /\ meta' = [meta EXCEPT !.started = TRUE] /\ call' = "begin"
           /\ UNCHANGED <<conn, local, alarm, up, dev, history>>
  <2>1. UNCHANGED <<conn, local, alarm, up, dev, got, acked>>
    BY <1>1 DEF history
  <2>2. /\ down' \in Seq(Frames) /\ f = down[1] /\ 1 \in DOMAIN down
        /\ \A i \in DOMAIN down' : i \in Nat \ {0} /\ i + 1 \in DOMAIN down /\ down'[i] = down[i + 1]
        /\ OnlyPoints(down) => OnlyPoints(down')
    BY <1>0, <1>1, DownShrinks
  <2>3. dev.started
    BY <1>0, <1>1, <2>2 DEF StartInv
  <2>4. meta' \in [started : BOOLEAN, tx : SeqNos, rx : SeqNos] /\ meta'.tx = meta.tx /\ meta'.started
    BY <1>0, <1>1 DEF TypeOK
  <2>5. TypeOK'
    BY <1>0, <1>1, <2>1, <2>2, <2>4 DEF TypeOK
  <2>6. RequestInv' /\ StartInv'
    BY <1>0, <2>1, <2>2 DEF RequestInv, StartInv
  <2>7. conn = "leased" /\ AllAnswered /\ meta.tx = dev.vr /\ local.tx = meta.tx
    BY <1>0 DEF CallInv
  <2>8. AllAnswered'
    BY <2>1, <2>2, <2>7 DEF AllAnswered
  <2>9. CallInv'
    BY <1>1, <2>1, <2>3, <2>4, <2>7, <2>8 DEF CallInv
  <2> QED BY <2>5, <2>6, <2>9 DEF SessionInv
<1>2. CASE /\ f = Uframe("TESTFR_ACT") /\ Read /\ Send(Uframe("TESTFR_CON"))
           /\ UNCHANGED <<client, dev, history>>
  <2>1. UNCHANGED <<conn, call, meta, local, alarm, dev, got, acked>>
    BY <1>2 DEF client, history
  <2>2. /\ Uframe("TESTFR_CON") \in Frames /\ Uframe("TESTFR_CON").fmt # "I" /\ f.fmt # "I"
        /\ Uframe("TESTFR_CON") # Uframe("STARTDT_ACT") /\ up' = Append(up, Uframe("TESTFR_CON"))
    BY <1>2, FrameTypes, FrameForms DEF Send
  <2>3. up' \in Seq(Frames) /\ down' \in Seq(Frames) /\ RequestInv' /\ StartInv' /\ CallInv'
    BY <1>0, <1>2, <2>1, <2>2, ChannelsKeep
  <2> QED BY <1>0, <2>1, <2>3 DEF SessionInv, TypeOK
<1>3. CASE f = Uframe("STOPDT_CON") /\ Read /\ UNCHANGED <<client, up, dev, history>>
  <2>1. UNCHANGED <<conn, call, meta, local, alarm, up, dev, got, acked>>
    BY <1>3 DEF client, history
  <2>2. f.fmt # "I"
    BY <1>3, FrameForms
  <2>3. up' \in Seq(Frames) /\ down' \in Seq(Frames) /\ RequestInv' /\ StartInv' /\ CallInv'
    BY <1>0, <1>3, <2>1, <2>2, ChannelsKeep
  <2> QED BY <1>0, <2>1, <2>3 DEF SessionInv, TypeOK
<1>4. CASE Discard
  BY <1>4, DiscardKeeps
<1> QED BY <1>1, <1>2, <1>3, <1>4 DEF HearStarting

\* The request is sent, with the number the station expects.
LEMMA InterrogateKeeps ==
  ASSUME SessionInv, Interrogate
  PROVE  SessionInv'
<1> DEFINE f == Iframe(local.tx, local.rx, "act")
<1>0. TypeOK /\ RequestInv /\ StartInv /\ CallInv
  BY DEF SessionInv
<1>1. /\ call = "begin" /\ meta.started /\ call' = "collect"
      /\ up' = Append(up, f) /\ acked' = local.rx
      /\ local' = [local EXCEPT !.tx = NextSeq(local.tx)]
      /\ UNCHANGED <<conn, meta, alarm, down, dev, got>>
  BY DEF Interrogate, Send
<1>2. conn = "leased" /\ AllAnswered /\ local.tx = dev.vr /\ dev.started
  BY <1>0, <1>1 DEF CallInv
<1>3. f \in Frames /\ f.fmt = "I" /\ f.ns = dev.vr /\ f # Uframe("STARTDT_ACT")
  <2>1. local.tx \in SeqNos /\ local.rx \in SeqNos /\ "act" \in Kinds
    BY <1>0 DEF TypeOK, Kinds
  <2> QED BY <1>2, <2>1, FrameTypes, FrameForms
<1> HIDE DEF f
<1>4. /\ Len(up) \in Nat /\ DOMAIN up = 1..Len(up)
      /\ up' \in Seq(Frames) /\ DOMAIN up' = 1..Len(up) + 1
      /\ \A i \in 1..Len(up) : up'[i] = up[i]
      /\ up'[Len(up) + 1] = f
  BY <1>0, <1>1, <1>3, Appended DEF TypeOK
<1>5. \A i \in DOMAIN up' : (i \in DOMAIN up /\ up'[i] = up[i]) \/ (i = Len(up) + 1 /\ up'[i] = f)
  BY <1>4
<1>6. local' \in [tx : SeqNos, rx : SeqNos, unacked : Nat] /\ local'.tx = NextSeq(dev.vr)
  BY <1>0, <1>1, <1>2, NextSeqType DEF TypeOK
<1>7. TypeOK'
  BY <1>0, <1>1, <1>4, <1>6 DEF TypeOK
<1>8. RequestInv'
  <2>1. \A i \in DOMAIN up' : up'[i].fmt = "I" => i = Len(up) + 1 /\ up'[i] = f
    BY <1>2, <1>5 DEF AllAnswered, NoRequest
  <2> QED BY <1>1, <1>2, <1>3, <2>1 DEF RequestInv
<1>9. StartInv'
  BY <1>0, <1>1, <1>3, <1>5 DEF StartInv
<1>10. RequestOnWay'
  <2>1. ~NoRequest(up')
    BY <1>3, <1>4 DEF NoRequest
  <2> QED BY <1>1, <1>2, <1>6, <2>1 DEF AllAnswered, RequestOnWay
<1>11. CallInv'
  BY <1>1, <1>2, <1>10 DEF CallInv
<1> QED BY <1>7, <1>8, <1>9, <1>11 DEF SessionInv

\* A monitoring frame, acknowledged or not.
LEMMA HearPointKeeps ==
  ASSUME SessionInv, HearPoint
  PROVE  SessionInv'
<1> DEFINE f == Head(down)
<1>0. TypeOK /\ RequestInv /\ StartInv /\ CallInv
  BY DEF SessionInv
<1>1. /\ call = "collect" /\ down # <<>> /\ f.fmt = "I" /\ f.what # "term"
      /\ Read /\ got' = NextSeq(f.ns)
      /\ alarm' = (alarm \/ SequenceOf(f) # NextSeq(local.rx))
      /\ UNCHANGED <<conn, call, meta, dev>>
  BY DEF HearPoint
<1>2. f \in Frames /\ f.ns \in SeqNos /\ SequenceOf(f) \in SeqNos
  BY <1>0, <1>1, DownShrinks, FrameParts DEF SequenceOf
<1> HIDE DEF f
<1>3. \/ /\ up' = Append(up, Sframe(SequenceOf(f))) /\ acked' = SequenceOf(f)
         /\ local' = [local EXCEPT !.rx = SequenceOf(f), !.unacked = 0]
      \/ /\ local' = [local EXCEPT !.rx = SequenceOf(f), !.unacked = local.unacked + 1]
         /\ UNCHANGED <<up, acked>>
  BY DEF HearPoint, Send, f
<1>4. local' \in [tx : SeqNos, rx : SeqNos, unacked : Nat] /\ local'.tx = local.tx /\ acked' \in SeqNos
  <2>1. /\ local \in [tx : SeqNos, rx : SeqNos, unacked : Nat] /\ acked \in SeqNos
        /\ 0 \in Nat /\ local.unacked + 1 \in Nat
    BY <1>0 DEF TypeOK
  <2>2. CASE acked' = SequenceOf(f) /\ local' = [local EXCEPT !.rx = SequenceOf(f), !.unacked = 0]
    BY <1>2, <2>1, <2>2
  <2>3. CASE acked' = acked /\ local' = [local EXCEPT !.rx = SequenceOf(f), !.unacked = local.unacked + 1]
    BY <1>2, <2>1, <2>3
  <2> QED BY <1>3, <2>2, <2>3
<1>5. /\ Sframe(SequenceOf(f)) \in Frames /\ Sframe(SequenceOf(f)).fmt # "I"
      /\ Sframe(SequenceOf(f)) # Uframe("STARTDT_ACT")
  BY <1>2, FrameTypes, FrameForms
<1>6. up' \in Seq(Frames) /\ down' \in Seq(Frames) /\ RequestInv' /\ StartInv' /\ CallInv'
  <2>1. up' = up \/ \E g \in Frames : g.fmt # "I" /\ g # Uframe("STARTDT_ACT") /\ up' = Append(up, g)
    BY <1>3, <1>5
  <2>2. Head(down).fmt = "I" => call = "collect" /\ Head(down).what # "term"
    BY <1>1 DEF f
  <2> QED BY <1>1, <1>4, <2>1, <2>2, ChannelsKeep
<1>7. got' \in SeqNos /\ alarm' \in BOOLEAN
  BY <1>1, <1>2, NextSeqType
<1> QED BY <1>0, <1>1, <1>4, <1>6, <1>7 DEF SessionInv, TypeOK

\* The end of the answer: nothing of it is left anywhere.
LEMMA HearTermKeeps ==
  ASSUME SessionInv, HearTerm
  PROVE  SessionInv'
<1> DEFINE f == Head(down)
<1>0. TypeOK /\ RequestInv /\ StartInv /\ CallInv
  BY DEF SessionInv
<1>1. /\ call = "collect" /\ down # <<>> /\ f.fmt = "I" /\ f.what = "term"
      /\ Read /\ got' = NextSeq(f.ns)
      /\ alarm' = (alarm \/ SequenceOf(f) # NextSeq(local.rx))
      /\ meta' = [meta EXCEPT !.tx = local.tx, !.rx = SequenceOf(f)]
      /\ conn' = "pooled" /\ call' = "out"
      /\ UNCHANGED <<local, up, dev, acked>>
  BY DEF HearTerm, Save
<1>2. f \in Frames /\ f.ns \in SeqNos /\ SequenceOf(f) \in SeqNos
  BY <1>0, <1>1, DownShrinks, FrameParts DEF SequenceOf
<1>3. /\ down' \in Seq(Frames) /\ f = down[1] /\ 1 \in DOMAIN down
      /\ \A i \in DOMAIN down' : i \in Nat \ {0} /\ i + 1 \in DOMAIN down /\ down'[i] = down[i + 1]
      /\ TermAt(down, 1) => OnlyPoints(down')
  BY <1>0, <1>1, DownShrinks
<1> HIDE DEF f
<1>4. /\ meta' \in [started : BOOLEAN, tx : SeqNos, rx : SeqNos]
      /\ meta'.tx = local.tx /\ meta'.started = meta.started
  BY <1>0, <1>1, <1>2 DEF TypeOK
<1>5. TypeOK'
  <2>1. got' \in SeqNos /\ alarm' \in BOOLEAN
    BY <1>1, <1>2, NextSeqType
  <2> QED BY <1>0, <1>1, <1>3, <1>4, <2>1 DEF TypeOK
<1>6. RequestInv' /\ StartInv'
  BY <1>0, <1>1, <1>3 DEF RequestInv, StartInv
<1>7. AnswerOnWay
  <2>1. ~OnlyPoints(down) /\ ~NoTerm(down)
    BY <1>1, <1>3 DEF OnlyPoints, NoTerm
  <2> QED BY <1>0, <1>1, <2>1 DEF CallInv, RequestOnWay, AnswerDue
<1>8. TermAt(down, 1)
  <2>1. PICK n \in DOMAIN down : TermAt(down, n)
    BY <1>7 DEF AnswerOnWay
  <2>2. DOMAIN down = 1..Len(down) /\ Len(down) \in Nat
    BY <1>0, LenProperties DEF TypeOK
  <2>3. ~(1 < n)
    BY <1>1, <1>3, <2>1 DEF TermAt
  <2>4. n = 1
    BY <2>2, <2>3
  <2> QED BY <2>1, <2>4
<1>9. AllAnswered' /\ meta'.tx = dev'.vr
  BY <1>1, <1>3, <1>4, <1>7, <1>8 DEF AnswerOnWay, AllAnswered
<1>10. CallInv'
  BY <1>0, <1>1, <1>4, <1>9 DEF CallInv
<1> QED BY <1>5, <1>6, <1>10 DEF SessionInv

\* A frame of the link, or one that is none.
LEMMA HearOtherKeeps ==
  ASSUME SessionInv, HearOther
  PROVE  SessionInv'
<1> DEFINE f == Head(down)
<1>0. call = "collect" /\ down # <<>> /\ TypeOK /\ RequestInv /\ StartInv /\ CallInv
  BY DEF HearOther, SessionInv
<1>1. CASE /\ f = Uframe("TESTFR_ACT") /\ Read /\ Send(Uframe("TESTFR_CON"))
           /\ UNCHANGED <<client, dev, history>>
  <2>1. UNCHANGED <<conn, call, meta, local, alarm, dev, got, acked>>
    BY <1>1 DEF client, history
  <2>2. /\ Uframe("TESTFR_CON") \in Frames /\ Uframe("TESTFR_CON").fmt # "I" /\ f.fmt # "I"
        /\ Uframe("TESTFR_CON") # Uframe("STARTDT_ACT") /\ up' = Append(up, Uframe("TESTFR_CON"))
    BY <1>1, FrameTypes, FrameForms DEF Send
  <2>3. up' \in Seq(Frames) /\ down' \in Seq(Frames) /\ RequestInv' /\ StartInv' /\ CallInv'
    BY <1>0, <1>1, <2>1, <2>2, ChannelsKeep
  <2> QED BY <1>0, <2>1, <2>3 DEF SessionInv, TypeOK
<1>2. CASE /\ f.fmt = "S" \/ (f.fmt = "U" /\ f.what # "TESTFR_ACT")
           /\ Read /\ UNCHANGED <<client, up, dev, history>>
  <2>1. UNCHANGED <<conn, call, meta, local, alarm, up, dev, got, acked>>
    BY <1>2 DEF client, history
  <2>2. f.fmt # "I"
    BY <1>2
  <2>3. up' \in Seq(Frames) /\ down' \in Seq(Frames) /\ RequestInv' /\ StartInv' /\ CallInv'
    BY <1>0, <1>2, <2>1, <2>2, ChannelsKeep
  <2> QED BY <1>0, <2>1, <2>3 DEF SessionInv, TypeOK
<1>3. CASE Discard
  BY <1>3, DiscardKeeps
<1> QED BY <1>1, <1>2, <1>3 DEF HearOther

-----------------------------------------------------------------------------
(* The steps of the station                                                 *)

\* The station takes a frame.
LEMMA StationHearsKeeps ==
  ASSUME SessionInv, StationHears
  PROVE  SessionInv'
<1> DEFINE f == Head(up)
<1>0. /\ TypeOK /\ RequestInv /\ StartInv /\ CallInv
      /\ dev \in Stations
  BY DEF SessionInv, TypeOK, Stations
<1>1. /\ conn # "none" /\ up # <<>> /\ up' = Tail(up)
      /\ UNCHANGED <<conn, call, meta, local, alarm, got, acked>>
  BY DEF StationHears, client, history
<1>2. /\ up' \in Seq(Frames) /\ f \in Frames /\ f = up[1] /\ 1 \in DOMAIN up
      /\ \A i \in DOMAIN up' : i \in Nat \ {0} /\ i + 1 \in DOMAIN up /\ up'[i] = up[i + 1]
      /\ NoRequest(up) => NoRequest(up')
      /\ f.fmt = "I" => NoRequest(up')
      /\ f.fmt # "I" /\ NoRequest(up') => NoRequest(up)
  BY <1>0, <1>1, UpShrinks
<1> HIDE DEF f
<1>3. \A i \in DOMAIN up' : i + 1 # 1 /\ \A j \in DOMAIN up' : i + 1 = j + 1 => i = j
  BY <1>2
<1>4. CASE /\ f = Uframe("STARTDT_ACT")
           /\ dev' = [dev EXCEPT !.started = TRUE]
           /\ down' = Append(down, Uframe("STARTDT_CON"))
  <2>1. /\ dev' \in Stations /\ dev'.started /\ dev'.vr = dev.vr /\ dev'.todo = dev.todo
    BY <1>0, <1>4 DEF Stations
  <2>2. Uframe("STARTDT_CON") \in Frames /\ Uframe("STARTDT_CON").fmt # "I" /\ f.fmt # "I"
    BY <1>4, FrameTypes, FrameForms
  <2>3. /\ down' \in Seq(Frames)
        /\ OnlyPoints(down) => OnlyPoints(down')
        /\ \A n \in DOMAIN down : TermAt(down, n) => n \in DOMAIN down' /\ TermAt(down', n)
        /\ NoTerm(down) => NoTerm(down')
    BY <1>0, <1>4, <2>2, DownGrows
  <2>4. TypeOK'
    BY <1>0, <1>1, <1>2, <2>1, <2>3 DEF TypeOK, Stations
  <2>5. RequestInv'
    BY <1>0, <1>2, <1>3, <2>1 DEF RequestInv
  <2>6. StartInv' /\ \A i \in DOMAIN up' : up'[i] # Uframe("STARTDT_ACT")
    <3>1. \A i \in DOMAIN up' : up'[i] # Uframe("STARTDT_ACT")
      BY <1>0, <1>2, <1>3, <1>4 DEF StartInv
    <3> QED BY <2>1, <3>1 DEF StartInv
  <2>7. AllAnswered => AllAnswered'
    BY <1>2, <2>1, <2>3 DEF AllAnswered
  <2>8. RequestOnWay => RequestOnWay'
    BY <1>1, <1>2, <2>1, <2>2, <2>3 DEF RequestOnWay
  <2>9. AnswerDue => AnswerDue'
    BY <1>1, <1>2, <2>1, <2>3 DEF AnswerDue
  <2>10. AnswerOnWay => AnswerOnWay'
    BY <1>1, <1>2, <2>1, <2>3 DEF AnswerOnWay
  <2>11. ~(call = "begin" /\ ~meta.started)
    BY <1>0, <1>2, <1>4 DEF CallInv
  <2>12. CallInv'
    BY <1>0, <1>1, <2>1, <2>7, <2>8, <2>9, <2>10, <2>11 DEF CallInv
  <2> QED BY <2>4, <2>5, <2>6, <2>12 DEF SessionInv
<1>5. ASSUME dev' \in Stations, dev'.started = dev.started, dev'.vr = dev.vr, dev'.todo = dev.todo,
             f.fmt # "I", down' = down
      PROVE  SessionInv'
  <2>1. TypeOK'
    BY <1>0, <1>1, <1>2, <1>5 DEF TypeOK, Stations
  <2>2. RequestInv' /\ StartInv'
    BY <1>0, <1>2, <1>3, <1>5 DEF RequestInv, StartInv
  <2>3. /\ AllAnswered => AllAnswered'
        /\ RequestOnWay => RequestOnWay'
        /\ AnswerDue => AnswerDue'
        /\ AnswerOnWay => AnswerOnWay'
    BY <1>1, <1>2, <1>5 DEF AllAnswered, RequestOnWay, AnswerDue, AnswerOnWay
  <2>4. CallInv'
    BY <1>0, <1>1, <1>2, <1>5, <2>3 DEF CallInv
  <2> QED BY <2>1, <2>2, <2>4 DEF SessionInv
<1>6. CASE /\ f.fmt = "I" /\ dev.started /\ f.ns = dev.vr
           /\ \E a \in Answers :
                dev' = [Acknowledge(dev, f.nr) EXCEPT !.vr = NextSeq(@), !.todo = @ \o a]
           /\ UNCHANGED down
  <2>1. PICK a \in Answers : dev' = [Acknowledge(dev, f.nr) EXCEPT !.vr = NextSeq(@), !.todo = @ \o a]
    BY <1>6
  <2>2. RequestOnWay /\ call = "collect"
    <3>1. ~NoRequest(up)
      BY <1>2, <1>6 DEF NoRequest
    <3> QED BY <1>0, <1>1, <3>1 DEF CallInv, AllAnswered, AnswerDue, AnswerOnWay
  <2>3. /\ Acknowledge(dev, f.nr) \in Stations
        /\ Acknowledge(dev, f.nr).started = dev.started /\ Acknowledge(dev, f.nr).vr = dev.vr
        /\ Acknowledge(dev, f.nr).todo = <<>>
    BY <1>0, <1>2, <1>6, <2>2, FrameParts, AcknowledgeKeeps DEF RequestOnWay
  <2>4. a \in Seq(Kinds) /\ EndsInTerm(a) /\ <<>> \o a = a /\ NextSeq(dev.vr) \in SeqNos
    BY <1>0, AnswerShape, ConcatEmptySeq, NextSeqType DEF Stations
  <2>5. dev' \in Stations /\ dev'.started = dev.started /\ dev'.vr = NextSeq(dev.vr) /\ dev'.todo = a
    BY <2>1, <2>3, <2>4 DEF Stations
  <2>6. TypeOK'
    BY <1>0, <1>1, <1>2, <1>6, <2>5 DEF TypeOK, Stations
  <2>7. NoRequest(up')
    BY <1>2, <1>6
  <2>8. RequestInv' /\ StartInv'
    <3>1. RequestInv'
      BY <2>7 DEF NoRequest, RequestInv
    <3>2. StartInv'
      BY <1>0, <1>2, <1>3, <1>6, <2>5 DEF StartInv
    <3> QED BY <3>1, <3>2
  <2>9. AnswerDue'
    <3>1. NoTerm(down)
      BY <2>2 DEF RequestOnWay, OnlyPoints, NoTerm
    <3> QED BY <1>1, <1>6, <2>2, <2>4, <2>5, <2>7, <3>1 DEF RequestOnWay, AnswerDue
  <2>10. CallInv'
    BY <1>0, <1>1, <2>2, <2>5, <2>9 DEF CallInv
  <2> QED BY <2>6, <2>8, <2>10 DEF SessionInv
<1>7. ~(f.fmt = "I" /\ ~(dev.started /\ f.ns = dev.vr))
  BY <1>0, <1>2 DEF RequestInv
<1>8. CASE f.fmt = "S" /\ dev' = Acknowledge(dev, f.nr) /\ UNCHANGED down
  BY <1>0, <1>2, <1>5, <1>8, FrameParts, AcknowledgeKeeps
<1>9. CASE f = Uframe("TESTFR_CON") /\ UNCHANGED <<dev, down>>
  BY <1>0, <1>5, <1>9, FrameForms
<1> QED BY <1>4, <1>6, <1>7, <1>8, <1>9 DEF StationHears, f

\* The station sends what it owes, frame by frame.
LEMMA StationAnswersKeeps ==
  ASSUME SessionInv, StationAnswers
  PROVE  SessionInv'
<1> DEFINE f == Iframe(dev.vs, dev.vr, Head(dev.todo))
<1>0. /\ TypeOK /\ RequestInv /\ StartInv /\ CallInv
      /\ dev \in Stations
  BY DEF SessionInv, TypeOK, Stations
<1>1. /\ conn # "none" /\ dev.todo # <<>>
      /\ down' = Append(down, f)
      /\ dev' = [dev EXCEPT !.vs = NextSeq(dev.vs), !.todo = Tail(dev.todo)]
      /\ UNCHANGED <<conn, call, meta, local, alarm, up, got, acked>>
  BY DEF StationAnswers, client, history
<1>2. /\ dev.todo \in Seq(Kinds) /\ Len(dev.todo) \in Nat \ {0} /\ DOMAIN dev.todo = 1..Len(dev.todo)
      /\ Head(dev.todo) = dev.todo[1] /\ Head(dev.todo) \in Kinds
      /\ Tail(dev.todo) \in Seq(Kinds) /\ Len(Tail(dev.todo)) = Len(dev.todo) - 1
      /\ DOMAIN Tail(dev.todo) = 1..Len(dev.todo) - 1
      /\ \A i \in 1..Len(dev.todo) - 1 : Tail(dev.todo)[i] = dev.todo[i + 1]
  <2>1. dev.todo \in Seq(Kinds)
    BY <1>0 DEF Stations
  <2> QED BY <1>1, <2>1, Shortened
<1>3. /\ dev' \in Stations /\ dev'.started = dev.started /\ dev'.vr = dev.vr
      /\ dev'.todo = Tail(dev.todo)
  BY <1>0, <1>1, <1>2, NextSeqType DEF Stations
<1>4. f \in Frames /\ f.fmt = "I" /\ f.what = Head(dev.todo) /\ f # Uframe("STARTDT_CON")
  BY <1>0, <1>2, FrameTypes, FrameForms DEF Stations
<1> HIDE DEF f
<1>5. /\ down' \in Seq(Frames)
      /\ \A i \in DOMAIN down' : (i \in DOMAIN down /\ down'[i] = down[i]) \/ down'[i] = f
      /\ f.what # "term" /\ NoTerm(down) => NoTerm(down')
      /\ f.what = "term" /\ NoTerm(down) => \E n \in DOMAIN down' : TermAt(down', n)
  BY <1>0, <1>1, <1>4, DownGrows
<1>6. TypeOK'
  BY <1>0, <1>1, <1>3, <1>5 DEF TypeOK, Stations
<1>7. RequestInv' /\ StartInv'
  BY <1>0, <1>1, <1>3, <1>4, <1>5 DEF RequestInv, StartInv
<1>8. call = "collect" /\ AnswerDue
  BY <1>0, <1>1 DEF CallInv, AllAnswered, RequestOnWay, AnswerOnWay
<1>9. CASE Len(dev.todo) = 1
  <2>1. f.what = "term" /\ NoTerm(down)
    BY <1>2, <1>4, <1>8, <1>9 DEF AnswerDue, EndsInTerm
  <2>2. Tail(dev.todo) = <<>>
    BY <1>2, <1>9, EmptySeq
  <2>3. AnswerOnWay'
    BY <1>1, <1>3, <1>5, <1>8, <2>1, <2>2 DEF AnswerDue, AnswerOnWay
  <2>4. CallInv'
    BY <1>0, <1>1, <1>3, <1>8, <2>3 DEF CallInv
  <2> QED BY <1>6, <1>7, <2>4 DEF SessionInv
<1>10. CASE Len(dev.todo) # 1
  <2>1. f.what # "term" /\ NoTerm(down)
    <3>1. 1 \in DOMAIN dev.todo
      BY <1>2
    <3>2. dev.todo[1] # "term"
      BY <1>8, <1>10, <3>1 DEF AnswerDue, EndsInTerm
    <3> QED BY <1>2, <1>4, <1>8, <3>2 DEF AnswerDue
  <2>2. EndsInTerm(Tail(dev.todo))
    <3>1. Tail(dev.todo) # <<>>
      <4>1. Len(Tail(dev.todo)) # 0
        BY <1>2, <1>10
      <4>2. Len(<<>>) = 0
        OBVIOUS
      <4> QED BY <4>1, <4>2
    <3>2. \A i \in DOMAIN Tail(dev.todo) :
            i + 1 \in DOMAIN dev.todo /\ (i + 1 = Len(dev.todo) <=> i = Len(Tail(dev.todo)))
      BY <1>2
    <3> QED BY <1>2, <1>8, <3>1, <3>2 DEF AnswerDue, EndsInTerm
  <2>3. AnswerDue'
    BY <1>1, <1>3, <1>5, <1>8, <2>1, <2>2 DEF AnswerDue
  <2>4. CallInv'
    BY <1>0, <1>1, <1>3, <1>8, <2>3 DEF CallInv
  <2> QED BY <1>6, <1>7, <2>4 DEF SessionInv
<1> QED BY <1>9, <1>10

\* The station sends what nobody asked for: no end of an answer.
LEMMA StationVolunteersKeeps ==
  ASSUME SessionInv, StationVolunteers
  PROVE  SessionInv'
<1>0. /\ TypeOK /\ RequestInv /\ StartInv /\ CallInv
      /\ dev \in Stations
  BY DEF SessionInv, TypeOK, Stations
<1>1. UNCHANGED <<conn, call, meta, local, alarm, up, got, acked>>
  BY DEF StationVolunteers, client, history
<1>2. dev.extra - 1 \in 0..MaxUnsolicited
  BY <1>0, BoundsAssumption DEF StationVolunteers, Stations
<1>3. dev' \in Stations /\ dev'.started = dev.started /\ dev'.vr = dev.vr /\ dev'.todo = dev.todo
  <2>1. CASE dev' = [dev EXCEPT !.vs = NextSeq(dev.vs), !.extra = dev.extra - 1]
    BY <1>0, <1>2, <2>1, NextSeqType DEF Stations
  <2>2. CASE dev' = [dev EXCEPT !.extra = dev.extra - 1]
    BY <1>0, <1>2, <2>2 DEF Stations
  <2> QED BY <2>1, <2>2 DEF StationVolunteers
<1>4. PICK f \in Frames : /\ down' = Append(down, f)
                          /\ f.fmt = "I" => f.what = "point"
                          /\ f # Uframe("STARTDT_CON")
  <2>1. /\ dev.vs \in SeqNos /\ dev.vr \in SeqNos /\ "point" \in Kinds
    BY <1>0 DEF Stations, Kinds
  <2>2. CASE down' = Append(down, Iframe(dev.vs, dev.vr, "point"))
    BY <2>1, <2>2, FrameTypes, FrameForms
  <2>3. ASSUME NEW f \in {Uframe("TESTFR_ACT"), Uframe("STOPDT_CON"), Sframe(dev.vr), Garbage}
        PROVE  f \in Frames /\ f.fmt # "I" /\ f # Uframe("STARTDT_CON")
    BY <2>1, FrameTypes, FrameForms
  <2> QED BY <2>2, <2>3 DEF StationVolunteers
<1>5. /\ down' \in Seq(Frames)
      /\ \A i \in DOMAIN down' : (i \in DOMAIN down /\ down'[i] = down[i]) \/ down'[i] = f
      /\ OnlyPoints(down) => OnlyPoints(down')
      /\ \A n \in DOMAIN down : TermAt(down, n) => n \in DOMAIN down' /\ TermAt(down', n)
      /\ NoTerm(down) => NoTerm(down')
  BY <1>0, <1>4, DownGrows
<1>6. TypeOK'
  BY <1>0, <1>1, <1>3, <1>5 DEF TypeOK, Stations
<1>7. RequestInv' /\ StartInv'
  BY <1>0, <1>1, <1>3, <1>4, <1>5 DEF RequestInv, StartInv
<1>8. /\ AllAnswered => AllAnswered'
      /\ RequestOnWay => RequestOnWay'
      /\ AnswerDue => AnswerDue'
      /\ AnswerOnWay => AnswerOnWay'
  BY <1>1, <1>3, <1>5 DEF AllAnswered, RequestOnWay, AnswerDue, AnswerOnWay
<1>9. CallInv'
  BY <1>0, <1>1, <1>3, <1>8 DEF CallInv
<1> QED BY <1>6, <1>7, <1>9 DEF SessionInv

\* The station closes the connection: what is on the way stays there.
LEMMA StationClosesKeeps ==
  ASSUME SessionInv, StationCloses
  PROVE  SessionInv'
<1>0. /\ TypeOK /\ RequestInv /\ StartInv /\ CallInv
      /\ dev \in Stations
  BY DEF SessionInv, TypeOK, Stations
<1>1. /\ UNCHANGED <<conn, call, meta, local, alarm, up, down, got, acked>>
      /\ dev' = [dev EXCEPT !.alive = FALSE]
  BY DEF StationCloses, client, history
<1>2. dev' \in Stations /\ dev'.started = dev.started /\ dev'.vr = dev.vr /\ dev'.todo = dev.todo
  BY <1>0, <1>1 DEF Stations
<1>3. TypeOK'
  BY <1>0, <1>1, <1>2 DEF TypeOK, Stations
<1>4. RequestInv' /\ StartInv'
  BY <1>0, <1>1, <1>2 DEF RequestInv, StartInv
<1>5. CallInv'
  BY <1>0, <1>1, <1>2 DEF CallInv, AllAnswered, RequestOnWay, AnswerDue, AnswerOnWay
<1> QED BY <1>3, <1>4, <1>5 DEF SessionInv

-----------------------------------------------------------------------------
(* The invariant and what it says                                           *)

\* Before the first read there is no connection.
LEMMA SessionInit == Init => SessionInv
<1> SUFFICES ASSUME Init PROVE SessionInv
  OBVIOUS
<1>1. 0 \in SeqNos /\ MaxUnsolicited \in 0..MaxUnsolicited
  BY ModulusAssumption, BoundsAssumption DEF SeqNos
<1>2. <<>> \in Seq(Kinds) /\ <<>> \in Seq(Frames) /\ DOMAIN up = {} /\ DOMAIN down = {}
  BY EmptySeq DEF Init
<1>3. dev \in Stations
  BY <1>1, <1>2 DEF Init, FreshStation, Stations
<1>4. TypeOK
  BY <1>1, <1>2, <1>3 DEF Init, TypeOK, Stations
<1>5. RequestInv /\ StartInv
  BY <1>2 DEF RequestInv, StartInv
<1>6. CallInv
  BY DEF Init, CallInv
<1> QED BY <1>4, <1>5, <1>6 DEF SessionInv

\* Every step of a read and of the station keeps it.
LEMMA SessionStep == SessionInv /\ [Next]_vars => SessionInv'
<1> SUFFICES ASSUME SessionInv, [Next]_vars PROVE SessionInv'
  OBVIOUS
<1>1. CASE Begin
  BY <1>1, BeginKeeps
<1>2. CASE ReadStep
  <2>1. CASE StartTransfer
    BY <2>1, StartTransferKeeps
  <2>2. CASE HearStarting
    BY <2>2, HearStartingKeeps
  <2>3. CASE Interrogate
    BY <2>3, InterrogateKeeps
  <2>4. CASE HearPoint
    BY <2>4, HearPointKeeps
  <2>5. CASE HearTerm
    BY <2>5, HearTermKeeps
  <2>6. CASE HearOther
    BY <2>6, HearOtherKeeps
  <2>7. CASE HearNothing
    BY <2>7, DiscardKeeps DEF HearNothing, OnTimeout
  <2> QED BY <1>2, <2>1, <2>2, <2>3, <2>4, <2>5, <2>6, <2>7 DEF ReadStep
<1>3. CASE Lose
  BY <1>3, DiscardKeeps DEF Lose
<1>4. CASE StationHears
  BY <1>4, StationHearsKeeps
<1>5. CASE StationAnswers
  BY <1>5, StationAnswersKeeps
<1>6. CASE StationVolunteers
  BY <1>6, StationVolunteersKeeps
<1>7. CASE StationCloses
  BY <1>7, StationClosesKeeps
<1>8. CASE UNCHANGED vars
  <2>1. UNCHANGED <<conn, call, meta, local, alarm, up, down, dev, got, acked>>
    BY <1>8 DEF vars, client, history
  <2>2. TypeOK'
    BY <2>1 DEF SessionInv, TypeOK
  <2>3. RequestInv' /\ StartInv'
    BY <2>1 DEF SessionInv, RequestInv, StartInv
  <2>4. CallInv'
    BY <2>1 DEF SessionInv, CallInv, AllAnswered, RequestOnWay, AnswerDue, AnswerOnWay
  <2> QED BY <2>2, <2>3, <2>4 DEF SessionInv
<1> QED BY <1>1, <1>2, <1>3, <1>4, <1>5, <1>6, <1>7, <1>8 DEF Next

\* The inductive invariant holds however reads, timeouts, losses and the station's
\* frames follow each other.
THEOREM SessionInvHolds == Spec => []SessionInv
<1> QED BY SessionInit, SessionStep, PTL DEF Spec

\* The types of the session hold; the numbers stay below the modulus.
THEOREM TypeOKHolds == Spec => []TypeOK
<1>1. SessionInv => TypeOK
  BY DEF SessionInv
<1> QED BY <1>1, SessionInvHolds, PTL

\* Every request reaches the station with the number it expects next, over any
\* number of reads and connections.
THEOREM RequestsInSequenceHolds == Spec => []RequestsInSequence
<1>1. SessionInv => RequestsInSequence
  BY DEF SessionInv, RequestInv, RequestsInSequence
<1> QED BY <1>1, SessionInvHolds, PTL

\* No request before the start of the transfer, and one start for a connection.
THEOREM StartedOnceHolds == Spec => []StartedOnce
<1>1. SessionInv => StartedOnce
  BY DEF SessionInv, RequestInv, StartInv, StartedOnce
<1> QED BY <1>1, SessionInvHolds, PTL

\* A connection in the pool has nothing of an earlier answer on it.
THEOREM AnswersAreOwnHolds == Spec => []AnswersAreOwn
<1>1. SessionInv => AnswersAreOwn
  <2> SUFFICES ASSUME SessionInv, conn = "pooled" PROVE AllAnswered
    BY DEF AllAnswered, NoRequest, OnlyPoints, AnswersAreOwn
  <2> QED BY DEF SessionInv, CallInv
<1> QED BY <1>1, SessionInvHolds, PTL
=============================================================================
