---------------------------- MODULE Iec104Session ----------------------------
(***************************************************************************)
(* Reads of the iec104 adapter: interrogations of one station over the     *)
(* connection the pool keeps for it, with the sequence numbers of IEC      *)
(* 60870-5-104 kept in conn.metadata from one read to the next.  The pool  *)
(* lets one read at a time use the connection (module ConnectionPool), so  *)
(* reads follow each other here.  TCP loses and reorders nothing.          *)
(*                                                                         *)
(* The station is external: it numbers its I frames, holds back when K of  *)
(* them are unacknowledged, and drops a peer whose N(S) is out of order.   *)
(***************************************************************************)
EXTENDS Integers, Sequences

CONSTANTS
  Modulus,        \* sequence numbers are taken modulo this (0x7FFF + 1)
  W,              \* _W_WINDOW
  K,              \* the station's window of unacknowledged I frames
  MaxPoints,      \* bound: monitoring frames per interrogation
  MaxUnsolicited  \* bound: frames per connection nobody asked the station for

ASSUME ModulusAssumption == Modulus \in Nat \ {0}
ASSUME WindowAssumption  == W \in Nat \ {0} /\ K \in 1..(Modulus - 1)
ASSUME BoundsAssumption  == MaxPoints \in Nat /\ MaxUnsolicited \in Nat

VARIABLES
  conn,   \* the connection: none, pooled, or leased to the current read
  call,   \* the current read: out, begin, start (awaits STARTDT_CON), collect
  meta,   \* conn.metadata
  local,  \* tx, rx and unacked of _interrogate
  alarm,  \* the notes of the current read speak of a jump in the sequence
  up,     \* frames on the way to the station
  down,   \* frames on the way to, or buffered at, the adapter
  dev,    \* the station's side of the connection
  got,    \* history: one past the N(S) of the last I frame read
  acked   \* history: the last N(R) the adapter sent

client  == <<conn, call, meta, local, alarm>>
history == <<got, acked>>
vars    == <<client, up, down, dev, history>>

SeqNos == 0..(Modulus - 1)
Kinds  == {"act", "con", "point", "odd", "term"}
Iframe(s, r, w) == [fmt |-> "I", ns |-> s, nr |-> r, what |-> w]
Uframe(f)       == [fmt |-> "U", what |-> f]
Sframe(r)       == [fmt |-> "S", nr |-> r]
Garbage         == [fmt |-> "bad"]
Frames ==
  [fmt : {"I"}, ns : SeqNos, nr : SeqNos, what : Kinds] \cup [fmt : {"S"}, nr : SeqNos]
    \cup {Uframe(f) : f \in {"STARTDT_ACT", "STARTDT_CON", "STOPDT_CON", "TESTFR_ACT", "TESTFR_CON"}}
    \cup {Garbage}

\* Mutated form: the number is not masked.
NextSeqUnmasked(n) == n + 1
NextSeq(n) == (n + 1) % Modulus
Distance(a, b) == (b - a) % Modulus

TypeOK ==
  /\ conn  \in {"none", "pooled", "leased"}
  /\ call  \in {"out", "begin", "start", "collect"}
  /\ meta  \in [started : BOOLEAN, tx : SeqNos, rx : SeqNos]
  /\ local \in [tx : SeqNos, rx : SeqNos, unacked : Nat]
  /\ alarm \in BOOLEAN
  /\ up    \in Seq(Frames)
  /\ down  \in Seq(Frames)
  /\ dev   \in [alive : BOOLEAN, started : BOOLEAN, vs : SeqNos, vr : SeqNos,
                va : SeqNos, todo : Seq(Kinds), extra : 0..MaxUnsolicited]
  /\ got   \in SeqNos
  /\ acked \in SeqNos

FreshStation ==
  [alive |-> TRUE, started |-> FALSE, vs |-> 0, vr |-> 0, va |-> 0,
   todo |-> <<>>, extra |-> MaxUnsolicited]

Init ==
  /\ conn  = "none"
  /\ call  = "out"
  /\ meta  = [started |-> FALSE, tx |-> 0, rx |-> 0]
  /\ local = [tx |-> 0, rx |-> 0, unacked |-> 0]
  /\ alarm = FALSE
  /\ up = <<>> /\ down = <<>>
  /\ dev = FreshStation
  /\ got = 0 /\ acked = 0

-----------------------------------------------------------------------------
(* A read: the connection and the start of data transfer                    *)

\* Mutated form: the metadata belongs to the target, not to the connection.
MetaOfTarget == meta
NewMeta == [started |-> FALSE, tx |-> 0, rx |-> 0]

Reuse ==
  /\ conn = "pooled"
  /\ UNCHANGED <<meta, up, down, dev, history>>

Connect ==
  /\ conn = "none"
  /\ meta' = NewMeta
  /\ up' = <<>> /\ down' = <<>>
  /\ dev' = FreshStation
  /\ got' = 0 /\ acked' = 0

Begin ==
  /\ call = "out"
  /\ Reuse \/ Connect
  /\ conn'  = "leased"
  /\ call'  = "begin"
  /\ local' = [tx |-> meta'.tx, rx |-> meta'.rx, unacked |-> 0]
  /\ alarm' = FALSE

Send(f) == up' = Append(up, f)
Read    == down' = Tail(down)

\* The connection has not been started yet.
StartTransfer ==
  /\ call = "begin" /\ ~meta.started
  /\ Send(Uframe("STARTDT_ACT"))
  /\ call' = "start"
  /\ UNCHANGED <<conn, meta, local, alarm, down, dev, history>>

\* pool.discard, and the read is over.
Discard ==
  /\ conn' = "none"
  /\ call' = "out"
  /\ UNCHANGED <<meta, local, alarm, up, down, dev, history>>

HearStarting ==
  /\ call = "start" /\ down # <<>>
  /\ LET f == Head(down) IN
     \/ /\ f = Uframe("STARTDT_CON")
        /\ Read
        /\ meta' = [meta EXCEPT !.started = TRUE]
        /\ call' = "begin"
        /\ UNCHANGED <<conn, local, alarm, up, dev, history>>
     \/ /\ f = Uframe("TESTFR_ACT")
        /\ Read
        /\ Send(Uframe("TESTFR_CON"))
        /\ UNCHANGED <<client, dev, history>>
     \/ /\ f = Uframe("STOPDT_CON")
        /\ Read
        /\ UNCHANGED <<client, up, dev, history>>
     \/ /\ f \notin {Uframe(u) : u \in {"STARTDT_CON", "TESTFR_ACT", "STOPDT_CON"}}
        /\ Discard

-----------------------------------------------------------------------------
(* The interrogation                                                        *)

Interrogate ==
  /\ call = "begin" /\ meta.started
  /\ Send(Iframe(local.tx, local.rx, "act"))
  /\ acked' = local.rx
  /\ local' = [local EXCEPT !.tx = NextSeq(@)]
  /\ call'  = "collect"
  /\ UNCHANGED <<conn, meta, alarm, down, dev, got>>

\* build_asdu_interrogation refuses the qoi or the ca of the read, or the task
\* is cancelled: exceptions read does not list.  The connection is never reused.
Lose == call # "out" /\ Discard

\* (_, rseq) = apci_seq_i(...): the adapter takes N(R) for the station's number.
SequenceOf(f) == f.nr

\* Frames the loop leaves by "continue", before it looks at the window.
SkipsWindow(f) == f.what \in {"con", "odd"}

HearPoint ==
  /\ call = "collect" /\ down # <<>>
  /\ LET f == Head(down) IN
     /\ f.fmt = "I" /\ f.what # "term"
     /\ Read
     /\ got'   = NextSeq(f.ns)
     /\ alarm' = (alarm \/ SequenceOf(f) # NextSeq(local.rx))
     /\ \/ /\ ~SkipsWindow(f) /\ local.unacked + 1 >= W
           /\ Send(Sframe(SequenceOf(f)))
           /\ acked' = SequenceOf(f)
           /\ local' = [local EXCEPT !.rx = SequenceOf(f), !.unacked = 0]
        \/ /\ SkipsWindow(f) \/ local.unacked + 1 < W
           /\ local' = [local EXCEPT !.rx = SequenceOf(f), !.unacked = @ + 1]
           /\ UNCHANGED <<up, acked>>
  /\ UNCHANGED <<conn, call, meta, dev>>

\* Mutated form: the numbers used are not written back to conn.metadata.
SaveNothing(r) == UNCHANGED meta
\* What _interrogate leaves in conn.metadata when it ends; r is the last rx.
Save(r) == meta' = [meta EXCEPT !.tx = local.tx, !.rx = r]

\* ACT_TERM ends the read: the connection goes back to the pool.
HearTerm ==
  /\ call = "collect" /\ down # <<>>
  /\ LET f == Head(down) IN
     /\ f.fmt = "I" /\ f.what = "term"
     /\ Read
     /\ got'   = NextSeq(f.ns)
     /\ alarm' = (alarm \/ SequenceOf(f) # NextSeq(local.rx))
     /\ Save(SequenceOf(f))
  /\ conn' = "pooled"
  /\ call' = "out"
  /\ UNCHANGED <<local, up, dev, acked>>

HearOther ==
  /\ call = "collect" /\ down # <<>>
  /\ LET f == Head(down) IN
     \/ /\ f = Uframe("TESTFR_ACT")
        /\ Read
        /\ Send(Uframe("TESTFR_CON"))
        /\ UNCHANGED <<client, dev, history>>
     \/ /\ f.fmt = "S" \/ (f.fmt = "U" /\ f.what # "TESTFR_ACT")
        /\ Read
        /\ UNCHANGED <<client, up, dev, history>>
     \/ f = Garbage /\ Discard

\* Mutated forms: a timeout gives the connection back, or waits again.
TimeoutReleases ==
  /\ conn' = "pooled" /\ call' = "out"
  /\ UNCHANGED <<meta, local, alarm, up, down, dev, history>>
TimeoutWaits == UNCHANGED vars
OnTimeout == Discard

\* Nothing arrives in time, or the station has closed the connection.
HearNothing == call \in {"start", "collect"} /\ down = <<>> /\ OnTimeout

-----------------------------------------------------------------------------
(* The station                                                              *)

\* N(R) acknowledges the I frames before it, if it lies in the open window.
Acknowledge(d, r) ==
  IF Distance(d.va, r) <= Distance(d.va, d.vs) THEN [d EXCEPT !.va = r] ELSE d

Answers ==
  {<<"con">> \o p \o <<"term">> : p \in UNION {[1..n -> {"point", "odd"}] : n \in 0..MaxPoints}}

StationHears ==
  /\ conn # "none" /\ dev.alive /\ up # <<>>
  /\ up' = Tail(up)
  /\ LET f == Head(up) IN
     \/ /\ f = Uframe("STARTDT_ACT")
        /\ dev'  = [dev EXCEPT !.started = TRUE]
        /\ down' = Append(down, Uframe("STARTDT_CON"))
     \/ /\ f.fmt = "I" /\ dev.started /\ f.ns = dev.vr
        /\ \E a \in Answers :
             dev' = [Acknowledge(dev, f.nr) EXCEPT !.vr = NextSeq(@), !.todo = @ \o a]
        /\ UNCHANGED down
     \/ /\ f.fmt = "I" /\ ~(dev.started /\ f.ns = dev.vr)
        /\ dev' = [dev EXCEPT !.alive = FALSE]
        /\ UNCHANGED down
     \/ /\ f.fmt = "S"
        /\ dev' = Acknowledge(dev, f.nr)
        /\ UNCHANGED down
     \/ f = Uframe("TESTFR_CON") /\ UNCHANGED <<dev, down>>
  /\ UNCHANGED <<client, history>>

WindowIsOpen == Distance(dev.va, dev.vs) < K

StationAnswers ==
  /\ conn # "none" /\ dev.alive /\ dev.todo # <<>> /\ WindowIsOpen
  /\ down' = Append(down, Iframe(dev.vs, dev.vr, Head(dev.todo)))
  /\ dev'  = [dev EXCEPT !.vs = NextSeq(@), !.todo = Tail(@)]
  /\ UNCHANGED <<client, up, history>>

\* A spontaneous point, a link test, an acknowledgement, a stray frame.
StationVolunteers ==
  /\ conn # "none" /\ dev.alive /\ dev.extra > 0
  /\ \/ /\ dev.started /\ WindowIsOpen
        /\ down' = Append(down, Iframe(dev.vs, dev.vr, "point"))
        /\ dev'  = [dev EXCEPT !.vs = NextSeq(@), !.extra = @ - 1]
     \/ /\ \E f \in {Uframe("TESTFR_ACT"), Uframe("STOPDT_CON"), Sframe(dev.vr), Garbage} :
             down' = Append(down, f)
        /\ dev' = [dev EXCEPT !.extra = @ - 1]
  /\ UNCHANGED <<client, up, history>>

StationCloses ==
  /\ conn # "none" /\ dev.alive
  /\ dev' = [dev EXCEPT !.alive = FALSE]
  /\ UNCHANGED <<client, up, down, history>>

ReadStep ==
  \/ StartTransfer \/ HearStarting
  \/ Interrogate \/ HearPoint \/ HearTerm \/ HearOther \/ HearNothing

Next ==
  \/ Begin \/ ReadStep \/ Lose
  \/ StationHears \/ StationAnswers \/ StationVolunteers \/ StationCloses

Spec == Init /\ [][Next]_vars

\* The event loop runs the read, and asyncio.wait_for ends every wait; the
\* station is under no obligation.
FairSpec == Spec /\ WF_vars(ReadStep)

-----------------------------------------------------------------------------
(* Properties                                                               *)

\* i104_tx survives from read to read and is reset with the connection: every
\* request reaches the station with the number it expects next.
RequestsInSequence ==
  \A i \in DOMAIN up : up[i].fmt = "I" /\ dev.alive => up[i].ns = dev.vr

\* i104_started belongs to the connection: no request is sent before the station
\* has started the transfer, and a started connection is not started again.
StartedOnce ==
  \A i \in DOMAIN up :
    /\ up[i].fmt = "I" => dev.started
    /\ up[i] = Uframe("STARTDT_ACT") => ~dev.started

\* A connection goes back to the pool only with its interrogation finished, so
\* the ACT_CON and ACT_TERM a read takes are the answers to its own request.
AnswersAreOwn ==
  conn = "pooled" =>
    /\ dev.todo = <<>>
    /\ \A i \in DOMAIN up : up[i].fmt # "I"
    /\ \A i \in DOMAIN down : down[i].fmt = "I" => down[i].what = "point"

\* What is inductive of them.  The request of the current read is on its way, or it
\* has been heard and the station still owes the end of the answer, or that end is
\* on its way back; at all other times there is nothing of the kind anywhere.
NoRequest(u)    == \A i \in DOMAIN u : u[i].fmt # "I"
OnlyPoints(fs)  == \A i \in DOMAIN fs : fs[i].fmt = "I" => fs[i].what = "point"
NoTerm(fs)      == \A i \in DOMAIN fs : fs[i].fmt = "I" => fs[i].what # "term"
EndsInTerm(t)   == t # <<>> /\ \A i \in DOMAIN t : t[i] = "term" <=> i = Len(t)
TermAt(fs, n)   == /\ n \in DOMAIN fs /\ fs[n].fmt = "I" /\ fs[n].what = "term"
                   /\ \A i \in DOMAIN fs : fs[i].fmt = "I" =>
                        (i < n => fs[i].what # "term") /\ (i > n => fs[i].what = "point")
AllAnswered == NoRequest(up) /\ dev.todo = <<>> /\ OnlyPoints(down)
RequestOnWay == /\ ~NoRequest(up) /\ dev.todo = <<>> /\ OnlyPoints(down)
                /\ local.tx = NextSeq(dev.vr)
AnswerDue   == NoRequest(up) /\ EndsInTerm(dev.todo) /\ NoTerm(down) /\ local.tx = dev.vr
AnswerOnWay == /\ NoRequest(up) /\ dev.todo = <<>> /\ \E n \in DOMAIN down : TermAt(down, n)
               /\ local.tx = dev.vr

RequestInv ==
  \A i \in DOMAIN up : up[i].fmt = "I" =>
    up[i].ns = dev.vr /\ dev.started /\ \A j \in DOMAIN up : up[j].fmt = "I" => j = i
StartInv ==
  /\ \A i \in DOMAIN up : up[i] = Uframe("STARTDT_ACT") =>
       ~dev.started /\ \A j \in DOMAIN up : up[j] = Uframe("STARTDT_ACT") => j = i
  /\ \A i \in DOMAIN down : down[i] = Uframe("STARTDT_CON") => dev.started
CallInv ==
  /\ (conn = "leased") = (call # "out")
  /\ call = "collect" => RequestOnWay \/ AnswerDue \/ AnswerOnWay
  /\ conn # "none" /\ call # "collect" => AllAnswered /\ meta.tx = dev.vr
  /\ call \in {"begin", "start"} => local.tx = meta.tx
  /\ conn # "none" /\ call \in {"out", "collect"} => meta.started
  /\ call = "start" => ~meta.started
  /\ conn # "none" /\ meta.started => dev.started
  /\ call = "begin" /\ ~meta.started =>
       ~dev.started /\ \A i \in DOMAIN up : up[i] # Uframe("STARTDT_ACT")
SessionInv == TypeOK /\ RequestInv /\ StartInv /\ CallInv

\* Every read returns, whatever the station does or fails to do, provided it
\* volunteers finitely many frames: the timeout starts anew with every frame.
ReadsReturn == call # "out" ~> call = "out"

\* The comment on _W_WINDOW: an S frame is sent when more than w I frames are
\* unacknowledged, so a read that waits owes the station at most w.
AckedWithinWindow == call = "collect" => Distance(acked, got) <= W

\* The comment on the sequence check: a jump means that frames were lost, which
\* never happens here.
JumpMeansLoss == ~alarm
=============================================================================
