------------------------------- MODULE Relay -------------------------------
(***************************************************************************)
(* A session of the proxy (proxy.py, _pump_pair and _pump_dir): two pumps, *)
(* one per direction, cut what they read into frames (streams.py), record   *)
(* every frame in the ring the session's proxy keeps, and send it on.      *)
(*                                                                         *)
(* A stream is a sequence of pieces, numbered by their place in it.  A     *)
(* frame is a head, from which its length is known, and a tail; junk is    *)
(* what the framing cannot make a frame of.  A read returns all that has   *)
(* arrived, so where a frame is cut is up to the arrivals.  A step is the  *)
(* code between two suspension points; module PortRegistry has how a       *)
(* session begins and how stop ends it.                                    *)
(***************************************************************************)
EXTENDS Integers, Sequences, SequencesExt

CONSTANTS
  MaxPieces,   \* per direction: the pieces its sender may send (a bound)
  BlindLimit,  \* _BLIND_FLUSH_BYTES, in pieces
  FrameLimit   \* _PROXY_FRAME_LIMIT

Dirs  == {"c2s", "s2c"}
Sides == {"client", "device"}
Kinds == {"head", "tail", "junk"}

Source(d) == IF d = "c2s" THEN "client" ELSE "device"
Sink(d)   == IF d = "c2s" THEN "device" ELSE "client"
Other(d)  == IF d = "c2s" THEN "s2c" ELSE "c2s"

\* A frame still without its tail is below the limit (MAX_FRAME_LEN).
ASSUME LimitAssumption == /\ MaxPieces \in [Dirs -> Nat]
                          /\ BlindLimit \in Nat /\ BlindLimit >= 2
                          /\ FrameLimit \in Nat \ {0}

VARIABLES
  what,     \* per direction: the kinds of the pieces sent so far
  inbox,    \* per direction: pieces received, and not read yet
  buf,      \* per direction: buf, pieces read, and not sent on yet
  blind,    \* per direction: blind
  out,      \* per direction: the pieces sent on
  pump,     \* per direction: reading; sending, flushing, passing (in drain); ended
  frames,   \* the proxy's ring: records <<direction, number of the frame's head>>
  log,      \* history: all that was ever put into the ring
  session,  \* open or closed
  fin,      \* per side: it has closed its end
  gone,     \* per side: the connection to it is lost
  stalled   \* per side: it has stopped reading

streamVars == <<inbox, buf, blind, out>>
ringVars   == <<frames, log>>
peerVars   == <<fin, gone, stalled>>
vars       == <<what, streamVars, pump, ringVars, session, peerVars>>

TypeOK ==
  /\ what \in [Dirs -> Seq(Kinds)]
  /\ {inbox, buf, out} \subseteq [Dirs -> Seq(Nat)]
  /\ blind \in [Dirs -> BOOLEAN]
  /\ pump \in [Dirs -> {"reading", "sending", "flushing", "passing", "ended"}]
  /\ {frames, log} \subseteq Seq(Dirs \X Nat)
  /\ session \in {"open", "closed"}
  /\ {fin, gone, stalled} \subseteq [Sides -> BOOLEAN]
  /\ \A d \in Dirs : blind[d] => buf[d] = <<>>

Init ==
  /\ what  = [d \in Dirs |-> <<>>]
  /\ inbox = [d \in Dirs |-> <<>>]
  /\ buf   = [d \in Dirs |-> <<>>]
  /\ out   = [d \in Dirs |-> <<>>]
  /\ blind = [d \in Dirs |-> FALSE]
  /\ pump  = [d \in Dirs |-> "reading"]
  /\ frames = <<>>
  /\ log    = <<>>
  /\ session = "open"
  /\ fin     = [s \in Sides |-> FALSE]
  /\ gone    = [s \in Sides |-> FALSE]
  /\ stalled = [s \in Sides |-> FALSE]

-----------------------------------------------------------------------------
(* The two ends                                                             *)

\* The sender of d sends a piece; a tail follows its head, and only that.
Arrive(d, kind) ==
  /\ Len(what[d]) < MaxPieces[d]
  /\ session = "open"
  /\ ~fin[Source(d)] /\ ~gone[Source(d)]
  /\ (kind = "tail") = (what[d] # <<>> /\ Last(what[d]) = "head")
  /\ what'  = [what EXCEPT ![d] = Append(@, kind)]
  /\ inbox' = [inbox EXCEPT ![d] = Append(@, Len(what[d]) + 1)]
  /\ UNCHANGED <<buf, blind, out, pump, ringVars, session, peerVars>>

\* An end that is there closes, breaks off, or stops reading while it stays.
OnPeer(s) == session = "open" /\ ~gone[s] /\ UNCHANGED <<what, streamVars, pump, ringVars, session>>

Closes(s) == OnPeer(s) /\ ~fin[s] /\ fin' = [fin EXCEPT ![s] = TRUE] /\ UNCHANGED <<gone, stalled>>
Resets(s) == OnPeer(s) /\ gone' = [gone EXCEPT ![s] = TRUE] /\ UNCHANGED <<fin, stalled>>
Stalls(s) == OnPeer(s) /\ ~stalled[s] /\ stalled' = [stalled EXCEPT ![s] = TRUE] /\ UNCHANGED <<fin, gone>>

-----------------------------------------------------------------------------
(* A pump                                                                   *)

\* streams.try_frame_len finds a frame at the head of b.
StartsWithFrame(d, b) ==
  /\ Len(b) >= 2
  /\ what[d][b[1]] = "head"

\* Mutated form: the oldest frames stay.
TrimNewest(fs) == IF Len(fs) > FrameLimit THEN SubSeq(fs, 1, FrameLimit) ELSE fs
Trim(fs) == IF Len(fs) > FrameLimit THEN SubSeq(fs, Len(fs) - FrameLimit + 1, Len(fs)) ELSE fs

\* A frame is cut off b, recorded and written.
SendFrame(d, b) ==
  LET record == <<d, b[1]>> IN
  /\ frames' = Append(frames, record)
  /\ log'    = Append(log, record)
  /\ out'    = [out EXCEPT ![d] = @ \o SubSeq(b, 1, 2)]
  /\ buf'    = [buf EXCEPT ![d] = SubSeq(b, 3, Len(b))]
  /\ pump'   = [pump EXCEPT ![d] = "sending"]
  /\ UNCHANGED blind

\* More than the limit makes no frame: all of it is written, and from now on
\* all that comes.  Mutated form: the flag is not set.
FlushOnly(d, b) ==
  /\ out'   = [out EXCEPT ![d] = @ \o b]
  /\ buf'   = [buf EXCEPT ![d] = <<>>]
  /\ pump'  = [pump EXCEPT ![d] = "flushing"]
  /\ UNCHANGED <<blind, ringVars>>
Flush(d, b) ==
  /\ out'   = [out EXCEPT ![d] = @ \o b]
  /\ buf'   = [buf EXCEPT ![d] = <<>>]
  /\ blind' = [blind EXCEPT ![d] = TRUE]
  /\ pump'  = [pump EXCEPT ![d] = "flushing"]
  /\ UNCHANGED ringVars

\* No frame, and not too much: the pump reads on.
Wait(d, b) ==
  /\ buf'    = [buf EXCEPT ![d] = b]
  /\ frames' = Trim(frames)
  /\ pump'   = [pump EXCEPT ![d] = "reading"]
  /\ UNCHANGED <<out, blind, log>>

\* The inner loop, with b in the buffer, up to its next suspension.  Mutated form:
\* an if in place of the while, one frame per chunk.
CutOnce(d, b) ==
  IF StartsWithFrame(d, b) /\ pump[d] # "sending" THEN SendFrame(d, b)
  ELSE IF Len(b) > BlindLimit THEN Flush(d, b)
  ELSE Wait(d, b)
Cut(d, b) ==
  IF StartsWithFrame(d, b) THEN SendFrame(d, b)
  ELSE IF Len(b) > BlindLimit THEN Flush(d, b)
  ELSE Wait(d, b)

\* Mutated form: what was left over of the chunk before is forgotten.
ChunkAlone(d) == inbox[d]
Joined(d) == buf[d] \o inbox[d]

\* read returns a chunk.
ReadChunk(d) ==
  /\ pump[d] = "reading"
  /\ inbox[d] # <<>> /\ ~gone[Source(d)]
  /\ inbox' = [inbox EXCEPT ![d] = <<>>]
  /\ IF blind[d]
     THEN /\ out'  = [out EXCEPT ![d] = @ \o inbox[d]]
          /\ pump' = [pump EXCEPT ![d] = "passing"]
          /\ UNCHANGED <<buf, blind, ringVars>>
     ELSE Cut(d, Joined(d))
  /\ UNCHANGED <<what, session, peerVars>>

\* drain returns.
Drained(d) ==
  /\ pump[d] \in {"sending", "flushing", "passing"}
  /\ ~gone[Sink(d)] /\ ~stalled[Sink(d)]
  /\ CASE pump[d] = "sending"  -> Cut(d, buf[d])
       [] pump[d] = "flushing" -> Wait(d, buf[d])
       [] pump[d] = "passing"  -> /\ pump' = [pump EXCEPT ![d] = "reading"]
                                  /\ UNCHANGED <<buf, blind, out, ringVars>>
  /\ UNCHANGED <<what, inbox, session, peerVars>>

\* A pump whose task has been ended returns; what is in its buffer is lost.
EndPump(d) ==
  /\ pump' = [pump EXCEPT ![d] = "ended"]
  /\ UNCHANGED <<what, streamVars, ringVars, session, peerVars>>

\* drain raises: the connection written to is lost.
DrainFails(d) ==
  /\ pump[d] \in {"sending", "flushing", "passing"}
  /\ gone[Sink(d)]
  /\ EndPump(d)

\* read raises: the connection read from is lost, with what was received.
ReadFails(d) == pump[d] = "reading" /\ gone[Source(d)] /\ EndPump(d)

\* read returns the empty chunk.  Mutated form: the pump reads on.
EofGoesOn(d) ==
  /\ pump[d] = "reading"
  /\ inbox[d] = <<>> /\ fin[Source(d)]
  /\ UNCHANGED vars
EndOfFile(d) ==
  /\ pump[d] = "reading"
  /\ inbox[d] = <<>> /\ fin[Source(d)]
  /\ EndPump(d)

\* Nothing came for idle_timeout_sec.
IdleTimeout(d) ==
  /\ pump[d] = "reading"
  /\ inbox[d] = <<>> /\ ~fin[Source(d)] /\ ~gone[Source(d)]
  /\ EndPump(d)

\* gather returns when both pumps have; finally closes both connections.
CloseSession ==
  /\ session = "open"
  /\ \A d \in Dirs : pump[d] = "ended"
  /\ session' = "closed"
  /\ UNCHANGED <<what, streamVars, pump, ringVars, peerVars>>

-----------------------------------------------------------------------------
Step(d) == ReadChunk(d) \/ Drained(d) \/ DrainFails(d) \/ ReadFails(d) \/ EndOfFile(d)

Next ==
  \/ \E d \in Dirs : Step(d) \/ IdleTimeout(d) \/ \E kind \in Kinds : Arrive(d, kind)
  \/ \E s \in Sides : Closes(s) \/ Resets(s) \/ Stalls(s)
  \/ CloseSession

Spec == Init /\ [][Next]_vars

\* The event loop resumes a pump that has something to read or has written.  No
\* fairness of the ends, nor of the idle timeout: whatever an end sends, in time,
\* puts it off.
FairSpec == Spec /\ WF_vars(CloseSession) /\ \A d \in Dirs : WF_vars(Step(d))

-----------------------------------------------------------------------------
(* Properties                                                               *)

Numbers(n) == [i \in 1..n |-> i]

\* Whatever the arrivals, and through the change to blind forwarding, the proxy
\* loses, repeats and reorders nothing while a pump runs: what it has sent on, what
\* it keeps and what it has not read are the stream that was sent to it.
StreamIsIntact ==
  \A d \in Dirs : out[d] \o buf[d] \o inbox[d] = Numbers(Len(what[d]))

Kind(d, i)  == what[d][out[d][i]]
Heads(d)    == {out[d][i] : i \in {j \in DOMAIN out[d] : Kind(d, j) = "head"}}
Recorded(d) == {log[i][2] : i \in {j \in DOMAIN log : log[j][1] = d}}

\* The frames of a direction are on record in the order they were sent, each once.
RecordInOrder ==
  \A i, j \in DOMAIN log : i < j /\ log[i][1] = log[j][1] => log[i][2] < log[j][2]

\* What was sent on is whole frames: a piece follows every head, and every other
\* piece follows a head.
WholeFrames(d) ==
  \A i \in DOMAIN out[d] :
    IF Kind(d, i) = "head" THEN i + 1 \in DOMAIN out[d] ELSE i > 1 /\ Kind(d, i - 1) = "head"

\* Until a direction is blind, the receiver gets whole frames, and exactly the
\* frames it got are on record, in the order it got them; afterwards the record
\* stops.
RecordIsTruthful ==
  /\ RecordInOrder
  /\ \A d \in Dirs :
       IF blind[d]
       THEN /\ Recorded(d) \subseteq Heads(d)
            /\ \A r \in Recorded(d), h \in Heads(d) : h <= r => h \in Recorded(d)
       ELSE Recorded(d) = Heads(d) /\ WholeFrames(d)

\* The ring, which both pumps fill and trim while the other is suspended, holds the
\* newest records, FrameLimit of them or all there are.
RingIsNewest ==
  /\ IsSuffix(frames, log)
  /\ Len(frames) >= FrameLimit \/ frames = log

\* What is inductive of it: the ring, index by index, is the end of the log.
EndOf(fs, l) ==
  /\ Len(fs) <= Len(l)
  /\ \A i \in 1..Len(fs) : fs[i] = l[Len(l) - Len(fs) + i]
  /\ Len(fs) >= FrameLimit \/ Len(fs) = Len(l)
NewestByIndex == EndOf(frames, log)
RelayInv == TypeOK /\ StreamIsIntact /\ NewestByIndex

\* A tail follows its head, and only that.
Framed(d) ==
  \A i \in DOMAIN what[d] :
    (what[d][i] = "tail") = (i > 1 /\ what[d][i - 1] = "head")

\* What is inductive of RecordIsTruthful: as the stream is intact, the pieces sent
\* on are the first of the stream, and a record is the place of a head among them.
IsRecorded(d, n) == \E j \in DOMAIN log : log[j] = <<d, n>>
RecordedWhole(d) ==
  \A n \in 1..Len(out[d]) :
    IF what[d][n] = "head" THEN n < Len(out[d]) /\ IsRecorded(d, n)
    ELSE n > 1 /\ what[d][n - 1] = "head"
RecordInv ==
  /\ RecordInOrder
  /\ \A d \in Dirs :
       /\ Framed(d)
       /\ \A n \in Nat : IsRecorded(d, n) => n \in 1..Len(out[d]) /\ what[d][n] = "head"
       /\ \A m, n \in 1..Len(out[d]) :
            what[d][m] = "head" /\ m <= n /\ IsRecorded(d, n) => IsRecorded(d, m)
       /\ ~blind[d] => RecordedWhole(d)

\* A pump never comes to rest with a complete frame before it: the frame does not
\* have to wait for the next chunk, unless the receiver stopped reading.
FramesGetThrough ==
  \A d \in Dirs :
    []<>(~StartsWithFrame(d, buf[d] \o inbox[d]) \/ pump[d] = "ended" \/ stalled[Sink(d)])

\* A session whose two ends have closed is closed, unless an end stopped reading.
SessionEnds ==
  (\A s \in Sides : fin[s] \/ gone[s]) ~> (session = "closed" \/ \E s \in Sides : stalled[s])
=============================================================================
