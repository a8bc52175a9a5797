------------------------------ MODULE Capture ------------------------------
(***************************************************************************)
(* parse_pcap (pcap.py) on a capture: the segments of one TCP connection in *)
(* the order of the capture, some missing, repeated, late or overlapping,  *)
(* are joined per direction, cut into frames and parsed, together with the *)
(* other connection the capture may hold.                                  *)
(***************************************************************************)
EXTENDS ListenerAnswers

CONSTANTS Dialects,      \* the connections to capture
          Others,        \* the dialects of the other connection, "quiet" for one of no frames
          Starts,        \* the sequence numbers a side may begin with
          SeqModulus,    \* where they start over, 2^32 in the protocol
          SegmentSizes,  \* payload sizes of segments; 0 is a bare ACK
          BudgetFrames,  \* how many frames the budget of the output has room for
          MaxSegments    \* bound: segments captured or missed

Sides == {"client", "server"}
NoBuffer == [parts |-> <<>>, expected |-> -1, gaps |-> 0]

VARIABLES spoken,    \* the dialect of the connection, "none" before it is chosen
          isn,       \* its first sequence number
          sent,      \* the frames each side has to send
          position,  \* how much each side has sent
          segments,  \* how many segments there were
          forward,   \* the side the flow is named for: the first one captured
          buffers,   \* a _DirBuffer for each side
          origin,    \* history: where the first payload captured of each side starts
          flows,     \* the flows of the capture, in the order of their addresses
          report     \* what parse_pcap returns, Unread before it is called

capture_vars == <<spoken, isn, sent, position, segments, forward, buffers, origin, flows, report>>

Unread == [kind |-> "unread", protocols |-> <<>>, total |-> 0, truncated |-> FALSE, frames |-> <<>>]
Raised == [Unread EXCEPT !.kind = "raised"]

OtherSide(side) == CHOOSE s \in Sides : s # side
Wire(dialect) == CASE dialect \in MC!FRAME_FORMATS -> "melsec" [] OTHER -> dialect

\* Two exchanges of each dialect, as adapters and listener have them.
Requested(dialect) ==
  CASE dialect = "modbus" -> <<MB!BuildReadRequest(1, 1, 3, 0, 1), MB!BuildReadRequest(2, 1, 1, 7, 9)>>
    [] dialect = "fins"   -> <<FI!BuildHandshakeRequest(1), FI!BuildReadRequest(9, 1, 130, 0, 2, 2)>>
    [] dialect \in MC!FRAME_FORMATS ->
         <<MC!BuildReadRequest(dialect, "D", 100, 2, 255, 0, 4, 1), MC!BuildReadRequest(dialect, "X", 16, 20, 255, 0, 4, 2)>>
Answered(dialect, asked) ==
  [i \in DOMAIN asked |-> BuildNormalResponse(Wire(dialect), asked[i], 2)]
Said(dialect, side) == IF side = "client" THEN Requested(dialect) ELSE Answered(dialect, Requested(dialect))
Stream(side) == FlattenSeq(sent[side])

\* What a side sends is shorter than a turn of the numbers.
ASSUME CaptureAssumption ==
  /\ SeqModulus \in Nat \ {0} /\ Starts \subseteq Nat /\ SegmentSizes \subseteq Nat /\ BudgetFrames \in Nat
  /\ Dialects \cup (Others \ {"quiet"}) \subseteq {"modbus", "fins"} \cup MC!FRAME_FORMATS
  /\ \A dialect \in Dialects, side \in Sides :
       \E stream \in {FlattenSeq(Said(dialect, side))} : stream \in Seq(Int) /\ Len(stream) < SeqModulus

\* A flow: who it is named for, and of each side what was joined and what was sent.
Flow(dialect, first, parts, frames) == [dialect |-> dialect, forward |-> first, parts |-> parts, sent |-> frames]
ThisFlow == Flow(spoken, forward, [s \in Sides |-> buffers[s].parts], sent)
OtherFlow(dialect) ==
  LET asked  == IF dialect = "quiet" THEN <<>> ELSE Requested(dialect)
      frames == [client |-> asked, server |-> Answered(dialect, asked)]
  IN Flow(dialect, "client", [s \in Sides |-> FlattenSeq(frames[s])], frames)

-----------------------------------------------------------------------------

\* Mutated form: a segment that begins before expected and ends after it is joined.
AddOverlapping(buffer, seq, data) ==
  IF data = <<>> \/ seq + Len(data) <= buffer.expected THEN buffer
  ELSE [parts |-> buffer.parts \o data, expected |-> seq + Len(data),
        gaps |-> buffer.gaps + (IF buffer.expected # -1 /\ seq > buffer.expected THEN 1 ELSE 0)]

\* _DirBuffer.add
Add(buffer, seq, data) ==
  LET joined == [buffer EXCEPT !.parts = @ \o data, !.expected = seq + Len(data)] IN
  CASE data = <<>> -> buffer
    [] data # <<>> /\ buffer.expected \in {-1, seq} -> joined
    [] data # <<>> /\ buffer.expected > seq         -> buffer
    [] OTHER -> [joined EXCEPT !.gaps = @ + 1]

\* _autodetect_flow: the first protocol of the most complete frames, "none" if
\* there is no frame.
PROTOCOLS == <<"modbus", "fins", "melsec">>
Complete(protocol, parts) == Len(SplitFrames(protocol, parts).frames)
AutodetectFlow(parts) ==
  LET Total(p) == Complete(p, parts["client"]) + Complete(p, parts["server"])
      totals   == <<Total(PROTOCOLS[1]), Total(PROTOCOLS[2]), Total(PROTOCOLS[3])>>
      best     == {i \in 1..3 : totals[i] > 0 /\ \A j \in 1..3 : totals[j] < totals[i] \/ (totals[j] = totals[i] /\ i <= j)}
  IN IF best = {} THEN "none" ELSE PROTOCOLS[CHOOSE i \in best : TRUE]

\* The frames of a side of a flow, the tail that makes none marked as partial.
Told(flow, side, partial, frames) ==
  [i \in DOMAIN frames |-> [flow |-> flow, side |-> side, frame |-> frames[i], partial |-> partial]]
Marked(flow, side, split) ==
  Told(flow, side, FALSE, split.frames) \o (IF split.tail = <<>> THEN <<>> ELSE Told(flow, side, TRUE, <<split.tail>>))

\* All frames of the side the flow is named for, then all of the other.
InOrder(flow, side) == IF side = 1 THEN flow.forward ELSE OtherSide(flow.forward)
Chunk(capture, n, protocol) ==
  LET Of(side) == Marked(n, side, SplitFrames(protocol, capture[n].parts[side]))
  IN Of(InOrder(capture[n], 1)) \o Of(InOrder(capture[n], 2))

\* One flow after another, until the budget they share is used up.
Fitted(chunks) == Upto(FlattenSeq(chunks), BudgetFrames)

\* Frames of one size, so that the budget is a number of them.
Report(capture, protocols) ==
  LET chunks == [n \in DOMAIN capture |-> Chunk(capture, n, protocols[n])]
      total  == Len(FlattenSeq(chunks))
  IN [kind |-> "flows", protocols |-> protocols, total |-> total, truncated |-> total > BudgetFrames,
      frames |-> Fitted(chunks)]

-----------------------------------------------------------------------------

CaptureInit ==
  /\ spoken = "none" /\ isn = 0
  /\ sent = [s \in Sides |-> <<>>]
  /\ position = [s \in Sides |-> 0] /\ origin = [s \in Sides |-> -1]
  /\ segments = 0
  /\ forward = "none"
  /\ buffers = [s \in Sides |-> NoBuffer]
  /\ flows = <<>> /\ report = Unread

ChooseSpoken ==
  /\ spoken = "none"
  /\ spoken' \in Dialects /\ isn' \in Starts
  /\ sent' = [s \in Sides |-> Said(spoken', s)]
  /\ UNCHANGED <<position, segments, forward, buffers, origin, flows, report>>

\* One packet of the capture: bytes from to upto - 1 of a side's stream.
Packet(side, from, upto) ==
  \E data \in {SubSeq(Stream(side), from + 1, upto)} :
    /\ forward' = IF forward = "none" THEN side ELSE forward
    /\ buffers' = [buffers EXCEPT ![side] = Add(@, (isn + from) % SeqModulus, data)]
    /\ origin'  = [origin EXCEPT ![side] = IF @ = -1 /\ data # <<>> THEN from ELSE @]

\* A side sends its next segment; the capture has it or misses it.
Segment ==
  /\ spoken # "none" /\ report = Unread /\ segments < MaxSegments
  /\ \E side \in Sides : \E size \in SegmentSizes \cup {Len(Stream(side)) - position[side]} :
       /\ position[side] + size <= Len(Stream(side))
       /\ position' = [position EXCEPT ![side] = @ + size]
       /\ Packet(side, position[side], position[side] + size) \/ UNCHANGED <<forward, buffers, origin>>
  /\ segments' = segments + 1
  /\ UNCHANGED <<spoken, isn, sent, flows, report>>

\* A segment comes again, or late, or grown by bytes that were not sent yet.
Retransmission ==
  /\ spoken # "none" /\ report = Unread /\ segments < MaxSegments
  /\ \E side \in Sides : \E from \in {n \in 0..position[side] - 1 : n \in SegmentSizes \cup {0}} :
       \E upto \in {position[side], Len(Stream(side))} :
         /\ position' = [position EXCEPT ![side] = upto]
         /\ Packet(side, from, upto)
  /\ segments' = segments + 1
  /\ UNCHANGED <<spoken, isn, sent, flows, report>>

\* The capture is complete; another connection has its packets in buffers of its own,
\* wherever in the capture they are, and its flow before or after this one.
Captures ==
  {<<ThisFlow>>} \cup {<<ThisFlow, OtherFlow(other)>> : other \in Others}
                 \cup {<<OtherFlow(other), ThisFlow>> : other \in Others}

\* The call, told one protocol for all flows or none; without, a flow of no frames
\* raises, and takes the other with it.
ParsePcap ==
  /\ forward # "none" /\ report = Unread
  /\ flows' \in Captures
  /\ \E guess \in BOOLEAN :
     \E protocols \in {[n \in DOMAIN flows' |-> IF guess THEN AutodetectFlow(flows'[n].parts) ELSE Wire(spoken)]} :
       report' = IF \E n \in DOMAIN protocols : protocols[n] = "none" THEN Raised ELSE Report(flows', protocols)
  /\ UNCHANGED <<spoken, isn, sent, position, segments, forward, buffers, origin>>

CaptureNext == ChooseSpoken \/ Segment \/ Retransmission \/ ParsePcap

-----------------------------------------------------------------------------

\* How many of a side's frames lie wholly within its first k bytes.
Within(frames, k) == Cardinality({i \in DOMAIN frames : Len(FlattenSeq(SubSeq(frames, 1, i))) <= k})
TruthOf(n, side, parts, frames) ==
  LET whole == SubSeq(frames, 1, Within(frames, Len(parts)))
  IN Marked(n, side, [frames |-> whole, tail |-> From(parts, Len(FlattenSeq(whole)))])
Truth(n) ==
  LET Of(side) == TruthOf(n, side, flows[n].parts[side], flows[n].sent[side])
  IN Of(InOrder(flows[n], 1)) \o Of(InOrder(flows[n], 2))
ProtocolsAreRight == \A n \in DOMAIN flows : report.protocols[n] = Wire(flows[n].dialect) \/ flows[n].dialect = "quiet"

\* Bytes are only missing in the middle of what was joined where gaps tells of
\* it, repeated, late or grown segments or not (_DirBuffer.add).
JoinedIsUnbroken ==
  \A s \in Sides : (buffers[s].parts # <<>> /\ buffers[s].gaps = 0) =>
    IsPrefix(buffers[s].parts, From(Stream(s), origin[s]))

\* A capture is not made to say what was not said.  What was joined is unbroken
\* where no gap is told; and what was joined from the start of a connection is
\* reported, flow by flow and frame by frame, as the frames that were sent, cut
\* short only where it says so and by as much as it says, each of them sound
\* and of the direction of its sender.
CaptureIsTruthful ==
  /\ JoinedIsUnbroken
  /\ (report.kind = "flows" /\ ProtocolsAreRight /\ \A s \in Sides : buffers[s].gaps = 0 /\ origin[s] \in {-1, 0}) =>
       /\ \E told \in {FlattenSeq([n \in DOMAIN flows |-> Truth(n)])} :
            IsPrefix(report.frames, told) /\ report.total = Len(told) /\ report.truncated = (report.frames # told)
       /\ \A r \in {q \in Range(report.frames) : ~q.partial} :
            \E parsed \in {ParseAuto(report.protocols[r.flow], r.frame)} :
              parsed.errors = {} /\ parsed.direction = (IF r.side = "client" THEN "req" ELSE "resp")

\* What the head of pcap.py says of several connections, that they do not disturb
\* each other and one without a frame goes by the others: parse_pcap gives up only
\* where there is no frame at all.  The code gives up at the first such flow.
FlowsAreIndependent ==
  report.kind = "raised" =>
    \A n \in DOMAIN flows : \A p \in Range(PROTOCOLS), s \in Sides : Complete(p, flows[n].parts[s]) = 0
=============================================================================
