# plctap: a TLA+ verification project

plctap is an MCP server through which an agent talks to industrial controllers:
it reads and writes registers over seven protocols, sends raw frames, plays the
part of a device, records traffic between two others, and explains captured
frames.  It is one Python process on one asyncio event loop; everything that can
go wrong between two `await`s goes wrong between tasks of that loop, and
everything that can go wrong on a wire goes wrong between a task and a device.
The modules here model that part of it.  Paths below are relative to
`src/src/plctap/`.

## Inventory

| component | state | operations | talks to |
|---|---|---|---|
| connection pool, `conn/manager.py` | idle list, count of connections in use and lock per target; sweeper task | `lock_for`, `acquire`, `release`, `discard`, `close_all`, sweep | adapters, asyncio transports |
| locked exchange and adapter base, `protocols/base.py` | none | `locked_exchange`, `recv_exact`, adapter registry | pool |
| six socket adapters, `protocols/{modbus,fins,melsec,s7,enip,iec104}/adapter.py` | per connection, in `conn.metadata`: FINS nodes, ENIP session, S7 handshake, IEC 104 sequence numbers; transaction counters | `probe`, `read`, `write`, `send_raw` | pool, codec, device, audit log (`on_frame`) |
| OPC UA adapter, `protocols/opcua/adapter.py` | none (a client per call) | `probe`, `read`, `browse` | the asyncua library |
| codecs, `protocols/*/codec.py`, `common.py`, `auto.py` | none | build, parse, validate frames | adapters, diagnosis |
| stream framing, `streams.py` | none | cut a byte stream into frames | listener, proxy, capture |
| listener, `listener.py` | listeners by port, their connections, frames seen, fault plan, idle timer | `start`, `stop`, `status`, connection handler | tools, clients |
| proxy, `proxy.py` | proxies by port, sessions, frames recorded | `start`, `stop`, `status`, two pumps per session | tools, a client and a device |
| detection, `protocols/detect.py` | none | port scan, fingerprints, ranking | adapters' probes |
| capture analysis, `pcap.py` | none | reassembly of flows, pairing of requests and replies | codecs, diagnosis |
| diagnosis, `diag/` | knowledge base read at start | match frames and symptoms | codecs |
| audit log, `safety.py` | an append-only file | `record` | adapters (through `on_frame`), tools |
| server and tools, `server.py` | the objects above | one function per MCP tool | all |

**Hard behaviours.**  *Concurrency*: the MCP server runs tool calls as tasks, so
several calls to one target are under way at once, and any of them can be
cancelled at any `await`; the sweeper, `close_all`, listeners and proxies are
further tasks.  *Failure*: devices refuse, reset, half-close, answer late, in
pieces, wrongly or never; an exception an adapter does not list leaves an
exchange by a path of its own.  *Ordering*: handshakes before requests,
replies in the order of requests, audit records before effects.  *Timeouts*: a
timed-out request may still be answered.  *Counters*: connections in use,
sequence numbers modulo 2^15, windows.

**What correctness means.**

- Pool: one exchange per target at a time; no connection in two hands; idle
  connections are reusable ones; the count of connections in use follows what is
  in use; every socket is accounted for; every call returns.
- Adapters: a reply goes to the request it answers; a connection that may be
  out of step never goes back to the pool; handshakes come first and once; a
  write is on record before the device can see it.  What is asked of the device is what
  the caller meant, what a call returns is what became of it, and a probe's verdict is true.
- IEC 104: numbers in sequence across reads; the transfer started once; windows
  respected.
- Listener and proxy: an open server can be stopped, a registered one is open; `stop`
  returns and leaves no task behind; every byte a proxy reads is forwarded, once and in
  order; every frame is recorded, and the ring keeps the newest; sessions end.
- Codecs and framing: what one part builds another cuts out of a stream whole and
  accepts; an answer is told from the answer to another request.
- Listener: a request is recorded and answered once, whatever the pieces it comes in; an
  injected fault can be seen by whoever reads the answer.
- Detection: what is returned depends on what was found, not on the order in which
  concurrent probes end.
- Capture: nothing is reported that was not sent, and missing bytes are counted.
- Diagnosis: each reply is paired with the request it answers; a healthy trace gets no
  conclusion, a faulty one gets some.

## Modules

| module | models | extends |
|---|---|---|
| `ConnectionPool` | `conn/manager.py` and the frame `locked_exchange` and every adapter put around an exchange | |
| `ConnectionLease` | what the pool promises: the abstract specification | |
| `Exchange` | requests and replies on pooled connections, six protocols | `ConnectionPool` |
| `Iec104Session` | interrogations of the IEC 104 adapter over one pooled connection and its successors | |
| `PortRegistry` | start, stop and the client tasks of `listener.py` and `proxy.py` | |
| `Relay` | a session of the proxy: two pumps, framing, the ring of frames | |
| `Frames` | bytes at offsets, integers of two and four bytes, hexadecimal digits | |
| `ModbusCodec`, `FinsCodec`, `MelsecCodec`, `S7Codec`, `EnipCodec`, `Iec104Codec` | `protocols/*/codec.py`: builders, parsers, cross checks, validators | `Frames` |
| `Streams` | `streams.py`: where the frames of a byte stream end | `Frames` |
| `Codecs` | the codecs together, and the direction `protocols/auto.py` guesses | `Streams`, instances of the codecs |
| `ListenerAnswers` | `listener.py`: the answers and the faults | `Codecs` |
| `Listener` | `listener.py`: the handlers of a listener's connections, their ring and rotation | `ListenerAnswers` |
| `Devices` | the devices the adapters talk to, from bytes of a request to what it asks and back (external) | `Codecs`, instances of the codecs |
| `Adapters` | probe, read and write of the adapters on a device with a memory: requests, handshakes, answers, outcomes | `Devices` |
| `Diagnosis` | `diag/engine.py` and the knowledge base on a trace | `ListenerAnswers` |
| `Capture` | `pcap.py` on a capture of two connections | `ListenerAnswers` |
| `Detection` | `protocols/detect.py`: scan, fingerprints, deep reads, ranking | |
| `Analysis` | the three tools that only look, in one specification | `Diagnosis`, `Capture`, `Detection` |
| `ConnectionPoolProofs` | theorems about `ConnectionPool`: its invariants, that it implements `ConnectionLease`, and where its sockets are | `ConnectionPool` |
| `ExchangeProofs` | theorems about `Exchange` | `Exchange`, `ConnectionPoolProofs` |
| `Iec104SessionProofs` | theorems about `Iec104Session` | `Iec104Session` |
| `PortRegistryProofs` | theorems about `PortRegistry` | `PortRegistry` |
| `RelayProofs` | theorems about `Relay` | `Relay` |
| `FramingProofs` | that every frame a builder makes is cut whole, and accepted by the parser of its dialect; what `split_frames` makes of many | `Codecs` |
| `ListenerProofs` | theorems about `Listener` | `Listener`, `FramingProofs` |
| `AnalysisProofs` | theorems about `Detection` and `Capture`, in the specification of `Analysis`; what the listener answers to a read | `Analysis`, `FramingProofs` |
| `MCConnectionPool`, `MCExchange`, `MCPortRegistry`, `MCRelay`, `MCListener`, `MCAdapters`, `MCAnalysis` | instances: keys of the tasks, ports, stream lengths, calls, port priors, symmetry | |

### ConnectionPool

A *call* is a task that addresses one target; a *key* is `ConnectionKey`.  A step
is the code between two suspension points.

| in the code | in the module |
|---|---|
| `async with pool.lock_for(key)`: asyncio.Lock is FIFO, and refuses a newcomer while somebody waits | `Enter`, `Queue`, `Grant`, `CancelQueued`, `Leave`; `holder`, `waiters` |
| `acquire`: pop the idle list from its end, drop what is closing, return the first that is not | `TakeIdle` |
| `acquire`: nothing left, decide `ephemeral`, suspend in `open_connection`, then count | `BeginConnect`, `ConnectFails`, `ConnectSucceeds`; `planned` is the local `ephemeral` |
| `release`, `discard` with `max(0, n - 1)` | `Finish`, `Fail`, `PutBack`, `Decrement` |
| S7: `_ensure_handshake` discards, raises `ProtocolError`, and `_exchange` discards again | `FailTwice` |
| an exception no `except` clause lists (ValueError of a builder, CancelledError) | `Lose` |
| sweep loop, `close_all` (cancel, await, close idle) | `Sweep`, `Expire`, `CloseAllBegins`, `CloseAllEnds` |
| the transport: FIN leaves `is_closing()` False, a reset makes it True | `PeerCloses`, `PeerResets`; `sock` |

A connection identity is `closed` both when its transport is closed and when no
connection bears it, so the finite set of identities is reused.  `expired[x]`
stands for `now - last_used > idle_timeout_sec`.  `lost[k]` is history: it counts
the exchanges that left by `Lose`.

### Exchange

Adds what is on the wire: `device[x]`, the requests a device has not answered,
`inbox[x]`, what was received and not read, in pieces of replies, and `hello[x]`,
the completed handshake rounds of `conn.metadata`.  A reply is told apart only by
whom it answers: the handshake, a call that still waits, or a call that has gone
(`late`).  The operators of the first section say how the protocols differ: rounds
of handshake, whether a raw frame's reply is read as a frame, with one `read`, or
until the time is over, whether the frame is built before or under the lock (which
decides when a write is audited and where a ValueError arises), and whether the
parser compares an id that tells calls apart: those of Modbus TCP and of the reads of S7 do.  FINS
compares one too, but it is 1 in every call (see `Adapters`).  `adapter` is chosen by the initial state and never changes.

The device answers in the order it was asked, at once, in two segments, or with
bytes the reader finds implausible, or not at all.  A timeout is possible whenever
no complete frame is there: a reply that is on its way is a request the device has
not answered yet.

### Iec104Session

The pool serialises the reads of a target (theorem `OneExchangePerTargetHolds`), so
this module has one read at a time and no lock.  `meta` is `conn.metadata`, `local`
the variables of `_interrogate`.  The station is written from how the adapter and
the fake station of `tests/test_adapter_iec104.py` use the protocol: it starts the
transfer on request, drops a peer whose N(S) is out of order, answers an
interrogation with ACT_CON, points, ACT_TERM, holds back when `K` frames are
unacknowledged, and may volunteer frames, close, or stop at any time.

### PortRegistry

The two registries manage ports, servers and tasks by the same code; `kind` says which
it is, chosen by the initial state, and decides how a client task begins.

| in the code | in the module |
|---|---|
| `start`: check the port, suspend in `start_server`, register the actual port | `Start`, `Bind`, `BindFails`; `port[s]` is the port asked for and then the port bound |
| `_spawn`: a callback of the event loop makes the task after the client was accepted | `Accept`, `Spawn`; `session[x]` |
| listener `_serve`, inside `try ... finally: writer.close(); await writer.wait_closed()` | `BeginTask`, `EndServing`; `closing` while it waits, which a second cancellation ends (`AbandonClose`) |
| proxy `_pump_pair`: the connection to the device is outside that `try` | `BeginTask`, `ReachDevice`, `EndServing`; a client left open is `leaked` |
| a transport after `close()`: it sends what it still has, and is then detached from its server | `lingering` once the task has ended; `Detach`; not while the client is `clogged` (`Clog`) |
| `stop`: pop, close the server, cancel the tasks there are, gather, `wait_closed` | `Stop`, `Gathered`, `Stopped` |

`python` is the version of asyncio, also chosen by the initial state, since `stop` meets
two of its changes.  In 3.11 `wait_for` loses a cancellation that comes after its inner
task has ended (`deaf`), and `wait_closed` of a server returns at once; in 3.12 neither holds,
and it waits until every transport of the server is detached.  The project asks for 3.11 or later.

`close()` does not close a transport that has bytes to send to a client which has stopped
reading: it waits for them to go.  A listener's task waits with it, and has spent its
cancellation by then, so that `stop` hangs in `gather`; since 3.12 the server's `wait_closed`
hangs for listener and proxy alike.  `StopReturns` says that nothing else makes `stop` wait for ever:
`HeldUp(t)` lists what does.

### Relay

A stream is a sequence of numbered pieces: the head of a frame, its tail, junk.  One read
returns whatever has arrived, so `Arrive` decides how frames are cut up.  `Cut` is the
inner loop of `_pump_dir` up to the next `drain`: send a frame on, or flush and go blind,
or trim the ring and read on.  `drain` returns in a later step (`Drained`), so the two
pumps interleave wherever the code can suspend.  `log` is history: what was ever recorded.
The ends close, break off, or stop reading (`Closes`, `Resets`, `Stalls`) at any time.

### Codecs, framing and answers

Here a frame is its bytes, because what can go wrong is arithmetic on offsets and lengths:
a length field that counts from its own end or from the frame's start, a code read one
byte off, a field compared with the wrong field of the request.  Frames are short (the
longest is about a hundred bytes) and what is left out is what has no influence on a
verdict: texts, names of fields, `raw_hex`.  A parser returns the set of errors it finds, a
validator the set of checks that fail, each under the name the source gives it; a builder
returns `<<>>` where the source raises `ValueError`.  TLC's integers have 31 bits, so a
four-byte field from 2^31 up is one value above every limit the code compares with
(`Frames!Wide`).  `ParseAuto` follows `parse_auto`; `TryFrameLen` has `More` for `None`.

`BuildNormalResponse` and `ApplyFault` are written from the listener's own layouts, not from
the codecs, as in the source; that is why `AnswersAreRight` and `FaultsAreSeen` can fail.
`Diagnosis` and `Capture` use the same answers for the device of their traces.

### Listener

| in the code | in the module |
|---|---|
| `start`: protocol, mode, faults, with the combinations it refuses | `Setups`, `setup`, chosen by the initial state |
| `_recv_frame`: a local buffer, `try_frame_len`, `read` | `Read`, with `TakeBytes` for what a read returns; `buf` |
| `_serve` from a frame to the next `await`: record, answer, handshake, fault, write | `Serve`; an exception of a builder ends the connection |
| after `drain`: record what was sent | `Drained` |
| `finally: writer.close()` after EOF, timeout or an error | `EndServing` |
| `_record` with the limit of the ring | `Record`, `Trim` |

A client either waits until the listener has taken up what it sent, or is `Hasty` and sends
ahead.  The pieces a read returns are part of what was sent (`PieceSizes`) or all of it.  ENIP
has two dialects: the frames the adapter sends, whose tag services are in an envelope the
listener does not open, and bare tag services, which it answers.  The adapter refuses every
such answer for the type of its item, so `AnswersAreRight`, which asks for what the adapter's reader
takes (`CipReplyOf` among it), is checked of the second dialect in `ListenerEnip.cfg` only,
where it fails; the run `listener` has the first.

### Adapters

`Exchange` says who holds which connection and tells replies apart by whom they answer;
`Adapters` has one call after another, and frames with their bytes.

| in the code | in the module |
|---|---|
| the arguments of a call, the request built from them, its number | `ACall`, `RequestOf`, `NumberOf`; `serial`, `ref` |
| `_ensure_handshake`, `_ensure_session` on a connection of the pool | `Ready`, `Hello`, `Welcome`; `line.mine` |
| `_recv_*` and what they find implausible | `Cut` |
| exception code, then `parsed.valid`, then the number of values | `Verdict`, `Returned` |
| `probe` on a connection of its own, with four classes of failure; MELSEC's second format; of IEC 104 the start of the transfer and the test of the line | `Probed`, `ReturnProbe`, `TryOtherFormat`, `ConnectFailure` |
| exceptions of builders before the connection, and after it | `Unbuilt` |

`server.py:110` makes an adapter for every call of a tool.  The counters of Modbus and S7 are
the module's, so `serial` goes on from call to call; that of FINS is the adapter's
(`fins/adapter.py:41`), so a FINS request always has number 1 (`FIRST_SID`).

The device (`Devices`) reads a request by the layout of its protocol, not by the codec's
parser: what a frame asks is an area, a start, a count and values, in cells of the size the
protocol counts in.  So a mistake that builder and parser share shows.  It executes the
request, refuses it, answers with fewer values (`ServeShort`) or with the answer before
(`AnswerOrStray`, a gateway that mixes answers up), or, an IEC 104 station, says something of
its own before it answers (`Identify`); an answer may be lost after the device has
acted (`Lose`), the connection may break, and a server that is no device may echo.  `belief`
is what the caller can conclude from the calls so far: after a write that failed, both values
are possible.  The properties compare it, and the results, with `memory`.

### Analysis

`Diagnosis` generates a trace and feeds it, frame by frame, to the loop of `diagnose`.  A
client asks, a device answers: rightly, with a fault of the listener's catalog, or with the
answer to another question; the trace may lack the request or the answer.  `CollectFrame` is
`_collect_frame`, with its guess whether a Modbus frame is RTU; `matched` is the set of
entries of the knowledge base that match, as the names of the checks, errors and codes they
ask for (`CHECKS`, `ERRORS`, `CODES` are read off the YAML files).

`Capture` has a connection with two exchanges whose segments the capture sees, misses, sees
again, late, or grown, with sequence numbers that may start over on the way.  `Add` is
`_DirBuffer.add`; `ParsePcap` cuts and parses what was joined, told the protocol or guessing it.
Packets of other connections go to buffers of their own, so that another connection enters only
there, as a flow before or after this one (`Captures`): the two share the guess and the budget.

`Detection` has one step per finished task; `asyncio.gather` returns results in the order of
the tasks, and `landed` remembers the order they really ended in.

`Analysis` puts them together: they share no state, so a behaviour is a call of one of them.

## Runs

| run | instance | shows |
|---|---|---|
| `pool` | 3 tasks, 2 of them on one target; 2 targets; 3 connections; `max_per_target` 1; one lost exchange per target; `close_all` enabled; about 312 000 states | the pool's safety invariants, and that it implements `ConnectionLease` |
| `pool_liveness` | 2 tasks, 1 target, 2 connections | every call returns; no connection stays idle for ever |
| `exchange` | six protocols, 2 tasks, 1 target, 2 connections, 2 messages per connection; about 1 300 000 states | replies, step, handshake and audit order |
| `exchange_rtu_raw` (violation) | Modbus RTU over TCP | a read takes the late reply to a raw frame for its own |
| `iec104` | windows w = 2, k = 3, modulus 4, at most 2 points per interrogation, 2 volunteered frames per connection; about 71 000 states | sequence, start of transfer, ownership of answers, termination |
| `iec104_window` (violation) | as above | the adapter owes more acknowledgements than its window |
| `ports` | both registries, both asyncio versions; 2 starts, 2 stops, 2 clients, 2 hosts, 2 ports; clients that stop reading; about 2 850 000 states | ports, servers and tasks stay consistent; `stop` returns unless a client is out of its reach |
| `relay` | 5 pieces one way, 2 the other; a blind limit of 2 pieces, a ring of 2 frames; about 930 000 states | the stream, the record, the ring, progress and the end of a session |
| `listener` | one client that waits, one that sends ahead; eight dialects, three modes, the rotation of all faults from each of them; 2 requests, pieces of 9 bytes, a ring of 3 frames; about 90 000 states | framing of what adapters build, answers, faults, the record, progress |
| `adapters` | nine dialects of six protocols, each with 7 to 10 different calls, 3 of them one after another, and the probe of IEC 104; numbers from 255; a device and an echo server; about 598 000 states | the device's memory is what the calls said, reads and probes are true, outcomes are told, frames are sound |
| `adapters_serial` (violation) | Modbus TCP, numbers from 65535 | after 65535 requests a call within its limits is not sent |
| `analysis` | traces of 4 exchanges of Modbus TCP, RTU, FINS and MELSEC; captures of 5 segments of four dialects, beside another connection or none, with room for 5 frames in the output; 2 ports and 2 protocols; about 209 000 states | diagnosis, capture and detection |

Seven more configurations show a disagreement between code and text each; they are kept
beside the runs, and TLC finds each of their invariants violated:

| configuration, module | shows |
|---|---|
| `ListenerLoss.cfg`, `MCListener` | `EveryFrameIsRecorded`: the second of two frames in one segment is lost |
| `ListenerEnip.cfg`, `MCListener` | `AnswersAreRight`: the answer to a bare tag service comes in an item of the type of requests, and the adapter refuses it |
| `DiagnosisCoils.cfg`, `MCAnalysis` | `HealthyIsQuiet`: the right answer to a reading of 24 coils, 12 bytes, gets a conclusion |
| `CaptureQuiet.cfg`, `MCAnalysis` | `FlowsAreIndependent`: a connection of no frames takes the others of its capture with it |
| `AdaptersFar.cfg`, `MCAdapters` | `MemoryIsAsTold`: a write at a number wider than its field in the frame lands elsewhere |
| `AdaptersStray.cfg`, `MCAdapters` | `MemoryIsAsTold`, `ReadsAreTrue`, `OutcomesAreTold`: FINS behind a gateway that mixes answers up takes the answer to an earlier call, whose number is the same |
| `AdaptersProbe.cfg`, `MCAdapters` | `ProbeClassesAreKept`: FINS, S7, ENIP and IEC 104 tell some failures of a probe as another class, or raise |

**Bounds, and why they are enough.**  Two tasks on a target give every race the lock
has to prevent, and a third on another target lets lists and counts of different keys
get mixed up.  Three connections leave room for one in use, one idle and one stray.
`max_per_target` 1 makes the cap reachable with a single lost exchange, 2 shows the
partial sum.  `MaxLost` bounds an otherwise unbounded counter; it also bounds how
often `Lose` is taken per target, which is why the theorems about counting are stated
against `lost[k]` and proved for every bound.  Two pending pieces per connection hold
a reply cut in two, or a late reply before one's own.  The windows of IEC 104 are
k = 12 and w = 8 in practice; 3 and 2 keep w < k, and a modulus of 4 makes the numbers
wrap within a few reads.  Tasks of one target, and connections, are interchangeable in
every definition, hence the symmetry; runs with liveness properties do not use it.
(`LeaseSpec` has no liveness part.)

Two starts race for one port or for one address, two stops for two servers, and of two
clients one can be served, leaked, or be no longer reading, while the other has only been accepted.  Five pieces
make two frames, a frame and a flush, or a flush and a frame that is passed on blindly; with
the frame of the other direction, three records overflow the ring of two.  The blind limit
of two pieces keeps what the code guarantees, that a frame still without its tail is below
it (`MAX_FRAME_LEN` is below 1 MiB), and leaves room for a complete frame: otherwise a flush
would hide that the frame was not sent on.

Two requests of a listener are two of one client, the handshake of FINS and what follows it,
or one of each; with their answers they overflow a ring of three; pieces of nine bytes end
inside a header or inside a body, and behind the whole frame where that has six bytes.  The
rotation begins with every fault, so each is injected.  Four exchanges of a trace let a request stay pending over
a missing answer and over a missing next request.  Five segments are the two exchanges of a
capture and one repetition; nine bytes cut inside a header.  Two flows
of four frames do not fit into a budget of five, whichever comes first; numbers start over at
2^16 instead of 2^32, at the end of a segment or within one.  Two ports and two protocols, each
port the home of one of them, give every pair of ranks.  The traffic of `analysis` leaves out
what `DiagnosisCoils.cfg` shows to be wrong: answers of twelve bytes.

Of three calls of the adapters, two can write overlapping cells and the third read them, or
one can leave an answer behind that another takes.  The calls of each dialect have single
cells and several, the ends of areas and of sixteen bits, bits that share a word, negative
values, names with and without an index, calls a builder refuses and calls a device does.
`FirstSerial` 255 makes the numbers of Modbus and S7 two bytes long after the first call.  A
gateway that mixes answers up (`Strays`) is modelled for Modbus TCP, whose number tells answers
apart.  That of FINS does not, being always 1 (`AdaptersStray.cfg`); S7 has one and does not look
at it in answers to writes; the others have none.  The server promises four classes of failed
probes; `ProbesAreTrue` has what every adapter keeps, and what some do not is in
`AdaptersProbe.cfg`.  S7 is not `Terse`: its parser does not count the words of an
answer.

Deadlock is checked in every run but those of `PortRegistry`, `Relay`, `Listener`, `Adapters`
and `Analysis`: a bounded number of starts and stops comes to an end, and so do a session, a
client's requests, the calls to a device and a call of a tool.

**Fairness.**  `ConnectionPool!FairSpec`: every wait of a task that holds the lock is
inside `asyncio.wait_for`, so attempts to connect and exchanges end; the event loop
runs woken tasks; time passes; the sweeper is a timer loop.  No fairness is assumed
of devices, of calls being made, or of cancellations.  `Iec104Session!FairSpec`: the
event loop runs the read, and each of its waits ends.  An interrogation has as many
waits as the station sends frames, so its termination needs the bound on volunteered
frames: a station that never stops volunteering keeps the read, and the lock, for ever.
`PortRegistry!FairSpec`: the event loop runs callbacks, new tasks and cancelled tasks, and a
closed transport whose client reads is flushed and detached; a client that is served may stay for
ever, and one that has stopped reading need never read again.  No task is assumed to get out of
`wait_closed` by itself.  `Relay!FairSpec`: it resumes a pump that can
go on.  No end is assumed to read, send or close, and no idle timeout to strike.
`Listener!FairSpec`: the event loop lets a handler read what has arrived and go on when its
answer is drained; clients need not send anything.  `Adapters` and `Analysis` have no liveness property.

## Proofs

`ConnectionPoolProofs` proves for every number of tasks, targets, connections, every
`max_per_target` and every `MaxLost`:

- `PoolInvHolds`: `Spec => []PoolInv`, the inductive invariant.  `OneExchangePerTarget`
  and `LeaseIsExclusive` are not inductive by themselves: one needs to know that a task
  past the lock *is* its holder and that it has emptied its target's idle list
  (`LockDiscipline`), which in turn makes an idle list never longer than one.  From it
  follow `TypeOKHolds`, `OneExchangePerTargetHolds`, `LeaseIsExclusiveHolds`,
  `IdleIsPoolableHolds` and `OneConnectionPerTargetHolds`.
- `CountInvHolds`: `Spec => []CountInv`, relative to `PoolInv`: `_active` is at most the
  lost exchanges, plus one while somebody uses a connection; it is positive then; and a
  verdict *ephemeral* that has been reached but not yet used implies that enough
  exchanges were lost.  From it follow `CountIsBoundedHolds` (the second discard of S7
  never takes away somebody else's count, because under the lock nobody else has one) and
  `EphemeralOnlyAfterLossHolds`.

They rest on the named assumptions about constants in `ConnectionPool` and nothing else.
Each invariant has one lemma per kind of step (`AcquireKeeps`, `ConnectKeeps`, `TalkKeeps`,
`SweepKeeps`, `OthersKeep` and their counting counterparts), joined by `PoolStep` and
`CountStep`; the lemmas before them say what popping, filtering and shrinking an idle
list does to it.

The second part of `ConnectionPoolProofs` proves, under the same assumptions:

- `LeaseSpecHolds`: `Spec => LeaseSpec`, the refinement.  It is a step simulation relative to
  `PoolInv`, with one lemma per kind of step: an `acquire` that finds an idle connection is
  `Reuse` and any other does not show (`AcquireLeases`: what it drops from the list was closed
  and is absent already), a completed connect is `Open` (`ConnectLeases`), the end of an
  exchange is `Return` (`TalkReturns`), sweeper, `close_all` and resets are `Break`
  (`SweepBreaks`, `ResetBreaks`), and the rest stutters (`OthersStutter`).  `LeaseStepByKind`
  joins them.  `PoolInv` is needed where a task must be known to be the only one with a lease on
  its target (`NobodyHolds`) and a held connection to be in no list (`HeldIsNotSpare`).
- `SocketsAccountedHolds`: `Spec => []SocketsAccounted`, by the inductive `StrayInv`, which adds
  that the sets counted are finite.  A socket left behind is a connection whose lease state is
  stray (`StraysByState`); of the steps of the leases only `Return` makes one
  (`StraysShrink`), and of the ends of an exchange only the lost one (`TalkStrays`).

`ExchangeProofs` proves for every number of tasks, targets and connections, every choice of
adapters and every `MaxWire`, from the assumptions of `ConnectionPool` and one more, that a task
is not called `late` or `hello`:

- `ExchangeInvHolds`: `ExchangeSpec => [](PoolInv /\ ExchangeInv)`.  What the properties say of
  connections in the pool and of answers that were taken has to be said of connections in use
  and of answers still to come: the connection of a task carries what that task waits for, one
  request or the pieces of one reply in order, and nothing else (`OnlyDue`), or it has carried
  a raw Modbus frame (`MayBeStale`); nobody else's connection carries anything for it (`CallOK`);
  a closed connection carries nothing, and no request is on one whose handshake is not over
  (`WireOK`).  Every step is one of the pool's or does not touch it (`PoolSteps`), so `PoolInv`
  is at hand throughout; what it gives is `OneUser`.  Then come the steps that change nothing on
  the wire (`OrderlyKept`), those that change one connection (`OneWire`: requests, handshake
  replies, the device), and the ends of a call (`EndKeeps`: `AbandonKeeps` for what is discarded or
  lost, `FinishKeeps` for what is released, which must have been read empty).
- `ExchangeTypeOKHolds`, `NoForeignAnswerHolds`, `IdleIsInStepHolds`,
  `HandshakeComesFirstHolds` and `AuditBeforeSendHolds` are read off: every invariant the run
  `exchange` checks.
- `PoolSpecHolds`: `ExchangeSpec => Spec`, the exchanges refine the pool, from the same
  `PoolSteps`.  With it every theorem about the pool is one about the adapters that use it:
  `ExchangeLeaseSpecHolds` (the leases), `ExchangeIsExclusiveHolds` and
  `ExchangeSocketsAccountedHolds`.

`Iec104SessionProofs` proves for every modulus of the numbers, every window, every length of an
answer and any number of stray frames:

- `SessionInvHolds`: `Spec => []SessionInv`, the inductive invariant: either nothing of a request
  is anywhere, or the current request is on its way, or it was heard and the end of its answer
  is still owed by the station or on its way back; with each goes what sequence numbers, the
  start of the transfer and the state of the connection then are.  `RequestsInSequenceHolds`,
  `StartedOnceHolds`, `AnswersAreOwnHolds` and `TypeOKHolds` are read off.  There is one lemma per step, over
  four lemmas that say what growing and shrinking a channel does to what is in it.

`PortRegistryProofs` proves for every number of starts, stops, clients, hosts and ports:

- `PortInvHolds`: `Spec => []PortInv`, the inductive invariant, from which
  `TypeOKHolds`, `OpenIsRegisteredHolds`, `RegisteredIsOpenHolds` and `StopEndsTasksHolds`
  are read off.
  The first two are inductive once one knows that exactly the starts that have returned have
  a server (`ServersAreMade`); the operating system's rule that one server has an address
  (`CanBind`) is what makes a start that overwrites a registration one on another host.
  `StopEndsTasks` speaks of stops that are over; `StopsAreComplete` follows them from their
  beginning: a client of a closed server has ended, was late, or is awaited.  There is one
  lemma per kind of step.

`RelayProofs` proves for all lengths of the streams, every blind limit and every size of the
ring:

- `RelayInvHolds`: `Spec => []RelayInv`, from which `TypeOKHolds`, `StreamIsIntactHolds` and
  `RingIsNewestHolds` are read off.  `StreamIsIntact` is inductive given the types (that a
  blind pump has an empty buffer among them); its proof is about regrouping concatenations:
  `CutKeeps` for the inner loop, whatever it does, `ArriveKeeps`, `ReadKeeps` and
  `DrainedKeeps` for the steps.  `RingIsNewest` is proved in the form of `EndOf`, index by
  index: `AppendKeeps` and `TrimKeeps` say that the two operations on a ring keep it, and
  `SuffixByIndex` leads back to `IsSuffix`.

- `RecordInvHolds`: `Spec => []RecordInv`, relative to `RelayInv`: what is on record is a head that
  was sent on, each once and in order; the heads before a recorded one are on record too; and
  as long as a direction is not blind, all it has sent on is whole recorded frames.
  `RecordIsTruthfulHolds` is read off.  One lemma per kind of step; the ring is not in it, because
  the log is what was ever recorded.

`FramingProofs` is about the operators, not about a specification.  Its first part is about
`streams.py`: for every frame a builder makes of what it does not refuse, `CutWhole` says that `TryFrameLen` asks for more bytes until the
frame is there and then answers its length.  There is one theorem per builder, for all its
arguments: Modbus (`ModbusReadIsCutWhole`, `ModbusWriteSingleIsCutWhole`,
`ModbusWriteMultipleIsCutWhole`), FINS (`FinsHandshakeIsCutWhole`, `FinsReadIsCutWhole`,
`FinsWriteIsCutWhole`), IEC 104 (`Iec104IFrameIsCutWhole`, `Iec104ControlFramesAreCutWhole`), ENIP
(`EnipSessionFramesAreCutWhole`, `EnipDataIsCutWhole`, `EnipTagRequestIsCutWhole`) and the four
formats of MELSEC (`MelsecReadIsCutWhole`, `MelsecWriteIsCutWhole`).

- They rest on a small theory of bytes: `Bytes(f, n)`, that `f` is n integers; `BytesJoined`, what
  is at an offset of two parts put together; `FieldIsRead` and its counterparts, that what was
  packed at an offset is read back there; and `SameBytes`.  Over it, `ClaimCutsWhole` reduces the
  theorem of a length-first protocol to one line: the length field at its offset claims the frame's
  length.  MELSEC has a rule of its own, with the format told from the first bytes and
  lengths in hexadecimal digits (`HexIsRead`).
- The values of a write are put together by `FlattenSeq`, a recursive function given by `CHOOSE`.
  `JoinsExist` shows that there is a function that satisfies its equation, and `FlattenedLength`
  what length its result has, for lists of any length and without an induction theorem: if some
  length were wrong there would be a least one (`LeastNumber`, from well-foundedness), and
  there is none.
- `FinsWriteIsCutWhole` could not be proved as first stated: the builder makes writes of up to
  32766 words, and `streams.py` takes those above 8183 for no frame.  The theorem says exactly that.

Its second part is about the parsers: what a builder makes, the parser of requests of the same
dialect finds nothing wrong with.  Again one theorem per builder, for all its arguments:
`ModbusReadIsAccepted`, `ModbusWriteSingleIsAccepted`, `ModbusWriteMultipleIsAccepted`,
`FinsHandshakeIsAccepted`, `FinsReadIsAccepted`, `FinsWriteIsAccepted`,
`Iec104ControlFramesAreAccepted`, `Iec104CommandsAreAccepted`, `EnipSessionFramesAreAccepted`,
`EnipDataIsAccepted`, `EnipTagRequestIsAccepted`, `MelsecReadIsAccepted`, `MelsecWriteIsAccepted`.
Each dialect has a lemma that says which fields of a frame its parser looks at
(`ModbusParsed`, `FinsParsed`, `Iec104Findings`, `MelsecParsed`); the theorem then reads
each field back from where the builder packed it.  Four could not be proved as first stated, and
the statements say where builder and parser differ:

- `build_write_multiple` takes any unit of one byte and the other builders those up to 247, which is
  all the parser knows: a write to unit 248 to 255 has the finding `unit_id`, and no other.
- The FINS writes that are too long for `streams.py` are still accepted.
- An interrogation with cause 7, 9 or 10 is parsed as an answer (`CommandDirection`).
  The adapter sends cause 6.
- In ASCII, MELSEC writes the head of a decimal device in at least six digits.  From 1000000 on it
  has seven or eight, and the parser reads the first six and takes what follows for the
  count.  `AsciiHeadFits` is the hypothesis that this does not happen; it says nothing of
  binary frames and of devices with hexadecimal names.

Its third part is about streams of many frames.  `SplitIsTrue`: of sound frames that are joined,
however many bytes of them are there, `split_frames` cuts those that are whole, each once and in order, and leaves
the beginning of the next one; of any of the five protocols.  `SplitFrames` is a function from
places of the data, given by `CHOOSE`: `CutsExist` shows that there is one, `SplitIs` that it
satisfies its equation.  At the start of a run that is wholly there it cuts that run and goes on behind
it; of a run that is not, `NothingIsCut` and the definition of `CutWhole` say that it asks for more;
so the claim holds at the start of the last run and, if it failed anywhere, would fail at a last place,
which there is not.  The start of the i-th run is the length of the front before it (`FrontsGrow`).

`ListenerProofs` proves for every set of clients, hasty or not, every size of the ring, every way
reads may cut the stream, every mode, and every dialect the model knows:

- `ListenerInvHolds`: `Spec => []ListenerInv`.  Its three parts are the types (`Shapes`: a client's
  requests are frames that are cut whole, by `RequestsAreFrames` over the theorems of
  `FramingProofs`), `LastIsOnTheWay` (of a client that waits, buffer and wire together are empty or
  the last request), and `Tells`.  `WaitingClientIsRecorded` alone is not inductive, for two
  reasons: a read has to complete exactly the request it belongs to, which is the second part with
  `PieceIsCut`; and as the ring drops its oldest entry, the requests told by it begin later, but
  never in their middle (`FirstIsDropped`, `RequestIsRecorded`, joined in `RequestTells` and
  `OthersTell`).
- `WaitingClientIsRecordedHolds`, `TypeOKHolds` and `EndsAreSeenHolds` (requests are cut whole) are
  read off.
- `FramesAreCutWholeHolds`: `Spec => []FramesAreCutWhole`.  To `EndsAreSeen` it adds
  `AskedIsAccepted`, by the theorems of acceptance: only a question changes what was asked, and what
  is spoken never changes.  One Modbus request is one no builder makes, a read of more registers
  than an answer holds; the parser's only finding is that.

`AnalysisProofs` proves, of the specification of `Analysis`:

- `RankingIsByOutcomeHolds`: `Spec => []RankingIsByOutcome`, for all ports, protocols and priors, with
  ports and protocols each named once.  The invariant, `DetectionInv`, is short: which stage knows
  what.  The work is in the operators.  `Ascending(s, R)` says that a sequence is in an order;
  `KeptAscends` and `FlattenedAscends` say that filtering and joining keep it and what elements come
  of it, again by a least counterexample instead of induction.  Pairs are ordered by port and then
  protocol (`PairsAscend`), which is the order of their places (`PlaceFollowsLex`); a stable sort
  keeps it within a rank (`RankedAscends`); and a sequence in a strict order has no element twice
  (`AscendingCounts`).
- `JoinedIsUnbrokenHolds`: `Spec => []JoinedIsUnbroken`, for all
  sizes of segments, first numbers and moduli, under `CaptureAssumption`: a side sends less than a
  turn of the sequence numbers (4 GiB in the protocol).  `JoinedIsUnbroken` has to be said together
  with the number that is expected: it is that of the end of what was joined, but for turns, because
  `_DirBuffer.add` adds a length to it and never takes it modulo 2^32 (`Piece`).  `AddKeeps` is the
  step; in it, two numbers less than a turn apart with one remainder are the same (`SameTurn`).
- `ModbusReadIsAnswered`, `FinsReadIsAnswered`, `FinsHandshakeIsAnswered` and `MelsecReadIsAnswered`: what
  `Listener` answers to a read, for all its arguments, is a frame that is cut whole; the parser finds
  nothing wrong with it, with the request at hand or without, and nor does `validate_frame`; and
  `parse_auto` takes it for an answer.  `ModbusReadIsSeen` and its counterparts say the same of requests.  Two
  hypotheses remain, and both are differences in the code: the answer to a FINS read of more words
  than fit 16400 bytes is one `streams.py` takes for no frame; and an answer of 12 bytes, to
  a Modbus read of 17 to 24 coils, has the length of a request and is not claimed to be taken for
  an answer.
- `CaptureIsTruthfulHolds`: `Spec => []CaptureIsTruthful`, for every choice of segments, starts,
  budget and flows, under `CaptureAssumption`: the dialects are Modbus, FINS and the
  formats of MELSEC, which are those `Requested` has frames for.  It joins all that is above.  Where no
  gap is told and the start was captured, what was joined is a beginning of what was sent
  (`JoinedIsPrefix`, from `JoinedInv`); what was sent are sound frames (`SaidIsSound`, from the theorems
  about requests and answers); so what is cut of it are those frames and a tail (`MarkedIsTrue`,
  from `SplitIsTrue`); and what is reported, flow by flow and cut off by the budget, is a
  beginning of what should be told (`ReportIsTrue`).  The invariant it needs beside `JoinedInv` is
  `ReportedInv`: what the sides send is what is said in the one dialect that was chosen, and a
  report, once there is one, is that of the flows of the capture cut by protocols that are
  known.  `CaptureIsTruthful` says nothing of the steps before the report, so it is not
  inductive without it.

Proved and in no run, since the theorem covers every instance: `PoolInv`, `CountInv`,
`OneConnectionPerTarget`, `PortInv`, `RelayInv`, `RecordInv`, `Relay!TypeOK`, `StrayInv`,
`SessionInv`, `ExchangeInv`, `ListenerInv`, `DetectionInv`, `JoinedInv` and `ReportedInv`; and the type invariants of the pool, the exchanges
and the port registries, `IdleIsPoolable` and `RegisteredIsOpen`.

Only model-checked:

- all liveness (`CallsReturn`, `IdleIsReaped`, `StopReturns`, `FramesGetThrough`, `SessionEnds`,
  `ReadsReturn`, `AskedIsAnswered`), which is out of the prover's reach;
- `AnswersAreRight` and `FaultsAreSeen`, which compare whole answers with whole parsers of answers; of
  the first, the answers to reads of Modbus, FINS and MELSEC are covered by the theorems above, those of
  IEC 104 and ENIP, those to writes and the faults are not;
- everything about `Adapters` and `Diagnosis`.

## Where code and text disagree

Shown by a run, or by one of the configurations kept beside the runs:

- `protocols/modbus/adapter.py:36` (and `s7/adapter.py:30`): the number of a request counts on
  for ever and is packed into two bytes, so that after 65535 requests every call raises
  `struct.error`; `modbus/codec.py:69` promises a frame for every legal input.  S7 raises it
  under the lock and never gives the connection back.  FINS starts at 1 in every call (`adapters_serial`).
- `listener.py:249`: the buffer of `_recv_frame` ends with the frame it returns, so what
  followed it in the same segment is lost; `streams.py:3` says that a read may bring several
  frames (`ListenerLoss.cfg`).
- `protocols/auto.py:88`: the answer to a read of 17 to 24 coils has twelve bytes like a
  request and is taken for one; a healthy trace gets a conclusion, which `tests/test_diag.py:94`
  rules out (`DiagnosisCoils.cfg`).
- `protocols/modbus/adapter.py:402`: a raw RTU frame whose reply is late gives its
  connection back to the pool; the next read takes that reply for its own
  (`exchange_rtu_raw`).  The raw read of Modbus TCP (line 78) has the same weakness with a
  reply cut in two, but there the transaction id turns it into an error.
- `protocols/iec104/adapter.py:203` takes N(R) for the station's N(S): acknowledgements
  are wrong and jumps are reported where nothing was lost (`iec104_window`).
- `protocols/fins/adapter.py:41`: the service number, which `fins/codec.py:292` says pairs requests
  and answers and `parse_response` (line 326) checks, starts at 1 in every adapter, and
  `server.py:110` makes one per call.  The answer to an earlier call is taken for that to this one: a
  read returns other cells, a write that was refused is reported done (`AdaptersStray.cfg`).
- `server.py:168` promises four classes of failed probes, as does `protocols/base.py:71`.
  ENIP (line 70) and IEC 104 (line 65) ask for `OSError` before `TimeoutError`, its subclass, so that a
  timeout is `connection_refused`; S7 (line 166) looks at the code only of an answer without
  errors, which an answer with a code never is; FINS (line 137) and S7 let the `ValueError` of the
  handshake's parser through (`AdaptersProbe.cfg`).
- `listener.py:422` sends the answer to a bare tag service in an item 0x00B2, although
  `enip/codec.py:164` says that the item of a reply is 0x00B1; the adapter refuses every one
  (`ListenerEnip.cfg`).
- Numbers wider than their fields wrap or overflow where a builder should refuse them: an
  ENIP index from 256 up is packed into one byte, an S7 byte address from 2^21 up loses its
  high bits, a MELSEC ASCII device from 1 000 000 up takes seven digits of six, so that a write
  of 16 words at D1000000 lands at D100000 (`AdaptersFar.cfg`).

Met while modelling, without a run of their own; the definitions are written as the code is:

- `conn/manager.py:104` compares `_active` alone with the cap, while line 10 says active
  plus idle; and an exchange that ends in an unlisted exception is never counted out, so
  after `max_per_target` of them every new connection is ephemeral (`AtCap`, `Lose`).
- `conn/manager.py:97` does not notice a peer's FIN, which line 93 says it does (`TakeIdle`
  takes what is `Live`, half-closed connections included).
- `protocols/fins/adapter.py:247` (and `enip/adapter.py:205`) audit a write after
  connecting; `ARCHITECTURE.md:193` asks for it before any network action.
- `proxy.py:144` waits for both pumps; line 134 says that either side ending ends both.
  A client that was silent for the idle timeout is not heard any more for as long as the
  device keeps talking.
- `listener.py:8` says that malformed requests are recorded only; a Modbus read of 128 words
  or more, or a MELSEC ASCII body that is no hexadecimal, makes the builder raise, which ends
  the connection (`Raises`).  The four frames of an IEC 104 answer are recorded as one.  The
  faults of MELSEC ASCII answers are raw bytes in a field of hexadecimal digits.
- `pcap.py:170` compares counts of complete frames, and bytes of FINS headers often cut as
  Modbus frames: a short FINS flow is detected as Modbus, against the comment at line 108.  A
  flow without a complete frame raises, which loses every other flow of the capture (line 182;
  the docstring at line 11 says otherwise; `CaptureQuiet.cfg`).  Gaps are counted and never reported, and a half
  frame before a gap is completed with the bytes after it; a segment that repeats old bytes and
  brings new ones is dropped with both; what follows when the sequence numbers of a direction start
  over is dropped and not counted as a gap (line 55); all frames of one direction come before those of the
  other, so that the output, given to `diagnose` as it is, is paired wrongly.
- `listener.py:396` gives the adapter's own ENIP reads and writes, which come in an envelope, no
  answer at all; a bare reading of a tag `beta...` raises `TypeError`, and one of 16379 elements
  or more `struct.error`, where line 363 promises canned values.
- `listener.py:139` looks the catalog of faults up by protocol: for ENIP and IEC 104 an unknown fault
  is a `KeyError`, and not the `ValueError` with the names that are allowed.
- `diag/engine.py`: the answers to multiple writes (function 16), MELSEC writes and every MELSEC
  format but the binary 3E one (lines 98 and 116) get conclusions on healthy traffic, as does a
  FINS handshake (`fins/codec.py:340`); a FINS answer shorter than its TCP header matches no
  entry; a station number that differs has none either.  An RTU frame after an unanswered TCP
  request is parsed again as TCP, although lines 87-90 keep RTU out of the pairing.  A response
  after a request of IEC 104, S7 or ENIP calls a `parse_response` those codecs do not have with
  that argument.
- Codecs: `build_write_multiple` of Modbus does not check unit and address as its siblings do;
  the serial number of a 4E answer is never compared; the FINS end code is validated for
  TCP command 4 only, and the word count its `parse_response` promises to check is not; the IEC
  104 `parse_asdu` raises `IndexError` on a read command, though it promises not to raise.

- Adapters look at the exception code of an answer before they look at `parsed.valid`
  (`modbus/adapter.py:186` and 279, and their counterparts in FINS, the S7 read and RTU): the
  stray refusal of another request is reported as this one's, with a write that was executed
  among them, although `modbus/codec.py:213` checks the answer against its request and
  `modbus/adapter.py:413` speaks of the mix-ups of gateways (`BeliefAfter`).
- Probes, beside their classes: FINS ignores an error in the handshake, and whether the answer is
  to its request; MELSEC tries 3E formats only; IEC 104
  takes the first frame after the start of the transfer for the answer to its test (line 86), so
  that a station that volunteers a value is `connected_but_no_reply`.
- `s7/codec.py:475` parses the answer to a write without its reference or request, so that
  any answer will do; the reader of S7 does not compare the number of words with what was asked.
  `s7/codec.py:509` expects the code of an answer in requests too, and 25 bytes, which an answer to a write
  does not have: the validator rejects every request and every answer to a write.
- `enip/adapter.py:265` packs every value as one element in two words at most, while
  `server.py` speaks of 16-bit words: writing a LINT always raises `struct.error`, and reading one
  interprets only its low half.  Session handle 0 is accepted; `enip/codec.py:471` parses every
  answer as that to a read.
- The validators of Modbus TCP and MELSEC do not know multiple writes and writes at all.
- `fins/codec.py:90` allows 32766 words and says that the tools narrow that; none does
  (`server.py:182` hands `count` on).  `streams.py:40` takes a frame of more than 0x4000 bytes after its
  header for broken, so that a write of more than 8183 words is no frame to listener and proxy
  (`FinsWriteIsCutWhole`), and the reader at `fins/adapter.py:54` refuses the answer to a read of so many.

Not contradicted by any text, but worth knowing; the properties of `ports` and `relay` are
stated around it:

- `listener.py:132` and `proxy.py:65` look up the port alone, before an await: two starts
  for one port on different hosts both succeed, and the first server can never be stopped
  (the second disjunct of `OpenIsRegistered`).
- A proxy task cancelled before its `try`, or any task cancelled before its first step,
  leaves its client's connection open; a client accepted just before `stop` is served after
  it; in Python 3.11 a cancellation can be lost, and `stop` then waits for that client
  (`HeldUp`, `late`).
- `listener.py:245` awaits the transport it has closed: a client that stopped reading with bytes
  on their way holds its task, and with it `stop`; since Python 3.12 the server's `wait_closed`
  (line 187, `proxy.py:108`) waits for such a transport too (`clogged` in `HeldUp`).
- A connection made while `close_all` awaits the sweeper goes back to a pool that no sweeper
  visits (`manager.py:138`); tests and scripts call `close_all`, the server never does.
- `proxy.py:200` has no timeout, unlike the listener: an end that stops reading keeps the
  session for ever (`stalled` in `SessionEnds`).

## Not modelled

`send_raw` of enip and iec104 (a connection of its own, opened and closed in one call); the
decoding of IEC 104 points, and the interpretation of
registers as integers and floats (`protocols/common.py`); `auto.py` for S7, ENIP and IEC 104,
where it only hands a frame on; the
entries of the knowledge base about probes, notes from log snippets and the order of candidates;
the OPC UA adapter (a session of a library per call); the file behind the audit log;
configuration and result types.

## Plan

Done, in this order: `ConnectionPool`, `ConnectionLease`, `Exchange`, `Iec104Session` and the
pool's proofs; `PortRegistry` and `Relay`; codecs, `Streams` and `Listener`; `Capture`,
`Diagnosis`, `Detection`; `S7Codec`, `EnipCodec`, `Devices` and `Adapters`; the proofs about
exchanges, leases, IEC 104 and the proxy; those about framing, streams, the listener, its answers, detection and capture.
What is left:

1. The entries of the knowledge base about probes, with the verdicts `Adapters` computes.
2. `send_raw` of enip and iec104, on its connection outside the pool.
3. Theorems: `AnswersAreRight`, from `ModbusReadIsAnswered` and its counterparts, with the answers
   to writes and those of IEC 104 and ENIP done the same way.
