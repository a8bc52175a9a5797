----------------------------- MODULE FinsCodec -----------------------------
(***************************************************************************)
(* protocols/fins/codec.py: FINS/TCP frames, a TCP header and, but for the *)
(* handshake, a FINS header with a command inside.                         *)
(***************************************************************************)
EXTENDS Frames

TCP_MAGIC == <<70, 73, 78, 83>>
TCP_HEADER_LEN  == 16
FINS_HEADER_LEN == 10
TCP_CMD_CONNECT_REQ == 0
TCP_CMD_CONNECT_CFM == 1
TCP_CMD_DATA_SEND   == 2
TCP_CMD_EXCHANGE    == 4
TCP_COMMANDS == 0..5
FINS_EXCHANGE_COMMANDS == {TCP_CMD_DATA_SEND, TCP_CMD_EXCHANGE}
CMD_MEMORY_AREA_READ  == 257
CMD_MEMORY_AREA_WRITE == 258
AREA_CODES == {176, 177, 178, 179, 130, 160}
END_CODES  == {0, 257, 513, 514, 515, 516, 517, 518, 520, 772, 1025, 1026, 1028, 1029, 4353, 4354}
MAX_READ_WORDS == 32766

BuildTcpFrame(command, payload) ==
  TCP_MAGIC \o B32(8 + Len(payload)) \o B32(command) \o B32(0) \o payload

BuildHandshakeRequest(node) ==
  IF node \in BYTE THEN BuildTcpFrame(TCP_CMD_CONNECT_REQ, B32(node)) ELSE <<>>

\* The FINS header of a request of node to dest, and what it asks for.
Memory(sid, node, command, area, address, count, dest) ==
  <<128, 0, 2, 0, dest, 0, 0, node, 0, sid>> \o B16(command) \o <<area>> \o B16(address) \o <<0>> \o B16(count)

Addressable(sid, area, address, dest) ==
  sid \in BYTE /\ area \in AREA_CODES /\ address \in WORD /\ dest \in BYTE

BuildReadRequest(sid, node, area, address, count, dest) ==
  IF Addressable(sid, area, address, dest) /\ count \in 1..MAX_READ_WORDS
  THEN BuildTcpFrame(TCP_CMD_DATA_SEND, Memory(sid, node, CMD_MEMORY_AREA_READ, area, address, count, dest))
  ELSE <<>>

BuildMemoryAreaWrite(sid, node, area, address, values, dest) ==
  IF /\ Addressable(sid, area, address, dest)
     /\ Len(values) \in 1..MAX_READ_WORDS
     /\ \A i \in DOMAIN values : values[i] \in SIGNED_OR_NOT
  THEN BuildTcpFrame(TCP_CMD_DATA_SEND,
         Memory(sid, node, CMD_MEMORY_AREA_WRITE, area, address, Len(values), dest)
           \o FlattenSeq([i \in DOMAIN values |-> B16(values[i] % 65536)]))
  ELSE <<>>

-----------------------------------------------------------------------------

\* ok is FALSE where the code raises ValueError.
ParseTcpHeader(f) ==
  [ok      |-> /\ Len(f) >= TCP_HEADER_LEN
               /\ Upto(f, 4) = TCP_MAGIC
               /\ U32(f, 4) = 8 + Len(From(f, TCP_HEADER_LEN)),
   command |-> U32(f, 8),
   error   |-> U32(f, 12),
   payload |-> From(f, TCP_HEADER_LEN)]

\* The nodes a confirmed handshake names; ok is FALSE where ValueError is raised.
ParseHandshakeResponse(f) ==
  LET h == ParseTcpHeader(f) IN
  [ok |-> /\ h.ok
          /\ h.command \in {TCP_CMD_CONNECT_REQ, TCP_CMD_CONNECT_CFM}
          /\ Len(h.payload) >= 8,
   server_node |-> U32(h.payload, 0),
   error       |-> h.error]

ParseRequest(f) ==
  LET h == ParseTcpHeader(f)
      p == h.payload
      data == h.command \in FINS_EXCHANGE_COMMANDS
      known == /\ data
               /\ Len(p) >= FINS_HEADER_LEN + 2
               /\ U16(p, 10) \in {CMD_MEMORY_AREA_READ, CMD_MEMORY_AREA_WRITE}
      whole == known /\ Len(p) >= FINS_HEADER_LEN + 8
  IN IF ~h.ok THEN {"tcp_header"}
     ELSE Found([
       tcp_error   |-> h.error # 0,
       too_short   |-> data /\ Len(p) < FINS_HEADER_LEN + 2,
       unsupported |-> data /\ Len(p) >= FINS_HEADER_LEN + 2 /\ ~known,
       truncated   |-> known /\ ~whole,
       bit_address |-> whole /\ At(p, 15) # 0,
       area        |-> whole /\ At(p, 12) \notin AREA_CODES,
       count       |-> whole /\ U16(p, 16) \notin 1..MAX_READ_WORDS])

\* Mutated form: the node the answer comes from is not looked at.
CrossCheckSid(f, q) ==
  LET h == ParseTcpHeader(f)  r == ParseTcpHeader(q) IN
  IF ~h.ok \/ ~r.ok \/ Len(h.payload) < 10 \/ Len(r.payload) < 10 THEN {} ELSE
  Found([sid |-> At(h.payload, 9) # At(r.payload, 9)])

CrossCheck(f, q) ==
  LET h == ParseTcpHeader(f)  r == ParseTcpHeader(q) IN
  IF ~h.ok \/ ~r.ok \/ Len(h.payload) < 10 \/ Len(r.payload) < 10 THEN {} ELSE
  Found([sid  |-> At(h.payload, 9) # At(r.payload, 9),
         node |-> At(h.payload, 7) # At(r.payload, 4)])

\* A device whose FINS header is all zeros is let off the cross-check.
IsNonstandard(p) == U16(p, 10) # CMD_MEMORY_AREA_READ /\ Upto(p, FINS_HEADER_LEN) = Zeros(FINS_HEADER_LEN)

ParseResponse(f, q) ==
  LET h == ParseTcpHeader(f)
      p == h.payload
      handshake == h.command \notin FINS_EXCHANGE_COMMANDS /\ Len(p) < FINS_HEADER_LEN + 4
      fins == Len(p) >= FINS_HEADER_LEN + 4
      cmd  == U16(p, 10)
      odd  == IsNonstandard(p)
      trailing == Len(p) > 14
      supported == fins /\ (odd \/ cmd \in {CMD_MEMORY_AREA_READ, CMD_MEMORY_AREA_WRITE})
      write == supported /\ cmd = CMD_MEMORY_AREA_WRITE /\ ~odd
  IN IF ~h.ok THEN {"tcp_header"}
     ELSE Found([
       tcp_error        |-> h.error # 0,
       command_mismatch |-> handshake /\ q # <<>> /\ ParseTcpHeader(q).ok
                              /\ ParseTcpHeader(q).command # h.command,
       too_short        |-> ~handshake /\ ~fins,
       unsupported      |-> fins /\ ~supported,
       trailing         |-> supported /\ trailing /\ (write \/ U16(p, 12) # 0),
       odd_length       |-> supported /\ ~write /\ U16(p, 12) = 0 /\ Len(p) % 2 # 0])
     \cup (IF fins /\ q # <<>> /\ ~odd THEN CrossCheck(f, q) ELSE {})

\* The words of an answer to a read.
WordValues(f) ==
  LET data == From(f, TCP_HEADER_LEN + FINS_HEADER_LEN + 4) IN
  [i \in 1..Len(data) \div 2 |-> U16(data, 2 * (i - 1))]

\* The end code of an answer, 0 also when it has none.
EndCode(f) ==
  LET h == ParseTcpHeader(f) IN
  IF h.ok /\ Len(h.payload) >= FINS_HEADER_LEN + 4 THEN U16(h.payload, 12) ELSE 0

ValidateFrame(f, direction) ==
  IF Len(f) < TCP_HEADER_LEN THEN {"tcp_header_complete"}
  ELSE Found([
    magic_fins            |-> Upto(f, 4) # TCP_MAGIC,
    tcp_length_consistent |-> U32(f, 4) # Len(f) - 8,
    tcp_command_known     |-> U32(f, 8) \notin TCP_COMMANDS,
    tcp_error_zero        |-> U32(f, 12) # 0,
    end_code_known        |-> /\ direction = "resp" /\ U32(f, 8) = TCP_CMD_EXCHANGE
                              /\ ~(Len(f) >= 30 /\ U16(f, 28) \in END_CODES)])
=============================================================================
