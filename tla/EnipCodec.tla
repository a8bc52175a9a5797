----------------------------- MODULE EnipCodec -----------------------------
(***************************************************************************)
(* protocols/enip/codec.py: EtherNet/IP frames, an encapsulation header    *)
(* with a session and a status, and the CIP services on tags inside.       *)
(* Nearly everything is little-endian.                                     *)
(***************************************************************************)
EXTENDS Frames

ENIP_HEADER_LEN == 24
CMD_LIST_IDENTITY    == 99
CMD_REGISTER_SESSION == 101
CMD_SEND_RR_DATA     == 111
COMMAND_NAMES == {CMD_LIST_IDENTITY, CMD_REGISTER_SESSION, 102, CMD_SEND_RR_DATA, 112}
ITEM_ADDRESS_NULL == 0
ITEM_CIP_IDENTITY == 12
ITEM_CIP_UNCONNECTED_REPLY   == 177
ITEM_CIP_UNCONNECTED_REQUEST == 178
SVC_READ_TAG  == 76
SVC_WRITE_TAG == 77
SVC_UNCONNECTED_SEND == 82
SVC_REPLY     == 128
INT  == 195
DINT == 196
LINT == 197
REAL == 202

\* The words an element takes, by the code of its type.
TYPE_CODES == [type \in {193, 194, INT, DINT, LINT, REAL, 211} |->
                 IF type = LINT THEN 4 ELSE IF type \in {DINT, REAL, 211} THEN 2 ELSE 1]

\* The words of a run of bytes; an odd one at the end is left out.
WordsIn(b) == [i \in 1..Len(b) \div 2 |-> L16(b, 2 * (i - 1))]

BuildEnip(command, payload, session) ==
  S16(command) \o S16(Len(payload)) \o S32(session) \o S32(0)
    \o <<112, 108, 99, 116, 97, 112, 0, 0>> \o S32(0) \o payload

BuildRegisterSession == BuildEnip(CMD_REGISTER_SESSION, S16(1) \o S16(0), 0)
BuildListIdentity    == BuildEnip(CMD_LIST_IDENTITY, <<>>, 0)

BuildSendRrData(session, cip, reply) ==
  BuildEnip(CMD_SEND_RR_DATA,
            Zeros(6) \o S16(2) \o S16(ITEM_ADDRESS_NULL) \o S16(0)
              \o S16(IF reply THEN ITEM_CIP_UNCONNECTED_REPLY ELSE ITEM_CIP_UNCONNECTED_REQUEST)
              \o S16(Len(cip)) \o cip,
            session)

\* A tag is its name and the index in its brackets, -1 without; the element
\* segment has one byte.  No path (<<>>) where ValueError is raised.
BuildTagPath(name, index) ==
  IF Len(name) \notin 1..255 THEN <<>>
  ELSE <<145, Len(name)>> \o name \o Zeros(Len(name) % 2)
         \o (IF index = -1 THEN <<>> ELSE <<40, index % 256>>)

BuildReadTag(name, index, count) ==
  LET path == BuildTagPath(name, index) IN
  IF count \notin WORD \ {0} \/ path = <<>> THEN <<>>
  ELSE <<SVC_READ_TAG, Len(path) \div 2>> \o path \o S16(count)

\* values are words already.
BuildWriteTag(name, index, type, values) ==
  LET path == BuildTagPath(name, index) IN
  IF type \notin DOMAIN TYPE_CODES \/ values = <<>> \/ Len(values) * TYPE_CODES[type] > 480 \/ path = <<>>
  THEN <<>>
  ELSE <<SVC_WRITE_TAG, Len(path) \div 2>> \o path \o S16(type) \o S16(Len(values) \div TYPE_CODES[type])
         \o FlattenSeq([i \in DOMAIN values |-> S16(values[i])])

BuildUnconnectedSend(embedded) ==
  <<SVC_UNCONNECTED_SEND>> \o S16(Len(embedded)) \o embedded \o <<1, 1, 0, 0>>

-----------------------------------------------------------------------------

\* ok is FALSE where the code raises ValueError.
ParseEnipHeader(f) ==
  [ok      |-> /\ Len(f) >= ENIP_HEADER_LEN
               /\ L16(f, 0) \in COMMAND_NAMES
               /\ L16(f, 2) = Len(f) - ENIP_HEADER_LEN,
   command |-> L16(f, 0),
   session |-> Wide(L16(f, 6), L16(f, 4)),
   status  |-> Wide(L16(f, 10), L16(f, 8)),
   payload |-> From(f, ENIP_HEADER_LEN)]

Succeeded(f, command) ==
  LET h == ParseEnipHeader(f) IN h.ok /\ h.command = command /\ h.status = 0

\* The session granted; ok is FALSE where ValueError is raised.
ParseRegisterSessionResponse(f) ==
  LET h == ParseEnipHeader(f) IN
  [ok |-> Succeeded(f, CMD_REGISTER_SESSION) /\ Len(h.payload) >= 4 /\ L16(h.payload, 0) = 1,
   session |-> h.session]

\* The item after the item count.  raises: struct.error, which nobody catches.
ParseIdentityPayload(item) ==
  [ok     |-> /\ Len(item) >= 2
              /\ L16(item, 0) = ITEM_CIP_IDENTITY => Len(Mid(item, 4, 4 + L16(item, 2))) >= 35,
   raises |-> Len(item) \in 2..3,
   type   |-> L16(item, 0)]

ParseListIdentityResponse(f) ==
  LET p == ParseEnipHeader(f).payload
      identity == ParseIdentityPayload(From(p, 2))
      there == Succeeded(f, CMD_LIST_IDENTITY) /\ Len(p) >= 2
  IN [ok |-> there /\ identity.ok, raises |-> there /\ identity.raises, type |-> identity.type]

\* What a tag service answered: its errors, status and words.  A status too long
\* for the reply raises ValueError, listed here as the error addl_status.
ParseTagReply(cip, service) ==
  LET size == At(cip, 3)
      off  == 4 + 2 * size
      data == From(cip, off + 2)
      type == L16(cip, off)
      reads == At(cip, 2) = 0 /\ At(cip, 0) # SVC_WRITE_TAG + SVC_REPLY
      typed == reads /\ Len(cip) >= off + 2
      known == typed /\ type \in DOMAIN TYPE_CODES
  IN [errors |-> CASE Len(cip) < 4 -> {"too_short"}
                   [] Len(cip) >= 4 /\ Len(cip) < off -> {"addl_status"}
                   [] OTHER -> Found([
                        service |-> At(cip, 0) # service + SVC_REPLY,
                        status  |-> At(cip, 2) # 0,
                        no_type |-> reads /\ ~typed,
                        type    |-> typed /\ ~known,
                        odd     |-> known /\ Len(data) % 2 # 0]),
      type   |-> type,
      words  |-> WordsIn(data)]

\* The CIP layer of an answer; ok is FALSE where ValueError is raised.
\* raises: struct.error, of a payload without an item count.
CipReplyOf(f) ==
  LET p   == ParseEnipHeader(f).payload
      off == 12 + L16(p, 10)
      there == Succeeded(f, CMD_SEND_RR_DATA)
  IN [ok |-> /\ there
             /\ L16(p, 6) = 2
             /\ Len(p) >= 12
             /\ L16(p, 8) = ITEM_ADDRESS_NULL
             /\ Len(p) >= off + 4
             /\ L16(p, off) = ITEM_CIP_UNCONNECTED_REPLY,
      raises |-> there /\ Len(p) < 8,
      cip |-> Mid(p, off + 4, off + 4 + L16(p, off + 2))]

ParseRequest(f) ==
  LET h == ParseEnipHeader(f)
      p == h.payload
      off == 12 + L16(p, 10)
      cip == Mid(p, off + 4, off + 4 + L16(p, off + 2))
      data == h.command = CMD_SEND_RR_DATA
      item == data /\ Len(p) >= 12 /\ Len(p) >= off + 4
      envelope == item /\ Len(cip) >= 3 /\ At(cip, 0) = SVC_UNCONNECTED_SEND
      embedded == Mid(cip, 3, 3 + L16(cip, 1))
  IN IF ~h.ok THEN {"header"}
     ELSE Found([
       session_short   |-> h.command = CMD_REGISTER_SESSION /\ Len(p) < 4,
       rrdata_short    |-> data /\ Len(p) < 8,
       address_short   |-> data /\ Len(p) \in 8..11,
       item_header     |-> data /\ Len(p) >= 12 /\ Len(p) < off + 4,
       item_short      |-> item /\ Len(cip) < L16(p, off + 2),
       embedded_none   |-> envelope /\ embedded = <<>>,
       embedded_short  |-> envelope /\ embedded # <<>> /\ Len(cip) < 3 + L16(cip, 1)])

\* Every answer with data is taken for the answer to a read.
ParseResponse(f) ==
  LET h == ParseEnipHeader(f)
      granted  == ParseRegisterSessionResponse(f)
      identity == ParseListIdentityResponse(f)
      reply    == CipReplyOf(f)
      clean    == h.ok /\ h.status = 0
  IN [errors |-> CASE ~h.ok -> {"header"}
                   [] h.ok /\ h.status # 0 -> {"enip_status"}
                   [] clean /\ h.command = CMD_SEND_RR_DATA ->
                        IF reply.ok THEN ParseTagReply(reply.cip, SVC_READ_TAG).errors ELSE {"rrdata"}
                   [] OTHER -> Found([
                        session  |-> h.command = CMD_REGISTER_SESSION /\ ~granted.ok,
                        identity |-> h.command = CMD_LIST_IDENTITY
                                       /\ ~(identity.ok /\ identity.type = ITEM_CIP_IDENTITY)]),
      raises |-> clean /\ (reply.raises \/ identity.raises)]

ValidateFrame(f) ==
  IF Len(f) < ENIP_HEADER_LEN THEN {"header_length"}
  ELSE Found([
    command_known |-> L16(f, 0) \notin COMMAND_NAMES,
    length_field  |-> L16(f, 2) # Len(f) - ENIP_HEADER_LEN,
    enip_status   |-> Wide(L16(f, 10), L16(f, 8)) # 0,
    rrdata_items  |-> L16(f, 0) = CMD_SEND_RR_DATA /\ Len(f) >= 34 /\ L16(f, 30) # 2])
=============================================================================
