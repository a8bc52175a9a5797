---------------------------- MODULE MelsecCodec ----------------------------
(***************************************************************************)
(* protocols/melsec/codec.py: MC frames in four formats, 3E and 4E, binary *)
(* and ASCII (every byte as two hexadecimal digits).  The offsets of the   *)
(* fields depend on the format, so they are tables.                        *)
(***************************************************************************)
EXTENDS Frames

FRAME_FORMATS   == {"3e_binary", "3e_ascii", "4e_binary", "4e_ascii"}
HEADER_LENS     == [f3b |-> 11, f3a |-> 22, f4b |-> 15, f4a |-> 30]
IsAscii(fmt)    == fmt \in {"3e_ascii", "4e_ascii"}
Is4e(fmt)       == fmt \in {"4e_binary", "4e_ascii"}
Pick(fmt, table) ==
  IF Is4e(fmt) THEN IF IsAscii(fmt) THEN table.f4a ELSE table.f4b
               ELSE IF IsAscii(fmt) THEN table.f3a ELSE table.f3b
HeaderLen(fmt)  == Pick(fmt, HEADER_LENS)
EndOffset(fmt)  == Pick(fmt, [f3b |-> 9, f3a |-> 18, f4b |-> 13, f4a |-> 26])
LenOffset(fmt)  == Pick(fmt, [f3b |-> 7, f3a |-> 14, f4b |-> 11, f4a |-> 22])
Size(fmt)       == IF IsAscii(fmt) THEN 4 ELSE 2   \* of a field of two bytes

CMD_BATCH_READ_WORD  == 1025
CMD_BATCH_WRITE_WORD == 5121
DEVICE_CODES == [X |-> 156, Y |-> 157, B |-> 160, W |-> 180, M |-> 144, D |-> 168, R |-> 175]
LETTERS      == [X |-> 88,  Y |-> 89,  B |-> 66,  W |-> 87,  M |-> 77,  D |-> 68,  R |-> 82]
HEX_DEVICES  == {"X", "Y", "B", "W"}
BIT_DEVICES  == {"X", "Y", "B", "M"}
END_CODES    == {0, 49231, 49241, 49368}
MAX_READ_POINTS == 960
MONITOR_TIMER_VALUES == {0, 1, 2, 4, 10, 11}

Subheader(fmt, direction) ==
  IF direction = "req" THEN IF Is4e(fmt) THEN 21504 ELSE 20480
                       ELSE IF Is4e(fmt) THEN 54272 ELSE 53248

\* A field of two bytes in the format: written, and read at i (-1: no digits).
Word(fmt, n)       == IF IsAscii(fmt) THEN Hex(n, 4) ELSE S16(n)
WordAt(fmt, f, i)  == IF IsAscii(fmt) THEN UnHex(Mid(f, i, i + 4)) ELSE L16(f, i)
SubheaderAt(fmt, f) == IF IsAscii(fmt) THEN UnHex(Upto(f, 4)) ELSE U16(f, 0)

\* _parse_header_fmt; the route is compared as it is written.
HeaderIsSound(f, fmt) ==
  /\ Len(f) >= HeaderLen(fmt)
  /\ IsAscii(fmt) => \A i \in 0..HeaderLen(fmt) - 1 :
                        IsHex(<<At(f, i)>>) \/ (Is4e(fmt) /\ i \in 8..11)
Route(f, fmt)   == Mid(f, LenOffset(fmt) - (IF IsAscii(fmt) THEN 10 ELSE 5), LenOffset(fmt) - Size(fmt) \div 2)
Station(f, fmt) == Mid(f, LenOffset(fmt) - Size(fmt) \div 2, LenOffset(fmt))
TailBytes(f, fmt) == Len(f) - LenOffset(fmt) - Size(fmt)

HeaderFmt(fmt, pc, station, timer, data_len, serial) ==
  LET ascii == IsAscii(fmt) IN
    (IF ascii THEN Hex(Subheader(fmt, "req"), 4) ELSE B16(Subheader(fmt, "req")))
    \o (IF Is4e(fmt) THEN Word(fmt, serial) \o Word(fmt, 0) ELSE <<>>)
    \o (IF ascii THEN Hex(pc, 4) \o Hex(1023, 4) \o Hex(station, 2)
                 ELSE <<0, pc>> \o S16(1023) \o <<station>>)
    \o Word(fmt, data_len) \o Word(fmt, timer)

\* format(head, "06d"): six digits at least, more where the number has more.
TENS == <<1, 10, 100, 1000, 10000, 100000, 1000000, 10000000, 100000000>>
Decimal(n) ==
  LET k == IF n < TENS[7] THEN 6 ELSE IF n < TENS[8] THEN 7 ELSE 8
  IN [j \in 1..k |-> 48 + ((n \div TENS[k - j + 1]) % 10)]

EncodePdu(fmt, cmd, device, head, count) ==
  IF IsAscii(fmt)
  THEN Hex(cmd, 4) \o Hex(0, 4) \o <<LETTERS[device], 42>>
         \o (IF device \in HEX_DEVICES THEN Hex(head, 6) ELSE Decimal(head)) \o Hex(count, 4)
  ELSE S16(cmd) \o S16(0) \o Upto(S32(head), 3) \o <<DEVICE_CODES[device]>> \o S16(count)

PduAsciiLen(fmt) == IF IsAscii(fmt) THEN 20 ELSE 10

\* ok is FALSE where the decoding raises; an unknown device has the name "".
DecodePdu(fmt, data) ==
  LET Letter(d) == <<LETTERS[d], 42>> = Mid(data, 8, 10)
      Code(d)   == DEVICE_CODES[d] = At(data, 7)
      named == {d \in DOMAIN DEVICE_CODES : IF IsAscii(fmt) THEN Letter(d) ELSE Code(d)}
      number == Mid(data, 10, 16)
  IN [ok |-> IF IsAscii(fmt)
             THEN /\ \A i \in {0, 4, 16} : IsHex(Mid(data, i, i + 4))
                  /\ IsHex(number)
                  /\ named \cap HEX_DEVICES = {} => \A i \in DOMAIN number : number[i] <= 57
                  /\ \A i \in 8..9 : At(data, i) < 128
             ELSE Len(data) >= 8,
      cmd    |-> WordAt(fmt, data, 0),
      device |-> IF named = {} THEN "" ELSE CHOOSE d \in named : TRUE,
      count  |-> IF IsAscii(fmt) THEN UnHex(Mid(data, 16, 20)) ELSE L16(data, 8)]

\* Words that n points take: sixteen bits to a word.
WordsOf(device, n) == IF device \in BIT_DEVICES THEN (n + 15) \div 16 ELSE n

\* Mutated form: the timer is left out of the length.
BuildRequestUntimed(fmt, cmd, device, head, count, values, pc, station, timer, serial) ==
  LET data == EncodePdu(fmt, cmd, device, head, count)
                \o FlattenSeq([i \in DOMAIN values |-> Word(fmt, values[i] % 65536)])
  IN HeaderFmt(fmt, pc, station, timer, Len(data), serial) \o data

BuildRequest(fmt, cmd, device, head, count, values, pc, station, timer, serial) ==
  LET data == EncodePdu(fmt, cmd, device, head, count)
                \o FlattenSeq([i \in DOMAIN values |-> Word(fmt, values[i] % 65536)])
  IN HeaderFmt(fmt, pc, station, timer, Size(fmt) + Len(data), serial) \o data

Addressable(device, head, pc, station, timer) ==
  /\ device \in DOMAIN DEVICE_CODES
  /\ head \in TRIPLE
  /\ {pc, station} \subseteq BYTE
  /\ timer \in MONITOR_TIMER_VALUES

BuildReadRequest(fmt, device, head, count, pc, station, timer, serial) ==
  IF Addressable(device, head, pc, station, timer) /\ count \in 1..MAX_READ_POINTS
  THEN BuildRequest(fmt, CMD_BATCH_READ_WORD, device, head, count, <<>>, pc, station, timer, serial)
  ELSE <<>>

BuildWriteRequest(fmt, device, head, values, pc, station, timer, serial) ==
  IF /\ Addressable(device, head, pc, station, timer)
     /\ Len(values) \in 1..MAX_READ_POINTS
     /\ \A i \in DOMAIN values : values[i] \in SIGNED_OR_NOT
  THEN BuildRequest(fmt, CMD_BATCH_WRITE_WORD, device, head, Len(values), values, pc, station, timer, serial)
  ELSE <<>>

-----------------------------------------------------------------------------

CrossCheckFmt(f, q, fmt) ==
  IF ~HeaderIsSound(f, fmt) \/ ~HeaderIsSound(q, fmt) THEN {"cross_check"}
  ELSE Found([route   |-> Route(f, fmt) # Route(q, fmt),
              station |-> Station(f, fmt) # Station(q, fmt)])

ParseRequestFmt(f, fmt) ==
  LET data == From(f, HeaderLen(fmt))
      pdu  == DecodePdu(fmt, data)
      whole == Len(data) >= PduAsciiLen(fmt)
  IN IF ~HeaderIsSound(f, fmt) THEN {"header"}
     ELSE Found([
       subheader   |-> SubheaderAt(fmt, f) # Subheader(fmt, "req"),
       data_length |-> WordAt(fmt, f, LenOffset(fmt)) # TailBytes(f, fmt),
       too_short   |-> ~whole,
       undecodable |-> whole /\ ~pdu.ok,
       unsupported |-> whole /\ pdu.ok /\ pdu.cmd \notin {CMD_BATCH_READ_WORD, CMD_BATCH_WRITE_WORD},
       device      |-> whole /\ pdu.ok /\ pdu.device = "",
       count       |-> whole /\ pdu.ok /\ pdu.count \notin 1..MAX_READ_POINTS])

\* The words after the end code; decodable is FALSE where they are no digits.
DecodeWordValues(fmt, raw) ==
  LET k == Size(fmt) IN
  [decodable |-> IsAscii(fmt) => \A i \in 0..(Len(raw) \div 4) - 1 : IsHex(Mid(raw, 4 * i, 4 * i + 4)),
   count     |-> Len(raw) \div k,
   values    |-> [i \in 1..Len(raw) \div k |-> WordAt(fmt, raw, k * (i - 1))]]

ParseResponseFmt(f, q, fmt) ==
  LET data  == From(f, HeaderLen(fmt))
      end   == WordAt(fmt, f, EndOffset(fmt))
      words == DecodeWordValues(fmt, data)
      asked == DecodePdu(fmt, From(q, HeaderLen(fmt)))
  IN IF ~HeaderIsSound(f, fmt) THEN {"header"}
     ELSE Found([
       subheader   |-> SubheaderAt(fmt, f) # Subheader(fmt, "resp"),
       data_length |-> WordAt(fmt, f, LenOffset(fmt)) # TailBytes(f, fmt),
       trailing    |-> end # 0 /\ Len(data) > Size(fmt),
       undecodable |-> end = 0 /\ ~words.decodable,
       data_short  |-> /\ end = 0 /\ words.decodable /\ words.count > 0
                       /\ q # <<>> /\ asked.ok
                       /\ words.count < WordsOf(asked.device, asked.count)])
     \cup (IF q = <<>> THEN {} ELSE CrossCheckFmt(f, q, fmt))

EndCode(f, fmt) == IF HeaderIsSound(f, fmt) THEN WordAt(fmt, f, EndOffset(fmt)) ELSE 0

ValidateFrameFmt(f, direction, fmt) ==
  LET n == Len(f)
      end == WordAt(fmt, f, EndOffset(fmt))
      pdu == DecodePdu(fmt, From(f, HeaderLen(fmt)))
      subheader == n >= Size(fmt) /\ SubheaderAt(fmt, f) # Subheader(fmt, direction)
      sized == n >= LenOffset(fmt) + Size(fmt)
  IN Found([
       frame_header_complete  |-> n < HeaderLen(fmt),
       subheader_match        |-> subheader,
       data_length_consistent |-> sized /\ WordAt(fmt, f, LenOffset(fmt)) # TailBytes(f, fmt),
       end_code_known         |-> sized /\ direction = "resp" /\ n >= EndOffset(fmt) + 2 /\ end \notin END_CODES,
       command_supported      |-> /\ sized /\ direction = "req" /\ n >= HeaderLen(fmt) + 2
                                  /\ ~(pdu.ok /\ pdu.cmd = CMD_BATCH_READ_WORD)])
=============================================================================
