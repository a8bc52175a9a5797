------------------------------- MODULE Frames -------------------------------
(***************************************************************************)
(* Frames as the codecs see them: sequences of bytes read at offsets that  *)
(* count from 0, as the sources write them.  A frame is short here, and    *)
(* what a codec reads of it is its header, its lengths and its codes, so   *)
(* the bytes are kept; texts, names and raw_hex are not.                   *)
(***************************************************************************)
EXTENDS Integers, Sequences, SequencesExt

\* What fits an unsigned field of one byte, of two and of three, and a field of
\* two for a number of either sign.
BYTE  == 0..255
WORD  == 0..65535
MOST_OF_THREE == 16777215
TRIPLE == 0..MOST_OF_THREE
SIGNED_OR_NOT == -32768..65535

\* A byte past the end reads as 0; the codecs check the length before.
At(f, i)  == IF i < Len(f) THEN f[i + 1] ELSE 0
U16(f, i) == At(f, i) * 256 + At(f, i + 1)
L16(f, i) == At(f, i + 1) * 256 + At(f, i)

\* TLC's integers have 31 bits: all from 2^31 up are one value, beyond every
\* limit the code compares a length or a command with.
Wide(hi, lo) == IF hi >= 32768 THEN 2147483647 ELSE hi * 65536 + lo
U32(f, i) == Wide(U16(f, i), U16(f, i + 2))

From(f, i)    == SubSeq(f, i + 1, Len(f))   \* f[i:]
Upto(f, i)    == SubSeq(f, 1, IF i < Len(f) THEN i ELSE Len(f))   \* f[:i]
Mid(f, i, j)  == From(Upto(f, j), i)        \* f[i:j]
Patch(f, i, b) == Upto(f, i) \o b \o From(f, i + Len(b))

B16(n) == <<n \div 256, n % 256>>
S16(n) == <<n % 256, n \div 256>>           \* little-endian
B32(n) == B16(n \div 65536) \o B16(n % 65536)
S32(n) == S16(n % 65536) \o S16(n \div 65536)
Zeros(n) == [i \in 1..n |-> 0]

\* Upper-case hexadecimal digits: the writing of n in k of them, no more than six,
\* and the value of those at offset i, -1 when one is no digit.
SIXTEENS == <<1, 16, 256, 4096, 65536, 1048576>>
Digit(n) == IF n < 10 THEN 48 + n ELSE 55 + n
Hex(n, k) == [j \in 1..k |-> Digit((n \div SIXTEENS[k - j + 1]) % 16)]
Nibble(c) == IF c \in 48..57 THEN c - 48 ELSE IF c \in 65..70 THEN c - 55 ELSE c - 87
IsHex(s)  == s # <<>> /\ \A i \in DOMAIN s : s[i] \in (48..57) \cup (65..70) \cup (97..102)
UnHex(s)  ==
  LET Value[i \in 0..Len(s)] == IF i = 0 THEN 0 ELSE Value[i - 1] * 16 + Nibble(s[i])
  IN IF IsHex(s) THEN Value[Len(s)] ELSE -1

\* The names of the findings that hold, of a record of findings.
Found(r) == {name \in DOMAIN r : r[name]}
=============================================================================
