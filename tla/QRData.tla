-------------------------------- MODULE QRData --------------------------------
(***************************************************************************)
(* The text in the corrected bytes of a QR code: decodeData and BitStream  *)
(* in jsQR.js.  Bits are read from front to back, so a stream is its bits  *)
(* and a position; reading past the end throws, and throwing gives no text.*)
(***************************************************************************)
EXTENDS Integers, Sequences, SequencesExt

\* What a segment's text is made of: a digit, a character of the alphanumeric
\* table by its index, a byte, a Kanji by its code.
Character(mode, n) == <<mode, n>>

Bits(bytes) ==
  LET Bit(b, i) == (b \div 2 ^ (7 - i)) % 2
  IN [i \in 1 .. 8 * Len(bytes) |-> Bit(bytes[((i - 1) \div 8) + 1], (i - 1) % 8)]

\* readBits, for n bits after the position given.
ReadBits(bits, position, n) ==
  FoldLeft(LAMBDA v, b : 2 * v + b, 0, SubSeq(bits, position + 1, position + n))

Available(bits, position) == Len(bits) - position

\* A segment is an indicator of its mode, a count, and groups of bits.
Mode == [terminator |-> 0, numeric |-> 1, alphanumeric |-> 2, byte |-> 4, eci |-> 7,
         kanji |-> 8]

CountBits == [numeric |-> <<10, 12, 14>>, alphanumeric |-> <<9, 11, 13>>,
              byte |-> <<8, 16, 16>>, kanji |-> <<8, 10, 12>>]

Repeat(n, width) == [i \in 1 .. n |-> width]

Groups(mode, length) ==
  CASE mode = "numeric" ->
         Repeat(length \div 3, 10) \o (CASE length % 3 = 0 -> <<>>
                                         [] length % 3 = 1 -> <<4>>
                                         [] length % 3 = 2 -> <<7>>)
    [] mode = "alphanumeric" -> Repeat(length \div 2, 11) \o Repeat(length % 2, 6)
    [] mode = "byte" -> Repeat(length, 8)
    [] mode = "kanji" -> Repeat(length, 13)

\* The largest value of a group that stands for characters.
Limit(mode, width) ==
  CASE mode = "numeric" -> (CASE width = 10 -> 999 [] width = 7 -> 99 [] width = 4 -> 9)
    [] mode = "alphanumeric" -> IF width = 11 THEN 45 * 45 - 1 ELSE 44
    [] OTHER -> 2 ^ width - 1

ShiftJIS(k) ==
  LET c == 256 * (k \div 192) + (k % 192)
  IN IF c < 7936 THEN c + 33088 ELSE c + 49472

Characters(mode, width, v) ==
  LET Digits == CASE width = 10 -> <<v \div 100, (v \div 10) % 10, v % 10>>
                  [] width = 7 -> <<v \div 10, v % 10>>
                  [] width = 4 -> <<v>>
                  [] width = 11 -> <<v \div 45, v % 45>>
                  [] width = 6 -> <<v>>
                  [] width = 8 -> <<v>>
                  [] width = 13 -> <<ShiftJIS(v)>>
  IN [i \in DOMAIN Digits |-> Character(mode, Digits[i])]

\* Bytes that are no UTF-8 give no text: the lead byte says how many follow.
Follow(b) == CASE b < 128 -> 0 [] b \in 192 .. 223 -> 1 [] b \in 224 .. 239 -> 2
               [] b \in 240 .. 247 -> 3 [] OTHER -> -1

IsUTF8(text) ==
  LET left == FoldLeft(LAMBDA n, c : IF n < 0 THEN n
                                     ELSE IF n = 0 THEN Follow(c[2])
                                     ELSE IF c[2] \in 128 .. 191 THEN n - 1 ELSE -1,
                       0, text)
  IN left = 0

SegmentText(mode, chars) == IF mode = "byte" /\ ~IsUTF8(chars) THEN <<>> ELSE chars

-----------------------------------------------------------------------------
\* A segment read: where it ends, and its text; ok is FALSE if it threw.
Threw == [ok |-> FALSE, position |-> 0, text |-> <<>>]

ReadSegment(bits, position, mode, size) ==
  LET countBits == CountBits[mode][size]
  IN IF countBits > Available(bits, position) THEN Threw
     ELSE LET length == ReadBits(bits, position, countBits)
              read == FoldLeft(
                LAMBDA st, width :
                  IF ~st.ok \/ width > Available(bits, st.position) THEN Threw
                  ELSE LET v == ReadBits(bits, st.position, width)
                       IN IF v > Limit(mode, width) THEN Threw
                          ELSE [ok |-> TRUE, position |-> st.position + width,
                                text |-> st.text \o Characters(mode, width, v)],
                [ok |-> TRUE, position |-> position + countBits, text |-> <<>>],
                Groups(mode, length))
          IN [read EXCEPT !.text = SegmentText(mode, @)]

\* An ECI segment has a number of 7, 14 or 21 bits, by its first bits, and no
\* text; a number with three leading ones is read no further.
ReadECI(bits, position) ==
  LET Ones == IF bits[position + 1] = 0 THEN 0
              ELSE IF Available(bits, position) > 1 /\ bits[position + 2] = 0 THEN 1
              ELSE IF Available(bits, position) > 2 /\ bits[position + 3] = 0 THEN 2 ELSE 3
      end == position + (IF Ones = 3 THEN 3 ELSE 8 * (Ones + 1))
  IN IF Available(bits, position) = 0 \/ end > Len(bits) THEN Threw
     ELSE [ok |-> TRUE, position |-> end, text |-> <<>>]

\* The text from a position on, segment by segment.
ReadSegments(bits, size) ==
  LET after[position \in 0 .. Len(bits)] ==
        IF Available(bits, position) < 4
        THEN [Threw EXCEPT !.ok = \A i \in position + 1 .. Len(bits) : bits[i] = 0]
        ELSE LET mode == ReadBits(bits, position, 4)
                 rest == position + 4
                 read == IF mode = Mode.eci THEN ReadECI(bits, rest)
                         ELSE IF \E m \in DOMAIN CountBits : Mode[m] = mode
                         THEN ReadSegment(bits, rest,
                                          CHOOSE m \in DOMAIN CountBits : Mode[m] = mode, size)
                         ELSE [ok |-> TRUE, position |-> rest, text |-> <<>>]
             IN IF mode = Mode.terminator THEN [Threw EXCEPT !.ok = TRUE]
                ELSE IF ~read.ok THEN Threw
                ELSE [after[read.position] EXCEPT !.text = read.text \o @]
  IN after[0]

\* decode: the counts are wider in larger versions.
DecodeData(bytes, version) ==
  ReadSegments(Bits(bytes), IF version <= 9 THEN 1 ELSE IF version <= 26 THEN 2 ELSE 3)
=============================================================================
