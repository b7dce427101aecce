------------------------------- MODULE QREncoder -------------------------------
(***************************************************************************)
(* What a QR code is, by the standard: squares that hold a message, to     *)
(* check the scanner against.  No part of the program.                     *)
(***************************************************************************)
EXTENDS QRDecoder

\* The member of a set of one.  TLC evaluates a member of a set once, and a LET
\* as often as it is used.
Only(S) == CHOOSE x \in S : TRUE

\* A message is segments: a mode and the values of its characters.
ToBits(v, n) == [i \in 1 .. n |-> (v \div 2 ^ (n - i)) % 2]

GroupValues(mode, values) ==
  LET per == CASE mode = "numeric" -> 3 [] mode = "alphanumeric" -> 2 [] OTHER -> 1
      base == CASE mode = "numeric" -> 10 [] mode = "alphanumeric" -> 45 [] OTHER -> 0
      Last3(g) == SubSeq(values, per * (g - 1) + 1,
                         IF per * g < Len(values) THEN per * g ELSE Len(values))
  IN [g \in 1 .. (Len(values) + per - 1) \div per |->
        FoldLeft(LAMBDA n, d : n * base + d, 0, Last3(g))]

SegmentBits(segment, size) ==
  IF segment.mode = "eci"
  THEN ToBits(Mode.eci, 4) \o segment.values
  ELSE LET widths == Groups(segment.mode, Len(segment.values))
           groups == GroupValues(segment.mode, segment.values)
       IN ToBits(Mode[segment.mode], 4)
            \o ToBits(Len(segment.values), CountBits[segment.mode][size])
            \o FlattenSeq([g \in DOMAIN groups |-> ToBits(groups[g], widths[g])])

\* The data codewords: a terminator if there is room, then padding.
DataWords(message, size, n) ==
  LET bits == FlattenSeq([i \in DOMAIN message |-> SegmentBits(message[i], size)])
      \* a terminator of four bits, or as many as there is room for, and a byte filled up
      ended == Len(bits) + 4
      filled == ((IF ended < 8 * n THEN ended ELSE 8 * n) + 7) \div 8
      Bit(i) == IF i <= Len(bits) THEN bits[i] ELSE 0
  IN [k \in 1 .. n |->
        IF k <= filled THEN FoldLeft(LAMBDA v, b : 2 * v + b, 0,
                                     [i \in 1 .. 8 |-> Bit(8 * (k - 1) + i)])
        ELSE IF (k - filled) % 2 = 1 THEN 236 ELSE 17]

\* A block's error correction: the remainder by the generator polynomial.
Generator(n) ==
  LET product[i \in 0 .. n] == IF i = 0 THEN One
                               ELSE MultiplyPoly(product[i - 1], <<1, Exp(i - 1)>>)
  IN product[n]

Correction(data, n) ==
  Only({[i \in 1 .. n |-> Coefficient(division.rest, n - i)] :
          division \in {Divide([q |-> Zero, rest |-> Poly(data \o [i \in 1 .. n |-> 0])], g) :
                         g \in {Generator(n)}}})

\* The codewords of the blocks in turn, data first.
AllWords(message, v, level) ==
  LET lengths == BlockLengths(level)
      ec == level.ecCodewordsPerBlock
      total == FoldLeft(LAMBDA n, d : n + d, 0, lengths)
      size == IF v.versionNumber <= 9 THEN 1 ELSE IF v.versionNumber <= 26 THEN 2 ELSE 3
      Start(b) == FoldLeft(LAMBDA n, d : n + d, 0, SubSeq(lengths, 1, b - 1))
      InTurn(data, checks) ==
        FlattenSeq([i \in 1 .. lengths[Len(lengths)] |->
                      FlattenSeq([b \in DOMAIN lengths |->
                                    IF i <= lengths[b] THEN <<data[Start(b) + i]>> ELSE <<>>])])
          \o FlattenSeq([i \in 1 .. ec |-> [b \in DOMAIN lengths |-> checks[b][i]]])
  IN Only(UNION {{InTurn(data, checks) :
                    checks \in {[b \in DOMAIN lengths |->
                                   Correction(SubSeq(data, Start(b) + 1, Start(b) + lengths[b]),
                                              ec)]}} :
                 data \in {DataWords(message, size, total)}})

-----------------------------------------------------------------------------
\* The bits v followed by n bits that make a multiple of the generator: the field
\* of 256 elements holds the one of two.
WithChecks(v, n, generator) ==
  LET rest == Divide([q |-> Zero, rest |-> Poly(v \o [i \in 1 .. n |-> 0])], generator).rest
  IN v \o [i \in 1 .. n |-> Coefficient(rest, n - i)]

FormatCode(level, mask) ==
  LET code == WithChecks(ToBits(<<1, 0, 3, 2>>[level] * 8 + mask, 5), 10,
                         <<1, 0, 1, 0, 0, 1, 1, 0, 1, 1, 1>>)
      masks == ToBits(21522, 15)
  IN [i \in 1 .. 15 |-> (code[i] + masks[i]) % 2]

VersionCode(n) == WithChecks(ToBits(n, 6), 12, <<1, 1, 1, 1, 1, 0, 0, 1, 0, 0, 1, 0, 1>>)

Drawn(cells, code) == {cells[i] : i \in {j \in DOMAIN cells : code[j] = 1}}

VersionModules(dimension, transposed) ==
  [i \in 1 .. 18 |->
     LET row == 5 - ((i - 1) \div 3)
         column == dimension - 9 - ((i - 1) % 3)
     IN IF transposed THEN <<row, column>> ELSE <<column, row>>]

VersionDark(n) ==
  IF n < 7 THEN {}
  ELSE Drawn(VersionModules(17 + 4 * n, FALSE), VersionCode(n))
         \cup Drawn(VersionModules(17 + 4 * n, TRUE), VersionCode(n))

\* The square with a message, in a version, level and mask.
Square(message, n, l, mask) ==
  LET v == VERSIONS[n]
      dimension == 17 + 4 * n
      places == FormatModules(dimension)
      Bit(words, i) == i <= 8 * Len(words)
                         /\ (words[((i - 1) \div 8) + 1] \div 2 ^ (7 - ((i - 1) % 8))) % 2 = 1
      Painted(order, words) ==
        {order[i] : i \in {j \in DOMAIN order :
                              Bit(words, j) # DataMask(mask, order[j][1], order[j][2])}}
  IN Only({[dimension |-> dimension,
            dark |-> Painted(order, words)
                     \cup Drawn(places.topLeft, FormatCode(l, mask))
                     \cup Drawn(places.others, FormatCode(l, mask))
                     \cup VersionDark(n)] :
             order \in {ReadingOrder(v, dimension)},
             words \in {AllWords(message, v, v.errorCorrectionLevels[l])}})

Damaged(m, cells) == [m EXCEPT !.dark = (@ \ cells) \cup (cells \ @)]

MessageText(message) ==
  FlattenSeq([i \in DOMAIN message |->
    IF message[i].mode = "eci" THEN <<>>
    ELSE SegmentText(message[i].mode,
           [k \in DOMAIN message[i].values |->
              Character(message[i].mode,
                        IF message[i].mode = "kanji" THEN ShiftJIS(message[i].values[k])
                        ELSE message[i].values[k])])])
=============================================================================
