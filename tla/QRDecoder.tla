------------------------------- MODULE QRDecoder -------------------------------
(***************************************************************************)
(* The scanner of the tickets' QR codes, jsQR.js, from the squares cut out *)
(* of a picture to the text: the version, the format, the codewords, their *)
(* blocks, the correction of each block, and the data.  A square that      *)
(* cannot be read is tried mirrored, then the next square is.              *)
(***************************************************************************)
EXTENDS QRVersions, QRData, ReedSolomon

CONSTANT ScannedPictures
\* Each has its squares, plain and inverted, whether to invert, and its text; and
\* bearable, what the damage lets be read: the "version", and the "text".

VARIABLES
  picture,
  squares,        \* those still to be tried
  pass,           \* 1 for the first scan of jsQR, 2 for the inverted one
  matrix,         \* the square being read: its dimension, and its dark modules
  mirrored,
  stage,
  version, formatInfo, codewords,
  blocksLeft,     \* of the square: each with its codewords and data length
  resultBytes,
  result          \* what jsQR returns

squareVars == <<matrix, mirrored, version, formatInfo, codewords, blocksLeft, resultBytes>>
qrVars == <<picture, squares, pass, squareVars, stage, result, blockVars>>

NoResult == <<"null", 0>>
NoMatrix == [dimension |-> 0, dark |-> {}]

-----------------------------------------------------------------------------
\* A matrix of bits, and the modules that are no data.
Module(m, x, y) == <<x, y>> \in m.dark
Region(left, top, width, height) == (left .. left + width - 1) \X (top .. top + height - 1)

FunctionPatternMask(v) ==
  LET dimension == 17 + 4 * v.versionNumber
      centers == ToSet(v.alignmentPatternCenters)
      corners == {<<6, 6>>, <<6, dimension - 7>>, <<dimension - 7, 6>>}
  IN UNION ({Region(0, 0, 9, 9), Region(dimension - 8, 0, 8, 9), Region(0, dimension - 8, 9, 8),
             Region(6, 9, 1, dimension - 17), Region(9, 6, dimension - 17, 1)}
            \cup {Region(c[1] - 2, c[2] - 2, 5, 5) : c \in (centers \X centers) \ corners}
            \cup (IF v.versionNumber > 6
                  THEN {Region(dimension - 11, 0, 3, 6), Region(0, dimension - 11, 6, 3)}
                  ELSE {}))

DataMask(mask, x, y) ==
  CASE mask = 0 -> (y + x) % 2 = 0
    [] mask = 1 -> y % 2 = 0
    [] mask = 2 -> x % 3 = 0
    [] mask = 3 -> (y + x) % 3 = 0
    [] mask = 4 -> ((y \div 2) + (x \div 3)) % 2 = 0
    [] mask = 5 -> ((x * y) % 2) + ((x * y) % 3) = 0
    [] mask = 6 -> (((x * y) % 2) + ((x * y) % 3)) % 2 = 0
    [] mask = 7 -> (((y + x) % 2) + ((x * y) % 3)) % 2 = 0

\* The data modules in the order they are read: pairs of columns from right to
\* left, past the timing column, up and down in turn.
ReadingOrder(v, dimension) ==
  LET function == FunctionPatternMask(v)
      Column(pair) == LET c == dimension - 1 - 2 * pair IN IF c <= 6 THEN c - 1 ELSE c
      Cell(k) == LET pair == k \div (2 * dimension)
                     i == (k \div 2) % dimension
                 IN <<Column(pair) - (k % 2), IF pair % 2 = 0 THEN dimension - 1 - i ELSE i>>
  IN SelectSeq([k \in 1 .. dimension * (dimension - 1) |-> Cell(k - 1)],
               LAMBDA cell : cell \notin function)

Number(bits) == FoldLeft(LAMBDA n, b : 2 * n + (IF b THEN 1 ELSE 0), 0, bits)

ReadCodewords(m, v, mask) ==
  LET order == ReadingOrder(v, m.dimension)
      Bit(i) == Module(m, order[i][1], order[i][2]) # DataMask(mask, order[i][1], order[i][2])
  IN [k \in 1 .. Len(order) \div 8 |-> Number([i \in 1 .. 8 |-> Bit(8 * (k - 1) + i)])]

-----------------------------------------------------------------------------
\* numBitsDiffering
Differing(a, b) == Cardinality({i \in 0 .. 17 : (a \div 2 ^ i) % 2 # (b \div 2 ^ i) % 2})

\* The entry of a table whose bits are nearest to those read in two places: the
\* first with the bits of one, else the first that is nearest, if it differs in
\* three bits at most.  Bits that are null equal none.
Nearest(infos, a, b) ==
  LET Difference(i) == {Differing(infos[i], a), Differing(infos[i], b)}
      At(d) == {i \in DOMAIN infos : d \in Difference(i)}
      exact == {i \in DOMAIN infos : infos[i] \in {a, b} \ {0}}
      distances == {d \in 0 .. 3 : At(d) # {}}
      First(indexes) == {i \in indexes : \A j \in indexes : i <= j}
  IN IF exact # {} THEN First(exact)
     ELSE IF distances = {} THEN {}
     ELSE First(At(CHOOSE d \in distances : \A e \in distances : d <= e))

Down(from, to) == [i \in 1 .. from - to + 1 |-> from - i + 1]

\* In the order the bits are read: the columns, or the rows, of three modules.
VersionBits(m, transposed) ==
  LET rows == Down(5, 0)
      columns == Down(m.dimension - 9, m.dimension - 11)
  IN Number([i \in 1 .. 18 |->
               LET row == rows[((i - 1) \div 3) + 1]
                   column == columns[((i - 1) % 3) + 1]
               IN IF transposed THEN Module(m, row, column) ELSE Module(m, column, row)])

FindVersion(m) ==
  LET provisional == (m.dimension - 17) \div 4
      infos == [v \in DOMAIN VERSIONS |-> VERSIONS[v].infoBits]
  IN IF provisional <= 6 THEN {VERSIONS[provisional]}
     ELSE {VERSIONS[v] : v \in Nearest(infos, VersionBits(m, FALSE), VersionBits(m, TRUE))}

\* FORMAT_INFO_TABLE: eight masks for each of the levels M, L, H and Q.
FormatBits ==
  <<21522, 20773, 24188, 23371, 17913, 16590, 20375, 19104,
    30660, 29427, 32170, 30877, 26159, 25368, 27713, 26998,
    5769, 5054, 7399, 6608, 1890, 597, 3340, 2107,
    13663, 12392, 16177, 14854, 9396, 8579, 11994, 11245>>
FORMAT_INFO_TABLE ==
  [i \in DOMAIN FormatBits |->
     [bits |-> FormatBits[i], errorCorrectionLevel |-> <<2, 1, 4, 3>>[((i - 1) \div 8) + 1],
      dataMask |-> (i - 1) % 8]]

\* Around the top left corner, and along the other two.
FormatModules(dimension) ==
  LET topLeft == [i \in 1 .. 8 |-> <<IF i < 7 THEN i - 1 ELSE i, 8>>]
                   \o [i \in 1 .. 7 |-> <<8, IF i = 1 THEN 7 ELSE 7 - i>>]
      others == [i \in 1 .. 7 |-> <<8, dimension - i>>]
                  \o [i \in 1 .. 8 |-> <<dimension - 9 + i, 8>>]
  IN [topLeft |-> topLeft, others |-> others]

ReadFormat(m, cells) == Number([i \in DOMAIN cells |-> Module(m, cells[i][1], cells[i][2])])

FindFormat(m) ==
  LET places == FormatModules(m.dimension)
  IN {FORMAT_INFO_TABLE[i] : i \in Nearest(FormatBits, ReadFormat(m, places.topLeft),
                                          ReadFormat(m, places.others))}

-----------------------------------------------------------------------------
\* The blocks of a level: each has so many data codewords.
BlockLengths(level) ==
  FlattenSeq([g \in DOMAIN level.ecBlocks |->
                [i \in 1 .. level.ecBlocks[g][1] |-> level.ecBlocks[g][2]]])

TotalCodewords(level) ==
  FoldLeft(LAMBDA n, g : n + g[1] * (g[2] + level.ecCodewordsPerBlock), 0, level.ecBlocks)

\* getDataBlocks deals the codewords out to the blocks: as many to each as the
\* shortest has, one more to the large ones, and the rest in turn again.
DataBlocks(words, level) ==
  LET lengths == BlockLengths(level)
      n == Len(lengths)
      short == lengths[1]
      large == IF Len(level.ecBlocks) > 1 THEN level.ecBlocks[2][1] ELSE 0
      small == level.ecBlocks[1][1]
      dealt == n * short
      Word(b, i) ==
        IF i <= short THEN words[(i - 1) * n + b]
        ELSE IF b \in small + 1 .. small + large
             THEN IF i = short + 1 THEN words[dealt + b - small]
                  ELSE words[dealt + large + (i - short - 2) * n + b]
             ELSE words[dealt + large + (i - short - 1) * n + b]
  IN [b \in 1 .. n |-> [length |-> lengths[b],
                        words |-> [i \in 1 .. short + level.ecCodewordsPerBlock
                                              + (IF b \in small + 1 .. small + large
                                                 THEN 1 ELSE 0) |-> Word(b, i)]]]

Mirror(m) == [dimension |-> m.dimension, dark |-> {<<c[2], c[1]>> : c \in m.dark}]

-----------------------------------------------------------------------------
QRInit ==
  /\ picture \in ScannedPictures
  /\ squares = picture.plain /\ pass = 1
  /\ matrix = NoMatrix /\ mirrored = FALSE /\ stage = "scan"
  /\ version = {} /\ formatInfo = {} /\ codewords = <<>>
  /\ blocksLeft = <<>> /\ resultBytes = <<>>
  /\ result = NoResult
  /\ EmptyBlock

\* The next square of the picture; if none is left, the inverted picture.
NextSquare ==
  /\ stage = "scan"
  /\ \/ /\ squares # <<>>
        /\ matrix' = Head(squares) /\ squares' = Tail(squares)
        /\ mirrored' = FALSE /\ stage' = "version"
        /\ UNCHANGED pass
     \/ /\ squares = <<>> /\ pass = 1 /\ picture.attemptBoth
        /\ squares' = picture.inverted /\ pass' = 2
        /\ UNCHANGED <<matrix, mirrored, stage>>
     \/ /\ squares = <<>> /\ (pass = 2 \/ ~picture.attemptBoth)
        /\ stage' = "done"
        /\ UNCHANGED <<squares, pass, matrix, mirrored>>
  /\ UNCHANGED <<picture, version, formatInfo, codewords, blocksLeft, resultBytes, result,
                 blockVars>>

\* The mirrored square is not tried.
FailAtOnce ==
  /\ stage' = "scan" /\ matrix' = NoMatrix /\ UNCHANGED mirrored
  /\ version' = {} /\ formatInfo' = {} /\ codewords' = <<>>
  /\ blocksLeft' = <<>> /\ resultBytes' = <<>>
  /\ UNCHANGED <<picture, squares, pass, result, blockVars>>

\* decodeMatrix returns nothing: the mirrored square is next, or another one.
Fail ==
  /\ IF mirrored
     THEN /\ stage' = "scan" /\ matrix' = NoMatrix /\ UNCHANGED mirrored
     ELSE /\ stage' = "version" /\ matrix' = Mirror(matrix) /\ mirrored' = TRUE
  /\ version' = {} /\ formatInfo' = {} /\ codewords' = <<>>
  /\ blocksLeft' = <<>> /\ resultBytes' = <<>>
  /\ UNCHANGED <<picture, squares, pass, result, blockVars>>

ReadVersion ==
  /\ stage = "version"
  /\ \E found \in {FindVersion(matrix)} :
       IF found = {} THEN Fail
       ELSE /\ version' = found /\ stage' = "format"
            /\ UNCHANGED <<picture, squares, pass, matrix, mirrored, formatInfo, codewords,
                           blocksLeft, resultBytes, result, blockVars>>

ReadFormatInformation ==
  /\ stage = "format"
  /\ \E found \in {FindFormat(matrix)} :
       IF found = {} THEN Fail
       ELSE /\ formatInfo' = found /\ stage' = "codewords"
            /\ UNCHANGED <<picture, squares, pass, matrix, mirrored, version, codewords,
                           blocksLeft, resultBytes, result, blockVars>>

ReadBlocks ==
  /\ stage = "codewords"
  /\ \E v \in version : \E f \in formatInfo :
       LET level == v.errorCorrectionLevels[f.errorCorrectionLevel]
       IN \E words \in {ReadCodewords(matrix, v, f.dataMask)} :
            IF Len(words) < TotalCodewords(level) THEN Fail
            ELSE /\ codewords' = words
                 /\ blocksLeft' = DataBlocks(words, level)
                 /\ stage' = "blocks"
                 /\ UNCHANGED <<picture, squares, pass, matrix, mirrored, version, formatInfo,
                                resultBytes, result, blockVars>>

NextBlock ==
  /\ stage = "blocks" /\ blocksLeft # <<>>
  /\ LET next == Head(blocksLeft)
     IN StartBlock(next.words, Len(next.words) - next.length)
  /\ stage' = "correct"
  /\ UNCHANGED <<picture, squares, pass, squareVars, result>>

CorrectBlock ==
  /\ stage = "correct"
  /\ EuclidStep \/ CorrectErrors
  /\ UNCHANGED <<picture, squares, pass, squareVars, stage, result>>

FinishBlock ==
  /\ stage = "correct" /\ corrected # NotYet
  /\ IF corrected = Null THEN Fail
     ELSE /\ resultBytes' = resultBytes \o SubSeq(corrected, 1, Head(blocksLeft).length)
          /\ blocksLeft' = Tail(blocksLeft)
          /\ stage' = "blocks"
          /\ UNCHANGED <<picture, squares, pass, matrix, mirrored, version, formatInfo, codewords,
                         result, blockVars>>

ReadData ==
  /\ stage = "blocks" /\ blocksLeft = <<>>
  /\ \E v \in version : \E read \in {DecodeData(resultBytes, v.versionNumber)} :
       IF read.ok
       THEN /\ result' = <<"text", read.text>> /\ stage' = "done"
            /\ UNCHANGED <<picture, squares, pass, squareVars, blockVars>>
       ELSE Fail

QRNext ==
  \/ NextSquare
  \/ ReadVersion \/ ReadFormatInformation
  \/ ReadBlocks
  \/ NextBlock \/ CorrectBlock \/ FinishBlock
  \/ ReadData

QRSpec == QRInit /\ [][QRNext]_qrVars

-----------------------------------------------------------------------------
\* The version read is the square's, and its levels have blocks for exactly the
\* codewords its modules hold.
VersionFits ==
  \A v \in version :
    LET dimension == 17 + 4 * v.versionNumber
        dataModules == dimension * dimension - Cardinality(FunctionPatternMask(v))
    IN /\ matrix.dimension = dimension
       /\ \A level \in ToSet(v.errorCorrectionLevels) :
            TotalCodewords(level) = dataModules \div 8

(***************************************************************************)
(* A picture whose damage the code can bear gives the text that was put    *)
(* into it, in every version, level and mask, whichever way the square     *)
(* lies, plain or inverted, after squares that cannot be read; and its     *)
(* version is found with up to three wrong modules in each of its two      *)
(* places.                                                                 *)
(***************************************************************************)
ScanFindsText ==
  /\ stage = "format" /\ "version" \in picture.bearable => VersionFits
  /\ stage = "done" /\ "text" \in picture.bearable => result = <<"text", picture.text>>
=============================================================================
