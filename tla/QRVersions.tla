------------------------------ MODULE QRVersions ------------------------------
(***************************************************************************)
(* The versions of QR codes, as the scanner of the tickets knows them: the *)
(* table VERSIONS of jsQR.js.  A version has its information bits (0 where *)
(* the code has null: versions below 7 carry none), its number, the        *)
(* centers of its alignment patterns, and four levels of error correction. *)
(* A level has its error correction codewords per block and groups of      *)
(* blocks: how many, and the data codewords of each.                       *)
(***************************************************************************)
EXTENDS Integers, Sequences

Level(ec, groups) == [ecCodewordsPerBlock |-> ec, ecBlocks |-> groups]

Version(info, number, centers, l, m, q, h) ==
  [infoBits |-> info, versionNumber |-> number, alignmentPatternCenters |-> centers,
   errorCorrectionLevels |-> <<l, m, q, h>>]

Versions1 == <<
  Version(0, 1, <<>>,
    Level(7, <<<<1, 19>>>>), Level(10, <<<<1, 16>>>>),
    Level(13, <<<<1, 13>>>>), Level(17, <<<<1, 9>>>>)),
  Version(0, 2, <<6, 18>>,
    Level(10, <<<<1, 34>>>>), Level(16, <<<<1, 28>>>>),
    Level(22, <<<<1, 22>>>>), Level(28, <<<<1, 16>>>>)),
  Version(0, 3, <<6, 22>>,
    Level(15, <<<<1, 55>>>>), Level(26, <<<<1, 44>>>>),
    Level(18, <<<<2, 17>>>>), Level(22, <<<<2, 13>>>>)),
  Version(0, 4, <<6, 26>>,
    Level(20, <<<<1, 80>>>>), Level(18, <<<<2, 32>>>>),
    Level(26, <<<<2, 24>>>>), Level(16, <<<<4, 9>>>>))>>

Versions5 == <<
  Version(0, 5, <<6, 30>>,
    Level(26, <<<<1, 108>>>>), Level(24, <<<<2, 43>>>>),
    Level(18, <<<<2, 15>>, <<2, 16>>>>), Level(22, <<<<2, 11>>, <<2, 12>>>>)),
  Version(0, 6, <<6, 34>>,
    Level(18, <<<<2, 68>>>>), Level(16, <<<<4, 27>>>>),
    Level(24, <<<<4, 19>>>>), Level(28, <<<<4, 15>>>>)),
  Version(31892, 7, <<6, 22, 38>>,
    Level(20, <<<<2, 78>>>>), Level(18, <<<<4, 31>>>>),
    Level(18, <<<<2, 14>>, <<4, 15>>>>), Level(26, <<<<4, 13>>, <<1, 14>>>>)),
  Version(34236, 8, <<6, 24, 42>>,
    Level(24, <<<<2, 97>>>>), Level(22, <<<<2, 38>>, <<2, 39>>>>),
    Level(22, <<<<4, 18>>, <<2, 19>>>>), Level(26, <<<<4, 14>>, <<2, 15>>>>))>>

Versions9 == <<
  Version(39577, 9, <<6, 26, 46>>,
    Level(30, <<<<2, 116>>>>), Level(22, <<<<3, 36>>, <<2, 37>>>>),
    Level(20, <<<<4, 16>>, <<4, 17>>>>), Level(24, <<<<4, 12>>, <<4, 13>>>>)),
  Version(42195, 10, <<6, 28, 50>>,
    Level(18, <<<<2, 68>>, <<2, 69>>>>), Level(26, <<<<4, 43>>, <<1, 44>>>>),
    Level(24, <<<<6, 19>>, <<2, 20>>>>), Level(28, <<<<6, 15>>, <<2, 16>>>>)),
  Version(48118, 11, <<6, 30, 54>>,
    Level(20, <<<<4, 81>>>>), Level(30, <<<<1, 50>>, <<4, 51>>>>),
    Level(28, <<<<4, 22>>, <<4, 23>>>>), Level(24, <<<<3, 12>>, <<8, 13>>>>)),
  Version(51042, 12, <<6, 32, 58>>,
    Level(24, <<<<2, 92>>, <<2, 93>>>>), Level(22, <<<<6, 36>>, <<2, 37>>>>),
    Level(26, <<<<4, 20>>, <<6, 21>>>>), Level(28, <<<<7, 14>>, <<4, 15>>>>))>>

Versions13 == <<
  Version(55367, 13, <<6, 34, 62>>,
    Level(26, <<<<4, 107>>>>), Level(22, <<<<8, 37>>, <<1, 38>>>>),
    Level(24, <<<<8, 20>>, <<4, 21>>>>), Level(22, <<<<12, 11>>, <<4, 12>>>>)),
  Version(58893, 14, <<6, 26, 46, 66>>,
    Level(30, <<<<3, 115>>, <<1, 116>>>>), Level(24, <<<<4, 40>>, <<5, 41>>>>),
    Level(20, <<<<11, 16>>, <<5, 17>>>>), Level(24, <<<<11, 12>>, <<5, 13>>>>)),
  Version(63784, 15, <<6, 26, 48, 70>>,
    Level(22, <<<<5, 87>>, <<1, 88>>>>), Level(24, <<<<5, 41>>, <<5, 42>>>>),
    Level(30, <<<<5, 24>>, <<7, 25>>>>), Level(24, <<<<11, 12>>, <<7, 13>>>>)),
  Version(68472, 16, <<6, 26, 50, 74>>,
    Level(24, <<<<5, 98>>, <<1, 99>>>>), Level(28, <<<<7, 45>>, <<3, 46>>>>),
    Level(24, <<<<15, 19>>, <<2, 20>>>>), Level(30, <<<<3, 15>>, <<13, 16>>>>))>>

Versions17 == <<
  Version(70749, 17, <<6, 30, 54, 78>>,
    Level(28, <<<<1, 107>>, <<5, 108>>>>), Level(28, <<<<10, 46>>, <<1, 47>>>>),
    Level(28, <<<<1, 22>>, <<15, 23>>>>), Level(28, <<<<2, 14>>, <<17, 15>>>>)),
  Version(76311, 18, <<6, 30, 56, 82>>,
    Level(30, <<<<5, 120>>, <<1, 121>>>>), Level(26, <<<<9, 43>>, <<4, 44>>>>),
    Level(28, <<<<17, 22>>, <<1, 23>>>>), Level(28, <<<<2, 14>>, <<19, 15>>>>)),
  Version(79154, 19, <<6, 30, 58, 86>>,
    Level(28, <<<<3, 113>>, <<4, 114>>>>), Level(26, <<<<3, 44>>, <<11, 45>>>>),
    Level(26, <<<<17, 21>>, <<4, 22>>>>), Level(26, <<<<9, 13>>, <<16, 14>>>>)),
  Version(84390, 20, <<6, 34, 62, 90>>,
    Level(28, <<<<3, 107>>, <<5, 108>>>>), Level(26, <<<<3, 41>>, <<13, 42>>>>),
    Level(30, <<<<15, 24>>, <<5, 25>>>>), Level(28, <<<<15, 15>>, <<10, 16>>>>))>>

Versions21 == <<
  Version(87683, 21, <<6, 28, 50, 72, 94>>,
    Level(28, <<<<4, 116>>, <<4, 117>>>>), Level(26, <<<<17, 42>>>>),
    Level(28, <<<<17, 22>>, <<6, 23>>>>), Level(30, <<<<19, 16>>, <<6, 17>>>>)),
  Version(92361, 22, <<6, 26, 50, 74, 98>>,
    Level(28, <<<<2, 111>>, <<7, 112>>>>), Level(28, <<<<17, 46>>>>),
    Level(30, <<<<7, 24>>, <<16, 25>>>>), Level(24, <<<<34, 13>>>>)),
  Version(96236, 23, <<6, 30, 54, 74, 102>>,
    Level(30, <<<<4, 121>>, <<5, 122>>>>), Level(28, <<<<4, 47>>, <<14, 48>>>>),
    Level(30, <<<<11, 24>>, <<14, 25>>>>), Level(30, <<<<16, 15>>, <<14, 16>>>>)),
  Version(102084, 24, <<6, 28, 54, 80, 106>>,
    Level(30, <<<<6, 117>>, <<4, 118>>>>), Level(28, <<<<6, 45>>, <<14, 46>>>>),
    Level(30, <<<<11, 24>>, <<16, 25>>>>), Level(30, <<<<30, 16>>, <<2, 17>>>>))>>

Versions25 == <<
  Version(102881, 25, <<6, 32, 58, 84, 110>>,
    Level(26, <<<<8, 106>>, <<4, 107>>>>), Level(28, <<<<8, 47>>, <<13, 48>>>>),
    Level(30, <<<<7, 24>>, <<22, 25>>>>), Level(30, <<<<22, 15>>, <<13, 16>>>>)),
  Version(110507, 26, <<6, 30, 58, 86, 114>>,
    Level(28, <<<<10, 114>>, <<2, 115>>>>), Level(28, <<<<19, 46>>, <<4, 47>>>>),
    Level(28, <<<<28, 22>>, <<6, 23>>>>), Level(30, <<<<33, 16>>, <<4, 17>>>>)),
  Version(110734, 27, <<6, 34, 62, 90, 118>>,
    Level(30, <<<<8, 122>>, <<4, 123>>>>), Level(28, <<<<22, 45>>, <<3, 46>>>>),
    Level(30, <<<<8, 23>>, <<26, 24>>>>), Level(30, <<<<12, 15>>, <<28, 16>>>>)),
  Version(117786, 28, <<6, 26, 50, 74, 98, 122>>,
    Level(30, <<<<3, 117>>, <<10, 118>>>>), Level(28, <<<<3, 45>>, <<23, 46>>>>),
    Level(30, <<<<4, 24>>, <<31, 25>>>>), Level(30, <<<<11, 15>>, <<31, 16>>>>))>>

Versions29 == <<
  Version(119615, 29, <<6, 30, 54, 78, 102, 126>>,
    Level(30, <<<<7, 116>>, <<7, 117>>>>), Level(28, <<<<21, 45>>, <<7, 46>>>>),
    Level(30, <<<<1, 23>>, <<37, 24>>>>), Level(30, <<<<19, 15>>, <<26, 16>>>>)),
  Version(126325, 30, <<6, 26, 52, 78, 104, 130>>,
    Level(30, <<<<5, 115>>, <<10, 116>>>>), Level(28, <<<<19, 47>>, <<10, 48>>>>),
    Level(30, <<<<15, 24>>, <<25, 25>>>>), Level(30, <<<<23, 15>>, <<25, 16>>>>)),
  Version(127568, 31, <<6, 30, 56, 82, 108, 134>>,
    Level(30, <<<<13, 115>>, <<3, 116>>>>), Level(28, <<<<2, 46>>, <<29, 47>>>>),
    Level(30, <<<<42, 24>>, <<1, 25>>>>), Level(30, <<<<23, 15>>, <<28, 16>>>>)),
  Version(133589, 32, <<6, 34, 60, 86, 112, 138>>,
    Level(30, <<<<17, 115>>>>), Level(28, <<<<10, 46>>, <<23, 47>>>>),
    Level(30, <<<<10, 24>>, <<35, 25>>>>), Level(30, <<<<19, 15>>, <<35, 16>>>>))>>

Versions33 == <<
  Version(136944, 33, <<6, 30, 58, 86, 114, 142>>,
    Level(30, <<<<17, 115>>, <<1, 116>>>>), Level(28, <<<<14, 46>>, <<21, 47>>>>),
    Level(30, <<<<29, 24>>, <<19, 25>>>>), Level(30, <<<<11, 15>>, <<46, 16>>>>)),
  Version(141498, 34, <<6, 34, 62, 90, 118, 146>>,
    Level(30, <<<<13, 115>>, <<6, 116>>>>), Level(28, <<<<14, 46>>, <<23, 47>>>>),
    Level(30, <<<<44, 24>>, <<7, 25>>>>), Level(30, <<<<59, 16>>, <<1, 17>>>>)),
  Version(145311, 35, <<6, 30, 54, 78, 102, 126, 150>>,
    Level(30, <<<<12, 121>>, <<7, 122>>>>), Level(28, <<<<12, 47>>, <<26, 48>>>>),
    Level(30, <<<<39, 24>>, <<14, 25>>>>), Level(30, <<<<22, 15>>, <<41, 16>>>>)),
  Version(150283, 36, <<6, 24, 50, 76, 102, 128, 154>>,
    Level(30, <<<<6, 121>>, <<14, 122>>>>), Level(28, <<<<6, 47>>, <<34, 48>>>>),
    Level(30, <<<<46, 24>>, <<10, 25>>>>), Level(30, <<<<2, 15>>, <<64, 16>>>>))>>

Versions37 == <<
  Version(152622, 37, <<6, 28, 54, 80, 106, 132, 158>>,
    Level(30, <<<<17, 122>>, <<4, 123>>>>), Level(28, <<<<29, 46>>, <<14, 47>>>>),
    Level(30, <<<<49, 24>>, <<10, 25>>>>), Level(30, <<<<24, 15>>, <<46, 16>>>>)),
  Version(158308, 38, <<6, 32, 58, 84, 110, 136, 162>>,
    Level(30, <<<<4, 122>>, <<18, 123>>>>), Level(28, <<<<13, 46>>, <<32, 47>>>>),
    Level(30, <<<<48, 24>>, <<14, 25>>>>), Level(30, <<<<42, 15>>, <<32, 16>>>>)),
  Version(161089, 39, <<6, 26, 54, 82, 110, 138, 166>>,
    Level(30, <<<<20, 117>>, <<4, 118>>>>), Level(28, <<<<40, 47>>, <<7, 48>>>>),
    Level(30, <<<<43, 24>>, <<22, 25>>>>), Level(30, <<<<10, 15>>, <<67, 16>>>>)),
  Version(167017, 40, <<6, 30, 58, 86, 114, 142, 170>>,
    Level(30, <<<<19, 118>>, <<6, 119>>>>), Level(28, <<<<18, 47>>, <<31, 48>>>>),
    Level(30, <<<<34, 24>>, <<34, 25>>>>), Level(30, <<<<20, 15>>, <<61, 16>>>>))>>

VERSIONS == Versions1 \o Versions5 \o Versions9 \o Versions13 \o Versions17
              \o Versions21 \o Versions25 \o Versions29 \o Versions33 \o Versions37
=============================================================================
