---------------------------- MODULE FilenameHeader ----------------------------
(***************************************************************************)
(* The name of an uploaded file travels in a header, as the base64 of its  *)
(* UTF-8: lib/base64.ts.  A name is a sequence of UTF-16 code units, as    *)
(* JavaScript keeps it; a character beyond 16 bits is two of them.         *)
(***************************************************************************)
EXTENDS Integers, Sequences, SequencesExt

CONSTANTS
  Units,        \* code units that names are made of
  ShortNames,   \* names of up to that many units are tried
  LongNames     \* and names of that many equal units

ASSUME FilenameAssumption ==
  /\ Units \subseteq {c \in Nat : c < 65536}
  /\ ShortNames \in Nat /\ LongNames \subseteq Nat

VARIABLES
  fileName,   \* sDOMStr
  aBytes,     \* its bytes, when strToUTF8Arr is done
  nIdx, nUint24,  \* of the loop in base64EncArr
  sB64Enc,    \* what it has encoded: values of six bits, Pad, LineBreak
  encoded     \* it has returned

headerVars == <<fileName, aBytes, nIdx, nUint24, sB64Enc, encoded>>

Pad == 64
LineBreak == 65

\* One code unit; the longer forms of the code are for units beyond 16 bits,
\* which charCodeAt never returns.
UnitBytes(c) ==
  CASE c < 128 -> <<c>>
    [] c >= 128 /\ c < 2048 -> <<192 + (c \div 64), 128 + (c % 64)>>
    [] c >= 2048 -> <<224 + (c \div 4096), 128 + ((c \div 64) % 64), 128 + (c % 64)>>

StrToUTF8Arr(s) == FlattenSeq([i \in DOMAIN s |-> UnitBytes(s[i])])

\* The 24 bits of three bytes, as four values of six bits.
Sextets(n) == <<n \div 262144, (n \div 4096) % 64, (n \div 64) % 64, n % 64>>

\* The names that are tried.
AnyNames == UNION {[1 .. n -> Units] : n \in 0 .. ShortNames}
EvenNames == UNION {{[i \in 1 .. n |-> u] : u \in Units} : n \in LongNames}

FilenameInit ==
  /\ fileName \in AnyNames \cup EvenNames
  /\ aBytes = StrToUTF8Arr(fileName)
  /\ nIdx = 0 /\ nUint24 = 0
  /\ sB64Enc = <<>>
  /\ encoded = FALSE

\* One turn of the loop: a line break after every 57 bytes (76 characters), and
\* four characters after every third byte and after the last one.
EncodeByte ==
  /\ nIdx < Len(aBytes)
  /\ LET break == IF nIdx > 0 /\ nIdx % 57 = 0 THEN <<LineBreak>> ELSE <<>>
         sum == nUint24 + aBytes[nIdx + 1] * (CASE nIdx % 3 = 0 -> 65536
                                                [] nIdx % 3 = 1 -> 256
                                                [] nIdx % 3 = 2 -> 1)
         full == nIdx % 3 = 2 \/ nIdx = Len(aBytes) - 1
     IN /\ sB64Enc' = sB64Enc \o break \o (IF full THEN Sextets(sum) ELSE <<>>)
        /\ nUint24' = IF full THEN 0 ELSE sum
  /\ nIdx' = nIdx + 1
  /\ UNCHANGED <<fileName, aBytes, encoded>>

\* The last one or two characters become padding.
FinishEncoding ==
  /\ nIdx = Len(aBytes) /\ ~encoded
  /\ LET pads == (3 - (nIdx % 3)) % 3
     IN sB64Enc' = SubSeq(sB64Enc, 1, Len(sB64Enc) - pads) \o [i \in 1 .. pads |-> Pad]
  /\ encoded' = TRUE
  /\ UNCHANGED <<fileName, aBytes, nIdx, nUint24>>

FilenameNext == EncodeByte \/ FinishEncoding

FilenameSpec == FilenameInit /\ [][FilenameNext]_headerVars

-----------------------------------------------------------------------------
\* base64 of bytes as RFC 4648 has it: bit i of the bytes is bit i of the
\* characters, zeros after the last, padded to a multiple of four; in lines of
\* 76 characters.
Bit(n, width, i) == (n \div 2 ^ (width - i)) % 2

IsBase64Of(chars, bytes) ==
  LET n == Len(bytes)
      full == (8 * n + 5) \div 6
      padded == 4 * ((n + 2) \div 3)
      breaks == IF n = 0 THEN 0 ELSE (n - 1) \div 57
      Char(k) == chars[k + ((k - 1) \div 76)]
  IN /\ Len(chars) = padded + breaks
     /\ \A j \in 1 .. breaks : chars[77 * j] = LineBreak
     /\ \A k \in 1 .. padded : IF k <= full THEN Char(k) \in 0 .. 63 ELSE Char(k) = Pad
     /\ \A i \in 1 .. 6 * full :
          Bit(Char(((i - 1) \div 6) + 1), 6, ((i - 1) % 6) + 1)
            = IF i <= 8 * n THEN Bit(bytes[((i - 1) \div 8) + 1], 8, ((i - 1) % 8) + 1) ELSE 0

(***************************************************************************)
(* The header holds the base64 of the name's bytes, for every length of    *)
(* name; a line break, which no header may hold, comes in exactly when the *)
(* name has more than 57 bytes (the browser then refuses the upload).      *)
(***************************************************************************)
HeaderHoldsName ==
  encoded =>
    /\ IsBase64Of(sB64Enc, aBytes)
    /\ Contains(sB64Enc, LineBreak) <=> Len(aBytes) > 57
=============================================================================
