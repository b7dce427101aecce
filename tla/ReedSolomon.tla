------------------------------ MODULE ReedSolomon ------------------------------
(***************************************************************************)
(* The error correction of one block of a QR code: decode in jsQR.js, with *)
(* the Euclidean algorithm taken a division at a time.                     *)
(***************************************************************************)
EXTENDS GaloisField, FiniteSets

VARIABLES
  block,       \* the codewords of the block, as received
  twoS,        \* how many of them are for error correction
  syndrome,
  rLast, r, tLast, t,   \* of runEuclideanAlgorithm
  corrected    \* NotYet, Null, or the codewords

euclidVars == <<rLast, r, tLast, t>>
blockVars == <<block, twoS, syndrome, euclidVars, corrected>>

NotYet == <<-2>>
Null == <<-1>>

\* The syndromes, the last one first; all are 0 if there is no error.
Syndromes(bytes, n) == [i \in 1 .. n |-> EvaluateAt(Poly(bytes), Exp(n - i))]

StartBlock(bytes, n) ==
  LET values == Syndromes(bytes, n)
  IN /\ block' = bytes /\ twoS' = n
     /\ syndrome' = Poly(values)
     /\ rLast' = Monomial(n, 1) /\ r' = syndrome'
     /\ tLast' = Zero /\ t' = One
     /\ corrected' = IF IsZero(syndrome') THEN bytes ELSE NotYet

EmptyBlock ==
  /\ block = <<>> /\ twoS = 0 /\ syndrome = Zero
  /\ rLast = Zero /\ r = Zero /\ tLast = Zero /\ t = Zero
  /\ corrected = NotYet

\* The division by b: the quotient so far, and the rest, whose degree each turn
\* of the loop lowers.
DivideOnce(d, b) ==
  LET diff == Degree(d.rest) - Degree(b)
      scale == Times(d.rest[1], Inverted(b[1]))
  IN IF diff < 0 \/ IsZero(d.rest) THEN d
     ELSE [q |-> AddOrSubtract(d.q, Monomial(diff, scale)),
           rest |-> AddOrSubtract(d.rest, MultiplyByMonomial(b, diff, scale))]

\* As many turns as the rest has terms: a turn with nothing to do does nothing.
\* By halves, as TLC's stack is short.
Divide(d, b) ==
  LET Elements == Seq(0 .. Size - 1)
      Repeated(Turn(_)) ==
        LET after[n \in 0 .. Len(d.rest), so \in [q : Elements, rest : Elements]] ==
              IF n = 0 THEN so
              ELSE IF n = 1 THEN Turn(so)
              ELSE after[n - n \div 2, after[n \div 2, so]]
        IN after[Len(d.rest), d]
  IN Repeated(LAMBDA so : DivideOnce(so, b))

Dividing == corrected = NotYet /\ block # <<>> /\ 2 * Degree(r) >= twoS

EuclidStep ==
  /\ Dividing
  /\ IF IsZero(r)
     THEN corrected' = Null /\ UNCHANGED euclidVars
     ELSE \E d \in {Divide([q |-> Zero, rest |-> rLast], r)} :
            /\ rLast' = r /\ tLast' = t
            /\ r' = d.rest
            /\ t' = AddOrSubtract(MultiplyPoly(d.q, t), tLast)
            /\ corrected' = IF Degree(d.rest) >= Degree(r) THEN Null ELSE NotYet
  /\ UNCHANGED <<block, twoS, syndrome>>

\* findErrorLocations: the inverses of the locator's zeros.
FindErrorLocations(locator) ==
  LET zeros == SelectSeq([i \in 1 .. Size - 1 |-> i], LAMBDA i : EvaluateAt(locator, i) = 0)
  IN IF Degree(locator) = 1 THEN <<Coefficient(locator, 1)>>
     ELSE IF Len(zeros) # Degree(locator) THEN Null
     ELSE [i \in DOMAIN zeros |-> Inverted(zeros[i])]

FindErrorMagnitudes(evaluator, locations) ==
  [i \in DOMAIN locations |->
     LET xi == Inverted(locations[i])
         denominator == FoldLeft(Times, 1,
                          [j \in DOMAIN locations |->
                             IF j = i THEN 1 ELSE Plus(1, Times(locations[j], xi))])
     IN Times(EvaluateAt(evaluator, xi), Inverted(denominator))]

\* An error is looked for one byte before its place.
TakeOutNext(bytes, locations, magnitudes) ==
  LET position == [i \in DOMAIN locations |-> Len(bytes) - 1 - Log(locations[i])]
  IN IF \E i \in DOMAIN locations : position[i] < 1 THEN Null
     ELSE [p \in DOMAIN bytes |->
             Plus(bytes[p], Sum([i \in DOMAIN locations |->
                                   IF position[i] = p THEN magnitudes[i] ELSE 0]))]

\* The bytes with the errors taken out, or Null if one is before the first.
TakeOut(bytes, locations, magnitudes) ==
  LET position == [i \in DOMAIN locations |-> Len(bytes) - Log(locations[i])]
      At(p) == Sum([i \in DOMAIN locations |->
                      IF position[i] = p THEN magnitudes[i] ELSE 0])
  IN IF \E i \in DOMAIN locations : position[i] < 1 THEN Null
     ELSE [p \in DOMAIN bytes |-> Plus(bytes[p], At(p))]

CorrectErrors ==
  /\ corrected = NotYet /\ block # <<>> /\ ~Dividing
  /\ corrected' =
       IF Coefficient(t, 0) = 0 THEN Null
       ELSE LET inverse == Inverted(Coefficient(t, 0))
                locations == FindErrorLocations(Scale(t, inverse))
            IN IF locations = Null THEN Null
               ELSE TakeOut(block, locations,
                            FindErrorMagnitudes(Scale(r, inverse), locations))
  /\ UNCHANGED <<block, twoS, syndrome, euclidVars>>

-----------------------------------------------------------------------------
\* p, without its terms of the degree n and above.
Truncated(p, n) ==
  Poly([i \in 1 .. n |-> Coefficient(p, n - i)])

(***************************************************************************)
(* The loop of the Euclidean algorithm keeps its promise: each remainder   *)
(* is its factor times the syndrome, up to terms of the degree twoS; this  *)
(* is why the last two are the error evaluator and the error locator.      *)
(***************************************************************************)
EuclidSound ==
  block # <<>> =>
    /\ r = Truncated(MultiplyPoly(t, syndrome), twoS)
    /\ Truncated(rLast, twoS) = Truncated(MultiplyPoly(tLast, syndrome), twoS)

(***************************************************************************)
(* A block that is given back is a codeword, or came back as it was: when  *)
(* the upper half of its syndromes is 0 the algorithm stops before its     *)
(* first division, locates no error, and does not notice.                  *)
(***************************************************************************)
BlockIsCodeword ==
  corrected \notin {NotYet, Null} =>
    \/ Syndromes(corrected, twoS) = [i \in 1 .. twoS |-> 0]
    \/ corrected = block /\ 2 * Degree(syndrome) < twoS

(***************************************************************************)
(* Both, at every step of a block's correction.                            *)
(***************************************************************************)
CorrectionSound == EuclidSound /\ BlockIsCodeword
=============================================================================
