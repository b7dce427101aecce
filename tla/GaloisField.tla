------------------------------ MODULE GaloisField ------------------------------
(***************************************************************************)
(* The field of 256 elements that QR codes correct errors in, and          *)
(* polynomials over it: GenericGF and GenericGFPoly in jsQR.js.            *)
(***************************************************************************)
EXTENDS Integers, Sequences, SequencesExt

Primitive == 285   \* x^8 + x^4 + x^3 + x^2 + 1
Size == 256

\* addOrSubtractGF
XorTable ==
  LET xor[a, b \in 0 .. Size - 1] ==
        IF a = 0 /\ b = 0 THEN 0 ELSE 2 * xor[a \div 2, b \div 2] + ((a + b) % 2)
  IN [a \in 0 .. Size - 1 |-> [b \in 0 .. Size - 1 |-> xor[a, b]]]
Plus(a, b) == XorTable[a][b]

Doubled == [x \in 0 .. Size - 1 |-> IF 2 * x >= Size THEN Plus(2 * x - Size, Primitive - Size)
                                    ELSE 2 * x]

\* Sixteen at a time, as TLC's stack is short.
ExpTable ==
  LET Twice(f) == [x \in 0 .. Size - 1 |-> f[f[x]]]
      sixteenTimes == Twice(Twice(Twice(Twice(Doubled))))
      power[i \in 0 .. Size - 1] == IF i = 0 THEN 1
                                    ELSE IF i < 16 THEN Doubled[power[i - 1]]
                                    ELSE sixteenTimes[power[i - 16]]
  IN [i \in 1 .. Size |-> power[i - 1]]
Exp(i) == ExpTable[i + 1]

LogTable ==
  CHOOSE log \in {[a \in 1 .. Size - 1 |-> CHOOSE i \in 0 .. Size - 2 : table[i + 1] = a] :
                    table \in {ExpTable}} : TRUE
Log(a) == LogTable[a]

TimesTable ==
  [a \in 0 .. Size - 1 |->
     [b \in 0 .. Size - 1 |->
        IF a = 0 \/ b = 0 THEN 0 ELSE Exp((Log(a) + Log(b)) % (Size - 1))]]
Times(a, b) == TimesTable[a][b]
Inverted(a) == Exp(Size - Log(a) - 1)

\* By halves, for the same reason.
Sum(c) ==
  LET sum[i \in 1 .. Len(c), n \in 1 .. Len(c)] ==
        IF n = 1 THEN c[i] ELSE Plus(sum[i, n \div 2], sum[i + n \div 2, n - n \div 2])
  IN IF c = <<>> THEN 0 ELSE sum[1, Len(c)]

-----------------------------------------------------------------------------
\* A polynomial is its coefficients, the leading one first and not zero.
Zero == <<0>>
One == <<1>>

Poly(coefficients) ==
  LET nonZero == {i \in DOMAIN coefficients : coefficients[i] # 0}
  IN IF nonZero = {} THEN Zero
     ELSE SubSeq(coefficients, CHOOSE i \in nonZero : \A j \in nonZero : i <= j,
                 Len(coefficients))

Degree(p) == Len(p) - 1
IsZero(p) == p = Zero
Coefficient(p, degree) == IF degree > Degree(p) THEN 0 ELSE p[Len(p) - degree]

Monomial(degree, c) ==
  IF c = 0 THEN Zero ELSE [i \in 1 .. degree + 1 |-> IF i = 1 THEN c ELSE 0]

AddOrSubtract(p, q) ==
  LET degree == IF Degree(p) > Degree(q) THEN Degree(p) ELSE Degree(q)
  IN Poly([i \in 1 .. degree + 1 |-> Plus(Coefficient(p, degree + 1 - i),
                                          Coefficient(q, degree + 1 - i))])

Scale(p, c) == IF c = 0 THEN Zero ELSE [i \in DOMAIN p |-> Times(p[i], c)]

MultiplyPoly(p, q) ==
  IF IsZero(p) \/ IsZero(q) THEN Zero
  ELSE LET Product(d) == Sum([i \in 1 .. d + 1 |-> Times(Coefficient(p, i - 1),
                                                         Coefficient(q, d + 1 - i))])
           degree == Degree(p) + Degree(q)
       IN Poly([i \in 1 .. degree + 1 |-> Product(degree + 1 - i)])

MultiplyByMonomial(p, degree, c) ==
  IF c = 0 THEN Zero ELSE Scale(p, c) \o [i \in 1 .. degree |-> 0]

\* Each term by itself: the code works inwards, from the leading one.
EvaluateAt(p, a) ==
  IF a = 0 THEN Coefficient(p, 0)
  ELSE Sum([i \in DOMAIN p |-> Times(p[i], Exp((Log(a) * (Len(p) - i)) % (Size - 1)))])
=============================================================================
