------------------------------- MODULE MCFrontEnd -------------------------------
(* Constants of FrontEnd that a configuration cannot write, most of them   *)
(* pictures of QR codes, damaged in places chosen to try every way out.    *)
EXTENDS FrontEnd, QREncoder

TwoTabs == <<"following", "featured">>
FivePictures == <<2, 1, 2, 4, 1>>
-----------------------------------------------------------------------------
Segment(mode, values) == [mode |-> mode, values |-> values]
Digits(n) == [i \in 1 .. n |-> (3 * i) % 10]

\* Nine bytes without a bit to spare, nine with one, and thirteen with four.
Ticket == <<Segment("byte", <<116, 195, 169, 107>>), Segment("numeric", Digits(4))>>
Numeric == <<Segment("numeric", Digits(17))>>
Mixed == <<Segment("eci", <<0, 0, 0, 1, 1, 0, 1, 0>>), Segment("alphanumeric", <<10, 44, 1>>),
           Segment("kanji", <<3, 6000>>), Segment("byte", <<255>>)>>
Short == <<Segment("byte", <<104, 109, 110>>)>>
\* Segments that end the reading: no three digits, a number that is no number.
NoDigits == <<Segment("numeric", <<9, 9, 15>>)>>
NoNumber == <<Segment("eci", <<1, 1, 1>>), Segment("eci", [i \in 1 .. 60 |-> i % 2])>>
Wide == <<Segment("eci", <<1, 0>> \o [i \in 1 .. 14 |-> 0]), Segment("numeric", <<1, 2>>)>>

\* The modules of the bits of codeword k of a square that are set in a mistake.
ErrorIn(n, k, mistake) ==
  LET order == ReadingOrder(VERSIONS[n], 17 + 4 * n)
  IN {order[8 * (k - 1) + i] : i \in {j \in 1 .. 8 : ToBits(mistake, 8)[j] = 1}}

\* Three modules in both places of the format, and of the version.
FormatDamage(dimension) ==
  LET places == FormatModules(dimension)
  IN {places.topLeft[i] : i \in {1, 8, 15}} \cup {places.others[i] : i \in {2, 3, 9}}

VersionDamage(dimension) ==
  {VersionModules(dimension, FALSE)[i] : i \in {1, 9, 18}}
    \cup {VersionModules(dimension, TRUE)[i] : i \in {2, 3, 4}}

-----------------------------------------------------------------------------
\* What to draw: a message in a version, level and mask; what to damage, modules
\* and codewords; how the square lies; and what can still be read.
Plan(message, n, l, mask) ==
  [message |-> message, n |-> n, l |-> l, mask |-> mask, damage |-> {}, errors |-> <<>>,
   lies |-> "plain", bearable |-> {"version", "text"}]
NoText == {"version"}

\* Every level and mask, with a damaged format.
Formats == {[Plan(Ticket, 1, l, mask) EXCEPT !.damage = FormatDamage(21)] :
              l \in 1 .. 4, mask \in 0 .. 7}

\* The kinds of text, one of them in larger versions, and those that are none.
Kinds ==
  {Plan(Numeric, 1, 4, 3), Plan(Mixed, 1, 3, 5), Plan(Mixed, 10, 1, 0), Plan(Mixed, 27, 2, 7),
   Plan(Wide, 1, 1, 6)}
    \cup {[Plan(none, 1, 1, Len(none)) EXCEPT !.bearable = NoText] : none \in {NoDigits, NoNumber}}

\* As many wrong codewords as can be corrected, and one more; and four whose
\* last three syndromes are 0.
Hollow == MultiplyPoly(MultiplyPoly(<<1, Exp(4)>>, <<1, Exp(5)>>), <<1, Exp(6)>>)
Errors ==
  {[Plan(Short, 1, 1, 0) EXCEPT !.errors = [k \in ks |-> 37 * k]] :
     ks \in {{2}, {1, 26}, {3, 20, 21}}}
    \cup {[Plan(Short, 1, 4, 0) EXCEPT !.errors = [k \in 10 .. 17 |-> 11 * k]],
          [Plan(Short, 5, 3, 4) EXCEPT !.errors = [k \in {4 * i : i \in 1 .. 9} |-> k]]}
    \cup {[Plan(Short, 1, errors[1], 0) EXCEPT !.errors = errors[2], !.bearable = NoText] :
            errors \in {<<1, [k \in 1 .. 4 |-> 128]>>,
                        <<2, [k \in 5 .. 10 |-> 50 * (k - 5) + 3]>>,
                        <<1, [k \in 2 .. 5 |-> Hollow[k - 1]]>>}}

\* Squares that lie otherwise, or come after one that cannot be read.
Others ==
  {[Plan(Short, 2, 2, mask) EXCEPT !.lies = lies] :
     <<mask, lies>> \in {<<7, "mirrored">>, <<2, "inverted">>, <<4, "second">>}}

\* Version 7, whose modules are damaged, gone in one place, gone in one and wrong
\* in the other, half gone, or those of version 8.
Information ==
  LET cells(b) == VersionModules(45, b)
      OfVersion(code, places) == UNION {Drawn(cells(b), code) : b \in places}
      Changed(from, to) == (from \ to) \cup (to \ from)
      seven == Only({VersionCode(n) : n \in {7}})
      gone == OfVersion(seven, {FALSE})
      half == {cells(b)[i] : i \in {1, 5, 9, 13, 17}, b \in BOOLEAN}
      eight == Only({VersionCode(n) : n \in {8}})
  IN {[Plan(Short, 7, 2, 1) EXCEPT !.damage = damage] : damage \in {VersionDamage(45), gone}}
       \cup {[Plan(Short, 7, 2, 1) EXCEPT !.damage = damage, !.bearable = {}] :
               damage \in {gone \cup {cells(TRUE)[5]}, half,
                           Changed(OfVersion(seven, BOOLEAN), OfVersion(eight, BOOLEAN))}}

-----------------------------------------------------------------------------
White == [dimension |-> 21, dark |-> {}]

Picture(plain, inverted, bearable, held) ==
  [plain |-> plain, inverted |-> inverted, attemptBoth |-> inverted # <<>>,
   bearable |-> bearable, text |-> held]

DrawnPicture(plan) ==
  LET wrong == UNION {ErrorIn(plan.n, k, plan.errors[k]) : k \in DOMAIN plan.errors}
      upright == Damaged(Square(plan.message, plan.n, plan.l, plan.mask), plan.damage \cup wrong)
      m == IF plan.lies = "mirrored" THEN Mirror(upright) ELSE upright
  IN Picture(CASE plan.lies = "inverted" -> <<>>
               [] plan.lies = "second" -> <<White, m>>
               [] OTHER -> <<m>>,
             IF plan.lies = "inverted" THEN <<m>> ELSE <<>>,
             plan.bearable, MessageText(plan.message))

\* Every version, with damaged information, and no data.
Versions ==
  {Picture(<<Damaged([dimension |-> 17 + 4 * n, dark |-> VersionDark(n)],
                     IF n < 7 THEN {} ELSE VersionDamage(17 + 4 * n))>>, <<>>, NoText, <<>>) :
     n \in 1 .. 40}

\* No code is found in the picture.
NoCode == Picture(<<>>, <<>>, {}, <<>>)

AllPictures ==
  Versions \cup {NoCode} \cup {DrawnPicture(plan) : plan \in Formats \cup Kinds \cup Errors \cup Others
                                               \cup Information}
=============================================================================
