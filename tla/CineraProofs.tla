------------------------------ MODULE CineraProofs -----------------------------
(***************************************************************************)
(* Proofs about the pages of the episode guide (CineraPages), with their   *)
(* views, filter, player, menus and search, for any video, any markers and *)
(* categories, any menus, any indexes and queries.  Each part has an       *)
(* invariant of its own; the steps of the pages are first brought down to  *)
(* what they are for the part (PagesView, PagesFilter, PagesPlayer,        *)
(* PagesSearch).  It begins with what is said of numbers, lists and loops  *)
(* in general; BrowserProofs uses that too.                                *)
(***************************************************************************)
EXTENDS CineraPages, SequenceTheorems, FiniteSetTheorems, WellFoundedInduction,
        TLAPS

(* Every set of natural numbers has a smallest one: what the inductions of *)
(* this module rest on.                                                    *)
LEMMA Smallest ==
  ASSUME NEW T \in SUBSET Nat, T # {}
  PROVE  \E x \in T : \A y \in T : x <= y
<1> DEFINE R == OpToRel(<, Nat)
<1>1. IsWellFoundedOn(R, Nat)
  BY NatLessThanWellFounded
<1>2. \E x \in T : \A y \in T : ~ (<<y, x>> \in R)
  <2> HIDE DEF R
  <2> QED
    BY <1>1, WFMin
<1>3. \A x, y \in Nat : y < x => <<y, x>> \in R
  BY DEF OpToRel
<1> HIDE DEF R
<1>4. PICK x \in T : \A y \in T : ~ (<<y, x>> \in R)
  BY <1>2
<1>5. ASSUME NEW y \in T PROVE x <= y
  <2>1. ~ (<<y, x>> \in R)
    BY <1>4
  <2>2. ~ (y < x)
    BY <2>1, <1>3
  <2> QED
    BY <2>2
<1> QED
  BY <1>5

(*****************************************************************************)
(* A definition that gives a function's values one after another, each from  *)
(* the earlier ones, describes a function.                                   *)
(*****************************************************************************)
FromEarlier(step, n, X) ==
  /\ step \in [0 .. n -> [[0 .. n -> X] -> X]]
  /\ \A i \in 0 .. n : \A f, g \in [0 .. n -> X] :
       (\A j \in 0 .. i - 1 : f[j] = g[j]) => step[i][f] = step[i][g]

Solves(f, step, n, X) == f \in [0 .. n -> X] /\ \A i \in 0 .. n : f[i] = step[i][f]

LEMMA Recursion ==
  ASSUME NEW n \in Nat, NEW X, NEW base \in X, NEW step, FromEarlier(step, n, X)
  PROVE  \E f : Solves(f, step, n, X)
<1> USE DEF FromEarlier, Solves
<1> DEFINE Good(m, f) == \A i \in 0 .. m - 1 : f[i] = step[i][f]
           Lacking == {m \in Nat : m <= n + 1 /\ ~ \E f \in [0 .. n -> X] : Good(m, f)}
<1>1. Lacking = {}
  <2> SUFFICES ASSUME Lacking # {} PROVE FALSE
    OBVIOUS
  <2>1. PICK x \in Lacking : \A y \in Lacking : x <= y
    <3>1. Lacking \in SUBSET Nat
      OBVIOUS
    <3> HIDE DEF Lacking
    <3> QED
      BY <3>1, Smallest
  <2>2. x \in Nat /\ x <= n + 1 /\ ~ \E f \in [0 .. n -> X] : Good(x, f)
    OBVIOUS
  <2>3. x # 0
    <3>1. [i \in 0 .. n |-> base] \in [0 .. n -> X] /\ Good(0, [i \in 0 .. n |-> base])
      OBVIOUS
    <3> QED
      BY <3>1, <2>2
  <2>4. x - 1 \in Nat /\ x - 1 <= n + 1 /\ x - 1 \notin Lacking
    <3>1. x - 1 \in Nat /\ x - 1 <= n + 1 /\ ~(x <= x - 1)
      BY <2>2, <2>3
    <3> HIDE DEF Lacking
    <3> QED
      BY <2>1, <3>1
  <2>5. PICK g \in [0 .. n -> X] : Good(x - 1, g)
    BY <2>4
  <2> DEFINE last == x - 1
             h == [g EXCEPT ![last] = step[last][g]]
  <2>6. last \in 0 .. n
    BY <2>2, <2>3
  <2>7. step[last][g] \in X
    BY <2>6
  <2>8. h \in [0 .. n -> X]
    BY <2>7
  <2>9. \A j \in 0 .. last - 1 : h[j] = g[j]
    BY <2>6
  <2>10. ASSUME NEW i \in 0 .. last PROVE h[i] = step[i][h]
    <3>1. i \in 0 .. n /\ \A j \in 0 .. i - 1 : h[j] = g[j]
      BY <2>6, <2>9
    <3>2. step[i][h] = step[i][g]
      <4> HIDE DEF h
      <4> QED
        BY <3>1, <2>8
    <3>3. CASE i = last
      BY <3>2, <3>3, <2>6
    <3>4. CASE i # last
      <4>1. i \in 0 .. last - 1
        BY <3>4, <2>6
      <4>2. g[i] = step[i][g]
        BY <4>1, <2>5
      <4> QED
        BY <4>1, <4>2, <3>2, <2>9
    <3> QED
      BY <3>3, <3>4
  <2>11. Good(x, h)
    <3> HIDE DEF h
    <3> QED
      BY <2>10
  <2> QED
    BY <2>2, <2>8, <2>11
<1>2. n + 1 \in Nat /\ n + 1 \notin Lacking
  <2> HIDE DEF Lacking
  <2> QED
    BY <1>1
<1>3. PICK f \in [0 .. n -> X] : Good(n + 1, f)
  BY <1>2
<1> QED
  BY <1>3

(* So does one that makes each value from the one before: the states of a    *)
(* loop.                                                                     *)
IsLoop(turn, n, X) == turn \in [1 .. n -> [X -> X]]

Runs(f, turn, n, X, base) ==
  f \in [0 .. n -> X] /\ f[0] = base /\ \A i \in 1 .. n : f[i] = turn[i][f[i - 1]]

LEMMA Loop ==
  ASSUME NEW n \in Nat, NEW X, NEW base \in X, NEW turn, IsLoop(turn, n, X)
  PROVE  \E f : Runs(f, turn, n, X, base)
<1> USE DEF IsLoop, Runs
<1>0. n \in Nat /\ base \in X
  OBVIOUS
<1> DEFINE step == [i \in 0 .. n |-> [f \in [0 .. n -> X] |->
                                      IF i = 0 THEN base ELSE turn[i][f[i - 1]]]]
<1>1. \A i \in 0 .. n, f \in [0 .. n -> X] :
        step[i][f] = IF i = 0 THEN base ELSE turn[i][f[i - 1]]
  OBVIOUS
<1>2. \A i \in 0 .. n, f \in [0 .. n -> X] : step[i][f] \in X
  <2> TAKE i \in 0 .. n, f \in [0 .. n -> X]
  <2>1. i # 0 => i \in 1 .. n /\ i - 1 \in 0 .. n
    OBVIOUS
  <2> HIDE DEF step
  <2> QED
    BY <1>1, <2>1
<1>3. step \in [0 .. n -> [[0 .. n -> X] -> X]]
  <2>1. \A i \in 0 .. n : step[i] \in [[0 .. n -> X] -> X]
    BY <1>2
  <2> QED
    BY <2>1
<1>4. ASSUME NEW i \in 0 .. n, NEW f \in [0 .. n -> X], NEW g \in [0 .. n -> X],
             \A j \in 0 .. i - 1 : f[j] = g[j]
      PROVE  step[i][f] = step[i][g]
  <2>1. i # 0 => i - 1 \in 0 .. i - 1
    OBVIOUS
  <2> HIDE DEF step
  <2> QED
    BY <1>1, <1>4, <2>1
<1>5. \A i \in 0 .. n : \A f, g \in [0 .. n -> X] :
        (\A j \in 0 .. i - 1 : f[j] = g[j]) => step[i][f] = step[i][g]
  <2> HIDE DEF step
  <2> QED
    BY <1>4
<1>6. PICK f : Solves(f, step, n, X)
  <2> HIDE DEF step
  <2>1. FromEarlier(step, n, X)
    BY <1>3, <1>5 DEF FromEarlier
  <2> QED
    BY <2>1, <1>0, Recursion, Zenon
<1>7. 0 \in 0 .. n /\ \A i \in 1 .. n : i \in 0 .. n /\ i # 0
  OBVIOUS
<1> HIDE DEF step
<1> QED
  <2>1. f \in [0 .. n -> X] /\ \A i \in 0 .. n : f[i] = step[i][f]
    BY <1>6 DEF Solves
  <2>2. f[0] = base
    BY <2>1, <1>1, <1>7
  <2>3. \A i \in 1 .. n : f[i] = turn[i][f[i - 1]]
    BY <2>1, <1>1, <1>7
  <2> QED
    BY <2>1, <2>2, <2>3 DEF Runs

-----------------------------------------------------------------------------
(*****************************************************************************)
(* The wall.  The loop over the items keeps the rows it has finished and the *)
(* open one complete (Laid): together they hold the items so far in order,   *)
(* each finished row overflows and would not without its last item, and the  *)
(* open one does not overflow.                                               *)
(*****************************************************************************)

(* One more list after the others is one more at their end.                  *)
LEMMA Flattened ==
  ASSUME NEW S, NEW seqs \in Seq(Seq(S)), NEW s \in Seq(S)
  PROVE  /\ FlattenSeq(seqs) \in Seq(S)
         /\ FlattenSeq(Append(seqs, s)) = FlattenSeq(seqs) \o s
<1> DEFINE Is(all, g) == g = [i \in 1 .. Len(all) |-> IF i = 1 THEN all[i] ELSE g[i - 1] \o all[i]]
           flat(all) == CHOOSE g : Is(all, g)
<1>1. ASSUME NEW all \in Seq(Seq(S))
      PROVE  /\ Is(all, flat(all))
             /\ \A i \in 1 .. Len(all) : flat(all)[i] \in Seq(S)
  <2> DEFINE n == Len(all)
             turn == [i \in 1 .. n |-> [before \in Seq(S) |-> before \o all[i]]]
  <2>1. n \in Nat /\ <<>> \in Seq(S) /\ IsLoop(turn, n, Seq(S))
    BY DEF IsLoop
  <2>2. PICK f \in [0 .. n -> Seq(S)] : f[0] = <<>> /\ \A i \in 1 .. n : f[i] = turn[i][f[i - 1]]
    <3> HIDE DEF turn, n
    <3>1. \E f : Runs(f, turn, n, Seq(S), <<>>)
      BY <2>1, Loop, Zenon
    <3> QED
      BY <3>1 DEF Runs
  <2>3. ASSUME NEW i \in 1 .. n PROVE f[i] \in Seq(S) /\ f[i] = f[i - 1] \o all[i]
    <3>0. i \in 0 .. n /\ i - 1 \in 0 .. n
      BY <2>1
    <3>1. f[i - 1] \in Seq(S) /\ f[i] \in Seq(S)
      BY <3>0, <2>2
    <3> QED
      BY <2>2, <3>1
  <2>4. ASSUME NEW i \in 1 .. n
        PROVE  f[i] = IF i = 1 THEN all[i] ELSE f[i - 1] \o all[i]
    <3>1. <<>> \o all[i] = all[i]
      BY ConcatEmptySeq
    <3>2. f[i] = f[i - 1] \o all[i]
      BY <2>3
    <3>3. f[0] = <<>>
      BY <2>2
    <3>4. i = 1 => i - 1 = 0
      OBVIOUS
    <3>5. i = 1 => f[i] = all[i]
      <4> HIDE DEF n, turn
      <4> QED
        BY <3>1, <3>2, <3>3, <3>4
    <3> HIDE DEF n, turn
    <3> QED
      BY <3>2, <3>5
  <2> DEFINE g == [i \in 1 .. n |-> f[i]]
  <2>5. Is(all, g)
    <3>1. \A i \in 1 .. n : g[i] = f[i] /\ (i # 1 => g[i - 1] = f[i - 1])
      BY <2>1
    <3>2. g = [i \in 1 .. n |-> g[i]]
      OBVIOUS
    <3> HIDE DEF g, n
    <3>3. \A i \in 1 .. n : g[i] = IF i = 1 THEN all[i] ELSE g[i - 1] \o all[i]
      BY <3>1, <2>4
    <3>4. [i \in 1 .. n |-> g[i]]
            = [i \in 1 .. n |-> IF i = 1 THEN all[i] ELSE g[i - 1] \o all[i]]
      BY <3>3
    <3> QED
      BY <3>2, <3>4 DEF n
  <2>6. Is(all, flat(all))
    <3> HIDE DEF g
    <3> QED
      BY <2>5
  <2> DEFINE h == flat(all)
  <2>7. \A i \in 1 .. n : h[i] = IF i = 1 THEN all[i] ELSE h[i - 1] \o all[i]
    <3> HIDE DEF flat
    <3> QED
      BY <2>6
  <2>8. \A i \in 1 .. n : h[i] = f[i]
    <3> DEFINE Wrong == {i \in 1 .. n : h[i] # f[i]}
    <3> HIDE DEF h
    <3>1. CASE Wrong # {}
      <4>1. PICK x \in Wrong : \A y \in Wrong : x <= y
        <5>1. Wrong \in SUBSET Nat
          BY <2>1, <3>1
        <5> HIDE DEF Wrong
        <5> QED
          BY <2>1, <3>1, <5>1, Smallest
      <4>2. x # 1
        BY <2>4, <2>7
      <4>3. x \in 1 .. n /\ x - 1 \in 1 .. n /\ ~(x <= x - 1)
        BY <4>2
      <4>4. h[x - 1] = f[x - 1]
        <5> HIDE DEF n, flat, turn
        <5>1. x - 1 \notin Wrong
          <6> HIDE DEF Wrong
          <6> QED
            BY <4>1, <4>3
        <5> QED
          BY <5>1, <4>3
      <4> QED
        BY <4>2, <4>3, <4>4, <2>4, <2>7
    <3> QED
      BY <3>1
  <2> QED
    BY <2>3, <2>6, <2>8
<1> DEFINE n == Len(seqs)
           more == Append(seqs, s)
           F == flat(seqs)
           G == flat(more)
<1>2. /\ n \in Nat /\ more \in Seq(Seq(S)) /\ Len(more) = n + 1
      /\ more = Append(seqs, s) /\ more[n + 1] = s /\ \A i \in 1 .. n : more[i] = seqs[i]
  OBVIOUS
<1>3. /\ FlattenSeq(seqs) = IF n = 0 THEN seqs ELSE F[n]
      /\ FlattenSeq(more) = G[n + 1]
  <2>1. \A all : FlattenSeq(all) = IF Len(all) = 0 THEN all ELSE flat(all)[Len(all)]
    BY DEF FlattenSeq
  <2>2. FlattenSeq(more) = IF Len(more) = 0 THEN more ELSE G[Len(more)]
    BY <2>1
  <2>3. Len(more) = n + 1 /\ n + 1 # 0
    BY <1>2
  <2> HIDE DEF flat, more
  <2> QED
    BY <2>1, <2>2, <2>3
<1>4. /\ \A i \in 1 .. n : F[i] = (IF i = 1 THEN seqs[i] ELSE F[i - 1] \o seqs[i]) /\ F[i] \in Seq(S)
      /\ \A i \in 1 .. n + 1 : G[i] = (IF i = 1 THEN more[i] ELSE G[i - 1] \o more[i]) /\ G[i] \in Seq(S)
  <2>1. Is(seqs, F) /\ Is(more, G)
    BY <1>1, <1>2
  <2>2. (\A i \in 1 .. n : F[i] \in Seq(S)) /\ \A i \in 1 .. n + 1 : G[i] \in Seq(S)
    BY <1>1, <1>2
  <2> HIDE DEF F, G
  <2> QED
    BY <2>1, <2>2, <1>2
<1> HIDE DEF F, G, more, n
<1>5. \A i \in 1 .. n : F[i] = G[i]
  <2> DEFINE Wrong == {i \in 1 .. n : F[i] # G[i]}
  <2>1. CASE Wrong # {}
    <3>1. PICK x \in Wrong : \A y \in Wrong : x <= y
      <4>1. Wrong \in SUBSET Nat
        BY <1>2, <2>1
      <4> HIDE DEF Wrong
      <4> QED
        BY <1>2, <2>1, <4>1, Smallest
    <3>2. x # 1
      BY <1>2, <1>4
    <3>3. x \in 1 .. n /\ x - 1 \in 1 .. n
      BY <3>2, <1>2
    <3>4. F[x - 1] = G[x - 1]
      BY <3>1, <3>3
    <3> QED
      BY <3>2, <3>3, <3>4, <1>2, <1>4
  <2> QED
    BY <2>1
<1>6. CASE n = 0
  <2>1. seqs = <<>> /\ 1 \in 1 .. n + 1 /\ n + 1 = 1
    BY <1>2, <1>6 DEF n
  <2>2. G[1] = s /\ more[1] = s
    BY <2>1, <1>2, <1>4
  <2>3. <<>> \o s = s /\ <<>> \in Seq(S)
    BY ConcatEmptySeq
  <2>4. FlattenSeq(seqs) = <<>> /\ FlattenSeq(more) = s
    BY <2>1, <2>2, <1>3, <1>6
  <2> QED
    BY <2>1, <2>3, <2>4, <1>2
<1>7. CASE n # 0
  <2>0. n \in 1 .. n /\ n + 1 \in 1 .. n + 1 /\ n + 1 # 1 /\ n + 1 - 1 = n
    BY <1>2, <1>7
  <2>1. G[n + 1] = G[n] \o s
    <3> DEFINE J(i) == IF i = 1 THEN more[i] ELSE G[i - 1] \o more[i]
    <3>1. \A i \in 1 .. n + 1 : G[i] = J(i)
      BY <1>4
    <3>2. G[n + 1] = J(n + 1)
      <4> HIDE DEF J
      <4> QED
        BY <2>0, <3>1
    <3> QED
      BY <2>0, <3>2, <1>2
  <2> QED
    BY <2>0, <2>1, <1>2, <1>3, <1>4, <1>5, <1>7
<1> QED
  BY <1>6, <1>7

(* Where an element is appended does not matter to what is joined.           *)
LEMMA Appended ==
  ASSUME NEW S, NEW before \in Seq(S), NEW s \in Seq(S), NEW e \in S
  PROVE  before \o Append(s, e) = Append(before \o s, e)
<1>1. Append(s, e) \in Seq(S) /\ Len(Append(s, e)) = Len(s) + 1
      /\ \A i \in 1 .. Len(s) + 1 : Append(s, e)[i] = IF i = Len(s) + 1 THEN e ELSE s[i]
  OBVIOUS
<1>2. /\ before \o s \in Seq(S) /\ Len(before \o s) = Len(before) + Len(s)
      /\ \A i \in 1 .. Len(before) + Len(s) :
           (before \o s)[i] = IF i <= Len(before) THEN before[i] ELSE s[i - Len(before)]
  BY ConcatProperties
<1> DEFINE left == before \o Append(s, e)
           right == Append(before \o s, e)
           mid == before \o s
           more == Append(s, e)
           a == Len(before)
           b == Len(s)
<1>3. a \in Nat /\ b \in Nat
  OBVIOUS
<1>4. /\ left \in Seq(S) /\ Len(left) = a + b + 1
      /\ \A i \in 1 .. a + b + 1 : left[i] = IF i <= a THEN before[i] ELSE more[i - a]
  <2> HIDE DEF more
  <2>1. more \in Seq(S) /\ Len(more) = b + 1
    BY <1>1 DEF more
  <2>2. /\ before \o more \in Seq(S) /\ Len(before \o more) = a + Len(more)
        /\ \A i \in 1 .. a + Len(more) :
             (before \o more)[i] = IF i <= a THEN before[i] ELSE more[i - a]
    BY <2>1, ConcatProperties
  <2>3. left = before \o more
    BY DEF more
  <2> QED
    BY <1>3, <2>1, <2>2, <2>3
<1>5. /\ right \in Seq(S) /\ Len(right) = a + b + 1
      /\ \A i \in 1 .. a + b + 1 : right[i] = IF i = a + b + 1 THEN e ELSE mid[i]
  BY <1>2
<1>6. /\ \A i \in 1 .. a + b : mid[i] = IF i <= a THEN before[i] ELSE s[i - a]
      /\ \A i \in 1 .. b + 1 : more[i] = IF i = b + 1 THEN e ELSE s[i]
  BY <1>1, <1>2
<1>7. left = right
  <2> HIDE DEF left, right, mid, more, a, b
  <2>1. ASSUME NEW i \in 1 .. Len(left) PROVE left[i] = right[i]
    <3>1. i \in 1 .. a + b + 1
      BY <1>4
    <3>2. CASE i = a + b + 1
      <4>1. ~(i <= a) /\ i - a = b + 1 /\ b + 1 \in 1 .. b + 1
        BY <3>2, <1>3
      <4> QED
        BY <3>1, <3>2, <4>1, <1>4, <1>5, <1>6
    <3>3. CASE i # a + b + 1 /\ i <= a
      <4>1. i \in 1 .. a + b
        BY <3>1, <3>3, <1>3
      <4> QED
        BY <3>1, <3>3, <4>1, <1>4, <1>5, <1>6
    <3>4. CASE i # a + b + 1 /\ ~(i <= a)
      <4>1. i \in 1 .. a + b /\ i - a \in 1 .. b + 1 /\ i - a # b + 1
        BY <3>1, <3>4, <1>3
      <4> QED
        BY <3>1, <3>4, <4>1, <1>4, <1>5, <1>6
    <3> QED
      BY <3>2, <3>3, <3>4
  <2> QED
    BY <2>1, <1>4, <1>5, SeqEqual
<1> QED
  BY <1>7 DEF left, right

(* The characters of two texts, one after the other.                         *)
LEMMA JoinedTexts ==
  ASSUME NEW S, NEW a \in Seq(S), NEW b \in Seq(S)
  PROVE  /\ a \o b \in Seq(S) /\ Len(a \o b) = Len(a) + Len(b)
         /\ Len(a) \in Nat /\ Len(b) \in Nat
         /\ DOMAIN (a \o b) = 1 .. Len(a) + Len(b)
         /\ \A i \in 1 .. Len(a) : (a \o b)[i] = a[i]
         /\ \A i \in 1 .. Len(b) : (a \o b)[Len(a) + i] = b[i]
         /\ ToSet(a \o b) = ToSet(a) \cup ToSet(b)
<1> DEFINE ab == a \o b
           n == Len(a)
           m == Len(b)
<1>1. /\ ab \in Seq(S) /\ Len(ab) = n + m /\ n \in Nat /\ m \in Nat
      /\ DOMAIN ab = 1 .. n + m /\ DOMAIN a = 1 .. n /\ DOMAIN b = 1 .. m
      /\ \A i \in 1 .. n + m : ab[i] = IF i <= n THEN a[i] ELSE b[i - n]
  <2>1. /\ ab \in Seq(S) /\ Len(ab) = n + m /\ n \in Nat /\ m \in Nat
        /\ \A i \in 1 .. n + m : ab[i] = IF i <= n THEN a[i] ELSE b[i - n]
    BY ConcatProperties
  <2>2. DOMAIN ab = 1 .. Len(ab) /\ DOMAIN a = 1 .. n /\ DOMAIN b = 1 .. m
    BY <2>1
  <2> HIDE DEF ab, n, m
  <2> QED
    BY <2>1, <2>2
<1> HIDE DEF ab, n, m
<1>2. ASSUME NEW i \in 1 .. n PROVE i \in 1 .. n + m /\ ab[i] = a[i]
  BY <1>1
<1>3. ASSUME NEW i \in 1 .. m PROVE n + i \in 1 .. n + m /\ ab[n + i] = b[i]
  <2>1. n + i \in 1 .. n + m /\ ~(n + i <= n) /\ n + i - n = i
    BY <1>1
  <2>2. ab[n + i] = IF n + i <= n THEN a[n + i] ELSE b[n + i - n]
    BY <2>1, <1>1
  <2> QED
    BY <2>1, <2>2
<1>4. ASSUME NEW i \in 1 .. n + m
      PROVE  (i \in 1 .. n /\ ab[i] = a[i]) \/ (i - n \in 1 .. m /\ ab[i] = b[i - n])
  <2>1. CASE i <= n
    <3>1. i \in 1 .. n
      BY <2>1, <1>1
    <3> QED
      BY <3>1, <1>2
  <2>2. CASE ~(i <= n)
    <3>1. i - n \in 1 .. m
      BY <2>2, <1>1
    <3> QED
      BY <3>1, <2>2, <1>1
  <2> QED
    BY <2>1, <2>2
<1>5. ToSet(ab) = ToSet(a) \cup ToSet(b)
  <2>1. ASSUME NEW c PROVE c \in ToSet(ab) <=> c \in ToSet(a) \cup ToSet(b)
    <3>1. c \in ToSet(ab) <=> \E i \in 1 .. n + m : c = ab[i]
      BY <1>1 DEF ToSet
    <3>2. c \in ToSet(a) <=> \E i \in 1 .. n : c = a[i]
      BY <1>1 DEF ToSet
    <3>3. c \in ToSet(b) <=> \E i \in 1 .. m : c = b[i]
      BY <1>1 DEF ToSet
    <3> QED
      BY <3>1, <3>2, <3>3, <1>2, <1>3, <1>4
  <2> QED
    BY <2>1
<1> QED
  BY <1>1, <1>2, <1>3, <1>5 DEF ab, n, m

-----------------------------------------------------------------------------
(*****************************************************************************)
(* Views.  ViewSound, the types it needs, and that full screen which was     *)
(* asked for and left since is known to be overtaken: asked for while in     *)
(* full screen, the page is still in that view.                              *)
(*****************************************************************************)

\* The types of the views' state.
ViewTypeOK ==
  /\ V \in Views /\ prevControls \in Nat /\ nextControls \in Int
  /\ rightmost \in BOOLEAN /\ constructed \in BOOLEAN
  /\ window \in {"large", "small"} /\ D \in {"mobile", "desktop"}
  /\ titles \in {"icons", "original"}
  /\ resized \in BOOLEAN /\ fullScreen \in BOOLEAN
  /\ requested \in BOOLEAN /\ overtaken \in BOOLEAN

\* Full screen that was asked for is still the view's, or is known to be
\* overtaken.
RequestsKnown ==
  /\ requested => V = SUPERTHEATRE \/ overtaken
  /\ requested /\ fullScreen => V = SUPERTHEATRE

ViewInv == ViewTypeOK /\ RequestsKnown /\ ViewSound

\* What ViewSound says of the layout and of the page's script.
LayoutSound ==
  LayoutFits /\ (rightmost => constructed) /\ (~constructed => prevControls > 0)

(* What a step of the pages is for the views. *)
LEMMA PagesView == [CineraNext]_cineraVars => [ViewNext]_viewVars
<1> SUFFICES ASSUME [CineraNext]_cineraVars PROVE [ViewNext]_viewVars
  OBVIOUS
<1>1. CASE script = "view" /\ ViewNext
  BY <1>1
<1>2. CASE \E p \in {"player", "menus", "search"} : ScriptRuns(p)
  BY <1>2 DEF ScriptRuns
<1>3. CASE UNCHANGED cineraVars
  BY <1>3 DEF cineraVars
<1> QED
  BY <1>1, <1>2, <1>3 DEF CineraNext

(* Laying out leaves the layout sound, also where it throws. *)
LEMMA UpdateSizeLaysOut ==
  ASSUME ViewTypeOK, LayoutSound, NEW st \in {"regular", "theatre"}, UpdateSize(st),
         UNCHANGED <<rightmost, constructed>>
  PROVE  /\ D' \in {"mobile", "desktop"} /\ titles' \in {"icons", "original"}
         /\ prevControls' \in Nat /\ nextControls' \in Int
         /\ LayoutSound'
         /\ markersHeight' = "video" <=> window = "large"
         /\ rightmost => (D' = "mobile" <=> window = "small")
<1> USE DEF ViewTypeOK, LayoutSound, LayoutFits, layoutVars
<1>1. CASE window = "large" /\ D = "mobile" /\ SwitchToDesktopView
  BY <1>1 DEF SwitchToDesktopView
<1>2. CASE window = "small" /\ D = "desktop" /\ SwitchToMobileView(st)
  <2>1. /\ titles' = "icons" /\ menuTop' = st /\ markersHeight' = "auto"
        /\ prevControls' = prevControls + 1
    BY <1>2 DEF SwitchToMobileView
  <2>2. CASE rightmost
    BY <1>2, <2>1, <2>2 DEF SwitchToMobileView
  <2>3. CASE ~rightmost
    BY <1>2, <2>1, <2>3 DEF SwitchToMobileView
  <2> QED
    BY <2>2, <2>3
<1>3. CASE /\ window = "large" /\ D = "desktop" /\ markersHeight' = "video"
           /\ UNCHANGED <<D, titles, menuTop, prevControls, nextControls>>
  BY <1>3
<1>4. CASE window = "small" /\ D = "mobile" /\ UNCHANGED <<D, layoutVars>>
  BY <1>4
<1> QED
  BY <1>1, <1>2, <1>3, <1>4 DEF UpdateSize

(* And so does asking a player for it that may not be there. *)
LEMMA PlayerLaysOut ==
  ASSUME ViewTypeOK, LayoutSound, NEW st \in {"regular", "theatre"}, PlayerUpdateSize(st),
         UNCHANGED <<rightmost, constructed>>
  PROVE  /\ D' \in {"mobile", "desktop"} /\ titles' \in {"icons", "original"}
         /\ prevControls' \in Nat /\ nextControls' \in Int
         /\ LayoutSound'
         /\ constructed => (markersHeight' = "video" <=> window = "large")
         /\ rightmost => (D' = "mobile" <=> window = "small")
<1>1. CASE constructed
  BY <1>1, UpdateSizeLaysOut DEF PlayerUpdateSize
<1>2. CASE ~constructed
  BY <1>2 DEF PlayerUpdateSize, layoutVars, LayoutSound, LayoutFits, ViewTypeOK
<1> QED
  BY <1>1, <1>2

LEMMA ViewInitInv == ViewInit => ViewInv
<1> SUFFICES ASSUME ViewInit PROVE ViewInv
  OBVIOUS
<1> USE DEF ViewInit
<1>1. ViewTypeOK
  <2>1. /\ resized \in BOOLEAN /\ fullScreen \in BOOLEAN
        /\ requested \in BOOLEAN /\ overtaken \in BOOLEAN
    OBVIOUS
  <2>2. /\ V \in Views /\ prevControls \in Nat /\ nextControls \in Int
        /\ rightmost \in BOOLEAN /\ constructed \in BOOLEAN
        /\ window \in {"large", "small"} /\ D \in {"mobile", "desktop"}
        /\ titles \in {"icons", "original"}
    BY DEF Views
  <2> QED
    BY <2>1, <2>2 DEF ViewTypeOK
<1>2. RequestsKnown
  BY DEF RequestsKnown
<1>3. ViewSound
  BY DEF ViewSound, LayoutFits
<1> QED
  BY <1>1, <1>2, <1>3 DEF ViewInv

LEMMA ViewStep == ViewInv /\ [ViewNext]_viewVars => ViewInv'
<1> SUFFICES ASSUME ViewInv, [ViewNext]_viewVars PROVE ViewInv'
  OBVIOUS
<1> USE DEF Views
<1>V. REGULAR # THEATRE /\ REGULAR # SUPERTHEATRE
  BY DEF REGULAR, THEATRE, SUPERTHEATRE
<1>0. ViewTypeOK /\ RequestsKnown /\ ViewSound /\ LayoutSound
  BY DEF ViewInv, ViewSound, LayoutSound
<1> DEFINE LaidOut ==
             /\ D' \in {"mobile", "desktop"} /\ titles' \in {"icons", "original"}
             /\ prevControls' \in Nat /\ nextControls' \in Int
             /\ LayoutSound'
             /\ constructed => (markersHeight' = "video" <=> window = "large")
             /\ rightmost => (D' = "mobile" <=> window = "small")
<1>S. style \in {"regular", "theatre"}
  BY <1>0 DEF ViewSound
<1>1. CASE ToggleTheatreMode
  <2>1. /\ PlayerUpdateSize(style')
        /\ UNCHANGED <<rightmost, constructed, viewsShown, window, requested>>
    BY <1>1 DEF ToggleTheatreMode, episodeVars
  <2>2. ASSUME style' \in {"regular", "theatre"}
        PROVE  LaidOut
    BY <1>0, <2>1, <2>2, PlayerLaysOut
  <2>3. CASE V = REGULAR
    <3>1. /\ savedStyle' = "regular" /\ style' = "theatre" /\ dataId' = "regular"
          /\ V' = THEATRE /\ (constructed => storage' = THEATRE)
          /\ UNCHANGED <<fullScreen, resized, overtaken, window, requested>>
      BY <1>V, <1>0, <1>1, <2>3 DEF ToggleTheatreMode, EnterTheatre, SetView, ViewSound
    <3> QED
      BY <1>V, <1>0, <2>1, <2>2, <2>3, <3>1
      DEF ViewInv, ViewTypeOK, RequestsKnown, ViewSound, LayoutSound
  <2>4. CASE V # REGULAR
    <3>1. /\ style' = "regular" /\ dataId' = "theatre" /\ V' = REGULAR /\ (constructed => storage' = REGULAR)
          /\ window' = window /\ requested' = requested
      BY <1>V, <1>0, <1>1, <2>4 DEF ToggleTheatreMode, LeaveTheatre, SetView, ViewSound
    <3>2. IF V = SUPERTHEATRE THEN LeaveFullScreen ELSE UNCHANGED <<fullScreen, resized, overtaken>>
      BY <1>1, <2>4 DEF ToggleTheatreMode
    <3>3. /\ fullScreen' \in BOOLEAN /\ resized' \in BOOLEAN /\ overtaken' \in BOOLEAN
          /\ requested' => overtaken' /\ ~fullScreen'
          /\ fullScreen' => overtaken'
      BY <1>V, <1>0, <3>1, <3>2, <2>4 DEF LeaveFullScreen, ViewTypeOK, RequestsKnown, ViewSound
    <3> QED
      BY <1>V, <1>0, <2>1, <2>2, <3>1, <3>3
      DEF ViewInv, ViewTypeOK, RequestsKnown, ViewSound, LayoutSound
  <2> QED
    BY <2>3, <2>4
<1>2. CASE ToggleSuperTheatreMode
  <2>1. /\ PlayerUpdateSize(style')
        /\ UNCHANGED <<rightmost, constructed, viewsShown, window>>
    BY <1>2 DEF ToggleSuperTheatreMode, episodeVars
  <2>2. ASSUME style' \in {"regular", "theatre"}
        PROVE  LaidOut
    BY <1>0, <2>1, <2>2, PlayerLaysOut
  <2>3. CASE V = SUPERTHEATRE
    <3>1. /\ style' = "regular" /\ dataId' = "theatre" /\ V' = REGULAR /\ (constructed => storage' = REGULAR)
          /\ window' = window /\ requested' = requested /\ LeaveFullScreen
      BY <1>V, <1>0, <1>2, <2>3 DEF ToggleSuperTheatreMode, LeaveTheatre, SetView, ViewSound
    <3>2. /\ ~fullScreen' /\ fullScreen' \in BOOLEAN
          /\ resized' \in BOOLEAN /\ overtaken' \in BOOLEAN
      BY <1>0, <3>1 DEF LeaveFullScreen, ViewTypeOK
    <3>3. requested' => overtaken'
      BY <3>1 DEF LeaveFullScreen
    <3> QED
      BY <1>V, <1>0, <2>1, <2>2, <3>1, <3>2, <3>3
      DEF ViewInv, ViewTypeOK, RequestsKnown, ViewSound, LayoutSound
  <2>4. CASE V # SUPERTHEATRE
    <3>1. /\ UNCHANGED <<fullScreen, resized, overtaken, window>>
          /\ \/ /\ V = REGULAR /\ V' = THEATRE /\ (constructed => storage' = THEATRE)
                /\ UNCHANGED requested
             \/ /\ requested' = TRUE /\ V' = SUPERTHEATRE
                /\ constructed => storage' = SUPERTHEATRE
      BY <1>2, <2>1, <2>4 DEF ToggleSuperTheatreMode, SetView
    <3>2. savedStyle' = "regular" /\ style' = "theatre" /\ dataId' = "regular"
      BY <1>V, <1>0, <1>2, <2>4 DEF ToggleSuperTheatreMode, EnterTheatre, ViewSound
    <3>3. CASE V = REGULAR /\ V' = THEATRE /\ (constructed => storage' = THEATRE)
               /\ UNCHANGED requested
      BY <1>V, <1>0, <2>1, <2>2, <3>1, <3>2, <3>3
      DEF ViewInv, ViewTypeOK, RequestsKnown, ViewSound, LayoutSound
    <3>4. CASE requested' = TRUE /\ V' = SUPERTHEATRE /\ (constructed => storage' = SUPERTHEATRE)
      BY <1>V, <1>0, <2>1, <2>2, <3>1, <3>2, <3>4
      DEF ViewInv, ViewTypeOK, RequestsKnown, ViewSound, LayoutSound
    <3> QED
      BY <3>1, <3>3, <3>4
  <2> QED
    BY <2>3, <2>4
<1>3. CASE MouseEnterViews \/ MouseLeaveViews \/ UNCHANGED viewVars
  <2>1. UNCHANGED <<episodeVars, propVars, layoutVars, browserVars>>
    BY <1>3 DEF MouseEnterViews, MouseLeaveViews, viewVars
  <2> QED
    BY <1>0, <2>1
    DEF episodeVars, propVars, layoutVars, browserVars, ViewInv, ViewTypeOK, RequestsKnown, ViewSound, LayoutFits
<1>7. CASE ResizeWindow
  <2>1. /\ UNCHANGED <<episodeVars, propVars, layoutVars, fullScreen, requested, overtaken>>
        /\ resized' /\ resized' \in BOOLEAN /\ window' \in {"large", "small"}
    BY <1>7 DEF ResizeWindow
  <2> QED
    BY <1>0, <2>1 DEF episodeVars, propVars, layoutVars, ViewInv, ViewTypeOK, RequestsKnown, ViewSound, LayoutFits
<1>4. CASE OnResize
  <2>1. /\ PlayerUpdateSize(style) /\ resized' = FALSE
        /\ UNCHANGED <<rightmost, constructed, V, savedStyle, style, dataId, storage, window,
                       fullScreen, requested, overtaken>>
    BY <1>4 DEF OnResize, episodeVars
  <2>2. LaidOut
    BY <1>0, <1>S, <2>1, PlayerLaysOut
  <2> QED
    BY <1>V, <1>0, <2>1, <2>2 DEF ViewInv, ViewTypeOK, RequestsKnown, ViewSound, LayoutSound
<1>9. CASE YoutubeAnswers
  <2>1. /\ UpdateSize(style)
        /\ UNCHANGED <<rightmost, constructed, V, savedStyle, style, dataId, storage, window,
                       resized, fullScreen, requested, overtaken>>
    BY <1>9 DEF YoutubeAnswers, browserVars
  <2>2. LaidOut
    BY <1>0, <1>S, <2>1, UpdateSizeLaysOut
  <2> QED
    BY <1>V, <1>0, <2>1, <2>2 DEF ViewInv, ViewTypeOK, RequestsKnown, ViewSound, LayoutSound
<1>5. CASE LoadPage
  <2> DEFINE fails == window = "small" /\ ~rightmost
  <2> USE <1>5 DEF LoadPage
  <2>1. /\ ~resized' /\ ~fullScreen' /\ ~requested' /\ ~overtaken'
        /\ resized' \in BOOLEAN /\ fullScreen' \in BOOLEAN
        /\ requested' \in BOOLEAN /\ overtaken' \in BOOLEAN
    OBVIOUS
  <2>2. /\ V' \in Views /\ window' = window /\ rightmost' = rightmost
        /\ style' = (IF V' = REGULAR THEN "regular" ELSE "theatre")
        /\ V' # REGULAR => savedStyle' = "regular"
        /\ dataId' = (IF V' = REGULAR THEN "theatre" ELSE "regular")
    OBVIOUS
  <2>3. constructed' = ~fails /\ constructed' \in BOOLEAN /\ (constructed' => storage' = V')
    OBVIOUS
  <2>4. /\ D' = (IF window = "small" /\ rightmost THEN "mobile" ELSE "desktop")
        /\ titles' = (IF window = "small" THEN "icons" ELSE "original")
        /\ menuTop' = (IF window = "small" THEN "regular" ELSE "100%")
        /\ prevControls' = (IF window = "small" THEN 1 ELSE 0)
        /\ nextControls' = (IF window = "small" /\ rightmost THEN 1 ELSE 0)
        /\ markersHeight' = (IF window = "small" THEN "auto" ELSE "video")
    OBVIOUS
  <2> HIDE <1>5 DEF LoadPage
  <2>5. /\ D' \in {"mobile", "desktop"} /\ titles' \in {"icons", "original"}
        /\ prevControls' \in Nat /\ nextControls' \in Int
        /\ rightmost' => (D' = "mobile" <=> window' = "small")
        /\ markersHeight' = "video" <=> window' = "large"
    BY <1>0, <2>2, <2>4 DEF ViewTypeOK
  <2>6. LayoutSound'
    <3>1. CASE window = "small" /\ rightmost
      <4>1. /\ D' = "mobile" /\ titles' = "icons" /\ menuTop' = "regular"
            /\ prevControls' = 1 /\ nextControls' = 1 /\ markersHeight' = "auto"
            /\ rightmost' /\ constructed'
        BY <2>2, <2>3, <2>4, <3>1
      <4> QED
        BY <4>1 DEF LayoutSound, LayoutFits
    <3>2. CASE window = "small" /\ ~rightmost
      <4>1. /\ D' = "desktop" /\ titles' = "icons" /\ menuTop' = "regular"
            /\ prevControls' = 1 /\ nextControls' = 0 /\ ~rightmost'
        BY <2>2, <2>4, <3>2
      <4> QED
        BY <4>1 DEF LayoutSound, LayoutFits
    <3>3. CASE window = "large"
      <4>1. /\ D' = "desktop" /\ titles' = "original" /\ menuTop' = "100%"
            /\ prevControls' = 0 /\ nextControls' = 0 /\ markersHeight' = "video"
            /\ constructed'
        BY <2>3, <2>4, <3>3
      <4> QED
        BY <4>1 DEF LayoutSound, LayoutFits
    <3> QED
      BY <1>0, <3>1, <3>2, <3>3 DEF ViewTypeOK
  <2> HIDE DEF fails
  <2> QED
    BY <1>0, <2>1, <2>2, <2>3, <2>5, <2>6
    DEF ViewInv, ViewTypeOK, RequestsKnown, ViewSound, LayoutSound
<1>6. CASE AnswerRequest
  <2>1. /\ requested /\ ~requested' /\ requested' \in BOOLEAN
        /\ UNCHANGED <<episodeVars, propVars, layoutVars, window>>
    BY <1>6 DEF AnswerRequest
  <2>2. CASE fullScreen' = TRUE /\ resized' = TRUE /\ UNCHANGED overtaken
    <3>1. resized' /\ fullScreen' \in BOOLEAN /\ resized' \in BOOLEAN
      BY <2>2
    <3>2. V = SUPERTHEATRE \/ overtaken
      BY <1>0, <2>1 DEF RequestsKnown
    <3> QED
      BY <1>0, <2>1, <2>2, <3>1, <3>2
      DEF episodeVars, propVars, layoutVars, ViewInv, ViewTypeOK, RequestsKnown, ViewSound, LayoutFits
  <2>3. CASE overtaken' = FALSE /\ UNCHANGED <<fullScreen, resized>>
    <3>1. fullScreen => V = SUPERTHEATRE
      BY <1>0, <2>1 DEF RequestsKnown
    <3>2. overtaken' \in BOOLEAN
      BY <2>3
    <3> QED
      BY <1>0, <2>1, <2>3, <3>1, <3>2
      DEF episodeVars, propVars, layoutVars, ViewInv, ViewTypeOK, RequestsKnown, ViewSound, LayoutFits
  <2> QED
    BY <1>6, <2>2, <2>3 DEF AnswerRequest
<1>8. CASE PressEsc
  <2>1. /\ UNCHANGED <<episodeVars, propVars, layoutVars, window, requested>>
        /\ fullScreen' = FALSE /\ resized' = TRUE /\ overtaken' = requested
    BY <1>8 DEF PressEsc
  <2>2. ~fullScreen' /\ resized' /\ fullScreen' \in BOOLEAN /\ resized' \in BOOLEAN
    BY <2>1
  <2> QED
    BY <1>0, <2>1, <2>2 DEF episodeVars, propVars, layoutVars, ViewInv, ViewTypeOK, RequestsKnown, ViewSound, LayoutFits
<1> QED
  BY <1>1, <1>2, <1>3, <1>4, <1>5, <1>6, <1>7, <1>8, <1>9 DEF ViewNext

(***************************************************************************)
(* The page fits its view, whatever the views, the window's sizes, full    *)
(* screen and reloads do.                                                  *)
(***************************************************************************)
THEOREM ViewsAreSound == CineraSpec => []ViewSound
<1>1. CineraInit => ViewInv
  BY ViewInitInv DEF CineraInit
<1>2. ViewInv => ViewSound
  BY DEF ViewInv
<1> QED
  BY PagesView, ViewStep, <1>1, <1>2, PTL DEF CineraSpec

-----------------------------------------------------------------------------
(*****************************************************************************)
(* Filter.  A toggle keeps the markers right, of whichever item and whatever *)
(* was toggled before (ToggleFits), and so does a loop over a list of them:  *)
(* the first state of the loop that is not right would follow one that is    *)
(* (Smallest).  FilterSound is then inductive as it stands.                  *)
(*****************************************************************************)

(* A step of the loop in ToggleAll. *)
Toggled(st, c, chosen) == IF c \in chosen THEN FilterItemToggle(st, c) ELSE st

(* The states of a loop over a list, which the definition of ToggleAll     *)
(* describes: they exist.                                                  *)
LEMMA ToggleAllRuns ==
  ASSUME NEW list, NEW chosen, Len(list) \in Nat
  PROVE  \E run : /\ run[0] = State
                  /\ \A i \in 1 .. Len(list) : run[i] = Toggled(run[i - 1], list[i], chosen)
                  /\ ToggleAll(list, chosen) = run[Len(list)]
<1> DEFINE N == Len(list)
           IsRun(n, g) == g = [i \in 0 .. n |-> IF i = 0 THEN State
                                                ELSE Toggled(g[i - 1], list[i], chosen)]
           Lacking == {n \in Nat : n <= N /\ ~ \E g : IsRun(n, g)}
<1>1. Lacking = {}
  <2> SUFFICES ASSUME Lacking # {} PROVE FALSE
    OBVIOUS
  <2>1. PICK x \in Lacking : \A y \in Lacking : x <= y
    <3>1. Lacking \in SUBSET Nat
      OBVIOUS
    <3> HIDE DEF Lacking
    <3> QED
      BY <3>1, Smallest
  <2>2. x \in Nat /\ x <= N /\ ~ \E g : IsRun(x, g)
    OBVIOUS
  <2>3. x # 0
    <3> SUFFICES ASSUME x = 0 PROVE FALSE
      OBVIOUS
    <3> DEFINE g == [i \in 0 .. 0 |-> State]
    <3>1. IsRun(0, g)
      OBVIOUS
    <3> QED
      BY <3>1, <2>2
  <2>4. x - 1 \in Nat /\ x - 1 <= N /\ x - 1 \notin Lacking
    <3>1. x - 1 \in Nat /\ x - 1 <= N
      BY <2>2, <2>3
    <3>2. x \in Nat /\ ~(x <= x - 1)
      BY <2>2
    <3> HIDE DEF Lacking
    <3> QED
      BY <2>1, <3>1, <3>2
  <2>5. PICK g : IsRun(x - 1, g)
    BY <2>4
  <2> DEFINE h == [i \in 0 .. x |-> IF i = x THEN Toggled(g[x - 1], list[x], chosen) ELSE g[i]]
  <2>6. ASSUME NEW i \in 0 .. x
        PROVE  h[i] = IF i = 0 THEN State ELSE Toggled(h[i - 1], list[i], chosen)
    <3>1. CASE i = x
      BY <3>1, <2>2, <2>3
    <3>2. CASE i # x
      <4>1. i \in 0 .. x - 1 /\ (i # 0 => i - 1 \in 0 .. x - 1)
        BY <3>2, <2>2
      <4>2. h[i] = g[i] /\ (i # 0 => h[i - 1] = g[i - 1])
        BY <4>1, <3>2, <2>2
      <4>3. g[i] = IF i = 0 THEN State ELSE Toggled(g[i - 1], list[i], chosen)
        BY <4>1, <2>5
      <4> QED
        BY <4>2, <4>3
    <3> QED
      BY <3>1, <3>2
  <2>7. IsRun(x, h)
    <3>1. h = [i \in 0 .. x |-> h[i]]
      OBVIOUS
    <3> HIDE DEF h
    <3> QED
      BY <2>6, <3>1
  <2> QED
    BY <2>2, <2>7
<1>2. \E g : IsRun(N, g)
  BY <1>1
<1> DEFINE run == CHOOSE g : IsRun(N, g)
<1>3. IsRun(N, run)
  BY <1>2
<1>4. ToggleAll(list, chosen) = run[Len(list)]
  BY DEF ToggleAll, Toggled
<1> HIDE DEF run
<1>5. run[0] = State
  BY <1>3
<1>6. \A i \in 1 .. N : run[i] = Toggled(run[i - 1], list[i], chosen)
  BY <1>3
<1> QED
  BY <1>4, <1>5, <1>6

(* What the loop makes of one state holds of its last one. *)
FilterFits(st, mode) ==
  /\ st.skip \subseteq Markers
  /\ \A m \in Markers :
       /\ st.classes[m] = Categories[m] \cap st.items
       /\ m \in st.skip <=> /\ st.classes[m] # {}
                            /\ mode = "inclusive" => Categories[m] \subseteq st.items

\* A toggle of one item leaves every marker right.
LEMMA ToggleFits ==
  ASSUME NEW st, NEW c, FilterFits(st, filterMode), filterMode \in {"inclusive", "exclusive"}
  PROVE  FilterFits(FilterItemToggle(st, c), filterMode)
<1> DEFINE wasOff == c \notin st.items
           visited == {m \in Markers : c \in Categories[m] /\ (c \in st.classes[m] <=> ~wasOff)}
           classes == [m \in Markers |->
                         IF m \notin visited THEN st.classes[m]
                         ELSE IF wasOff THEN st.classes[m] \cup {c} ELSE st.classes[m] \ {c}]
           new == FilterItemToggle(st, c)
<1>1. /\ new.items = (IF wasOff THEN st.items \cup {c} ELSE st.items \ {c})
      /\ new.classes = classes
      /\ new.skip = (IF wasOff
                     THEN st.skip \cup {m \in visited :
                                          filterMode = "exclusive" \/ OnClasses(classes, m) = {}}
                     ELSE st.skip \ {m \in visited :
                                       filterMode = "inclusive" \/ classes[m] = {}})
  BY DEF FilterItemToggle
<1>2. ASSUME NEW m \in Markers
      PROVE  m \in visited <=> c \in Categories[m]
  BY <1>2 DEF FilterFits
<1>3. ASSUME NEW m \in Markers
      PROVE  classes[m] = Categories[m] \cap new.items
  <2>1. classes[m] = IF c \notin Categories[m] THEN st.classes[m]
                     ELSE IF wasOff THEN st.classes[m] \cup {c} ELSE st.classes[m] \ {c}
    BY <1>2
  <2> QED
    BY <1>1, <2>1 DEF FilterFits
<1>4. ASSUME NEW m \in Markers
      PROVE  m \in new.skip <=> /\ classes[m] # {}
                                /\ filterMode = "inclusive" => Categories[m] \subseteq new.items
  <2>1. st.classes[m] = Categories[m] \cap st.items
    BY Zenon DEF FilterFits
  <2>2. m \in st.skip <=> /\ st.classes[m] # {}
                          /\ filterMode = "inclusive" => Categories[m] \subseteq st.items
    BY Zenon DEF FilterFits
  <2>3. m \in st.skip <=> /\ Categories[m] \cap st.items # {}
                          /\ filterMode = "inclusive" => Categories[m] \subseteq st.items
    BY <2>1, <2>2
  <2>4. OnClasses(classes, m) = Categories[m] \ classes[m]
    BY DEF OnClasses
  <2>5. m \in visited <=> c \in Categories[m]
    BY <1>2
  <2>6. classes[m] = Categories[m] \cap new.items
    BY <1>3
  <2> HIDE DEF visited, classes, new
  <2>7. new.items = IF c \notin st.items THEN st.items \cup {c} ELSE st.items \ {c}
    BY <1>1
  <2>8. ASSUME c \notin st.items
        PROVE  m \in new.skip <=>
                 m \in st.skip \/ (c \in Categories[m] /\ (\/ filterMode = "exclusive"
                                                          \/ Categories[m] \ classes[m] = {}))
    <3>1. new.skip = st.skip \cup {n \in visited : filterMode = "exclusive"
                                                 \/ OnClasses(classes, n) = {}}
      BY <1>1, <2>8
    <3>2. m \in new.skip <=> \/ m \in st.skip
                             \/ m \in visited /\ (filterMode = "exclusive"
                                                 \/ OnClasses(classes, m) = {})
      BY <3>1
    <3>3. OnClasses(classes, m) = {} <=> Categories[m] \ classes[m] = {}
      BY <2>4
    <3> QED
      BY <3>2, <3>3, <2>5, Zenon
  <2>9. ASSUME c \in st.items
        PROVE  m \in new.skip <=>
                 m \in st.skip /\ ~(c \in Categories[m]
                                    /\ (filterMode = "inclusive" \/ classes[m] = {}))
    <3>1. new.skip = st.skip \ {n \in visited : filterMode = "inclusive" \/ classes[n] = {}}
      BY <1>1, <2>9
    <3>2. m \in new.skip <=> m \in st.skip /\ ~(m \in visited /\ (filterMode = "inclusive"
                                                                \/ classes[m] = {}))
      BY <3>1
    <3> QED
      BY <3>2, <2>5
  <2> QED
    <3> DEFINE A == Categories[m]
               I == st.items
               J == new.items
               L == classes[m]
               old == st.skip
               after == new.skip
    <3>1. /\ m \in old <=> A \cap I # {} /\ (filterMode = "inclusive" => A \subseteq I)
          /\ J = IF c \notin I THEN I \cup {c} ELSE I \ {c}
          /\ L = A \cap J
      BY <2>3, <2>6, <2>7
    <3>2. c \notin I => (m \in after <=>
                           m \in old \/ (c \in A /\ (filterMode = "exclusive" \/ A \ L = {})))
      BY <2>8
    <3>3. c \in I => (m \in after <=>
                         m \in old /\ ~(c \in A /\ (filterMode = "inclusive" \/ L = {})))
      BY <2>9
    <3> HIDE DEF A, I, J, L, old, after
    <3>4. m \in after <=> L # {} /\ (filterMode = "inclusive" => A \subseteq J)
      <4>1. CASE c \notin I
        <5>1. CASE c \in A
          <6>1. L # {} /\ (A \ L = {} <=> A \subseteq J) /\ ~(A \subseteq I)
            BY <3>1, <4>1, <5>1
          <6> QED
            BY <6>1, <3>1, <3>2, <4>1, <5>1
        <5>2. CASE c \notin A
          <6>1. L = A \cap I /\ (A \subseteq J <=> A \subseteq I)
            BY <3>1, <4>1, <5>2
          <6> QED
            BY <6>1, <3>1, <3>2, <4>1, <5>2
        <5> QED
          BY <5>1, <5>2
      <4>2. CASE c \in I
        <5>1. CASE c \in A
          <6>1. A \cap I # {} /\ ~(A \subseteq J)
            BY <3>1, <4>2, <5>1
          <6> QED
            BY <6>1, <3>1, <3>3, <4>2, <5>1
        <5>2. CASE c \notin A
          <6>1. L = A \cap I /\ (A \subseteq J <=> A \subseteq I)
            BY <3>1, <4>2, <5>2
          <6> QED
            BY <6>1, <3>1, <3>3, <4>2, <5>2
        <5> QED
          BY <5>1, <5>2
      <4> QED
        BY <4>1, <4>2
    <3> QED
      BY <3>4 DEF A, J, L, after
<1>5. \A m \in Markers :
        /\ new.classes[m] = Categories[m] \cap new.items
        /\ m \in new.skip <=> /\ new.classes[m] # {}
                              /\ filterMode = "inclusive" => Categories[m] \subseteq new.items
  <2> HIDE DEF classes, new
  <2> QED
    BY <1>1, <1>3, <1>4
<1>6. new.skip \subseteq Markers
  BY <1>1 DEF FilterFits
<1> QED
  BY <1>5, <1>6, Zenon DEF FilterFits

\* And so does a loop of toggles over a list, by induction on its length.
LEMMA ToggleAllFits ==
  ASSUME NEW list, NEW chosen, Len(list) \in Nat, FilterFits(State, filterMode),
         filterMode \in {"inclusive", "exclusive"}
  PROVE  FilterFits(ToggleAll(list, chosen), filterMode)
<1>1. PICK run : /\ run[0] = State
                 /\ \A i \in 1 .. Len(list) : run[i] = Toggled(run[i - 1], list[i], chosen)
                 /\ ToggleAll(list, chosen) = run[Len(list)]
  BY ToggleAllRuns
<1> DEFINE Broken == {n \in Nat : n <= Len(list) /\ ~FilterFits(run[n], filterMode)}
<1>2. Broken = {}
  <2> SUFFICES ASSUME Broken # {} PROVE FALSE
    OBVIOUS
  <2>1. PICK n \in Broken : \A k \in Broken : n <= k
    <3>1. Broken \in SUBSET Nat
      OBVIOUS
    <3> HIDE DEF Broken
    <3> QED
      BY <3>1, Smallest
  <2>2. n \in Nat /\ n <= Len(list) /\ ~FilterFits(run[n], filterMode)
    OBVIOUS
  <2>3. n # 0
    BY <1>1, <2>2
  <2>4. n - 1 \in Nat /\ n - 1 <= Len(list) /\ n - 1 \notin Broken
    BY <2>1, <2>2, <2>3
  <2>5. FilterFits(run[n - 1], filterMode)
    BY <2>4
  <2>6. run[n] = Toggled(run[n - 1], list[n], chosen)
    BY <1>1, <2>2, <2>3
  <2> HIDE DEF Broken
  <2> QED
    BY <2>2, <2>5, <2>6, ToggleFits DEF Toggled
<1>3. FilterFits(run[Len(list)], filterMode)
  BY <1>2
<1> QED
  BY <1>1, <1>3

\* FilterSound, with the types of the mode and of the markers skipped.
FilterInv ==
  /\ FilterSound
  /\ filterMode \in {"inclusive", "exclusive"}
  /\ skip \subseteq Markers

(* A step of the pages as the filter sees it. *)
FilterReload ==
  /\ initState' = initState /\ filterState' = initState
  /\ offClasses' = [m \in Markers |-> Categories[m] \cap initState]
  /\ filterMode' = "exclusive" /\ skip' = {m \in Markers : offClasses'[m] # {}}

FilterStep ==
  \/ \E c \in ToSet(FilterItems) : ToggleItem(c)
  \/ ToggleFilterMode
  \/ \E list \in {Topics, Media} : InvertFilter(list)
  \/ ResetFilter
  \/ FilterReload
  \/ UNCHANGED filterVars

(* The filter's items, one after another. *)
LEMMA ItemsInOrder ==
  /\ FilterItems \in Seq(ToSet(FilterItems))
  /\ ToSet(FilterItems) = ToSet(Topics) \cup ToSet(Media)
  /\ IsInjective(Topics) /\ IsInjective(Media)
<1> DEFINE S == ToSet(Topics) \cup ToSet(Media)
           n == Len(Topics)
           k == Len(Media)
<1>1. Topics \in Seq(S) /\ Media \in Seq(S)
  <2>1. Topics \in Seq(ToSet(Topics)) /\ Media \in Seq(ToSet(Media))
    BY FilterAssumption
  <2> QED
    BY <2>1, SeqMonotonic
<1>2. /\ n \in Nat /\ DOMAIN Topics = 1 .. n /\ k \in Nat /\ DOMAIN Media = 1 .. k
  BY <1>1
<1>3. /\ FilterItems \in Seq(S) /\ Len(FilterItems) = n + k
      /\ \A i \in 1 .. n : FilterItems[i] = Topics[i]
      /\ \A i \in 1 .. k : FilterItems[n + i] = Media[i]
  BY <1>1, <1>2 DEF FilterItems
<1>4. DOMAIN FilterItems = 1 .. n + k
  BY <1>3
<1> HIDE DEF n, k, S
<1>5. ToSet(FilterItems) = S
  <2>1. ASSUME NEW i \in 1 .. n + k PROVE FilterItems[i] \in S
    BY <1>3, <1>4, ElementOfSeq
  <2>2. \A i \in 1 .. n : Topics[i] \in ToSet(FilterItems)
    BY <1>2, <1>3, <1>4 DEF ToSet
  <2>3. \A i \in 1 .. k : Media[i] \in ToSet(FilterItems)
    <3>1. \A i \in 1 .. k : n + i \in 1 .. n + k
      BY <1>2
    <3> QED
      BY <1>3, <1>4, <3>1 DEF ToSet
  <2> QED
    BY <1>2, <1>4, <2>1, <2>2, <2>3 DEF ToSet, S
<1>6. IsInjective(Topics)
  BY <1>2, <1>3, <1>4, FilterAssumption DEF IsInjective
<1>7. IsInjective(Media)
  <2>1. \A i \in 1 .. k : n + i \in 1 .. n + k
    BY <1>2
  <2>2. \A i, j \in 1 .. k : n + i = n + j => i = j
    BY <1>2
  <2>3. ASSUME NEW i \in 1 .. k, NEW j \in 1 .. k, Media[i] = Media[j] PROVE i = j
    <3>1. FilterItems[n + i] = FilterItems[n + j]
      BY <1>3, <2>3
    <3>2. n + i \in DOMAIN FilterItems /\ n + j \in DOMAIN FilterItems
      BY <1>4, <2>1
    <3>3. n + i = n + j
      BY <3>1, <3>2, FilterAssumption DEF IsInjective
    <3> QED
      BY <3>3, <2>2
  <2> QED
    BY <1>2, <2>3 DEF IsInjective
<1> QED
  BY <1>3, <1>5, <1>6, <1>7 DEF S

\* A step of the pages is one of these for the filter.
LEMMA PagesFilter == [CineraNext]_cineraVars => FilterStep
<1> SUFFICES ASSUME [CineraNext]_cineraVars PROVE FilterStep
  OBVIOUS
<1>1. CASE FilterNext
  BY <1>1 DEF FilterNext, FilterStep
<1>2. CASE UNCHANGED filterVars
  BY <1>2 DEF FilterStep
<1>3. CASE script = "player" /\ PlayerNext
  <2>1. CASE \E stamp \in {NoTime, Duration} : ReloadPlayer(stamp)
    BY <2>1 DEF ReloadPlayer, FilterStep, FilterReload
  <2>2. CASE UseFilter
    BY <2>2, <1>1 DEF UseFilter
  <2>3. CASE VideoStep \/ TakeCommand \/ TakeSeek \/ UseFrame \/ Report
    BY <2>3, <1>2 DEF VideoStep, TakeCommand, TakeSeek, UseFrame, Report
  <2>4. CASE OnYoutubePlayerReady \/ OnStateChange \/ DoFrame \/ PauseVideo
    BY <2>4, <1>2 DEF OnYoutubePlayerReady, OnStateChange, DoFrame, PauseVideo
  <2>5. CASE \E now : GoTo(now)
    BY <2>5, <1>2 DEF GoTo
  <2> QED
    BY <1>3, <2>1, <2>2, <2>3, <2>4, <2>5
    DEF PlayerNext, OnMarkerClick, MouseSkipToTimecode, JumpToNextMarker, JumpToPrevMarker
<1>4. CASE script = "menus" /\ MenusNext
  <2>1. CASE \E menu \in present : MenuKey(menu) \/ MouseEnterMenu(menu)
    BY <2>1, <1>2 DEF MenuKey, MouseEnterMenu
  <2>2. CASE SelectLinkKey \/ MouseLeaveMenu
    BY <2>2, <1>2 DEF SelectLinkKey, MouseLeaveMenu
  <2>3. CASE \E menu \in present : \E e \in ItemsOf(menu) : MouseOverItem(e)
    BY <2>3, <1>2 DEF MouseOverItem
  <2>4. CASE \E ref \in DOMAIN References : \E k \in 1 .. References[ref] : MouseOverIdentifier(<<ref, k>>)
    BY <2>4, <1>2 DEF MouseOverIdentifier
  <2>5. CASE \E by \in {-1, 1} : UpDownKey(by) \/ LeftRightKey(by)
    BY <2>5, <1>2 DEF UpDownKey, LeftRightKey
  <2>6. CASE \E by \in {-1, 1} : ToggleKey(by)
    <3>1. focusedElement \in TopicItems \cup MediumItems /\ ToggleItem(CategoryOf(focusedElement))
      BY <2>6 DEF ToggleKey, IsFilterItem, ItemsOf, MenuItems
    <3>2. CategoryOf(focusedElement) \in ToSet(Topics) \cup ToSet(Media)
      BY <3>1 DEF TopicItems, MediumItems, CategoryOf, ToSet
    <3> QED
      BY <3>1, <3>2, ItemsInOrder DEF FilterStep
  <2>7. CASE InvertKey
    BY <2>7 DEF InvertKey, FilterStep
  <2>8. CASE ResetKey
    BY <2>8 DEF ResetKey, FilterStep
  <2>9. CASE ModeKey
    BY <2>9 DEF ModeKey, FilterStep
  <2> QED
    BY <1>4, <2>1, <2>2, <2>3, <2>4, <2>5, <2>6, <2>7, <2>8, <2>9 DEF MenusNext
<1>5. CASE \E p \in {"view", "search"} : ScriptRuns(p)
  BY <1>5, <1>2 DEF ScriptRuns
<1>6. CASE UNCHANGED cineraVars
  BY <1>6, <1>2 DEF cineraVars, playerVars
<1> QED
  BY <1>3, <1>4, <1>5, <1>6 DEF CineraNext

LEMMA FilterInitInv == FilterInit => FilterInv
  BY DEF FilterInit, FilterInv, FilterSound

LEMMA FilterStepInv == FilterInv /\ FilterStep => FilterInv'
<1> SUFFICES ASSUME FilterInv, FilterStep PROVE FilterInv'
  OBVIOUS
<1>0. FilterFits(State, filterMode) /\ filterMode \in {"inclusive", "exclusive"}
  BY DEF FilterInv, FilterFits, FilterSound, State
<1> DEFINE new == [items |-> filterState', classes |-> offClasses', skip |-> skip']
<1>A. ASSUME FilterFits(new, filterMode'), filterMode' \in {"inclusive", "exclusive"}
      PROVE  FilterInv'
  BY <1>A DEF FilterInv, FilterFits, FilterSound
<1>1. ASSUME NEW c \in ToSet(FilterItems), ToggleItem(c) PROVE FilterInv'
  <2> DEFINE st == FilterItemToggle(State, c)
  <2>1. filterMode' = filterMode /\ FilterFits(st, filterMode)
    BY <1>0, <1>1, ToggleFits DEF ToggleItem
  <2>2. new.items = st.items /\ new.classes = st.classes /\ new.skip = st.skip
    BY <1>1 DEF ToggleItem, SetState
  <2> HIDE DEF new, st
  <2> QED
    BY <1>A, <1>0, <2>1, <2>2 DEF FilterFits
<1>2. CASE ToggleFilterMode
  <2>1. /\ filterState' = filterState /\ offClasses' = offClasses
        /\ filterMode' = OtherMode /\ skip' = ApplyFilter(OtherMode, offClasses, skip)
    BY <1>2 DEF ToggleFilterMode
  <2>2. CASE filterMode = "inclusive"
    BY <2>1, <2>2 DEF FilterInv, FilterSound, OtherMode, ApplyFilter, OnClasses
  <2>3. CASE filterMode = "exclusive"
    BY <2>1, <2>3 DEF FilterInv, FilterSound, OtherMode, ApplyFilter, OnClasses
  <2> QED
    BY <1>0, <2>2, <2>3
<1>3. ASSUME NEW list \in {Topics, Media}, InvertFilter(list) PROVE FilterInv'
  <2> DEFINE st == ToggleAll(list, ToSet(list))
  <2>1. Len(list) \in Nat
    BY FilterAssumption
  <2>2. filterMode' = filterMode /\ FilterFits(st, filterMode)
    BY <1>0, <1>3, <2>1, ToggleAllFits DEF InvertFilter
  <2>3. new.items = st.items /\ new.classes = st.classes /\ new.skip = st.skip
    BY <1>3 DEF InvertFilter, SetState
  <2> HIDE DEF new, st
  <2> QED
    BY <1>A, <1>0, <2>2, <2>3 DEF FilterFits
<1>4. CASE ResetFilter
  <2> DEFINE differ == (initState \ filterState) \cup (filterState \ initState)
             st == ToggleAll(FilterItems, differ)
  <2>1. Len(FilterItems) \in Nat
    BY FilterAssumption DEF FilterItems
  <2>2. FilterFits(st, filterMode)
    BY <1>0, <2>1, ToggleAllFits
  <2>3. /\ filterState' = st.items /\ offClasses' = st.classes /\ filterMode' = "exclusive"
        /\ skip' = IF filterMode = "inclusive"
                   THEN ApplyFilter("exclusive", st.classes, st.skip) ELSE st.skip
    BY <1>4 DEF ResetFilter
  <2> HIDE DEF st
  <2> QED
    BY <1>0, <2>2, <2>3 DEF FilterFits, FilterInv, FilterSound, ApplyFilter
<1>5. CASE FilterReload
  BY <1>5 DEF FilterReload, FilterInv, FilterSound
<1>6. CASE UNCHANGED filterVars
  BY <1>6 DEF filterVars, FilterInv, FilterSound
<1> QED
  BY <1>1, <1>2, <1>3, <1>4, <1>5, <1>6 DEF FilterStep

(*****************************************************************************)
(* The classes of every marker are its categories that are off, and it is    *)
(* skipped exactly when the mode says so, for any items, whichever are       *)
(* toggled, inverted and reset one by one, with the markers of the item      *)
(* visited only (filterItemToggle).                                          *)
(*****************************************************************************)
THEOREM FilterIsSound == CineraSpec => []FilterSound
<1>1. CineraInit => FilterInv
  BY FilterInitInv DEF CineraInit, PlayerInit
<1>2. FilterInv => FilterSound
  BY DEF FilterInv
<1> QED
  BY PagesFilter, FilterStepInv, <1>1, <1>2, PTL DEF CineraSpec

(* In a list without repetitions each item chosen is toggled once. *)
LEMMA ToggleAllItems ==
  ASSUME NEW list, NEW chosen, list \in Seq(ToSet(list)), IsInjective(list)
  PROVE  \A c : c \in ToggleAll(list, chosen).items <=>
                  ~(c \in filterState <=> c \in chosen \cap ToSet(list))
<1> DEFINE N == Len(list)
<1>0. N \in Nat /\ DOMAIN list = 1 .. N
  OBVIOUS
<1>1. PICK run : /\ run[0] = State
                 /\ \A i \in 1 .. N : run[i] = Toggled(run[i - 1], list[i], chosen)
                 /\ ToggleAll(list, chosen) = run[N]
  BY <1>0, ToggleAllRuns
<1> DEFINE Met(i) == {list[j] : j \in {k \in 1 .. i : list[k] \in chosen}}
           Flipped(i) == \A c : c \in run[i].items <=> ~(c \in filterState <=> c \in Met(i))
           Broken == {n \in Nat : n <= N /\ ~Flipped(n)}
<1>2. Broken = {}
  <2> SUFFICES ASSUME Broken # {} PROVE FALSE
    OBVIOUS
  <2>1. PICK n \in Broken : \A k \in Broken : n <= k
    <3>1. Broken \in SUBSET Nat
      OBVIOUS
    <3> HIDE DEF Broken
    <3> QED
      BY <3>1, Smallest
  <2>2. n \in Nat /\ n <= N /\ ~Flipped(n)
    OBVIOUS
  <2>3. Flipped(0)
    <3>1. Met(0) = {}
      OBVIOUS
    <3> HIDE DEF Met
    <3> QED
      BY <1>1, <3>1 DEF State
  <2>4. n # 0
    <3> HIDE DEF Flipped
    <3> QED
      BY <2>2, <2>3
  <2>5. n - 1 \in Nat /\ n - 1 <= N /\ n - 1 \notin Broken
    <3>1. n - 1 \in Nat /\ n - 1 <= N /\ ~(n <= n - 1)
      BY <1>0, <2>2, <2>4
    <3> HIDE DEF Broken
    <3> QED
      BY <2>1, <3>1
  <2>6. Flipped(n - 1)
    <3> HIDE DEF Flipped
    <3> QED
      BY <2>5
  <2>7. run[n] = Toggled(run[n - 1], list[n], chosen)
    BY <1>0, <1>1, <2>2, <2>4
  <2>8. Met(n) = IF list[n] \in chosen THEN Met(n - 1) \cup {list[n]} ELSE Met(n - 1)
    <3>1. \A k : k \in 1 .. n <=> k \in 1 .. n - 1 \/ k = n
      BY <2>2, <2>4
    <3> QED
      BY <3>1
  <2>9. list[n] \notin Met(n - 1)
    <3>1. \A k \in 1 .. n - 1 : list[k] # list[n]
      BY <1>0, <2>2, <2>4 DEF IsInjective
    <3> QED
      BY <3>1
  <2>10. Flipped(n)
    <3> HIDE DEF Met
    <3>1. CASE list[n] \notin chosen
      BY <2>6, <2>7, <2>8, <3>1 DEF Toggled
    <3>2. CASE list[n] \in chosen
      <4>1. run[n].items = IF list[n] \notin run[n - 1].items
                           THEN run[n - 1].items \cup {list[n]} ELSE run[n - 1].items \ {list[n]}
        BY <2>7, <3>2 DEF Toggled, FilterItemToggle
      <4> QED
        BY <2>6, <2>8, <2>9, <3>2, <4>1
    <3> QED
      BY <3>1, <3>2
  <2> QED
    BY <2>2, <2>10
<1>3. Flipped(N)
  <2> HIDE DEF Flipped
  <2> QED
    BY <1>0, <1>2
<1>4. Met(N) = chosen \cap ToSet(list)
  BY <1>0 DEF ToSet
<1> HIDE DEF Met
<1> QED
  BY <1>1, <1>3, <1>4

\* The items that are off are items of the filter.
FilterKnown == filterState \subseteq ToSet(FilterItems) /\ initState \subseteq ToSet(FilterItems)

LEMMA KnownInit == CineraInit => FilterKnown
  BY FilterAssumption DEF CineraInit, PlayerInit, FilterInit, FilterKnown

\* The lists the filter goes over name items of the filter, each once.
LEMMA ListsKnown ==
  ASSUME NEW list \in {Topics, Media, FilterItems}
  PROVE  list \in Seq(ToSet(list)) /\ IsInjective(list) /\ ToSet(list) \subseteq ToSet(FilterItems)
  BY FilterAssumption, ItemsInOrder

\* ResetFilter toggles what differs from the start, and that is all of
\* it.
LEMMA ResetTo ==
  ASSUME FilterKnown, ResetFilter
  PROVE  filterState' = initState
<1> DEFINE differ == (initState \ filterState) \cup (filterState \ initState)
           st == ToggleAll(FilterItems, differ)
<1>1. filterState' = st.items
  BY DEF ResetFilter
<1>2. \A c : c \in st.items <=> ~(c \in filterState <=> c \in differ \cap ToSet(FilterItems))
  BY ListsKnown, ToggleAllItems
<1>3. differ = (initState \ filterState) \cup (filterState \ initState)
  OBVIOUS
<1> HIDE DEF differ, st
<1>4. \A c : c \in st.items <=> c \in initState
  BY <1>2, <1>3 DEF FilterKnown
<1> QED
  BY <1>1, <1>4

LEMMA KnownStep == FilterKnown /\ [CineraNext]_cineraVars => FilterKnown'
<1> SUFFICES ASSUME FilterKnown, FilterStep PROVE FilterKnown'
  BY PagesFilter
<1>1. ASSUME NEW c \in ToSet(FilterItems), ToggleItem(c) PROVE FilterKnown'
  BY <1>1 DEF ToggleItem, SetState, FilterItemToggle, State, FilterKnown
<1>2. ASSUME NEW list \in {Topics, Media}, InvertFilter(list) PROVE FilterKnown'
  <2>1. filterState' = ToggleAll(list, ToSet(list)).items /\ initState' = initState
    BY <1>2 DEF InvertFilter, SetState
  <2>2. \A c : c \in filterState' <=> ~(c \in filterState <=> c \in ToSet(list) \cap ToSet(list))
    BY <2>1, ListsKnown, ToggleAllItems
  <2> QED
    BY <2>1, <2>2, ListsKnown DEF FilterKnown
<1>3. CASE ResetFilter
  BY <1>3, ResetTo DEF ResetFilter, FilterKnown
<1>4. CASE ToggleFilterMode
  BY <1>4 DEF ToggleFilterMode, FilterKnown
<1>5. CASE FilterReload
  BY <1>5 DEF FilterReload, FilterKnown
<1>6. CASE UNCHANGED filterVars
  BY <1>6 DEF filterVars, FilterKnown
<1> QED
  BY <1>1, <1>2, <1>3, <1>4, <1>5, <1>6 DEF FilterStep

(* The state of the filter as the page came with it. *)
AsItCame ==
  /\ filterState = initState /\ filterMode = "exclusive"
  /\ \A m \in Markers : offClasses[m] = Categories[m] \cap initState
  /\ skip = {m \in Markers : Categories[m] \cap initState # {}}

(*****************************************************************************)
(* resetFilter puts the filter back as the page came with it: the items that *)
(* were off, each once, the mode, and the markers that are skipped.          *)
(*****************************************************************************)
THEOREM ResetRestores == CineraSpec => [][ResetFilter => AsItCame']_filterVars
<1>1. FilterKnown /\ FilterInv /\ [CineraNext]_cineraVars => [ResetFilter => AsItCame']_filterVars
  <2> SUFFICES ASSUME FilterKnown, FilterInv, FilterInv', ResetFilter PROVE AsItCame'
    BY PagesFilter, FilterStepInv
  <2>1. filterState' = initState' /\ filterMode' = "exclusive"
    BY ResetTo DEF ResetFilter
  <2> QED
    BY <2>1 DEF AsItCame, FilterInv, FilterSound
<1>2. CineraInit => FilterInv
  BY FilterInitInv DEF CineraInit, PlayerInit
<1>3. FilterInv /\ [CineraNext]_cineraVars => FilterInv'
  BY PagesFilter, FilterStepInv
<1> QED
  BY <1>1, <1>2, <1>3, KnownInit, KnownStep, PTL DEF CineraSpec

-----------------------------------------------------------------------------
(*****************************************************************************)
(* Player.  The last state that YouTube has yet to tell is the video's       *)
(* (Told); a marker entered is one that is not skipped or the last (Entering). *)
(*****************************************************************************)

\* The states of a video that YouTube tells the page.
Tellable == {"playing", "buffering", "paused", "ended"}

(* The state told last is the video's, or none is under way and the page   *)
(* knows whether it plays.                                                 *)
Told ==
  /\ events \in Seq(Tellable)
  /\ playing \in BOOLEAN
  /\ video.state \in Tellable \cup {"unstarted"}
  /\ events = <<>> => playing = (video.state = "playing")
  /\ events # <<>> => events[Len(events)] = video.state

\* The marker the page is in and the time it stored.
Resumable ==
  stored # NoTime =>
    \E m \in Markers \ {LastMarker} :
      stored = Timestamp[m] /\ currentMarker \in {NoMarker, m}

PlayerInv == FilterInv /\ Told /\ Resumable

LEMMA MarkersNumbered == LastMarker \in Nat /\ Markers = 1 .. LastMarker
  BY PlayerAssumption DEF LastMarker

(* Where a call of updateProgress leaves the page: in no marker, in the one *)
(* it was in, or in another that is not to be skipped.                     *)
LEMMA Entering ==
  ASSUME NEW now, NEW sought, NEW kept, UpdateProgress(now, sought, kept), skip \subseteq Markers
  PROVE  \/ currentMarker' \in {NoMarker, currentMarker} /\ stored' = kept
         \/ /\ currentMarker' \in Markers
            /\ stored' = Stored(currentMarker')
            /\ playing' /\ currentMarker' \in skip => currentMarker' = LastMarker
<1> DEFINE m == MarkerAt(now)
<1>1. m = NoMarker \/ m \in Markers
  <2> DEFINE in == {n \in Markers : Timestamp[n] <= now /\ now < EndTime(n)}
  <2>1. CASE in = {}
    BY <2>1 DEF MarkerAt
  <2>2. CASE in # {}
    <3>1. in \in SUBSET Nat
      BY MarkersNumbered
    <3>2. m = CHOOSE n \in in : \A k \in in : n <= k
      BY <2>2 DEF MarkerAt
    <3>3. in \subseteq Markers
      OBVIOUS
    <3> HIDE DEF in, m
    <3>4. m \in in
      BY <3>1, <3>2, <2>2, Smallest
    <3> QED
      BY <3>3, <3>4
  <2> QED
    BY <2>1, <2>2
<1>2. CASE m \in {NoMarker, currentMarker}
  BY <1>2 DEF UpdateProgress
<1>3. CASE m \notin {NoMarker, currentMarker}
  <2>1. currentMarker' = Entered(m) /\ stored' = Stored(Entered(m))
    BY <1>3 DEF UpdateProgress
  <2>2. m \in Markers
    BY <1>1, <1>3
  <2> HIDE DEF m
  <2>3. CASE ~playing' \/ m \notin skip
    BY <2>1, <2>2, <2>3 DEF Entered
  <2>4. CASE ~(~playing' \/ m \notin skip)
    <3> DEFINE next == {n \in Markers : n > m /\ (n \notin skip \/ n = LastMarker)}
    <3>1. Entered(m) = IF next = {} THEN m ELSE CHOOSE n \in next : \A k \in next : n <= k
      BY <2>4 DEF Entered
    <3>2. CASE next = {}
      <4>1. m = LastMarker
        BY <3>2, <2>2, MarkersNumbered
      <4> QED
        BY <4>1, <2>1, <2>2, <3>1, <3>2
    <3>3. CASE next # {}
      <4>1. next \in SUBSET Nat
        BY MarkersNumbered
      <4>2. \A n \in next : n \in Markers /\ (n \notin skip \/ n = LastMarker)
        OBVIOUS
      <4> HIDE DEF next
      <4>3. Entered(m) \in next
        BY <3>1, <3>3, <4>1, Smallest
      <4> QED
        BY <2>1, <4>2, <4>3
    <3> QED
      BY <3>2, <3>3
  <2> QED
    BY <2>3, <2>4
<1> QED
  BY <1>2, <1>3

(* A step of the pages as the player sees it: the video, the page's view   *)
(* of it, and the marker it is in.                                         *)
VideoMoves ==
  \/ \E new, time : Becomes(new, time) /\ new \in Tellable \cup {video.state}
  \/ UNCHANGED <<video, events>>

KeepsMarker == UNCHANGED <<currentMarker, stored>>
MovesMarker == \E now, sought, kept : kept \in {stored, NoTime} /\ UpdateProgress(now, sought, kept)

PlayerStep ==
  \/ VideoMoves /\ playing' = playing /\ (KeepsMarker \/ (MovesMarker /\ skip' = skip))
  \/ /\ events # <<>> /\ events' = Tail(events) /\ playing' = (Head(events) = "playing")
     /\ UNCHANGED <<video, skip>>
     /\ KeepsMarker \/ MovesMarker
  \/ /\ video'.state = "unstarted" /\ events' = <<>> /\ playing' = FALSE
     /\ currentMarker' = NoMarker /\ UNCHANGED stored

\* A step of the pages is one of these for the player.
LEMMA PagesPlayer == Told /\ [CineraNext]_cineraVars => PlayerStep
<1> SUFFICES ASSUME Told, [CineraNext]_cineraVars PROVE PlayerStep
  OBVIOUS
<1> DEFINE Rest == UNCHANGED <<video, events, playing, currentMarker, stored>>
<1>0. CASE Rest
  BY <1>0 DEF PlayerStep, VideoMoves, KeepsMarker
<1>1. CASE script = "player" /\ PlayerNext
  <2>1. ASSUME NEW stamp, ReloadPlayer(stamp) PROVE PlayerStep
    BY <2>1 DEF ReloadPlayer, PlayerStep
  <2>2. CASE UseFilter
    BY <2>2, <1>0 DEF UseFilter, frameVars, playVars, markVars
  <2>3. CASE VideoStep
    <3>1. \E new, time : Becomes(new, time) /\ new \in Tellable \cup {video.state}
      BY <2>3 DEF VideoStep, Tellable
    <3> QED
      BY <3>1, <2>3 DEF VideoStep, PlayerStep, VideoMoves, KeepsMarker, playVars, markVars
  <2>4. CASE TakeCommand
    <3>1. \E new, time : Becomes(new, time) /\ new \in Tellable \cup {video.state}
      BY <2>4 DEF TakeCommand, Tellable, Told
    <3> QED
      BY <3>1, <2>4 DEF TakeCommand, PlayerStep, VideoMoves, KeepsMarker, playVars, markVars
  <2>5. CASE TakeSeek
    <3>1. \E new, time : Becomes(new, time) /\ new \in Tellable \cup {video.state}
      BY <2>5 DEF TakeSeek, Tellable, Told
    <3> QED
      BY <3>1, <2>5 DEF TakeSeek, PlayerStep, VideoMoves, KeepsMarker, playVars, markVars
  <2>6. CASE UseFrame
    <3>1. \E new, time : Becomes(new, time) /\ new \in Tellable \cup {video.state}
      BY <2>6 DEF UseFrame, Tellable, Told
    <3> QED
      BY <3>1, <2>6 DEF UseFrame, PlayerStep, VideoMoves, KeepsMarker, playVars, markVars
  <2>7. CASE Report
    BY <2>7, <1>0 DEF Report, playVars, markVars
  <2>8. CASE OnYoutubePlayerReady
    BY <2>8, <1>0 DEF OnYoutubePlayerReady, playVars
  <2>9. CASE PauseVideo
    BY <2>9, <1>0 DEF PauseVideo, markVars
  <2>10. CASE DoFrame
    BY <2>10 DEF DoFrame, PlayerStep, VideoMoves, MovesMarker, filterVars
  <2>11. ASSUME NEW now, GoTo(now) PROVE PlayerStep
    BY <2>11 DEF GoTo, PlayerStep, VideoMoves, MovesMarker, filterVars
  <2>12. CASE OnStateChange
    <3>1. Head(events) \in Tellable
      BY <2>12 DEF OnStateChange, Told
    <3>2. /\ events # <<>> /\ events' = Tail(events) /\ playing' = (Head(events) = "playing")
          /\ UNCHANGED <<video, skip>>
      BY <2>12 DEF OnStateChange, filterVars
    <3>3. CASE Head(events) = "playing"
      <4>1. KeepsMarker
        BY <2>12, <3>3 DEF OnStateChange, KeepsMarker
      <4> QED
        BY <3>2, <4>1 DEF PlayerStep
    <3>4. CASE Head(events) \in {"paused", "buffering"}
      <4>1. UpdateProgress(reported, seek, stored)
        BY <2>12, <3>4 DEF OnStateChange
      <4> QED
        BY <3>2, <4>1 DEF PlayerStep, MovesMarker
    <3>5. CASE Head(events) = "ended"
      <4>1. UpdateProgress(0, seek, NoTime)
        BY <2>12, <3>5 DEF OnStateChange
      <4> QED
        BY <3>2, <4>1 DEF PlayerStep, MovesMarker
    <3> QED
      BY <3>1, <3>3, <3>4, <3>5 DEF Tellable
  <2> QED
    BY <1>1, <2>1, <2>2, <2>3, <2>4, <2>5, <2>6, <2>7, <2>8, <2>9, <2>10, <2>11, <2>12
    DEF PlayerNext, OnMarkerClick, MouseSkipToTimecode, JumpToNextMarker, JumpToPrevMarker
<1>2. CASE script # "player" /\ \E p \in {"menus", "view", "search"} : ScriptRuns(p)
  BY <1>2, <1>0 DEF ScriptRuns, frameVars, playVars, markVars
<1>3. CASE UNCHANGED cineraVars
  BY <1>3, <1>0 DEF cineraVars, playerVars, frameVars, playVars, markVars
<1> QED
  BY <1>1, <1>2, <1>3 DEF CineraNext, ScriptRuns
LEMMA PlayerInitInv == CineraInit => PlayerInv
<1> SUFFICES ASSUME CineraInit PROVE PlayerInv
  OBVIOUS
<1>1. FilterInv
  BY FilterInitInv DEF CineraInit, PlayerInit
<1>2. Told
  <2>1. playing \in BOOLEAN
    BY Zenon DEF CineraInit, PlayerInit
  <2>2. events = <<>> /\ video.state = "unstarted" /\ playing = FALSE
    BY DEF CineraInit, PlayerInit
  <2> QED
    BY <2>1, <2>2 DEF Told, Tellable
<1>3. Resumable
  BY DEF CineraInit, PlayerInit, Resumable
<1> QED
  BY <1>1, <1>2, <1>3 DEF PlayerInv

LEMMA PlayerStepTold == Told /\ PlayerStep => Told'
<1> SUFFICES ASSUME Told, PlayerStep PROVE Told'
  OBVIOUS
<1>1. ASSUME NEW new, NEW time, Becomes(new, time), new \in Tellable \cup {video.state},
             playing' = playing
      PROVE  Told'
  <2>1. video'.state = new
    BY <1>1 DEF Becomes
  <2>2. CASE new = video.state
    BY <2>1, <2>2, <1>1 DEF Becomes, Told
  <2>3. CASE new # video.state
    <3>1. events' = Append(events, new) /\ new \in Tellable
      BY <2>3, <1>1 DEF Becomes
    <3>2. /\ events' \in Seq(Tellable) /\ events' # <<>>
          /\ events'[Len(events')] = new
      BY <3>1 DEF Told
    <3> QED
      BY <2>1, <3>1, <3>2, <1>1 DEF Told
  <2> QED
    BY <2>2, <2>3
<1>2. ASSUME events # <<>>, events' = Tail(events), playing' = (Head(events) = "playing"),
             video' = video
      PROVE  Told'
  <2>1. CASE Len(events) = 1
    <3>1. events' = <<>> /\ Head(events) = video.state
      BY <1>2, <2>1 DEF Told
    <3> QED
      BY <1>2, <3>1 DEF Told
  <2>2. CASE Len(events) # 1
    <3>1. /\ events' \in Seq(Tellable) /\ events' # <<>>
          /\ events'[Len(events')] = events[Len(events)]
      <4>1. events \in Seq(Tellable) /\ Len(events) \in Nat /\ Len(events) > 1
        <5>1. events \in Seq(Tellable)
          BY DEF Told
        <5>2. Len(events) \in Nat \ {0}
          BY <1>2, <5>1, EmptySeq
        <5> QED
          BY <5>1, <5>2, <2>2
      <4>2. /\ events' \in Seq(Tellable) /\ Len(events') = Len(events) - 1
            /\ \A i \in 1 .. Len(events) - 1 : events'[i] = events[i + 1]
        BY <4>1, <1>2
      <4> QED
        BY <4>1, <4>2
    <3> QED
      BY <1>2, <3>1 DEF Told
  <2> QED
    BY <2>1, <2>2
<1>3. ASSUME UNCHANGED <<video, events, playing>> PROVE Told'
  BY <1>3 DEF Told
<1>4. ASSUME video'.state = "unstarted", events' = <<>>, playing' = FALSE PROVE Told'
  <2>1. playing' \in BOOLEAN
    BY <1>4, Zenon
  <2> QED
    BY <1>4, <2>1 DEF Told, Tellable
<1> QED
  BY <1>1, <1>2, <1>3, <1>4 DEF PlayerStep, VideoMoves

LEMMA PlayerStepResumable ==
  FilterInv /\ Resumable /\ PlayerStep => Resumable'
<1> SUFFICES ASSUME FilterInv, Resumable, PlayerStep PROVE Resumable'
  OBVIOUS
<1>1. ASSUME KeepsMarker PROVE Resumable'
  BY <1>1 DEF KeepsMarker, Resumable
<1>2. ASSUME currentMarker' = NoMarker, stored' = stored PROVE Resumable'
  BY <1>2 DEF Resumable
<1>3. ASSUME MovesMarker PROVE Resumable'
  <2>1. PICK now, sought, kept : kept \in {stored, NoTime} /\ UpdateProgress(now, sought, kept)
    BY <1>3 DEF MovesMarker
  <2>2. skip \subseteq Markers
    BY DEF FilterInv
  <2>3. CASE currentMarker' \in {NoMarker, currentMarker} /\ stored' = kept
    BY <2>1, <2>3 DEF Resumable
  <2>4. CASE currentMarker' \in Markers /\ stored' = Stored(currentMarker')
    BY <2>4 DEF Resumable, Stored
  <2> QED
    BY <2>1, <2>2, <2>3, <2>4, Entering
<1> QED
  BY <1>1, <1>2, <1>3 DEF PlayerStep

LEMMA PlayerStepInv == PlayerInv /\ [CineraNext]_cineraVars => PlayerInv'
  BY PagesFilter, FilterStepInv, PagesPlayer, PlayerStepTold, PlayerStepResumable DEF PlayerInv

(*****************************************************************************)
(* A page that was told of every change knows whether the video plays, and   *)
(* the time stored is that of the current marker, which is not the last, for *)
(* any markers, whatever is commanded, sought and skipped                    *)
(* (Player.onStateChange, updateProgress).                                   *)
(*****************************************************************************)
THEOREM PlayerIsTold == CineraSpec => []PlayerFollowsVideo
<1>1. PlayerInv => PlayerFollowsVideo
  BY DEF PlayerInv, PlayerFollowsVideo, Told, Resumable
<1> QED
  BY PlayerInitInv, PlayerStepInv, <1>1, PTL DEF CineraSpec

(*****************************************************************************)
(* While it plays the player never enters a marker that is filtered out, but *)
(* for the last one, after which there is none to go on to (updateProgress). *)
(*****************************************************************************)
THEOREM PlayerSkips == CineraSpec => SkipsSkipped
<1> DEFINE Skips == playing' /\ currentMarker' # currentMarker /\ currentMarker' \in skip'
                      => currentMarker' = LastMarker
<1>1. PlayerInv /\ [CineraNext]_cineraVars => [Skips]_playerVars
  <2> SUFFICES ASSUME PlayerInv, [CineraNext]_cineraVars PROVE Skips
    OBVIOUS
  <2>1. PlayerStep /\ skip \subseteq Markers
    BY PagesPlayer DEF PlayerInv, FilterInv
  <2>2. ASSUME KeepsMarker PROVE Skips
    BY <2>2 DEF KeepsMarker
  <2>3. ASSUME MovesMarker, skip' = skip PROVE Skips
    <3>1. PICK now, sought, kept : UpdateProgress(now, sought, kept)
      BY <2>3 DEF MovesMarker
    <3>2. NoMarker \notin Markers
      BY MarkersNumbered DEF NoMarker
    <3> QED
      BY <2>1, <2>3, <3>1, <3>2, Entering
  <2> QED
    BY <2>1, <2>2, <2>3 DEF PlayerStep
<1> QED
  BY PlayerInitInv, PlayerStepInv, <1>1, PTL DEF CineraSpec, SkipsSkipped

-----------------------------------------------------------------------------
(*****************************************************************************)
(* Menus.  The element with the focus is the one its menu remembers, also    *)
(* when the link menu has taken the menu's place (Shown); the identifier     *)
(* that is highlighted is the one remembered with the reference, until the   *)
(* mouse is over a reference (Lit).                                          *)
(*****************************************************************************)

(* The menus that take the focus, and where it was last in each. *)
Focusable == {"quotes", "references", "filter", "credits"}

Remembered(last, menu) ==
  CASE menu = "quotes" -> last.quote
    [] menu = "references" -> last.reference
    [] menu = "filter" -> last.category
    [] OTHER -> last.credit

\* Where the focus was last is an item of the menu, or none yet.
Lasts ==
  [quote : QuoteItems \cup {None}, reference : ReferenceItems \cup {None},
   identifier : Nat \X Nat, category : TopicItems \cup MediumItems \cup {None},
   topic : TopicItems \cup {None}, medium : MediumItems \cup {None},
   credit : CreditItems \cup {None}]

\* The element with the focus, the one highlighted and the menu that is
\* open.
Shown ==
  /\ present \subseteq Focusable \cup {"link"}
  /\ lastFocused \in Lasts
  /\ \/ focusedElement = None
     \/ \E menu \in Focusable : /\ focusedElement \in ItemsOf(menu)
                                /\ focusedElement = Remembered(lastFocused, menu)
  /\ highlighted \subseteq {focusedElement}
  /\ \/ visible = {} /\ focusedElement = None /\ highlighted = {}
     \/ visible = {"link"}
     \/ \E menu \in Focusable : /\ visible = {menu} /\ focusedElement \in ItemsOf(menu)
                                /\ highlighted = {focusedElement}

\* The identifier that is lit, and the reference with the focus.
Lit ==
  /\ focusedIdentifier \in Nat \X Nat
  /\ pointed \in BOOLEAN
  /\ ~pointed =>
       /\ identifiersLit \subseteq {focusedIdentifier}
       /\ visible = {"references"} => identifiersLit = {focusedIdentifier}
       /\ focusedElement \in ReferenceItems =>
            focusedIdentifier = lastFocused.identifier /\ focusedIdentifier[1] = focusedElement[2]
       /\ lastFocused.reference # None /\ lastFocused.identifier # NoIdentifier =>
            lastFocused.identifier[1] = lastFocused.reference[2]

\* The inductive invariant of the menus.
FocusInv == Shown /\ Lit

\* The items of each menu (ItemsOfMenus); they are told apart by their kind
\* (Kinds), so no two menus share one (Apart), and no menu is empty
\* (Firsts).
LEMMA ItemsOfMenus ==
  /\ ItemsOf("quotes") = QuoteItems /\ ItemsOf("references") = ReferenceItems
  /\ ItemsOf("filter") = TopicItems \cup MediumItems /\ ItemsOf("credits") = CreditItems
  /\ ItemsOf("link") = {}
  BY DEF ItemsOf, MenuItems

LEMMA Kinds ==
  /\ \A e \in QuoteItems : e[1] = "quote"
  /\ \A e \in ReferenceItems : e[1] = "ref" /\ e[2] \in Nat
  /\ \A e \in TopicItems : e[1] = "topic"
  /\ \A e \in MediumItems : e[1] = "medium"
  /\ \A e \in CreditItems : e[1] \in {"person", "support"}
<1>1. \A ref \in DOMAIN References : ref \in Nat
  BY MenusAssumption
<1> QED
  BY <1>1 DEF QuoteItems, ReferenceItems, TopicItems, MediumItems, CreditItems

LEMMA Apart ==
  /\ \A menu \in Focusable : None \notin ItemsOf(menu)
  /\ \A menu, other \in Focusable :
       \A e \in ItemsOf(menu) : e \in ItemsOf(other) => menu = other
<1>1. None[1] = "none"
  BY DEF None
<1> QED
  BY <1>1, ItemsOfMenus, Kinds DEF Focusable

LEMMA Firsts ==
  /\ <<"quote", 1>> \in QuoteItems /\ <<"ref", 1>> \in ReferenceItems
  /\ <<"topic", 1>> \in TopicItems /\ <<"medium", 1>> \in MediumItems
  /\ FirstCredit \in CreditItems
<1>1. 1 \in DOMAIN References /\ 1 \in DOMAIN Supports
  BY MenusAssumption, EmptySeq
<1>2. 1 \in DOMAIN Topics /\ 1 \in DOMAIN Media
  BY MenusAssumption, FilterAssumption, EmptySeq
<1>3. 1 \in 1 .. Quotes
  BY MenusAssumption
<1>4. FirstCredit \in CreditItems
  <2>1. CASE Supports[1]
    <3> DEFINE p == CHOOSE p \in DOMAIN Supports : Supports[p]
                                                  /\ \A q \in 1 .. p - 1 : ~Supports[q]
    <3>1. p \in DOMAIN Supports /\ Supports[p]
      BY <1>1, <2>1
    <3>2. FirstCredit = <<"support", p>>
      BY <2>1 DEF FirstCredit
    <3> HIDE DEF p
    <3> QED
      BY <3>1, <3>2 DEF CreditItems
  <2>2. CASE ~Supports[1]
    BY <1>1, <2>2 DEF FirstCredit, CreditItems
  <2> QED
    BY <2>1, <2>2
<1> QED
  BY <1>1, <1>2, <1>3, <1>4 DEF QuoteItems, ReferenceItems, TopicItems, MediumItems

\* A menu that opens has the focus where it was last, or on its first
\* item.
LEMMA OpenedFits ==
  ASSUME lastFocused \in Lasts, NEW menu \in Focusable
  PROVE  /\ Opened(menu) \in Lasts
         /\ Remembered(Opened(menu), menu) \in ItemsOf(menu)
         /\ FocusOf(menu, Opened(menu)) = Remembered(Opened(menu), menu)
         /\ menu # "references" => /\ Opened(menu).reference = lastFocused.reference
                                   /\ Opened(menu).identifier = lastFocused.identifier
<1>1. CASE menu = "quotes"
  <2>1. Opened(menu) = [lastFocused EXCEPT !.quote = Or(@, <<"quote", 1>>)]
    BY <1>1 DEF Opened
  <2>2. Or(lastFocused.quote, <<"quote", 1>>) \in QuoteItems
    BY Firsts DEF Or, Lasts
  <2> QED
    BY <1>1, <2>1, <2>2, ItemsOfMenus DEF Lasts, Remembered, FocusOf
<1>2. CASE menu = "references"
  <2>1. Opened(menu) = IF lastFocused.reference = None \/ lastFocused.identifier = NoIdentifier
                       THEN [lastFocused EXCEPT !.reference = <<"ref", 1>>, !.identifier = <<1, 1>>]
                       ELSE lastFocused
    BY <1>2 DEF Opened
  <2>2. <<1, 1>> \in Nat \X Nat
    OBVIOUS
  <2> QED
    BY <1>2, <2>1, <2>2, ItemsOfMenus, Firsts DEF Lasts, Remembered, FocusOf
<1>3. CASE menu = "filter"
  <2>1. Opened(menu) = [lastFocused EXCEPT !.category = Or(@, <<"topic", 1>>)]
    BY <1>3 DEF Opened
  <2>2. Or(lastFocused.category, <<"topic", 1>>) \in TopicItems \cup MediumItems
    BY Firsts DEF Or, Lasts
  <2> QED
    BY <1>3, <2>1, <2>2, ItemsOfMenus DEF Lasts, Remembered, FocusOf
<1>4. CASE menu = "credits"
  <2>1. Opened(menu) = [lastFocused EXCEPT !.credit = Or(@, FirstCredit)]
    BY <1>4 DEF Opened
  <2>2. Or(lastFocused.credit, FirstCredit) \in CreditItems
    BY Firsts DEF Or, Lasts
  <2> QED
    BY <1>4, <2>1, <2>2, ItemsOfMenus DEF Lasts, Remembered, FocusOf
<1> QED
  BY <1>1, <1>2, <1>3, <1>4 DEF Focusable

\* Opening a menu keeps the invariant.
LEMMA ShowShows ==
  ASSUME FocusInv, NEW menu \in Focusable \cup {"link"}, Show(menu), UNCHANGED <<present, pointed>>
  PROVE  FocusInv'
<1>1. CASE menu \in Focusable
  <2> DEFINE e == Remembered(Opened(menu), menu)
  <2>1. lastFocused' = Opened(menu) /\ visible' = {menu}
    BY DEF Show
  <2>2. /\ Opened(menu) \in Lasts /\ e \in ItemsOf(menu) /\ FocusOf(menu, Opened(menu)) = e
    BY <1>1, OpenedFits DEF FocusInv, Shown
  <2>3. focusedElement' = e
    BY <2>1, <2>2 DEF Show
  <2>4. menu # "link"
    BY <1>1 DEF Focusable
  <2>5. highlighted' = {focusedElement'}
    BY <2>4 DEF Show, FocusInv, Shown
  <2>6. Shown'
    BY <1>1, <2>1, <2>2, <2>3, <2>5 DEF Shown, FocusInv
  <2>7. CASE menu = "references"
    <3>1. focusedIdentifier' = Opened(menu).identifier
      BY <2>1, <2>7 DEF Show
    <3>2. identifiersLit' = (identifiersLit \ {focusedIdentifier}) \cup {focusedIdentifier'}
      BY <2>7 DEF Show
    <3>3. focusedElement' = Opened(menu).reference
      BY <2>3, <2>7 DEF Remembered
    <3>4. ~pointed => Opened(menu).identifier[1] = Opened(menu).reference[2]
      BY <2>7, Firsts DEF Opened, FocusInv, Shown, Lit, Lasts
    <3>5. Opened(menu).identifier \in Nat \X Nat
      BY <2>2 DEF Lasts
    <3> QED
      BY <2>1, <2>6, <3>1, <3>2, <3>3, <3>4, <3>5 DEF FocusInv, Lit
  <2>8. CASE menu # "references"
    <3>1. /\ focusedIdentifier' = focusedIdentifier
          /\ identifiersLit' = identifiersLit \ {focusedIdentifier}
      BY <2>8 DEF Show
    <3>2. focusedElement' \notin ReferenceItems
      BY <1>1, <2>2, <2>3, <2>8, Apart, ItemsOfMenus DEF Focusable
    <3>3. /\ lastFocused'.reference = lastFocused.reference
          /\ lastFocused'.identifier = lastFocused.identifier
      BY <1>1, <2>1, <2>8, OpenedFits DEF FocusInv, Shown
    <3> QED
      BY <2>1, <2>6, <2>8, <3>1, <3>2, <3>3 DEF FocusInv, Lit
  <2> QED
    BY <2>7, <2>8
<1>2. CASE menu = "link"
  <2>1. /\ lastFocused' = lastFocused /\ visible' = {"link"} /\ focusedElement' = focusedElement
        /\ highlighted' = {} /\ focusedIdentifier' = focusedIdentifier
        /\ identifiersLit' = identifiersLit \ {focusedIdentifier}
    BY <1>2 DEF Show, Opened, FocusOf, FocusInv, Shown
  <2> QED
    BY <2>1 DEF FocusInv, Shown, Lit
<1> QED
  BY <1>1, <1>2

\* So does closing it.
LEMMA HideHides ==
  ASSUME FocusInv, NEW menu \in visible, Hide(menu), UNCHANGED <<present, pointed>>
  PROVE  FocusInv'
<1>1. visible' = {} /\ focusedElement' = None /\ highlighted' = {}
  BY DEF Hide, FocusInv, Shown
<1>2. focusedIdentifier' = NoIdentifier /\ lastFocused' = lastFocused
      /\ identifiersLit' = identifiersLit \ {focusedIdentifier}
  BY DEF Hide
<1>3. None \notin ReferenceItems
  BY Apart, ItemsOfMenus DEF Focusable
<1>4. NoIdentifier \in Nat \X Nat
  BY DEF NoIdentifier
<1> QED
  BY <1>1, <1>2, <1>3, <1>4 DEF FocusInv, Shown, Lit

(* The focus moves within a menu. *)
LEMMA Refocusing ==
  ASSUME FocusInv, NEW menu \in Focusable, NEW e \in ItemsOf(menu),
         visible = {menu} \/ focusedElement \in ItemsOf(menu),
         Refocus(focusedElement, e), lastFocused' \in Lasts, Remembered(lastFocused', menu) = e,
         UNCHANGED <<present, visible>>
  PROVE  Shown'
<1>1. focusedElement' = e /\ highlighted' = {e}
  BY DEF Refocus, FocusInv, Shown
<1>2. visible = {"link"} \/ visible = {menu}
  <2>1. CASE visible = {} /\ focusedElement = None
    BY <2>1, Apart
  <2>2. ASSUME NEW other \in Focusable, visible = {other}, focusedElement \in ItemsOf(other)
        PROVE  visible = {menu}
    BY <2>2, Apart
  <2> QED
    BY <2>1, <2>2 DEF FocusInv, Shown
<1> QED
  BY <1>1, <1>2 DEF FocusInv, Shown

(* And it does so in a menu that has no references. *)
LEMMA NotIdentifying ==
  ASSUME FocusInv, NEW menu \in Focusable \ {"references"}, focusedElement' \in ItemsOf(menu),
         lastFocused'.reference = lastFocused.reference,
         lastFocused'.identifier = lastFocused.identifier,
         UNCHANGED <<visible, focusedIdentifier, identifiersLit, pointed>>
  PROVE  Lit'
<1>1. focusedElement' \notin ReferenceItems
  BY Apart, ItemsOfMenus DEF Focusable
<1> QED
  BY <1>1 DEF FocusInv, Lit

\* The mouse over an item takes the focus.
LEMMA MouseOver ==
  ASSUME FocusInv, NEW e, MouseOverItem(e)
  PROVE  FocusInv'
<1>1. /\ mouseIn \in visible /\ e \in ItemsOf(mouseIn) /\ UNCHANGED <<present, visible>>
  BY DEF MouseOverItem, shownVars
<1>2. mouseIn \in Focusable /\ visible = {mouseIn} /\ focusedElement = Remembered(lastFocused, mouseIn)
  <2>1. mouseIn # "link"
    BY <1>1, ItemsOfMenus
  <2>2. PICK menu \in Focusable : visible = {menu} /\ focusedElement \in ItemsOf(menu)
    BY <1>1, <2>1 DEF FocusInv, Shown
  <2>3. mouseIn = menu
    BY <1>1, <2>2
  <2>4. focusedElement # None
    BY <2>2, Apart
  <2>5. PICK other \in Focusable : /\ focusedElement \in ItemsOf(other)
                                   /\ focusedElement = Remembered(lastFocused, other)
    BY <2>4 DEF FocusInv, Shown
  <2>6. other = menu
    BY <2>2, <2>5, Apart
  <2> QED
    BY <2>2, <2>3, <2>5, <2>6
<1>3. CASE mouseIn = "quotes" /\ MouseOverQuote(e)
  <2>1. e \in QuoteItems
    BY <1>1, <1>3, ItemsOfMenus
  <2>2. /\ lastFocused' \in Lasts /\ Remembered(lastFocused', mouseIn) = e
        /\ lastFocused'.reference = lastFocused.reference
        /\ lastFocused'.identifier = lastFocused.identifier
    BY <1>3, <2>1 DEF MouseOverQuote, FocusInv, Shown, Lasts, Remembered
  <2>3. Refocus(focusedElement, e) /\ UNCHANGED <<focusedIdentifier, identifiersLit, pointed>>
    BY <1>3 DEF MouseOverQuote
  <2>4. Shown'
    BY <1>1, <1>2, <2>2, <2>3, Refocusing
  <2>5. Lit'
    <3>1. mouseIn \in Focusable \ {"references"} /\ focusedElement' \in ItemsOf(mouseIn)
      BY <1>1, <1>2, <1>3, <2>3 DEF Refocus
    <3> QED
      BY <1>1, <2>2, <2>3, <3>1, NotIdentifying
  <2> QED
    BY <2>4, <2>5 DEF FocusInv
<1>4. CASE mouseIn = "filter" /\ MouseOverFilterItem(e)
  <2>1. e \in TopicItems \cup MediumItems
    BY <1>1, <1>4, ItemsOfMenus
  <2>2. (e[1] = "topic" => e \in TopicItems) /\ (e[1] # "topic" => e \in MediumItems)
    BY <2>1, Kinds
  <2>3. /\ lastFocused' \in Lasts /\ Remembered(lastFocused', mouseIn) = e
        /\ lastFocused'.reference = lastFocused.reference
        /\ lastFocused'.identifier = lastFocused.identifier
    BY <1>4, <2>1, <2>2 DEF MouseOverFilterItem, FocusInv, Shown, Lasts, Remembered
  <2>4. Refocus(focusedElement, e) /\ UNCHANGED <<focusedIdentifier, identifiersLit, pointed>>
    BY <1>2, <1>4 DEF MouseOverFilterItem, Remembered
  <2>5. Shown'
    BY <1>1, <1>2, <2>3, <2>4, Refocusing
  <2>6. Lit'
    <3>1. mouseIn \in Focusable \ {"references"} /\ focusedElement' \in ItemsOf(mouseIn)
      BY <1>1, <1>2, <1>4, <2>4 DEF Refocus
    <3> QED
      BY <1>1, <2>3, <2>4, <3>1, NotIdentifying
  <2> QED
    BY <2>5, <2>6 DEF FocusInv
<1>5. CASE mouseIn = "credits" /\ MouseOverCredit(e)
  <2>1. e \in CreditItems
    BY <1>1, <1>5, ItemsOfMenus
  <2>2. /\ lastFocused' \in Lasts /\ Remembered(lastFocused', mouseIn) = e
        /\ lastFocused'.reference = lastFocused.reference
        /\ lastFocused'.identifier = lastFocused.identifier
    BY <1>5, <2>1 DEF MouseOverCredit, FocusInv, Shown, Lasts, Remembered
  <2>3. Refocus(focusedElement, e) /\ UNCHANGED <<focusedIdentifier, identifiersLit, pointed>>
    BY <1>2, <1>5 DEF MouseOverCredit, Remembered
  <2>4. Shown'
    BY <1>1, <1>2, <2>2, <2>3, Refocusing
  <2>5. Lit'
    <3>1. mouseIn \in Focusable \ {"references"} /\ focusedElement' \in ItemsOf(mouseIn)
      BY <1>1, <1>2, <1>5, <2>3 DEF Refocus
    <3> QED
      BY <1>1, <2>2, <2>3, <3>1, NotIdentifying
  <2> QED
    BY <2>4, <2>5 DEF FocusInv
<1>6. CASE mouseIn = "references" /\ MouseOverReference(e)
  <2>1. e \in ReferenceItems /\ e[2] \in Nat
    BY <1>1, <1>6, ItemsOfMenus, Kinds
  <2>2. lastFocused' \in Lasts /\ Remembered(lastFocused', mouseIn) = e
    <3>1. lastFocused.identifier \in Nat \X Nat /\ <<e[2], 1>> \in Nat \X Nat
      BY <2>1 DEF FocusInv, Shown, Lasts
    <3> QED
      BY <1>6, <2>1, <3>1 DEF MouseOverReference, FocusInv, Shown, Lasts, Remembered
  <2>3. focusedElement = lastFocused.reference
    BY <1>2, <1>6 DEF Remembered
  <2>4. Refocus(focusedElement, e)
    BY <1>6, <2>3 DEF MouseOverReference, Refocus, FocusInv, Shown
  <2>5. Shown'
    BY <1>1, <1>2, <2>2, <2>4, Refocusing
  <2>6. Lit'
    BY <1>6 DEF MouseOverReference, FocusInv, Lit
  <2> QED
    BY <2>5, <2>6 DEF FocusInv
<1> QED
  BY <1>3, <1>4, <1>5, <1>6 DEF MouseOverItem

LEMMA OverIdentifier ==
  ASSUME FocusInv, NEW ref \in DOMAIN References, NEW k \in 1 .. References[ref],
         MouseOverIdentifier(<<ref, k>>)
  PROVE  FocusInv'
<1>1. <<ref, k>> \in Nat \X Nat
  BY MenusAssumption
<1>2. /\ lastFocused' = [lastFocused EXCEPT !.identifier = <<ref, k>>] /\ pointed /\ pointed' = pointed
      /\ UNCHANGED <<present, visible, focusedElement, focusedIdentifier, highlighted>>
  BY DEF MouseOverIdentifier, shownVars
<1>3. lastFocused' \in Lasts
  BY <1>1, <1>2 DEF FocusInv, Shown, Lasts
<1>4. \A menu \in Focusable : Remembered(lastFocused', menu) = Remembered(lastFocused, menu)
  BY <1>2 DEF FocusInv, Shown, Lasts, Remembered, Focusable
<1>5. Shown'
  BY <1>2, <1>3, <1>4 DEF FocusInv, Shown
<1>6. Lit'
  BY <1>2 DEF FocusInv, Lit
<1> QED
  BY <1>5, <1>6 DEF FocusInv

\* The keys that move the focus up and down in a menu.
LEMMA UpDown ==
  ASSUME FocusInv, NEW by, UpDownKey(by)
  PROVE  FocusInv'
<1> DEFINE to == Sibling(focusedElement, by)
<1>1. /\ \E menu \in present : {focusedElement, to} \subseteq ItemsOf(menu)
      /\ Refocus(focusedElement, to)
      /\ lastFocused' = Moved(to)
      /\ focusedIdentifier' = IF to[1] = "ref" THEN <<to[2], 1>> ELSE focusedIdentifier
      /\ identifiersLit' = IF to[1] = "ref"
                           THEN (identifiersLit \ {focusedIdentifier}) \cup {<<to[2], 1>>}
                           ELSE identifiersLit
      /\ UNCHANGED <<present, visible, pointed>>
  BY DEF UpDownKey, shownVars
<1> HIDE DEF to
<1>2. PICK menu \in Focusable : focusedElement \in ItemsOf(menu) /\ to \in ItemsOf(menu)
  BY <1>1, ItemsOfMenus DEF FocusInv, Shown
<1>3. CASE menu = "references"
  <2>1. to \in ReferenceItems /\ to[1] = "ref" /\ to[2] \in Nat
    BY <1>2, <1>3, ItemsOfMenus, Kinds
  <2>2. lastFocused' = [lastFocused EXCEPT !.reference = to, !.identifier = <<to[2], 1>>]
    BY <1>1, <2>1 DEF Moved
  <2>3. <<to[2], 1>> \in Nat \X Nat
    BY <2>1
  <2>4. lastFocused' \in Lasts /\ Remembered(lastFocused', menu) = to
    BY <1>3, <2>1, <2>2, <2>3 DEF FocusInv, Shown, Lasts, Remembered
  <2>5. Shown'
    BY <1>1, <1>2, <2>4, Refocusing
  <2>6. lastFocused'.identifier = <<to[2], 1>> /\ lastFocused'.reference = to
    BY <2>2 DEF FocusInv, Shown, Lasts
  <2>7. /\ focusedElement' = to /\ focusedIdentifier' = <<to[2], 1>>
        /\ identifiersLit' = (identifiersLit \ {focusedIdentifier}) \cup {<<to[2], 1>>}
    BY <1>1, <2>1 DEF Refocus
  <2>8. Lit'
    BY <1>1, <2>3, <2>6, <2>7 DEF FocusInv, Lit
  <2> QED
    BY <2>5, <2>8 DEF FocusInv
<1>4. CASE menu # "references"
  <2>1. /\ lastFocused' \in Lasts /\ Remembered(lastFocused', menu) = to
        /\ lastFocused'.reference = lastFocused.reference
        /\ lastFocused'.identifier = lastFocused.identifier
        /\ to[1] # "ref"
    <3>1. CASE menu = "quotes"
      <4>1. to \in QuoteItems /\ to[1] = "quote"
        BY <1>2, <3>1, ItemsOfMenus, Kinds
      <4> QED
        BY <1>1, <3>1, <4>1 DEF Moved, FocusInv, Shown, Lasts, Remembered
    <3>2. CASE menu = "filter"
      <4>1. to \in TopicItems \cup MediumItems /\ to[1] \in {"topic", "medium"}
        BY <1>2, <3>2, ItemsOfMenus, Kinds
      <4> QED
        BY <1>1, <3>2, <4>1 DEF Moved, FocusInv, Shown, Lasts, Remembered
    <3>3. CASE menu = "credits"
      <4>1. to \in CreditItems /\ to[1] \in {"person", "support"}
        BY <1>2, <3>3, ItemsOfMenus, Kinds
      <4> QED
        BY <1>1, <3>3, <4>1 DEF Moved, FocusInv, Shown, Lasts, Remembered
    <3> QED
      BY <1>4, <3>1, <3>2, <3>3 DEF Focusable
  <2>2. Shown'
    BY <1>1, <1>2, <2>1, Refocusing
  <2>3. Lit'
    <3>1. focusedElement' \in ItemsOf(menu) /\ menu \in Focusable \ {"references"}
      BY <1>1, <1>2, <1>4 DEF Refocus
    <3> QED
      BY <1>1, <2>1, <3>1, NotIdentifying
  <2> QED
    BY <2>2, <2>3 DEF FocusInv
<1> QED
  BY <1>3, <1>4

\* The keys that move it left and right.
LEMMA LeftRight ==
  ASSUME FocusInv, NEW by, LeftRightKey(by)
  PROVE  FocusInv'
<1>1. UNCHANGED <<present, visible, pointed>>
  BY DEF LeftRightKey, shownVars
<1>2. CASE NextIdentifier(by)
  <2> DEFINE id == <<focusedIdentifier[1], focusedIdentifier[2] + by>>
  <2>1. /\ focusedElement \in ReferenceItems
        /\ id[2] \in 1 .. References[id[1]]
        /\ identifiersLit' = (identifiersLit \ {focusedIdentifier}) \cup {id}
        /\ focusedIdentifier' = id
        /\ lastFocused' = [lastFocused EXCEPT !.identifier = id]
        /\ UNCHANGED <<focusedElement, highlighted>>
    BY <1>2 DEF NextIdentifier
  <2>2. id \in Nat \X Nat /\ id[1] = focusedIdentifier[1]
    BY <2>1 DEF FocusInv, Lit
  <2> HIDE DEF id
  <2>3. lastFocused' \in Lasts /\ lastFocused'.identifier = id
        /\ lastFocused'.reference = lastFocused.reference
    BY <2>1, <2>2 DEF FocusInv, Shown, Lasts
  <2>4. \A menu \in Focusable : Remembered(lastFocused', menu) = Remembered(lastFocused, menu)
    BY <2>1 DEF FocusInv, Shown, Lasts, Remembered, Focusable
  <2>5. Shown'
    BY <1>1, <2>1, <2>3, <2>4 DEF FocusInv, Shown
  <2>6. focusedElement = lastFocused.reference
    <3>1. PICK menu \in Focusable : /\ focusedElement \in ItemsOf(menu)
                                    /\ focusedElement = Remembered(lastFocused, menu)
      BY <2>1, Apart, ItemsOfMenus DEF FocusInv, Shown, Focusable
    <3>2. menu = "references"
      BY <2>1, <3>1, Apart, ItemsOfMenus DEF Focusable
    <3> QED
      BY <3>1, <3>2 DEF Remembered
  <2>7. Lit'
    BY <1>1, <2>1, <2>2, <2>3, <2>6 DEF FocusInv, Lit
  <2> QED
    BY <2>5, <2>7 DEF FocusInv
<1>3. CASE OtherColumn(by)
  <2>1. /\ focusedElement \in TopicItems \cup MediumItems
        /\ Refocus(focusedElement, lastFocused'.category)
        /\ UNCHANGED <<focusedIdentifier, identifiersLit>>
    BY <1>3 DEF OtherColumn
  <2>2. /\ Or(lastFocused.topic, <<"topic", 1>>) \in TopicItems
        /\ Or(lastFocused.medium, <<"medium", 1>>) \in MediumItems
    BY Firsts DEF Or, FocusInv, Shown, Lasts
  <2>3. /\ lastFocused' \in Lasts /\ lastFocused'.category \in TopicItems \cup MediumItems
        /\ lastFocused'.reference = lastFocused.reference
        /\ lastFocused'.identifier = lastFocused.identifier
    <3>1. CASE focusedElement \in MediumItems /\ lastFocused' =
                 [lastFocused EXCEPT !.medium = focusedElement,
                                     !.topic = Or(@, <<"topic", 1>>),
                                     !.category = Or(lastFocused.topic, <<"topic", 1>>)]
      BY <2>2, <3>1 DEF FocusInv, Shown, Lasts
    <3>2. CASE focusedElement \in TopicItems /\ lastFocused' =
                 [lastFocused EXCEPT !.topic = focusedElement,
                                     !.medium = Or(@, <<"medium", 1>>),
                                     !.category = Or(lastFocused.medium, <<"medium", 1>>)]
      BY <2>2, <3>2 DEF FocusInv, Shown, Lasts
    <3> QED
      BY <1>3, <3>1, <3>2 DEF OtherColumn
  <2>4. /\ focusedElement \in ItemsOf("filter") /\ lastFocused'.category \in ItemsOf("filter")
        /\ Remembered(lastFocused', "filter") = lastFocused'.category
        /\ "filter" \in Focusable \ {"references"}
    BY <2>1, <2>3, ItemsOfMenus DEF Remembered, Focusable
  <2>5. Shown'
    BY <1>1, <2>1, <2>3, <2>4, Refocusing
  <2>6. focusedElement' = lastFocused'.category
    BY <2>1 DEF Refocus
  <2>7. Lit'
    BY <1>1, <2>1, <2>3, <2>4, <2>6, NotIdentifying
  <2> QED
    BY <2>5, <2>7 DEF FocusInv
<1>4. CASE OtherCredit(by)
  <2>1. PICK to : /\ focusedElement \in CreditItems /\ to \in CreditItems
                  /\ Refocus(focusedElement, to)
                  /\ lastFocused' = [lastFocused EXCEPT !.credit = to]
                  /\ UNCHANGED <<focusedIdentifier, identifiersLit>>
    BY <1>4 DEF OtherCredit
  <2>2. /\ lastFocused' \in Lasts /\ Remembered(lastFocused', "credits") = to
        /\ lastFocused'.reference = lastFocused.reference
        /\ lastFocused'.identifier = lastFocused.identifier
    BY <2>1 DEF FocusInv, Shown, Lasts, Remembered
  <2>3. /\ focusedElement \in ItemsOf("credits") /\ to \in ItemsOf("credits")
        /\ "credits" \in Focusable \ {"references"}
    BY <2>1, ItemsOfMenus DEF Focusable
  <2>4. Shown'
    BY <1>1, <2>1, <2>2, <2>3, Refocusing
  <2>5. focusedElement' = to
    BY <2>1 DEF Refocus
  <2>6. Lit'
    BY <1>1, <2>1, <2>2, <2>3, <2>5, NotIdentifying
  <2> QED
    BY <2>4, <2>6 DEF FocusInv
<1> QED
  BY <1>2, <1>3, <1>4 DEF LeftRightKey

\* Toggling an item of the filter from its menu.
LEMMA Toggling ==
  ASSUME FocusInv, NEW by, ToggleKey(by)
  PROVE  FocusInv'
<1> DEFINE to == Sibling(focusedElement, by)
<1>1. /\ IsFilterItem(focusedElement)
      /\ IF IsFilterItem(to)
         THEN /\ Refocus(focusedElement, to)
              /\ lastFocused' = IF to[1] = "topic"
                                THEN [lastFocused EXCEPT !.topic = to, !.category = to]
                                ELSE [lastFocused EXCEPT !.medium = to, !.category = to]
         ELSE UNCHANGED <<focusedElement, highlighted, lastFocused>>
      /\ UNCHANGED <<present, visible, focusedIdentifier, identifiersLit, pointed>>
  BY DEF ToggleKey, shownVars
<1> HIDE DEF to
<1>2. CASE ~IsFilterItem(to)
  BY <1>1, <1>2 DEF FocusInv, Shown, Lit
<1>3. CASE IsFilterItem(to)
  <2>1. to \in TopicItems \cup MediumItems
    BY <1>3, ItemsOfMenus DEF IsFilterItem
  <2>2. (to[1] = "topic" => to \in TopicItems) /\ (to[1] # "topic" => to \in MediumItems)
    BY <2>1, Kinds
  <2>3. /\ lastFocused' \in Lasts /\ Remembered(lastFocused', "filter") = to
        /\ lastFocused'.reference = lastFocused.reference
        /\ lastFocused'.identifier = lastFocused.identifier
    <3>1. lastFocused \in Lasts
      BY DEF FocusInv, Shown
    <3>2. CASE to[1] = "topic"
      BY <1>1, <1>3, <2>2, <3>1, <3>2 DEF Lasts, Remembered
    <3>3. CASE to[1] # "topic"
      BY <1>1, <1>3, <2>2, <3>1, <3>3 DEF Lasts, Remembered
    <3> QED
      BY <3>2, <3>3
  <2>4. /\ focusedElement \in ItemsOf("filter") /\ to \in ItemsOf("filter")
        /\ "filter" \in Focusable \ {"references"}
    BY <1>1, <1>3 DEF IsFilterItem, Focusable
  <2>5. Shown'
    BY <1>1, <1>3, <2>3, <2>4, Refocusing
  <2>6. focusedElement' = to
    BY <1>1, <1>3 DEF Refocus
  <2>7. Lit'
    BY <1>1, <2>3, <2>4, <2>6, NotIdentifying
  <2> QED
    BY <2>5, <2>7 DEF FocusInv
<1> QED
  BY <1>2, <1>3

FocusKept == UNCHANGED <<shownVars, focusVars, pointed>>

LEMMA FocusKeptInv == FocusInv /\ FocusKept => FocusInv'
  BY DEF FocusKept, FocusInv, Shown, Lit, shownVars, focusVars

LEMMA MenusStepInv == FocusInv /\ [CineraNext]_cineraVars => FocusInv'
<1> SUFFICES ASSUME FocusInv, [CineraNext]_cineraVars PROVE FocusInv'
  OBVIOUS
<1>0. CASE FocusKept
  BY <1>0, FocusKeptInv
<1>A. present \subseteq Focusable \cup {"link"}
  BY DEF FocusInv, Shown
<1>B. ASSUME visible # {} PROVE \E menu \in Focusable \cup {"link"} : visible = {menu}
  BY <1>B DEF FocusInv, Shown
<1>1. CASE MenusNext
  <2>1. ASSUME NEW menu \in present, MenuKey(menu) PROVE FocusInv'
    BY <1>A, <2>1, ShowShows, HideHides DEF MenuKey, ToggleMenuVisibility
  <2>2. ASSUME NEW menu \in present, MouseEnterMenu(menu) PROVE FocusInv'
    <3>1. CASE menu \in visible
      BY <2>2, <3>1, <1>0 DEF MouseEnterMenu, FocusInv, Shown, Lit, focusVars
    <3>2. CASE menu \notin visible
      BY <1>A, <2>2, <3>2, ShowShows DEF MouseEnterMenu
    <3> QED
      BY <3>1, <3>2
  <2>3. CASE SelectLinkKey
    BY <2>3, ShowShows DEF SelectLinkKey
  <2>4. CASE MouseLeaveMenu
    <3>1. CASE mouseIn \in visible
      BY <2>4, <3>1, HideHides DEF MouseLeaveMenu
    <3>2. CASE mouseIn \notin visible
      BY <2>4, <3>2 DEF MouseLeaveMenu, FocusInv, Shown, Lit, focusVars
    <3> QED
      BY <3>1, <3>2
  <2>5. ASSUME NEW e, MouseOverItem(e) PROVE FocusInv'
    BY <2>5, MouseOver
  <2>6. ASSUME NEW ref \in DOMAIN References, NEW k \in 1 .. References[ref],
               MouseOverIdentifier(<<ref, k>>)
        PROVE  FocusInv'
    BY <2>6, OverIdentifier
  <2>7. ASSUME NEW by, UpDownKey(by) \/ LeftRightKey(by) \/ ToggleKey(by) PROVE FocusInv'
    BY <2>7, UpDown, LeftRight, Toggling
  <2>8. CASE InvertKey \/ ResetKey \/ ModeKey
    BY <2>8, <1>0 DEF InvertKey, ResetKey, ModeKey, FocusKept
  <2> QED
    BY <1>1, <2>1, <2>2, <2>3, <2>4, <2>5, <2>6, <2>7, <2>8 DEF MenusNext
<1>2. CASE \E p \in {"player", "view", "search"} : ScriptRuns(p)
  BY <1>2, <1>0 DEF ScriptRuns, FocusKept
<1>3. CASE UNCHANGED cineraVars
  BY <1>3, <1>0 DEF cineraVars, menuVars, FocusKept
<1> QED
  BY <1>1, <1>2, <1>3 DEF CineraNext

LEMMA MenusInitInv == CineraInit => FocusInv
<1> SUFFICES ASSUME CineraInit PROVE FocusInv
  OBVIOUS
<1>1. MenusInit
  BY DEF CineraInit
<1>2. present \subseteq Focusable \cup {"link"}
  BY <1>1, MenusAssumption DEF MenusInit, Focusable
<1>3. lastFocused \in Lasts /\ NoIdentifier \in Nat \X Nat
  BY <1>1 DEF MenusInit, Lasts, NoIdentifier
<1>4. pointed \in BOOLEAN
  BY <1>1, Zenon DEF MenusInit
<1>5. None \notin ReferenceItems
  BY Apart, ItemsOfMenus DEF Focusable
<1>6. Shown
  BY <1>1, <1>2, <1>3 DEF MenusInit, Shown
<1>7. lastFocused.reference = None
  BY <1>1 DEF MenusInit
<1>8. Lit
  BY <1>1, <1>3, <1>4, <1>5, <1>7 DEF MenusInit, Lit
<1> QED
  BY <1>6, <1>8 DEF FocusInv

\* The invariant says what FocusIsShown states.
LEMMA FocusInvShown == FocusInv => FocusIsShown
<1> SUFFICES ASSUME FocusInv PROVE FocusIsShown
  OBVIOUS
<1>1. Cardinality(visible) <= 1
  <2>1. visible = {} \/ \E menu : visible = {menu}
    BY DEF FocusInv, Shown
  <2>2. Cardinality(visible) \in {0, 1}
    BY <2>1, FS_EmptySet, FS_Singleton, Zenon
  <2> QED
    BY <2>2
<1>2. Cardinality(highlighted) <= 1
  <2>1. highlighted = {} \/ highlighted = {focusedElement}
    BY DEF FocusInv, Shown
  <2>2. Cardinality(highlighted) \in {0, 1}
    BY <2>1, FS_EmptySet, FS_Singleton, Zenon
  <2> QED
    BY <2>2
<1>3. visible = {} => focusedElement = None /\ highlighted = {}
  BY DEF FocusInv, Shown
<1>4. \A menu \in visible \ {"link"} :
        focusedElement \in ItemsOf(menu) /\ highlighted = {focusedElement}
  BY DEF FocusInv, Shown
<1>5. ASSUME ~pointed, visible = {"references"}
      PROVE  /\ \A id \in identifiersLit : EnterTarget = <<"timecode", id>>
             /\ identifiersLit # {} /\ focusedIdentifier[1] = focusedElement[2]
  <2>1. focusedElement \in ReferenceItems
    BY <1>4, <1>5, ItemsOfMenus
  <2>2. EnterTarget = <<"timecode", focusedIdentifier>>
    BY <2>1 DEF EnterTarget
  <2> QED
    BY <1>5, <2>1, <2>2 DEF FocusInv, Lit
<1> QED
  BY <1>1, <1>2, <1>3, <1>4, <1>5 DEF FocusIsShown

(*****************************************************************************)
(* One menu is open at most, the focus is in it and highlighted, and the     *)
(* identifier lit is the one that Enter goes to, for any quotes, references, *)
(* topics, media and credits, whichever keys are pressed and wherever the    *)
(* mouse goes.                                                               *)
(*****************************************************************************)
THEOREM FocusAlwaysShown == CineraSpec => []FocusIsShown
  BY MenusInitInv, MenusStepInv, FocusInvShown, PTL DEF CineraSpec

-----------------------------------------------------------------------------
(*****************************************************************************)
(* Search.  The page that a search fills in is told, at each place of its    *)
(* loops, by what of the indexes was read so far (SearchInv).                *)
(*****************************************************************************)

(* What holds at 0 and, up to n, of the next number with each holds up to n. *)
LEMMA UpTo ==
  ASSUME NEW n \in Nat, NEW G, 0 \in G, \A i \in 0 .. n - 1 : i \in G => i + 1 \in G
  PROVE  \A i \in 0 .. n : i \in G
<1> DEFINE Wrong == {i \in 0 .. n : i \notin G}
<1>1. CASE Wrong # {}
  <2>1. Wrong \in SUBSET Nat
    OBVIOUS
  <2>2. PICK x \in Wrong : \A y \in Wrong : x <= y
    <3> HIDE DEF Wrong
    <3> QED
      BY <1>1, <2>1, Smallest
  <2>3. x \in 0 .. n /\ x # 0 /\ x \notin G
    OBVIOUS
  <2>4. x - 1 \in 0 .. n - 1 /\ x - 1 + 1 = x /\ ~(x <= x - 1) /\ x - 1 \in 0 .. n
    BY <2>3
  <2>5. x - 1 \in G
    BY <2>2, <2>4
  <2> QED
    BY <2>3, <2>4, <2>5
<1> QED
  BY <1>1

(* What a loop pushes, turn by turn.                                         *)
Pushing(f, s, S) ==
  /\ f[0] = <<>>
  /\ \A i \in 1 .. Len(s) :
       f[i] = IF s[i] \in S THEN Append(f[i - 1], s[i]) ELSE f[i - 1]

(* The loop of Pushed has its turns, each of them a list.                    *)
LEMMA PushedTurns ==
  ASSUME NEW T, NEW s \in Seq(T), NEW S
  PROVE  \E f \in [0 .. Len(s) -> Seq(T)] : Pushing(f, s, S) /\ Pushed(s, S) = f[Len(s)]
<1> DEFINE n == Len(s)
           Turn(before, i) == IF s[i] \in S THEN Append(before, s[i]) ELSE before
           turn == [i \in 1 .. n |-> [before \in Seq(T) |-> Turn(before, i)]]
           Is(g) == g = [i \in 0 .. n |-> IF i = 0 THEN <<>>
                          ELSE IF s[i] \in S THEN Append(g[i - 1], s[i]) ELSE g[i - 1]]
<1>1. n \in Nat /\ <<>> \in Seq(T) /\ \A i \in 1 .. n : s[i] \in T
  OBVIOUS
<1>2. \A i \in 1 .. n, before \in Seq(T) : Turn(before, i) \in Seq(T)
  BY <1>1
<1>3. IsLoop(turn, n, Seq(T))
  <2> HIDE DEF n, Turn
  <2> QED
    BY <1>2 DEF IsLoop
<1>4. PICK f : Runs(f, turn, n, Seq(T), <<>>)
  <2> HIDE DEF n, turn
  <2> QED
    BY <1>1, <1>3, Loop, Zenon
<1>5. f \in [0 .. n -> Seq(T)] /\ f[0] = <<>> /\ \A i \in 1 .. n : f[i] = turn[i][f[i - 1]]
  BY <1>4 DEF Runs
<1>6. ASSUME NEW i \in 1 .. n PROVE f[i] = Turn(f[i - 1], i)
  <2>1. f[i - 1] \in Seq(T)
    BY <1>1, <1>5
  <2> HIDE DEF n, Turn
  <2> QED
    BY <1>5, <2>1
<1>7. Is(f)
  <2>1. \A i \in 0 .. n : f[i] = IF i = 0 THEN <<>>
                          ELSE IF s[i] \in S THEN Append(f[i - 1], s[i]) ELSE f[i - 1]
    <3> TAKE i \in 0 .. n
    <3>1. CASE i = 0
      BY <3>1, <1>5
    <3>2. CASE i # 0
      <4>1. i \in 1 .. n
        BY <3>2, <1>1
      <4>2. f[i] = Turn(f[i - 1], i)
        BY <4>1, <1>6
      <4> QED
        BY <4>2, <3>2
    <3> QED
      BY <3>1, <3>2
  <2> HIDE DEF n
  <2> QED
    BY <2>1, <1>5
<1> DEFINE g == CHOOSE h : Is(h)
<1>8. Is(g)
  BY <1>7
<1>9. Pushed(s, S) = g[n]
  BY DEF Pushed
<1> HIDE DEF g
<1>10. \A i \in 0 .. n : g[i] = IF i = 0 THEN <<>>
                          ELSE IF s[i] \in S THEN Append(g[i - 1], s[i]) ELSE g[i - 1]
  <2> HIDE DEF n
  <2> QED
    BY <1>8
<1>11. \A i \in 0 .. n : g[i] = f[i]
  <2> DEFINE G == {i \in Nat : g[i] = f[i]}
  <2>1. 0 \in G
    BY <1>1, <1>5, <1>10
  <2>2. ASSUME NEW i \in 0 .. n - 1, i \in G PROVE i + 1 \in G
    <3>1. i + 1 \in 1 .. n /\ i + 1 \in 0 .. n /\ i + 1 # 0 /\ i + 1 - 1 = i
      BY <1>1
    <3>2. g[i + 1] = Turn(g[i], i + 1)
      BY <1>10, <3>1
    <3>3. f[i + 1] = Turn(f[i], i + 1)
      BY <1>6, <3>1
    <3> HIDE DEF Turn
    <3> QED
      BY <2>2, <3>1, <3>2, <3>3
  <2> HIDE DEF G, n
  <2>3. \A i \in 0 .. n : i \in G
    BY <1>1, <2>1, <2>2, UpTo
  <2> QED
    BY <2>3 DEF G
<1>12. Pushing(f, s, S)
  BY <1>5, <1>6 DEF Pushing
<1> QED
  BY <1>1, <1>5, <1>9, <1>11, <1>12

(* What is pushed is of S.                                                   *)
LEMMA PushedIn ==
  ASSUME NEW T, NEW s \in Seq(T), NEW S
  PROVE  Pushed(s, S) \in Seq(T \cap S)
<1> DEFINE n == Len(s)
<1>1. PICK f \in [0 .. n -> Seq(T)] : Pushing(f, s, S) /\ Pushed(s, S) = f[n]
  BY PushedTurns
<1>2. n \in Nat /\ \A i \in 1 .. n : s[i] \in T
  OBVIOUS
<1> DEFINE G == {i \in Nat : f[i] \in Seq(T \cap S)}
<1>3. 0 \in G
  BY <1>1 DEF Pushing
<1>4. ASSUME NEW i \in 0 .. n - 1, i \in G PROVE i + 1 \in G
  <2>1. i + 1 \in 1 .. n /\ i + 1 - 1 = i /\ i + 1 \in Nat
    BY <1>2
  <2>2. f[i + 1] = IF s[i + 1] \in S THEN Append(f[i], s[i + 1]) ELSE f[i]
    BY <1>1, <2>1 DEF Pushing
  <2>3. s[i + 1] \in T /\ f[i] \in Seq(T \cap S)
    BY <1>2, <1>4, <2>1
  <2> HIDE DEF n
  <2>4. CASE s[i + 1] \in S
    <3>1. s[i + 1] \in T \cap S
      BY <2>3, <2>4
    <3>2. Append(f[i], s[i + 1]) \in Seq(T \cap S)
      BY <3>1, <2>3, AppendProperties
    <3> QED
      BY <2>1, <2>2, <2>4, <3>2
  <2>5. CASE s[i + 1] \notin S
    BY <2>1, <2>2, <2>3, <2>5
  <2> QED
    BY <2>4, <2>5
<1> HIDE DEF n, G
<1>5. n \in G
  <2>1. \A i \in 0 .. n : i \in G
    BY <1>2, <1>3, <1>4, UpTo
  <2> QED
    BY <2>1, <1>2
<1> QED
  BY <1>1, <1>5 DEF G

(* One more element after the others is pushed after the others.             *)
LEMMA PushedOne ==
  ASSUME NEW T, NEW s \in Seq(T), NEW e \in T, NEW S
  PROVE  /\ Pushed(Append(s, e), S) = IF e \in S THEN Append(Pushed(s, S), e) ELSE Pushed(s, S)
         /\ Pushed(<<>>, S) = <<>>
<1> DEFINE n == Len(s)
           more == Append(s, e)
<1>1. /\ n \in Nat /\ more \in Seq(T) /\ Len(more) = n + 1
      /\ more[n + 1] = e /\ \A i \in 1 .. n : more[i] = s[i]
  OBVIOUS
<1>2. PICK f \in [0 .. n -> Seq(T)] : Pushing(f, s, S) /\ Pushed(s, S) = f[n]
  BY PushedTurns
<1> HIDE DEF more
<1>3. PICK g \in [0 .. Len(more) -> Seq(T)] : Pushing(g, more, S) /\ Pushed(more, S) = g[Len(more)]
  BY <1>1, PushedTurns
<1> DEFINE G == {i \in Nat : g[i] = f[i]}
<1>4. 0 \in G
  BY <1>2, <1>3 DEF Pushing
<1>5. ASSUME NEW i \in 0 .. n - 1, i \in G PROVE i + 1 \in G
  <2>1. i + 1 \in 1 .. n /\ i + 1 \in 1 .. Len(more) /\ i + 1 - 1 = i /\ i + 1 \in Nat
    BY <1>1
  <2>2. f[i + 1] = IF s[i + 1] \in S THEN Append(f[i], s[i + 1]) ELSE f[i]
    BY <1>2, <2>1 DEF Pushing
  <2>3. g[i + 1] = IF more[i + 1] \in S THEN Append(g[i], more[i + 1]) ELSE g[i]
    BY <1>3, <2>1 DEF Pushing
  <2>4. more[i + 1] = s[i + 1] /\ g[i] = f[i]
    BY <1>1, <1>5, <2>1
  <2> HIDE DEF n
  <2> QED
    BY <2>1, <2>2, <2>3, <2>4
<1>6. g[n] = f[n]
  <2> HIDE DEF n, G
  <2>1. \A i \in 0 .. n : i \in G
    BY <1>1, <1>4, <1>5, UpTo
  <2>2. n \in G
    BY <2>1, <1>1
  <2> QED
    BY <2>2 DEF G
<1>7. g[n + 1] = IF e \in S THEN Append(g[n], e) ELSE g[n]
  <2>1. n + 1 \in 1 .. Len(more) /\ n + 1 - 1 = n
    BY <1>1
  <2> HIDE DEF n
  <2> DEFINE J(i) == IF more[i] \in S THEN Append(g[i - 1], more[i]) ELSE g[i - 1]
  <2>2. \A i \in 1 .. Len(more) : g[i] = J(i)
    BY <1>3 DEF Pushing
  <2>3. g[n + 1] = J(n + 1)
    <3> HIDE DEF J
    <3> QED
      BY <2>1, <2>2
  <2> QED
    BY <2>1, <2>3, <1>1
<1>8. Pushed(more, S) = IF e \in S THEN Append(Pushed(s, S), e) ELSE Pushed(s, S)
  <2> HIDE DEF n
  <2> QED
    BY <1>1, <1>2, <1>3, <1>6, <1>7
<1>9. Pushed(<<>>, S) = <<>>
  <2>1. <<>> \in Seq(T) /\ Len(<<>>) = 0
    BY EmptySeq
  <2>2. PICK h \in [0 .. Len(<<>>) -> Seq(T)] : Pushing(h, <<>>, S) /\ Pushed(<<>>, S) = h[Len(<<>>)]
    BY <2>1, PushedTurns
  <2> QED
    BY <2>1, <2>2 DEF Pushing
<1> QED
  BY <1>8, <1>9 DEF more

(* Nothing is pushed of the empty list.                                      *)
LEMMA PushedNone == \A S : Pushed(<<>>, S) = <<>>
<1> TAKE S
<1>1. <<>> \in Seq({1})
  BY EmptySeq
<1> QED
  BY <1>1, PushedOne

(* What is pushed of two lists, one after the other.                         *)
LEMMA PushedBoth ==
  ASSUME NEW T, NEW s \in Seq(T), NEW t \in Seq(T), NEW S
  PROVE  Pushed(s \o t, S) = Pushed(s, S) \o Pushed(t, S)
<1> DEFINE n == Len(t)
           part(i) == SubSeq(t, 1, i)
           G == {i \in Nat : Pushed(s \o part(i), S) = Pushed(s, S) \o Pushed(part(i), S)}
<1>1. n \in Nat /\ part(n) = t
  BY SubSeqFull
<1>2. part(0) = <<>>
  OBVIOUS
<1>3. Pushed(s, S) \in Seq(T)
  <2>1. Pushed(s, S) \in Seq(T \cap S)
    BY PushedIn
  <2> QED
    BY <2>1, SeqMonotonic
<1>4. 0 \in G
  <2>1. s \o <<>> = s
    BY ConcatEmptySeq
  <2>2. Pushed(<<>>, S) = <<>>
    BY <1>3, PushedOne
  <2>3. Pushed(s, S) \o <<>> = Pushed(s, S)
    BY <1>3, ConcatEmptySeq
  <2>4. Pushed(s \o <<>>, S) = Pushed(s, S) \o Pushed(<<>>, S)
    BY <2>1, <2>2, <2>3
  <2> QED
    BY <1>2, <2>4
<1>5. ASSUME NEW i \in 0 .. n - 1, i \in G PROVE i + 1 \in G
  <2> DEFINE a == part(i)
             e == t[i + 1]
             b == part(i + 1)
             pushed == Pushed(s, S)
             before == Pushed(a, S)
  <2>1. i \in Nat /\ i + 1 \in 1 .. n /\ i + 1 \in Nat /\ e \in T
    BY <1>1
  <2>2. a \in Seq(T) /\ b = Append(a, e)
    <3>1. \A k \in 1 .. i + 1 : k \in 1 .. n
      BY <1>1, <2>1
    <3>2. \A k \in 1 .. i + 1 : t[k] \in T
      BY <3>1
    <3>3. a \in Seq(T) /\ Len(a) = i /\ \A k \in 1 .. i : a[k] = t[k]
      BY <2>1, <3>2, SubSeqProperties
    <3>4. b \in Seq(T) /\ Len(b) = i + 1 /\ \A k \in 1 .. i + 1 : b[k] = t[k]
      BY <2>1, <3>2, SubSeqProperties
    <3> HIDE DEF part
    <3>5. /\ Append(a, e) \in Seq(T) /\ Len(Append(a, e)) = i + 1
          /\ \A k \in 1 .. i : Append(a, e)[k] = a[k]
          /\ Append(a, e)[i + 1] = e
      BY <2>1, <3>3, AppendProperties
    <3>6. \A k \in 1 .. Len(b) : b[k] = Append(a, e)[k]
      BY <2>1, <3>3, <3>4, <3>5
    <3> QED
      BY <3>3, <3>4, <3>5, <3>6, SeqEqual
  <2>3. before \in Seq(T) /\ pushed \in Seq(T)
    <3>1. before \in Seq(T \cap S)
      BY <2>2, PushedIn
    <3> QED
      BY <3>1, <1>3, SeqMonotonic
  <2>4. s \o a \in Seq(T) /\ s \o Append(a, e) = Append(s \o a, e)
    <3> HIDE DEF a, e
    <3> QED
      BY <2>1, <2>2, Appended
  <2>5. pushed \o Append(before, e) = Append(pushed \o before, e)
    <3> HIDE DEF before, pushed, e
    <3> QED
      BY <2>1, <2>3, Appended
  <2>6. Pushed(s \o a, S) = pushed \o before
    BY <1>5
  <2> HIDE DEF a, e, before, pushed, part, n
  <2>7. Pushed(Append(s \o a, e), S) = IF e \in S THEN Append(Pushed(s \o a, S), e) ELSE Pushed(s \o a, S)
    <3> DEFINE sa == s \o a
    <3>1. sa \in Seq(T) /\ e \in T
      BY <2>1, <2>4
    <3> HIDE DEF sa
    <3>2. Pushed(Append(sa, e), S) = IF e \in S THEN Append(Pushed(sa, S), e) ELSE Pushed(sa, S)
      BY <3>1, PushedOne
    <3> QED
      BY <3>2 DEF sa
  <2>8. Pushed(Append(a, e), S) = IF e \in S THEN Append(before, e) ELSE before
    BY <2>1, <2>2, PushedOne DEF before
  <2>9. Pushed(s \o b, S) = pushed \o Pushed(b, S)
    BY <2>2, <2>4, <2>5, <2>6, <2>7, <2>8
  <2> QED
    BY <2>1, <2>9 DEF b, pushed
<1>6. n \in G
  <2> HIDE DEF n, G
  <2>1. \A i \in 0 .. n : i \in G
    BY <1>1, <1>4, <1>5, UpTo
  <2> QED
    BY <2>1, <1>1
<1> QED
  BY <1>1, <1>6

IndexLine == [kind : STRING, text : STRING]
Parsed == [name : STRING, markers : Seq(STRING)]
ReadState == [done : Seq(Parsed), name : STRING \cup {""}, title : STRING \cup {""}, markers : Seq(STRING),
              inMarkers : BOOLEAN]
FoundEpisode == [name : STRING, matches : Seq(STRING) \ {<<>>}]

(* A line of an index leaves what is read so far well formed.                *)
LEMMA LineIsRead ==
  ASSUME NEW st \in ReadState, NEW line \in IndexLine
  PROVE  ReadLine(st, line) \in ReadState
<1> DEFINE Text == STRING \cup {""}
<1>1. /\ st.done \in Seq(Parsed) /\ st.name \in Text /\ st.title \in Text
      /\ st.markers \in Seq(STRING) /\ st.inMarkers \in BOOLEAN
      /\ line.kind \in STRING /\ line.text \in STRING
  BY DEF ReadState, IndexLine
<1>2. st = [done |-> st.done, name |-> st.name, title |-> st.title, markers |-> st.markers,
            inMarkers |-> st.inMarkers]
  BY DEF ReadState
<1> DEFINE new == ReadLine(st, line)
           S(d, n, t, m, b) == [done |-> d, name |-> n, title |-> t, markers |-> m, inMarkers |-> b]
<1>3. \A d \in Seq(Parsed), n, t \in Text, m \in Seq(STRING), b \in BOOLEAN : S(d, n, t, m, b) \in ReadState
  BY DEF ReadState
<1>4. <<>> \in Seq(STRING) /\ "" \in Text /\ line.text \in Text
  BY <1>1, EmptySeq
<1>5. CASE line.kind = "---"
  <2> DEFINE e == [name |-> st.name, markers |-> st.markers]
             d == IF st.name # "" /\ st.title # "" THEN Append(st.done, e) ELSE st.done
  <2>1. st.name # "" => e \in Parsed
    BY <1>1 DEF Parsed
  <2>2. e \in Parsed => Append(st.done, e) \in Seq(Parsed)
    <3> HIDE DEF e
    <3> QED
      BY <1>1, AppendProperties
  <2>3. d \in Seq(Parsed)
    <3> HIDE DEF e
    <3> QED
      BY <2>1, <2>2, <1>1
  <2>4. new = S(d, "", "", <<>>, FALSE)
    BY <1>5 DEF ReadLine
  <2> HIDE DEF d, S, new, Text
  <2> QED
    BY <2>3, <2>4, <1>3, <1>4 DEF new
<1>6. CASE line.kind = "name"
  <2>1. new = S(st.done, line.text, st.title, st.markers, st.inMarkers)
    BY <1>6, <1>2 DEF ReadLine
  <2> HIDE DEF S, new, Text
  <2> QED
    BY <2>1, <1>1, <1>3, <1>4 DEF new
<1>7. CASE line.kind = "title"
  <2>1. new = S(st.done, st.name, line.text, st.markers, st.inMarkers)
    BY <1>7, <1>2 DEF ReadLine
  <2> HIDE DEF S, new, Text
  <2> QED
    BY <2>1, <1>1, <1>3, <1>4 DEF new
<1>8. CASE line.kind = "markers"
  <2>1. new = S(st.done, st.name, st.title, <<>>, TRUE)
    BY <1>8, <1>2 DEF ReadLine
  <2> HIDE DEF S, new, Text
  <2> QED
    BY <2>1, <1>1, <1>3, <1>4 DEF new
<1>9. CASE line.kind = "marker" /\ st.inMarkers
  <2>1. new = S(st.done, st.name, st.title, Append(st.markers, line.text), st.inMarkers)
    BY <1>9, <1>2 DEF ReadLine
  <2>2. Append(st.markers, line.text) \in Seq(STRING)
    BY <1>1, AppendProperties
  <2> HIDE DEF S, new, Text
  <2> QED
    BY <2>1, <2>2, <1>1, <1>3 DEF new
<1>10. CASE line.kind \notin {"---", "name", "title", "markers"} /\ ~(line.kind = "marker" /\ st.inMarkers)
  <2>1. new = st
    BY <1>10 DEF ReadLine
  <2> QED
    BY <2>1
<1> QED
  BY <1>5, <1>6, <1>7, <1>8, <1>9, <1>10

(* An index that is read is a list of episodes.                              *)
LEMMA IndexIsParsed ==
  ASSUME NEW lines \in Seq(IndexLine)
  PROVE  ParseIndexFile(lines) \in Seq(Parsed)
<1> DEFINE n == Len(lines)
           turn == [i \in 1 .. n |-> [st \in ReadState |-> ReadLine(st, lines[i])]]
           Is(g) == g = [i \in 0 .. n |-> IF i = 0 THEN NothingRead ELSE ReadLine(g[i - 1], lines[i])]
<1>1. n \in Nat /\ \A i \in 1 .. n : lines[i] \in IndexLine
  OBVIOUS
<1>2. NothingRead \in ReadState
  BY EmptySeq DEF NothingRead, ReadState
<1>3. IsLoop(turn, n, ReadState)
  <2>1. \A i \in 1 .. n, st \in ReadState : ReadLine(st, lines[i]) \in ReadState
    BY <1>1, LineIsRead
  <2> HIDE DEF n
  <2> QED
    BY <2>1 DEF IsLoop
<1>4. PICK f : Runs(f, turn, n, ReadState, NothingRead)
  <2> HIDE DEF n, turn
  <2> QED
    BY <1>1, <1>2, <1>3, Loop, Zenon
<1>5. f \in [0 .. n -> ReadState] /\ f[0] = NothingRead /\ \A i \in 1 .. n : f[i] = turn[i][f[i - 1]]
  BY <1>4 DEF Runs
<1>6. ASSUME NEW i \in 1 .. n PROVE f[i] = ReadLine(f[i - 1], lines[i])
  <2>1. f[i - 1] \in ReadState
    BY <1>1, <1>5
  <2> HIDE DEF n
  <2> QED
    BY <1>5, <2>1
<1>7. Is(f)
  <2>1. \A i \in 0 .. n : f[i] = IF i = 0 THEN NothingRead ELSE ReadLine(f[i - 1], lines[i])
    <3> TAKE i \in 0 .. n
    <3>1. CASE i = 0
      BY <3>1, <1>5
    <3>2. CASE i # 0
      <4>1. i \in 1 .. n
        BY <3>2, <1>1
      <4> QED
        BY <4>1, <3>2, <1>6
    <3> QED
      BY <3>1, <3>2
  <2> HIDE DEF n
  <2> QED
    BY <2>1, <1>5
<1> DEFINE g == CHOOSE h : Is(h)
<1>8. Is(g)
  BY <1>7
<1>9. ParseIndexFile(lines) = g[n].done
  BY DEF ParseIndexFile
<1> HIDE DEF g
<1>10. \A i \in 0 .. n : g[i] = IF i = 0 THEN NothingRead ELSE ReadLine(g[i - 1], lines[i])
  <2> HIDE DEF n
  <2> QED
    BY <1>8
<1> DEFINE G == {i \in Nat : g[i] \in ReadState}
<1>11. 0 \in G
  BY <1>1, <1>2, <1>10
<1>12. ASSUME NEW i \in 0 .. n - 1, i \in G PROVE i + 1 \in G
  <2>1. i + 1 \in 1 .. n /\ i + 1 \in 0 .. n /\ i + 1 # 0 /\ i + 1 - 1 = i /\ i + 1 \in Nat
    BY <1>1
  <2>2. g[i + 1] = ReadLine(g[i], lines[i + 1])
    BY <2>1, <1>10
  <2>3. g[i] \in ReadState /\ lines[i + 1] \in IndexLine
    BY <1>1, <1>12, <2>1
  <2>4. g[i + 1] \in ReadState
    BY <2>2, <2>3, LineIsRead
  <2> QED
    BY <2>1, <2>4
<1>13. n \in G
  <2> HIDE DEF n, G
  <2>1. \A i \in 0 .. n : i \in G
    BY <1>1, <1>11, <1>12, UpTo
  <2> QED
    BY <2>1, <1>1
<1> QED
  BY <1>9, <1>13 DEF ReadState

(* The episodes of a project in which a query finds something.               *)
LEMMA MatchesFound ==
  ASSUME NEW query, NEW eps \in Seq(Parsed)
  PROVE  /\ MatchesIn(query, eps) \in Seq(FoundEpisode)
         /\ Reverse(eps) \in Seq(Parsed)
         /\ eps = <<>> => MatchesIn(query, eps) = <<>>
<1> DEFINE n == Len(eps)
           Record(e) == [name |-> eps[e].name, matches |-> Pushed(eps[e].markers, Queries[query])]
           searched == [e \in DOMAIN eps |-> Record(e)]
           Whatever == [name : STRING, matches : Seq(STRING)]
           kept == {r \in ToSet(searched) : r.matches # <<>>}
<1>1. n \in Nat /\ DOMAIN eps = 1 .. n /\ \A i \in 1 .. n : eps[i] \in Parsed
  OBVIOUS
<1>2. ASSUME NEW i \in 1 .. n PROVE Record(i) \in Whatever
  <2>1. eps[i].name \in STRING /\ eps[i].markers \in Seq(STRING)
    BY <1>1 DEF Parsed
  <2>2. Pushed(eps[i].markers, Queries[query]) \in Seq(STRING \cap Queries[query])
    BY <2>1, PushedIn
  <2>3. Pushed(eps[i].markers, Queries[query]) \in Seq(STRING)
    BY <2>2, SeqMonotonic
  <2> QED
    BY <2>1, <2>3
<1>3. searched \in Seq(Whatever)
  <2> HIDE DEF Record, Whatever, n
  <2>1. searched \in [1 .. n -> Whatever]
    BY <1>1, <1>2
  <2> QED
    BY <2>1, <1>1, SeqDef
<1>4. MatchesIn(query, eps) = Pushed(searched, kept)
  BY DEF MatchesIn
<1>5. Pushed(searched, kept) \in Seq(Whatever \cap kept)
  <2> HIDE DEF Whatever, kept, searched
  <2> QED
    BY <1>3, PushedIn
<1>6. Whatever \cap kept \subseteq FoundEpisode
  BY DEF FoundEpisode
<1>7. MatchesIn(query, eps) \in Seq(FoundEpisode)
  <2> HIDE DEF Whatever, kept, searched
  <2> QED
    BY <1>4, <1>5, <1>6, SeqMonotonic
<1>8. Reverse(eps) \in Seq(Parsed)
  <2>1. \A i \in 1 .. n : n - i + 1 \in 1 .. n
    BY <1>1
  <2>2. \A i \in 1 .. n : eps[(n - i) + 1] \in Parsed
    BY <1>1, <2>1
  <2>3. [i \in 1 .. n |-> eps[(n - i) + 1]] \in [1 .. n -> Parsed]
    BY <2>2
  <2> QED
    BY <2>3, <1>1, SeqDef DEF Reverse
<1>9. ASSUME eps = <<>> PROVE MatchesIn(query, eps) = <<>>
  <2>1. n = 0
    BY <1>9, EmptySeq
  <2>2. Len(searched) = 0 /\ searched = <<>>
    <3> HIDE DEF Record, n
    <3> QED
      BY <1>1, <2>1
  <2>4. Pushed(<<>>, kept) = <<>>
    <3> HIDE DEF kept
    <3> QED
      BY PushedNone
  <2> QED
    BY <1>4, <2>2, <2>4
<1> QED
  BY <1>7, <1>8, <1>9

(* What each project has to show.                                            *)
Todo == [Projects -> Seq(FoundEpisode)]

(* A search gives each project its episodes, and no episode for no query.    *)
LEMMA SearchFinds ==
  ASSUME NEW query, NEW eps \in [Projects -> Seq(Parsed)], NEW chronological \in BOOLEAN
  PROVE  /\ SearchResults(query, eps, chronological) \in Todo
         /\ query \notin DOMAIN Queries =>
              SearchResults(query, eps, chronological) = [p \in Projects |-> <<>>]
<1> DEFINE Of(p) == IF query \notin DOMAIN Queries THEN <<>>
                    ELSE MatchesIn(query, IF chronological THEN eps[p] ELSE Reverse(eps[p]))
<1>1. SearchResults(query, eps, chronological) = [p \in Projects |-> Of(p)]
  BY DEF SearchResults
<1>2. ASSUME NEW p \in Projects PROVE Of(p) \in Seq(FoundEpisode)
  <2>1. eps[p] \in Seq(Parsed)
    OBVIOUS
  <2>2. Reverse(eps[p]) \in Seq(Parsed)
    BY <2>1, MatchesFound
  <2>3. MatchesIn(query, eps[p]) \in Seq(FoundEpisode)
    BY <2>1, MatchesFound
  <2>4. MatchesIn(query, Reverse(eps[p])) \in Seq(FoundEpisode)
    BY <2>2, MatchesFound
  <2>5. <<>> \in Seq(FoundEpisode)
    BY EmptySeq
  <2> QED
    BY <2>3, <2>4, <2>5
<1>3. SearchResults(query, eps, chronological) \in Todo
  <2> HIDE DEF Of
  <2> QED
    BY <1>1, <1>2 DEF Todo
<1>4. query \notin DOMAIN Queries => \A p \in Projects : Of(p) = <<>>
  OBVIOUS
<1> HIDE DEF Of
<1> QED
  BY <1>1, <1>3, <1>4

(* The lines of the results: headings of episodes, and markers under them.   *)
Item == (Projects \X STRING) \cup (Projects \X STRING \X STRING)

(* The entries of the first i episodes found in a project, and those of the  *)
(* first c projects.                                                         *)
EntriesTo(todo, p, i) == FlattenSeq([j \in 1 .. i |-> EntryOf(p, todo[p][j])])
ProjectsTo(todo, c) == FlattenSeq([p \in 1 .. c |-> EntriesTo(todo, p, Len(todo[p]))])

(* The projects are numbered, and each has its index.                        *)
LEMMA ProjectsNumbered ==
  /\ Len(IndexFiles) \in Nat /\ Projects = 1 .. Len(IndexFiles)
  /\ \A p \in Projects : p \in Nat /\ IndexFiles[p] \in Seq(IndexLine)
<1>1. IndexFiles \in Seq(Seq(IndexLine))
  BY SearchAssumption DEF IndexLine
<1>2. Len(IndexFiles) \in Nat /\ DOMAIN IndexFiles = 1 .. Len(IndexFiles)
  BY <1>1, LenProperties
<1>3. \A p \in 1 .. Len(IndexFiles) : IndexFiles[p] \in Seq(IndexLine)
  BY <1>1, ElementOfSeq
<1> QED
  BY <1>2, <1>3 DEF Projects

(* The first part of a list, and one element more.                           *)
LEMMA OneMore ==
  ASSUME NEW S, NEW s \in Seq(S), NEW k \in 0 .. Len(s) - 1
  PROVE  /\ SubSeq(s, 1, k) \in Seq(S)
         /\ s[k + 1] \in S
         /\ SubSeq(s, 1, k + 1) = Append(SubSeq(s, 1, k), s[k + 1])
<1> DEFINE n == Len(s)
           a == SubSeq(s, 1, k)
           b == SubSeq(s, 1, k + 1)
           e == s[k + 1]
<1>1. n \in Nat /\ k \in Nat /\ k + 1 \in Nat /\ k + 1 \in 1 .. n /\ \A i \in 1 .. n : s[i] \in S
  OBVIOUS
<1>2. \A i \in 1 .. k + 1 : i \in 1 .. n
  BY <1>1
<1>3. \A i \in 1 .. k + 1 : s[i] \in S
  BY <1>1, <1>2
<1> HIDE DEF n
<1>4. a \in Seq(S) /\ Len(a) = k /\ \A i \in 1 .. k : a[i] = s[i]
  BY <1>1, <1>3, SubSeqProperties
<1>5. b \in Seq(S) /\ Len(b) = k + 1 /\ \A i \in 1 .. k + 1 : b[i] = s[i]
  BY <1>1, <1>3, SubSeqProperties
<1>6. e \in S
  BY <1>1
<1> HIDE DEF a, b
<1>7. /\ Append(a, e) \in Seq(S) /\ Len(Append(a, e)) = k + 1
      /\ \A i \in 1 .. k : Append(a, e)[i] = a[i]
      /\ Append(a, e)[k + 1] = e
  BY <1>4, <1>6, AppendProperties
<1>8. \A i \in 1 .. Len(b) : b[i] = Append(a, e)[i]
  <2> TAKE i \in 1 .. Len(b)
  <2>1. i \in 1 .. k \/ i = k + 1
    BY <1>1, <1>5
  <2>2. b[i] = s[i]
    BY <1>5
  <2> HIDE DEF e
  <2>3. CASE i \in 1 .. k
    BY <2>2, <2>3, <1>4, <1>7
  <2>4. CASE i = k + 1
    BY <2>2, <2>4, <1>7 DEF e
  <2> QED
    BY <2>1, <2>3, <2>4
<1>9. b = Append(a, e)
  BY <1>4, <1>5, <1>7, <1>8, SeqEqual
<1> QED
  BY <1>4, <1>6, <1>9 DEF a, b

(* The lines of an episode.                                                  *)
LEMMA EntryLines ==
  ASSUME NEW p \in Projects, NEW r \in FoundEpisode
  PROVE  /\ EntryOf(p, r) \in Seq(Item)
         /\ Len(EntryOf(p, r)) = Len(r.matches) + 1
         /\ Len(r.matches) \in Nat \ {0}
         /\ <<p, r.name>> \in Projects \X STRING
         /\ SubSeq(EntryOf(p, r), 1, 1) = <<<<p, r.name>>>>
         /\ \A k \in 1 .. Len(r.matches) :
              EntryOf(p, r)[k + 1] = <<p, r.name, r.matches[k]>>
<1> DEFINE n == Len(r.matches)
           head == <<p, r.name>>
           line(k) == <<p, r.name, r.matches[k]>>
           heads == <<head>>
           lines == [k \in DOMAIN r.matches |-> line(k)]
<1>1. /\ r.name \in STRING /\ r.matches \in Seq(STRING) /\ r.matches # <<>>
      /\ n \in Nat /\ n # 0 /\ DOMAIN r.matches = 1 .. n
  <2>1. r.name \in STRING /\ r.matches \in Seq(STRING) /\ r.matches # <<>>
    BY DEF FoundEpisode
  <2>2. n \in Nat \ {0}
    BY <2>1, EmptySeq
  <2>3. DOMAIN r.matches = 1 .. n
    BY <2>1, LenProperties
  <2> QED
    BY <2>1, <2>2, <2>3
<1>2. head \in Projects \X STRING /\ head \in Item
  BY <1>1 DEF Item
<1>3. \A k \in 1 .. n : line(k) \in Item
  <2> TAKE k \in 1 .. n
  <2>1. r.matches[k] \in STRING
    BY <1>1, ElementOfSeq
  <2> QED
    BY <1>1, <2>1 DEF Item
<1>4. lines \in Seq(Item) /\ Len(lines) = n /\ \A k \in 1 .. n : lines[k] = line(k)
  <2> HIDE DEF line, n
  <2>1. lines \in [1 .. n -> Item] /\ \A k \in 1 .. n : lines[k] = line(k)
    BY <1>1, <1>3
  <2>2. lines \in Seq(Item)
    BY <1>1, <2>1, SeqDef
  <2> HIDE DEF lines
  <2> QED
    BY <1>1, <2>1, <2>2
<1>5. heads \in Seq(Item) /\ Len(heads) = 1 /\ heads[1] = head
  <2> HIDE DEF head
  <2> QED
    BY <1>2
<1>6. EntryOf(p, r) = heads \o lines
  BY DEF EntryOf
<1> HIDE DEF heads, lines, head, line, n
<1> DEFINE entry == heads \o lines
<1>7. /\ entry \in Seq(Item) /\ Len(entry) = n + 1
      /\ entry[1] = head
      /\ \A k \in 1 .. n : entry[1 + k] = line(k)
  <2>1. /\ entry \in Seq(Item) /\ Len(entry) = 1 + n
        /\ \A i \in 1 .. 1 : entry[i] = heads[i]
        /\ \A i \in 1 .. n : entry[1 + i] = lines[i]
    <3>0. heads \in Seq(Item) /\ lines \in Seq(Item)
      BY <1>4, <1>5
    <3>1. heads \o lines \in Seq(Item) /\ Len(heads \o lines) = Len(heads) + Len(lines)
      BY <3>0, JoinedTexts
    <3>2. \A i \in 1 .. Len(heads) : (heads \o lines)[i] = heads[i]
      BY <3>0, JoinedTexts
    <3>3. \A i \in 1 .. Len(lines) : (heads \o lines)[Len(heads) + i] = lines[i]
      BY <3>0, JoinedTexts
    <3> QED
      BY <3>1, <3>2, <3>3, <1>4, <1>5
  <2>2. 1 \in 1 .. 1 /\ n + 1 = 1 + n
    BY <1>1
  <2> HIDE DEF entry
  <2> QED
    BY <2>1, <2>2, <1>4, <1>5
<1> HIDE DEF entry
<1>8. SubSeq(entry, 1, 1) = <<head>>
  <2>1. 1 \in 1 .. Len(entry)
    BY <1>1, <1>7
  <2>2. 0 \in 0 .. Len(entry) - 1 /\ 0 + 1 = 1
    BY <1>1, <1>7
  <2>3. SubSeq(entry, 1, 0 + 1) = Append(SubSeq(entry, 1, 0), entry[0 + 1])
    BY <2>2, <1>7, OneMore
  <2>4. SubSeq(entry, 1, 0) = <<>>
    BY SubSeqEmpty
  <2>5. Append(<<>>, head) = <<head>>
    OBVIOUS
  <2> QED
    BY <2>2, <2>3, <2>4, <2>5, <1>7
<1>9. \A k \in 1 .. n : k + 1 = 1 + k /\ entry[k + 1] = line(k)
  BY <1>1, <1>7
<1>10. entry = EntryOf(p, r)
  BY <1>6 DEF entry
<1>11. n \in Nat \ {0}
  BY <1>1
<1> QED
  BY <1>2, <1>7, <1>8, <1>9, <1>10, <1>11 DEF head, line, n

(* One more list after the first i of f is one more at their end.            *)
Joined(f, i) == FlattenSeq([j \in 1 .. i |-> f[j]])

(* Joining grows with the lists joined.                                      *)
LEMMA FlattenedTo ==
  ASSUME NEW S, NEW n \in Nat, NEW f \in [1 .. n -> Seq(S)], NEW i \in 0 .. n
  PROVE  /\ Joined(f, i) \in Seq(S)
         /\ Joined(f, 0) = <<>>
         /\ i < n => Joined(f, i + 1) = Joined(f, i) \o f[i + 1]
<1> DEFINE upto(k) == [j \in 1 .. k |-> f[j]]
<1>1. \A j \in 1 .. n : f[j] \in Seq(S)
  OBVIOUS
<1>2. ASSUME NEW k \in 0 .. n PROVE upto(k) \in Seq(Seq(S)) /\ Len(upto(k)) = k
  <2>1. k \in Nat /\ \A j \in 1 .. k : j \in 1 .. n
    OBVIOUS
  <2>2. upto(k) \in [1 .. k -> Seq(S)]
    BY <2>1, <1>1
  <2>3. upto(k) \in Seq(Seq(S))
    BY <2>1, <2>2, SeqDef
  <2>4. Len(upto(k)) = k
    BY <2>1
  <2> QED
    BY <2>3, <2>4
<1>3. <<>> \in Seq(S)
  BY EmptySeq
<1>4. FlattenSeq(upto(0)) = <<>>
  <2>1. upto(0) = <<>>
    OBVIOUS
  <2>2. FlattenSeq(<<>>) = <<>>
    BY EmptySeq DEF FlattenSeq
  <2> QED
    BY <2>1, <2>2
<1>5. FlattenSeq(upto(i)) \in Seq(S)
  <2>1. upto(i) \in Seq(Seq(S))
    BY <1>2
  <2> HIDE DEF upto
  <2> QED
    BY <2>1, <1>3, Flattened
<1>6. ASSUME i < n PROVE FlattenSeq(upto(i + 1)) = FlattenSeq(upto(i)) \o f[i + 1]
  <2> DEFINE a == upto(i)
             b == upto(i + 1)
             e == f[i + 1]
             more == Append(a, e)
  <2>1. i + 1 \in 0 .. n /\ i + 1 \in 1 .. n /\ i \in Nat
    BY <1>6
  <2>2. /\ a \in Seq(Seq(S)) /\ Len(a) = i /\ b \in Seq(Seq(S)) /\ Len(b) = i + 1
        /\ e \in Seq(S)
    BY <2>1, <1>1, <1>2
  <2>3. \A j \in 1 .. i : a[j] = f[j]
    OBVIOUS
  <2>4. \A j \in 1 .. i + 1 : b[j] = f[j]
    OBVIOUS
  <2> HIDE DEF upto, a, b
  <2>5. /\ more \in Seq(Seq(S)) /\ Len(more) = i + 1
        /\ \A j \in 1 .. i : more[j] = a[j]
        /\ more[i + 1] = e
    <3> HIDE DEF e
    <3> QED
      BY <2>2, AppendProperties
  <2> HIDE DEF more
  <2>6. ASSUME NEW j \in 1 .. i + 1 PROVE b[j] = more[j]
    <3>1. CASE j \in 1 .. i
      BY <3>1, <2>3, <2>4, <2>5
    <3>2. CASE j = i + 1
      BY <3>2, <2>4, <2>5
    <3> QED
      BY <3>1, <3>2, <2>1
  <2>7. b = more
    BY <2>2, <2>5, <2>6, SeqEqual
  <2>8. FlattenSeq(more) = FlattenSeq(a) \o e
    <3> HIDE DEF e
    <3> QED
      BY <2>2, Flattened DEF more
  <2> QED
    BY <2>7, <2>8 DEF a, b
<1> QED
  BY <1>4, <1>5, <1>6 DEF Joined

(* One more entry of a project comes after those before it.                  *)
LEMMA EntriesGrow ==
  ASSUME NEW todo \in Todo, NEW p \in Projects, NEW i \in 0 .. Len(todo[p])
  PROVE  /\ EntriesTo(todo, p, i) \in Seq(Item)
         /\ EntriesTo(todo, p, 0) = <<>>
         /\ i < Len(todo[p]) =>
              /\ todo[p][i + 1] \in FoundEpisode
              /\ EntriesTo(todo, p, i + 1)
                   = EntriesTo(todo, p, i) \o EntryOf(p, todo[p][i + 1])
<1> DEFINE n == Len(todo[p])
           f == [j \in 1 .. n |-> EntryOf(p, todo[p][j])]
<1>1. todo[p] \in Seq(FoundEpisode) /\ n \in Nat /\ i \in 0 .. n /\ i \in Nat /\ 0 \in 0 .. n
  BY LenProperties DEF Todo
<1>2. \A j \in 1 .. n : todo[p][j] \in FoundEpisode
  BY <1>1, ElementOfSeq
<1>3. \A j \in 1 .. n : EntryOf(p, todo[p][j]) \in Seq(Item)
  BY <1>2, EntryLines
<1> HIDE DEF n
<1>4. f \in [1 .. n -> Seq(Item)]
  BY <1>3
<1>5. ASSUME NEW k \in 0 .. n
      PROVE  EntriesTo(todo, p, k) = Joined(f, k)
  <2>1. \A j \in 1 .. k : f[j] = EntryOf(p, todo[p][j])
    BY <1>1
  <2>2. [j \in 1 .. k |-> EntryOf(p, todo[p][j])] = [j \in 1 .. k |-> f[j]]
    <3> HIDE DEF f
    <3> QED
      BY <2>1
  <2> QED
    BY <2>2 DEF EntriesTo, Joined
<1>6. i < n => i + 1 \in 0 .. n /\ i + 1 \in 1 .. n
  BY <1>1
<1>7. i < n => f[i + 1] = EntryOf(p, todo[p][i + 1])
  BY <1>6
<1> HIDE DEF f
<1>8. /\ Joined(f, i) \in Seq(Item) /\ Joined(f, 0) = <<>>
      /\ i < n => Joined(f, i + 1) = Joined(f, i) \o f[i + 1]
  BY <1>1, <1>4, FlattenedTo
<1>9. EntriesTo(todo, p, i) \in Seq(Item) /\ EntriesTo(todo, p, 0) = <<>>
  BY <1>1, <1>5, <1>8
<1>10. ASSUME i < n
       PROVE  /\ todo[p][i + 1] \in FoundEpisode
              /\ EntriesTo(todo, p, i + 1) = EntriesTo(todo, p, i) \o EntryOf(p, todo[p][i + 1])
  BY <1>1, <1>2, <1>5, <1>6, <1>7, <1>8, <1>10
<1> QED
  BY <1>9, <1>10 DEF n

(* And one more project.                                                     *)
LEMMA ProjectsGrow ==
  ASSUME NEW todo \in Todo, NEW c \in 0 .. Len(IndexFiles)
  PROVE  /\ ProjectsTo(todo, c) \in Seq(Item)
         /\ ProjectsTo(todo, 0) = <<>>
         /\ c < Len(IndexFiles) =>
              ProjectsTo(todo, c + 1)
                = ProjectsTo(todo, c) \o EntriesTo(todo, c + 1, Len(todo[c + 1]))
<1> DEFINE n == Len(IndexFiles)
           entry(p) == EntriesTo(todo, p, Len(todo[p]))
           f == [p \in 1 .. n |-> entry(p)]
<1>1. n \in Nat /\ c \in 0 .. n /\ c \in Nat /\ Projects = 1 .. n /\ 0 \in 0 .. n
  BY ProjectsNumbered
<1>2. ASSUME NEW p \in 1 .. n PROVE entry(p) \in Seq(Item)
  <2>1. p \in Projects
    BY <1>1
  <2>2. todo[p] \in Seq(FoundEpisode)
    BY <2>1 DEF Todo
  <2>3. Len(todo[p]) \in 0 .. Len(todo[p])
    BY <2>2, LenProperties
  <2> QED
    BY <2>1, <2>3, EntriesGrow
<1> HIDE DEF entry, n
<1>4. f \in [1 .. n -> Seq(Item)]
  BY <1>2
<1>5. ASSUME NEW k \in 0 .. n PROVE ProjectsTo(todo, k) = Joined(f, k)
  <2>1. \A p \in 1 .. k : f[p] = entry(p)
    BY <1>1
  <2>2. [p \in 1 .. k |-> entry(p)] = [p \in 1 .. k |-> f[p]]
    <3> HIDE DEF f
    <3> QED
      BY <2>1
  <2> QED
    BY <2>2 DEF ProjectsTo, entry, Joined
<1>6. c < n => c + 1 \in 0 .. n /\ c + 1 \in 1 .. n
  BY <1>1
<1>7. c < n => f[c + 1] = entry(c + 1)
  BY <1>6
<1> HIDE DEF f
<1>8. /\ Joined(f, c) \in Seq(Item) /\ Joined(f, 0) = <<>>
      /\ c < n => Joined(f, c + 1) = Joined(f, c) \o f[c + 1]
  BY <1>1, <1>4, FlattenedTo
<1>9. ProjectsTo(todo, c) \in Seq(Item) /\ ProjectsTo(todo, 0) = <<>>
  BY <1>1, <1>5, <1>8
<1>10. ASSUME c < n
       PROVE  ProjectsTo(todo, c + 1) = ProjectsTo(todo, c) \o entry(c + 1)
  BY <1>1, <1>5, <1>6, <1>7, <1>8, <1>10
<1> QED
  BY <1>9, <1>10 DEF n, entry

(* The page while results are put into it.                                   *)
PageState ==
  [index : [Projects -> Nat], mark : Int, containers : Seq(Projects), hidden : SUBSET Projects,
   results : Seq(Item), items : Nat, stop : BOOLEAN, timers : Nat, live : BOOLEAN,
   rendering : BOOLEAN]

PageOf(ix, mk, ct, hd, rs, it, sp, tm, lv, rn) ==
  [index |-> ix, mark |-> mk, containers |-> ct, hidden |-> hd, results |-> rs, items |-> it,
   stop |-> sp, timers |-> tm, live |-> lv, rendering |-> rn]

(* What is there of project c.                                               *)
ShownOf(todo, st, c) ==
  IF c \notin Projects THEN <<>>
  ELSE IF st.mark = -1 THEN EntriesTo(todo, c, st.index[c])
  ELSE EntriesTo(todo, c, st.index[c])
         \o SubSeq(EntryOf(c, todo[c][st.index[c] + 1]), 1, st.mark + 1)

(* The page is filled up to somewhere in project c: it holds all there is of *)
(* the projects before, and nothing of those after.                          *)
AllBefore(todo, st, c) == \A q \in Projects : q < c => st.index[q] = Len(todo[q])
NoneAfter(st, c) == \A q \in Projects : q > c => st.index[q] = 0

FilledTo(todo, st, c) ==
  /\ c \in 1 .. Len(IndexFiles) + 1
  /\ AllBefore(todo, st, c) /\ NoneAfter(st, c)
  /\ c \in Projects => st.index[c] <= Len(todo[c])
  /\ st.mark # -1 => /\ c \in Projects /\ st.index[c] < Len(todo[c])
                     /\ st.mark \in 0 .. Len(todo[c][st.index[c] + 1].matches) - 1
  /\ c \in Projects /\ (st.mark # -1 \/ st.index[c] > 0) =>
       st.containers # <<>> /\ Last(st.containers) = c
  /\ st.results = ProjectsTo(todo, c - 1) \o ShownOf(todo, st, c)

(* With nothing of project c itself.                                         *)
LEMMA FilledBetween ==
  ASSUME NEW todo, NEW st, NEW c \in 1 .. Len(IndexFiles) + 1,
         AllBefore(todo, st, c), NoneAfter(st, c),
         c \in Projects => st.index[c] <= Len(todo[c]), ~(st.mark # -1),
         ~(c \in Projects /\ (st.mark # -1 \/ st.index[c] > 0)),
         st.results = ProjectsTo(todo, c - 1) \o ShownOf(todo, st, c)
  PROVE  FilledTo(todo, st, c)
BY Zenon DEF FilledTo

(* The containers of projects that are filtered out are hidden.              *)
HiddenOnes(st) == st.hidden = filteredOut \cap ToSet(st.containers)

(* The page's fields.                                                        *)
LEMMA PageFields ==
  /\ \A st \in PageState :
       /\ st = PageOf(st.index, st.mark, st.containers, st.hidden, st.results, st.items, st.stop,
                      st.timers, st.live, st.rendering)
       /\ st.index \in [Projects -> Nat] /\ st.mark \in Int /\ st.containers \in Seq(Projects)
       /\ st.hidden \in SUBSET Projects /\ st.results \in Seq(Item) /\ st.items \in Nat
       /\ st.stop \in BOOLEAN /\ st.timers \in Nat /\ st.live \in BOOLEAN /\ st.rendering \in BOOLEAN
  /\ \A ix \in [Projects -> Nat], mk \in Int, ct \in Seq(Projects), hd \in SUBSET Projects,
        rs \in Seq(Item), it \in Nat, sp \in BOOLEAN, tm \in Nat, lv \in BOOLEAN, rn \in BOOLEAN :
       PageOf(ix, mk, ct, hd, rs, it, sp, tm, lv, rn) \in PageState
  /\ \A ix, mk, ct, hd, rs, it, sp, tm, lv, rn :
       LET st == PageOf(ix, mk, ct, hd, rs, it, sp, tm, lv, rn)
       IN  /\ st.index = ix /\ st.mark = mk /\ st.containers = ct /\ st.hidden = hd
           /\ st.results = rs /\ st.items = it /\ st.stop = sp /\ st.timers = tm /\ st.live = lv
           /\ st.rendering = rn
BY DEF PageState, PageOf

(* A project's container is put after the others.                            *)
LEMMA OneContainer ==
  ASSUME NEW S, NEW s \in Seq(S), NEW e \in S
  PROVE  /\ Append(s, e) \in Seq(S) /\ Append(s, e) # <<>>
         /\ Last(Append(s, e)) = e
         /\ ToSet(Append(s, e)) = ToSet(s) \cup {e}
<1>1. Append(s, e) \in Seq(S) /\ Append(s, e) # <<>>
  BY AppendProperties
<1>2. Last(Append(s, e)) = e
  BY AppendProperties DEF Last
<1>3. /\ Len(s) \in Nat /\ DOMAIN s = 1 .. Len(s)
      /\ DOMAIN Append(s, e) = 1 .. Len(s) + 1
      /\ \A i \in 1 .. Len(s) : Append(s, e)[i] = s[i]
      /\ Append(s, e)[Len(s) + 1] = e
  OBVIOUS
<1>4. ToSet(Append(s, e)) = ToSet(s) \cup {e}
  <2> DEFINE n == Len(s)
             more == Append(s, e)
  <2>1. \A i \in 1 .. n + 1 : i \in 1 .. n \/ i = n + 1
    BY <1>3
  <2>2. \A i \in 1 .. n : i \in 1 .. n + 1
    BY <1>3
  <2>3. n + 1 \in 1 .. n + 1
    BY <1>3
  <2> HIDE DEF n, more
  <2>4. \A x : x \in ToSet(more) <=> \E i \in 1 .. n + 1 : x = more[i]
    BY <1>3 DEF ToSet, n, more
  <2>5. \A x : x \in ToSet(s) <=> \E i \in 1 .. n : x = s[i]
    BY <1>3 DEF ToSet, n
  <2>6. (\A i \in 1 .. n : more[i] = s[i]) /\ more[n + 1] = e
    BY <1>3 DEF n, more
  <2>7. \A x : x \in ToSet(more) <=> x \in ToSet(s) \/ x = e
    BY <2>1, <2>2, <2>3, <2>4, <2>5, <2>6
  <2> QED
    BY <2>7 DEF more
<1> QED
  BY <1>1, <1>2, <1>4

(* Where a heading or a marker is put is where it belongs.                   *)
LEMMA HeadingPlaced ==
  ASSUME NEW todo \in Todo, NEW p \in Projects, NEW k \in 0 .. Len(todo[p]) - 1, NEW before \in Seq(Item)
  PROVE  /\ Append(before \o EntriesTo(todo, p, k), <<p, todo[p][k + 1].name>>)
              = before \o (EntriesTo(todo, p, k) \o SubSeq(EntryOf(p, todo[p][k + 1]), 1, 1))
         /\ <<p, todo[p][k + 1].name>> \in Item
<1> DEFINE r == todo[p][k + 1]
           entries == EntriesTo(todo, p, k)
           head == <<p, r.name>>
<1>1. k \in 0 .. Len(todo[p]) /\ k < Len(todo[p])
  BY LenProperties DEF Todo
<1>2. entries \in Seq(Item) /\ r \in FoundEpisode
  BY <1>1, EntriesGrow
<1> HIDE DEF r, entries
<1>3. head \in Projects \X STRING /\ SubSeq(EntryOf(p, r), 1, 1) = <<head>>
  BY <1>2, EntryLines
<1>4. head \in Item
  BY <1>3 DEF Item
<1> HIDE DEF head
<1>5. before \o Append(entries, head) = Append(before \o entries, head)
  BY <1>2, <1>4, Appended
<1>6. Append(entries, head) = entries \o <<head>>
  BY <1>2, <1>4, AppendIsConcat
<1>7. Append(before \o entries, head) = before \o (entries \o SubSeq(EntryOf(p, r), 1, 1))
  BY <1>3, <1>5, <1>6
<1> QED
  BY <1>4, <1>7 DEF head, entries, r

(* A marker is put after those of its episode shown before.                  *)
LEMMA MarkerPlaced ==
  ASSUME NEW todo \in Todo, NEW p \in Projects, NEW k \in 0 .. Len(todo[p]) - 1, NEW before \in Seq(Item),
         NEW j \in 0 .. Len(todo[p][k + 1].matches) - 1
  PROVE  LET r == todo[p][k + 1]
             marker == <<p, r.name, r.matches[j + 1]>>
         IN  /\ Append(before \o (EntriesTo(todo, p, k) \o SubSeq(EntryOf(p, r), 1, j + 1)), marker)
                  = before \o (EntriesTo(todo, p, k) \o SubSeq(EntryOf(p, r), 1, j + 1 + 1))
             /\ marker \in Item
             /\ j + 1 = Len(r.matches) =>
                  EntriesTo(todo, p, k) \o SubSeq(EntryOf(p, r), 1, j + 1 + 1) = EntriesTo(todo, p, k + 1)
<1> DEFINE r == todo[p][k + 1]
           m == Len(r.matches)
           entries == EntriesTo(todo, p, k)
           entry == EntryOf(p, r)
           marker == <<p, r.name, r.matches[j + 1]>>
           i == j + 1
           part == SubSeq(entry, 1, i)
           all == SubSeq(entry, 1, i + 1)
<1>1. k \in 0 .. Len(todo[p]) /\ k < Len(todo[p])
  BY LenProperties DEF Todo
<1>2. entries \in Seq(Item) /\ r \in FoundEpisode
  BY <1>1, EntriesGrow
<1>3. EntriesTo(todo, p, k + 1) = entries \o entry
  BY <1>1, EntriesGrow
<1>4. /\ entry \in Seq(Item) /\ Len(entry) = m + 1 /\ m \in Nat \ {0}
      /\ \A x \in 1 .. m : entry[x + 1] = <<p, r.name, r.matches[x]>>
  <2> HIDE DEF r
  <2>1. r \in FoundEpisode
    BY <1>2
  <2>2. entry \in Seq(Item) /\ Len(entry) = m + 1 /\ m \in Nat \ {0}
    BY <2>1, EntryLines
  <2>3. \A x \in 1 .. m : entry[x + 1] = <<p, r.name, r.matches[x]>>
    BY <2>1, EntryLines
  <2> QED
    BY <2>2, <2>3
<1>5. j \in 0 .. m - 1
  OBVIOUS
<1> HIDE DEF r, m, entries, entry
<1>6. i \in 1 .. m /\ i \in 0 .. Len(entry) - 1
  BY <1>4, <1>5
<1>7. entry[i + 1] = marker
  BY <1>4, <1>6
<1> HIDE DEF marker, i
<1>8. part \in Seq(Item) /\ marker \in Item /\ all = Append(part, marker)
  BY <1>4, <1>6, <1>7, OneMore
<1>9. i = m => all = entry
  <2>1. i = m => i + 1 = Len(entry)
    BY <1>4
  <2> QED
    BY <2>1, <1>4, SubSeqFull
<1> HIDE DEF part, all
<1>10. entries \o part \in Seq(Item) /\ entries \o Append(part, marker) = Append(entries \o part, marker)
  <2>1. entries \o part \in Seq(Item)
    BY <1>2, <1>8, ConcatProperties
  <2> QED
    BY <2>1, <1>2, <1>8, Appended
<1>11. before \o Append(entries \o part, marker) = Append(before \o (entries \o part), marker)
  BY <1>8, <1>10, Appended
<1>12. Append(before \o (entries \o part), marker) = before \o (entries \o all)
  BY <1>8, <1>10, <1>11
<1>13. i = m => entries \o all = EntriesTo(todo, p, k + 1)
  BY <1>3, <1>9
<1> QED
  BY <1>8, <1>12, <1>13 DEF part, all, marker, i, entry, entries, m, r

(* A page that the loop may be at, with project p being filled.              *)
Filling(todo, st, p) ==
  st \in PageState /\ st.items <= MaxItems /\ FilledTo(todo, st, p) /\ HiddenOnes(st)

(* One item keeps the page so, and is one more unless there is no other.     *)
LEMMA HeadingShown ==
  ASSUME NEW todo \in Todo, NEW p \in Projects, NEW st, Filling(todo, st, p),
         st.items # MaxItems, st.index[p] # Len(todo[p]), st.mark = -1
  PROVE  LET new == RenderItem(todo, st, p)
         IN  /\ Filling(todo, new, p) /\ new.items = st.items + 1
             /\ new.timers = st.timers /\ new.index[p] <= Len(todo[p])
<1> DEFINE new == RenderItem(todo, st, p)
           k == st.index[p]
           n == Len(todo[p])
           r == todo[p][k + 1]
           opens == k = 0
           places == IF opens THEN Append(st.containers, p) ELSE st.containers
           hid == IF opens /\ p \in filteredOut THEN st.hidden \cup {p} ELSE st.hidden
           head == <<p, r.name>>
           before == ProjectsTo(todo, p - 1)
           shown == Append(st.results, head)
           page == PageOf(st.index, 0, places, hid, shown, st.items + 1, st.stop \/ opens,
                          st.timers, st.live, st.rendering)
<1>1. /\ st \in PageState /\ st.items <= MaxItems /\ FilledTo(todo, st, p) /\ HiddenOnes(st)
      /\ MaxItems \in Nat
  BY SearchAssumption DEF Filling
<1>2. /\ st = PageOf(st.index, st.mark, st.containers, st.hidden, st.results, st.items, st.stop,
                      st.timers, st.live, st.rendering)
      /\ st.index \in [Projects -> Nat] /\ st.mark \in Int /\ st.containers \in Seq(Projects)
      /\ st.hidden \in SUBSET Projects /\ st.results \in Seq(Item) /\ st.items \in Nat
      /\ st.stop \in BOOLEAN /\ st.timers \in Nat /\ st.live \in BOOLEAN /\ st.rendering \in BOOLEAN
  BY <1>1, PageFields
<1>3. /\ k \in Nat /\ k <= n /\ n \in Nat /\ k < n
      /\ p \in 1 .. Len(IndexFiles) + 1
      /\ AllBefore(todo, st, p) /\ NoneAfter(st, p)
      /\ k > 0 => st.containers # <<>> /\ Last(st.containers) = p
      /\ st.results = before \o EntriesTo(todo, p, k)
  <2>1. k \in Nat
    BY <1>2
  <2>2. n \in Nat
    BY LenProperties DEF Todo
  <2>3. k <= n
    BY <1>1 DEF FilledTo
  <2> QED
    BY <2>1, <2>2, <2>3, <1>1 DEF FilledTo, ShownOf
<1>4. places \in Seq(Projects) /\ places # <<>> /\ Last(places) = p
  <2>1. CASE opens
    BY <2>1, <1>2, OneContainer
  <2>2. CASE ~opens
    BY <2>2, <1>2, <1>3
  <2> QED
    BY <2>1, <2>2
<1>5. hid = filteredOut \cap ToSet(places) /\ hid \in SUBSET Projects
  <2>0. st.hidden = filteredOut \cap ToSet(st.containers)
    BY <1>1 DEF HiddenOnes
  <2>1. CASE opens
    <3>1. ToSet(places) = ToSet(st.containers) \cup {p}
      BY <2>1, <1>2, OneContainer
    <3> QED
      BY <2>0, <2>1, <3>1, <1>2
  <2>2. CASE ~opens
    BY <2>0, <2>2, <1>2
  <2> QED
    BY <2>1, <2>2
<1>6. new = page
  <2>1. /\ new = [st EXCEPT !.containers = places, !.hidden = hid,
                            !.results = Append(@, <<Last(places), r.name>>),
                            !.mark = 0, !.items = @ + 1, !.stop = @ \/ opens]
    BY <1>2, <1>3 DEF RenderItem
  <2> HIDE DEF places, hid, r, k
  <2>2. new = [st EXCEPT !.containers = places, !.hidden = hid, !.results = shown,
                         !.mark = 0, !.items = st.items + 1, !.stop = st.stop \/ opens]
    BY <2>1, <1>4
  <2> HIDE DEF shown, new, opens
  <2> QED
    BY <2>2, <1>2 DEF PageOf
<1>7. k \in 0 .. n - 1 /\ before \in Seq(Item)
  <2>1. p - 1 \in 0 .. Len(IndexFiles)
    BY ProjectsNumbered
  <2> QED
    BY <2>1, <1>3, ProjectsGrow
<1>8. /\ shown = before \o (EntriesTo(todo, p, k) \o SubSeq(EntryOf(p, r), 1, 1))
      /\ head \in Item
  <2>1. /\ Append(before \o EntriesTo(todo, p, k), head)
             = before \o (EntriesTo(todo, p, k) \o SubSeq(EntryOf(p, r), 1, 1))
        /\ head \in Item
    <3> HIDE DEF before
    <3> QED
      BY <1>7, HeadingPlaced
  <2> QED
    BY <2>1, <1>3
<1>9. shown \in Seq(Item)
  <2> HIDE DEF head
  <2> QED
    BY <1>2, <1>8, AppendProperties
<1>10. Len(r.matches) \in Nat \ {0}
  <2>1. r \in FoundEpisode
    <3>1. k \in 0 .. n /\ k < n
      BY <1>3
    <3> QED
      BY <3>1, EntriesGrow
  <2> HIDE DEF r
  <2> QED
    BY <2>1, EntryLines
<1> HIDE DEF hid, shown, places, before, head
<1>11. /\ page.index = st.index /\ page.mark = 0 /\ page.containers = places
       /\ page.hidden = hid /\ page.results = shown /\ page.items = st.items + 1
       /\ page.timers = st.timers
  BY PageFields
<1>12. page \in PageState
  <2>1. 0 \in Int /\ st.items + 1 \in Nat /\ (st.stop \/ opens) \in BOOLEAN
    BY <1>2
  <2> HIDE DEF opens
  <2> QED
    BY <2>1, <1>2, <1>4, <1>5, <1>9, PageFields
<1> HIDE DEF page
<1>13. AllBefore(todo, page, p) /\ NoneAfter(page, p)
  BY <1>3, <1>11 DEF AllBefore, NoneAfter
<1>14. ShownOf(todo, page, p) = EntriesTo(todo, p, k) \o SubSeq(EntryOf(p, r), 1, 1)
  BY <1>11 DEF ShownOf
<1>15. FilledTo(todo, page, p)
  <2>1. 0 \in 0 .. Len(todo[p][page.index[p] + 1].matches) - 1
    BY <1>10, <1>11
  <2>2. page.index[p] < Len(todo[p]) /\ page.index[p] <= Len(todo[p])
    BY <1>3, <1>11
  <2>3. page.results = ProjectsTo(todo, p - 1) \o ShownOf(todo, page, p)
    BY <1>8, <1>11, <1>14 DEF before
  <2>4. page.mark = 0 /\ page.containers # <<>> /\ Last(page.containers) = p
    BY <1>4, <1>11
  <2> QED
    BY <2>1, <2>2, <2>3, <2>4, <1>3, <1>13 DEF FilledTo
<1>16. HiddenOnes(page)
  BY <1>5, <1>11 DEF HiddenOnes
<1>17. page.items <= MaxItems
  BY <1>1, <1>2, <1>11
<1> QED
  BY <1>3, <1>6, <1>11, <1>12, <1>15, <1>16, <1>17 DEF Filling

(* A marker keeps the page so, the last one of an episode too.               *)
LEMMA MarkerShown ==
  ASSUME NEW todo \in Todo, NEW p \in Projects, NEW st, Filling(todo, st, p),
         st.items # MaxItems, st.index[p] # Len(todo[p]), st.mark # -1
  PROVE  LET new == RenderItem(todo, st, p)
         IN  /\ Filling(todo, new, p) /\ new.items = st.items + 1
             /\ new.timers = st.timers /\ new.index[p] <= Len(todo[p])
<1> DEFINE new == RenderItem(todo, st, p)
           k == st.index[p]
           n == Len(todo[p])
           r == todo[p][k + 1]
           j == st.mark
           ends == j + 1 = Len(r.matches)
           marker == <<p, r.name, r.matches[j + 1]>>
           before == ProjectsTo(todo, p - 1)
           entries == EntriesTo(todo, p, k)
           shown == Append(st.results, marker)
           index == IF ends THEN [st.index EXCEPT ![p] = k + 1] ELSE st.index
           mark == IF ends THEN -1 ELSE j + 1
           page == PageOf(index, mark, st.containers, st.hidden, shown, st.items + 1, st.stop,
                          st.timers, st.live, st.rendering)
<1>1. /\ st \in PageState /\ st.items <= MaxItems /\ FilledTo(todo, st, p) /\ HiddenOnes(st)
      /\ MaxItems \in Nat
  BY SearchAssumption DEF Filling
<1>2. /\ st = PageOf(st.index, st.mark, st.containers, st.hidden, st.results, st.items, st.stop,
                      st.timers, st.live, st.rendering)
      /\ st.index \in [Projects -> Nat] /\ st.mark \in Int /\ st.containers \in Seq(Projects)
      /\ st.hidden \in SUBSET Projects /\ st.results \in Seq(Item) /\ st.items \in Nat
      /\ st.stop \in BOOLEAN /\ st.timers \in Nat /\ st.live \in BOOLEAN /\ st.rendering \in BOOLEAN
  BY <1>1, PageFields
<1>3. /\ k \in Nat /\ n \in Nat /\ k < n
      /\ p \in 1 .. Len(IndexFiles) + 1
      /\ AllBefore(todo, st, p) /\ NoneAfter(st, p)
      /\ st.containers # <<>> /\ Last(st.containers) = p
      /\ j \in 0 .. Len(r.matches) - 1
      /\ st.results = before \o (entries \o SubSeq(EntryOf(p, r), 1, j + 1))
  <2>1. k \in Nat
    BY <1>2
  <2>2. n \in Nat
    BY LenProperties DEF Todo
  <2>3. k < n /\ j \in 0 .. Len(r.matches) - 1
    BY <1>1 DEF FilledTo
  <2> QED
    BY <2>1, <2>2, <2>3, <1>1 DEF FilledTo, ShownOf
<1>4. k \in 0 .. n - 1 /\ before \in Seq(Item) /\ Len(r.matches) \in Nat \ {0}
  <2>1. p - 1 \in 0 .. Len(IndexFiles)
    BY ProjectsNumbered
  <2>2. r \in FoundEpisode
    <3>1. k \in 0 .. n /\ k < n
      BY <1>3
    <3> QED
      BY <3>1, EntriesGrow
  <2>3. Len(r.matches) \in Nat \ {0}
    <3> HIDE DEF r
    <3> QED
      BY <2>2, EntryLines
  <2>4. before \in Seq(Item)
    BY <2>1, ProjectsGrow
  <2> HIDE DEF r, before, k, n
  <2>5. k \in 0 .. n - 1
    BY <1>3
  <2> QED
    BY <2>3, <2>4, <2>5
<1>5. /\ shown = before \o (entries \o SubSeq(EntryOf(p, r), 1, j + 1 + 1))
      /\ marker \in Item
      /\ ends => entries \o SubSeq(EntryOf(p, r), 1, j + 1 + 1) = EntriesTo(todo, p, k + 1)
  <2>1. /\ Append(before \o (entries \o SubSeq(EntryOf(p, r), 1, j + 1)), marker)
             = before \o (entries \o SubSeq(EntryOf(p, r), 1, j + 1 + 1))
        /\ marker \in Item
        /\ ends => entries \o SubSeq(EntryOf(p, r), 1, j + 1 + 1) = EntriesTo(todo, p, k + 1)
    <3>1. k \in 0 .. Len(todo[p]) - 1 /\ j \in 0 .. Len(todo[p][k + 1].matches) - 1 /\ before \in Seq(Item)
      BY <1>3, <1>4
    <3> HIDE DEF before, k, j, n
    <3>2. LET r1 == todo[p][k + 1]
              m1 == <<p, r1.name, r1.matches[j + 1]>>
          IN  /\ Append(before \o (EntriesTo(todo, p, k) \o SubSeq(EntryOf(p, r1), 1, j + 1)), m1)
                   = before \o (EntriesTo(todo, p, k) \o SubSeq(EntryOf(p, r1), 1, j + 1 + 1))
              /\ m1 \in Item
              /\ j + 1 = Len(r1.matches) =>
                   EntriesTo(todo, p, k) \o SubSeq(EntryOf(p, r1), 1, j + 1 + 1) = EntriesTo(todo, p, k + 1)
      BY <3>1, MarkerPlaced, Zenon
    <3> QED
      BY <3>2, Zenon
  <2> QED
    BY <2>1, <1>3
<1>6. shown \in Seq(Item)
  <2> HIDE DEF marker
  <2> QED
    BY <1>2, <1>5, AppendProperties
<1>7. new = page
  <2>1. new = [st EXCEPT !.results = Append(@, <<Last(st.containers), r.name, r.matches[st.mark + 1]>>),
                         !.mark = IF ends THEN -1 ELSE @ + 1,
                         !.index[p] = IF ends THEN @ + 1 ELSE @,
                         !.items = @ + 1]
    BY <1>2, <1>3 DEF RenderItem
  <2>2. [st.index EXCEPT ![p] = IF ends THEN k + 1 ELSE k] = index
    <3> HIDE DEF ends
    <3> QED
      BY <1>2
  <2> HIDE DEF r, ends, index
  <2>3. new = [st EXCEPT !.results = shown, !.mark = mark, !.index = index, !.items = st.items + 1]
    <3>1. st.index = [st.index EXCEPT ![p] = k]
      BY <1>2
    <3> QED
      BY <2>1, <2>2, <1>3, <1>2 DEF PageOf
  <2> HIDE DEF shown, new, mark
  <2> QED
    BY <2>3, <1>2 DEF PageOf
<1>8. /\ index \in [Projects -> Nat] /\ mark \in Int
      /\ \A q \in Projects : q # p => index[q] = st.index[q]
      /\ index[p] = IF ends THEN k + 1 ELSE k
  <2> HIDE DEF ends
  <2>1. k + 1 \in Nat /\ j + 1 \in Int
    <3>1. j \in Int /\ k \in Nat
      BY <1>2, <1>3
    <3> HIDE DEF j, k
    <3> QED
      BY <3>1
  <2> QED
    BY <2>1, <1>2
<1>9. (ends => mark = -1) /\ (~ends => mark = j + 1 /\ mark # -1 /\ mark \in 0 .. Len(r.matches) - 1)
  <2>1. j \in 0 .. Len(r.matches) - 1 /\ Len(r.matches) \in Nat \ {0}
    BY <1>3, <1>4
  <2> HIDE DEF j, r
  <2> QED
    BY <2>1
<1> HIDE DEF shown, before, marker, index, mark, entries
<1>10. /\ page.index = index /\ page.mark = mark /\ page.containers = st.containers
       /\ page.hidden = st.hidden /\ page.results = shown /\ page.items = st.items + 1
       /\ page.timers = st.timers
  BY PageFields
<1>11. page \in PageState
  <2>1. st.items + 1 \in Nat
    BY <1>2
  <2> QED
    BY <2>1, <1>2, <1>6, <1>8, PageFields
<1> HIDE DEF page
<1>12. AllBefore(todo, page, p) /\ NoneAfter(page, p)
  <2>1. \A q \in Projects : q < p => q # p
    BY ProjectsNumbered
  <2>2. \A q \in Projects : q > p => q # p
    BY ProjectsNumbered
  <2> QED
    BY <1>3, <1>8, <1>10, <2>1, <2>2 DEF AllBefore, NoneAfter
<1>13. page.index[p] <= n /\ page.containers # <<>> /\ Last(page.containers) = p
  <2> HIDE DEF ends, n, k
  <2> QED
    BY <1>3, <1>8, <1>10
<1>14. FilledTo(todo, page, p)
  <2>1. CASE ends
    <3>1. page.mark = -1 /\ page.index[p] = k + 1
      BY <2>1, <1>8, <1>9, <1>10
    <3>2. ShownOf(todo, page, p) = EntriesTo(todo, p, k + 1)
      BY <3>1 DEF ShownOf
    <3>3. page.results = ProjectsTo(todo, p - 1) \o ShownOf(todo, page, p)
      BY <2>1, <3>2, <1>5, <1>10 DEF before
    <3> QED
      BY <3>1, <3>3, <1>3, <1>12, <1>13 DEF FilledTo
  <2>2. CASE ~ends
    <3>1. page.mark = j + 1 /\ page.mark # -1 /\ page.index[p] = k
      BY <2>2, <1>8, <1>9, <1>10
    <3>2. ShownOf(todo, page, p) = entries \o SubSeq(EntryOf(p, r), 1, j + 1 + 1)
      BY <3>1 DEF ShownOf, entries
    <3>3. page.results = ProjectsTo(todo, p - 1) \o ShownOf(todo, page, p)
      BY <3>2, <1>5, <1>10 DEF before
    <3>4. page.mark \in 0 .. Len(todo[p][page.index[p] + 1].matches) - 1
      BY <3>1, <2>2, <1>9, <1>10
    <3>5. page.index[p] < Len(todo[p])
      BY <3>1, <1>3
    <3> QED
      BY <3>1, <3>3, <3>4, <3>5, <1>3, <1>12, <1>13 DEF FilledTo
  <2> QED
    BY <2>1, <2>2
<1>15. HiddenOnes(page)
  BY <1>1, <1>10 DEF HiddenOnes
<1>16. page.items <= MaxItems
  BY <1>1, <1>2, <1>10
<1> QED
  BY <1>7, <1>10, <1>11, <1>13, <1>14, <1>15, <1>16 DEF Filling

(* So does RenderItem, whatever it puts there, or nothing.                   *)
LEMMA OneItem ==
  ASSUME NEW todo \in Todo, NEW p \in Projects, NEW c, NEW st, Filling(todo, st, c),
         c = p \/ st.items = MaxItems
  PROVE  LET new == RenderItem(todo, st, p)
         IN  /\ Filling(todo, new, c) /\ new.timers = st.timers
             /\ \/ c = p /\ new.items = st.items + 1
                \/ new = st /\ (st.items = MaxItems \/ st.index[p] = Len(todo[p]))
<1>1. CASE st.items = MaxItems \/ st.index[p] = Len(todo[p])
  <2>1. RenderItem(todo, st, p) = st
    BY <1>1 DEF RenderItem
  <2> QED
    BY <1>1, <2>1
<1>2. CASE st.items # MaxItems /\ st.index[p] # Len(todo[p]) /\ st.mark = -1
  BY <1>2, HeadingShown
<1>3. CASE st.items # MaxItems /\ st.index[p] # Len(todo[p]) /\ st.mark # -1
  BY <1>3, MarkerShown
<1> QED
  BY <1>1, <1>2, <1>3

(* What a page holds does not depend on its timers.                          *)
LEMMA SamePage ==
  ASSUME NEW todo, NEW c, NEW st, Filling(todo, st, c), NEW new \in PageState,
         new.index = st.index, new.mark = st.mark, new.containers = st.containers,
         new.hidden = st.hidden, new.results = st.results, new.items = st.items
  PROVE  Filling(todo, new, c)
<1>1. FilledTo(todo, new, c)
  BY DEF Filling, FilledTo, AllBefore, NoneAfter, ShownOf
<1> QED
  BY <1>1 DEF Filling, HiddenOnes

(* Setting a timer, or ending the rendering, changes nothing shown.          *)
LEMMA TimerSet ==
  ASSUME NEW st \in PageState
  PROVE  LET new == [st EXCEPT !.timers = @ + 1, !.live = TRUE, !.rendering = TRUE]
         IN  /\ new.index = st.index /\ new.mark = st.mark /\ new.containers = st.containers
             /\ new.hidden = st.hidden /\ new.results = st.results /\ new.items = st.items
             /\ new.timers = st.timers + 1
             /\ new \in PageState
<1> DEFINE new == [st EXCEPT !.timers = @ + 1, !.live = TRUE, !.rendering = TRUE]
           tm == st.timers + 1
           With(t, lv, rn) == PageOf(st.index, st.mark, st.containers, st.hidden, st.results,
                                     st.items, st.stop, t, lv, rn)
<1>1. /\ st = With(st.timers, st.live, st.rendering)
      /\ st.index \in [Projects -> Nat] /\ st.mark \in Int /\ st.containers \in Seq(Projects)
      /\ st.hidden \in SUBSET Projects /\ st.results \in Seq(Item) /\ st.items \in Nat
      /\ st.stop \in BOOLEAN /\ st.timers \in Nat
  BY PageFields
<1>2. PICK yes \in BOOLEAN : yes = TRUE
  OBVIOUS
<1> DEFINE page == With(tm, yes, yes)
<1>3. tm \in Nat
  BY <1>1
<1>4. new = page
  <2> DEFINE r0 == With(st.timers, st.live, st.rendering)
             r1 == With(tm, st.live, st.rendering)
             r2 == With(tm, yes, st.rendering)
  <2>1. [r0 EXCEPT !.timers = tm] = r1
    <3> HIDE DEF tm
    <3> QED
      BY DEF PageOf
  <2>2. [r1 EXCEPT !.live = yes] = r2
    <3> HIDE DEF tm
    <3> QED
      BY DEF PageOf
  <2>3. [r2 EXCEPT !.rendering = yes] = page
    <3> HIDE DEF tm
    <3> QED
      BY DEF PageOf
  <2>4. new = [st EXCEPT !.timers = tm, !.live = TRUE, !.rendering = TRUE]
    OBVIOUS
  <2> HIDE DEF tm, new
  <2>5. new = [st EXCEPT !.timers = tm, !.live = yes, !.rendering = yes]
    BY <2>4, <1>2, Zenon
  <2>6. new = [[[st EXCEPT !.timers = tm] EXCEPT !.live = yes] EXCEPT !.rendering = yes]
    BY <2>5
  <2>7. st = r0
    BY <1>1
  <2> HIDE DEF r0, r1, r2, page
  <2> QED
    BY <2>1, <2>2, <2>3, <2>6, <2>7, Zenon
<1> HIDE DEF tm, new
<1>5. page \in PageState
  BY <1>1, <1>2, <1>3, PageFields
<1>6. /\ page.index = st.index /\ page.mark = st.mark /\ page.containers = st.containers
      /\ page.hidden = st.hidden /\ page.results = st.results /\ page.items = st.items
      /\ page.timers = tm
  BY DEF PageOf
<1> HIDE DEF page
<1> QED
  BY <1>4, <1>5, <1>6 DEF new, tm

(* The same when there is nothing to render in a project.                    *)
LEMMA RenderingEnds ==
  ASSUME NEW st \in PageState
  PROVE  LET new == [st EXCEPT !.rendering = FALSE]
         IN  /\ new.index = st.index /\ new.mark = st.mark /\ new.containers = st.containers
             /\ new.hidden = st.hidden /\ new.results = st.results /\ new.items = st.items
             /\ new.timers = st.timers /\ new.live = st.live /\ new.stop = st.stop
             /\ new \in PageState
<1> DEFINE new == [st EXCEPT !.rendering = FALSE]
           With(rn) == PageOf(st.index, st.mark, st.containers, st.hidden, st.results, st.items,
                              st.stop, st.timers, st.live, rn)
<1>1. /\ st = With(st.rendering)
      /\ st.index \in [Projects -> Nat] /\ st.mark \in Int /\ st.containers \in Seq(Projects)
      /\ st.hidden \in SUBSET Projects /\ st.results \in Seq(Item) /\ st.items \in Nat
      /\ st.stop \in BOOLEAN /\ st.timers \in Nat /\ st.live \in BOOLEAN
  BY PageFields
<1>2. PICK no \in BOOLEAN : no = FALSE
  OBVIOUS
<1> DEFINE page == With(no)
<1>3. new = page
  <2> DEFINE old == With(st.rendering)
  <2>1. [old EXCEPT !.rendering = no] = page
    BY DEF PageOf
  <2>2. new = [st EXCEPT !.rendering = no]
    BY <1>2, Zenon
  <2>3. st = old
    BY <1>1
  <2> HIDE DEF old, page, new
  <2> QED
    BY <2>1, <2>2, <2>3, Zenon
<1> HIDE DEF new
<1>4. page \in PageState
  BY <1>1, <1>2, PageFields
<1>5. /\ page.index = st.index /\ page.mark = st.mark /\ page.containers = st.containers
      /\ page.hidden = st.hidden /\ page.results = st.results /\ page.items = st.items
      /\ page.timers = st.timers /\ page.live = st.live /\ page.stop = st.stop
  BY DEF PageOf
<1> HIDE DEF page
<1> QED
  BY <1>3, <1>4, <1>5 DEF new

(* The inner loop ends with a full batch or with the project's end.          *)
LEMMA ProjectFilled ==
  ASSUME NEW todo \in Todo, NEW p \in Projects, NEW c, NEW st, Filling(todo, st, c),
         c = p \/ st.items = MaxItems, st.index[p] < Len(todo[p]), ~st.stop
  PROVE  LET new == RenderProject(todo, st, p)
         IN  /\ Filling(todo, new, c) /\ new.timers = st.timers + 1
             /\ new.items = MaxItems \/ (c = p /\ new.index[p] = Len(todo[p]))
<1> DEFINE n == MaxItems
           Fits(s) == Filling(todo, s, c) /\ (c = p \/ s.items = MaxItems) /\ s.timers = st.timers
           X == {s \in PageState : Fits(s)}
           turn == [i \in 1 .. n |-> [s \in X |-> RenderItem(todo, s, p)]]
           Is(g) == g = [i \in 0 .. n |-> IF i = 0 THEN st ELSE RenderItem(todo, g[i - 1], p)]
           Ended(s) == s.items = MaxItems \/ s.index[p] = Len(todo[p])
<1>1. n \in Nat /\ st \in X
  BY SearchAssumption DEF Filling
<1>2. ASSUME NEW s \in X
      PROVE  /\ RenderItem(todo, s, p) \in X
             /\ \/ RenderItem(todo, s, p).items = s.items + 1
                \/ RenderItem(todo, s, p) = s /\ Ended(s)
  <2>1. Filling(todo, s, c) /\ (c = p \/ s.items = MaxItems) /\ s.timers = st.timers
    OBVIOUS
  <2> DEFINE new == RenderItem(todo, s, p)
  <2>2. /\ Filling(todo, new, c) /\ new.timers = s.timers
        /\ \/ c = p /\ new.items = s.items + 1
           \/ new = s /\ (s.items = MaxItems \/ s.index[p] = Len(todo[p]))
    BY <2>1, OneItem
  <2>3. new \in PageState
    BY <2>2 DEF Filling
  <2> HIDE DEF new
  <2> QED
    BY <2>1, <2>2, <2>3 DEF new
<1>3. IsLoop(turn, n, X)
  <2>1. \A i \in 1 .. n, s \in X : RenderItem(todo, s, p) \in X
    BY <1>2
  <2> HIDE DEF n, X
  <2> QED
    BY <2>1 DEF IsLoop
<1>4. PICK f : Runs(f, turn, n, X, st)
  <2> HIDE DEF n, turn, X
  <2> QED
    BY <1>1, <1>3, Loop, Zenon
<1>5. f \in [0 .. n -> X] /\ f[0] = st /\ \A i \in 1 .. n : f[i] = turn[i][f[i - 1]]
  BY <1>4 DEF Runs
<1>6. ASSUME NEW i \in 1 .. n PROVE f[i - 1] \in X /\ f[i] = RenderItem(todo, f[i - 1], p)
  <2> HIDE DEF X
  <2>1. f[i - 1] \in X
    BY <1>1, <1>5
  <2> HIDE DEF n
  <2> QED
    BY <1>5, <2>1
<1>7. Is(f)
  <2>1. \A i \in 0 .. n : f[i] = IF i = 0 THEN st ELSE RenderItem(todo, f[i - 1], p)
    <3> TAKE i \in 0 .. n
    <3>1. CASE i = 0
      BY <3>1, <1>5
    <3>2. CASE i # 0
      <4>1. i \in 1 .. n
        BY <3>2, <1>1
      <4> QED
        BY <4>1, <3>2, <1>6
    <3> QED
      BY <3>1, <3>2
  <2> HIDE DEF n, X
  <2> QED
    BY <2>1, <1>5
<1> DEFINE filled == CHOOSE h : Is(h)
           end == filled[n]
           new == [end EXCEPT !.timers = @ + 1, !.live = TRUE, !.rendering = TRUE]
<1>8. Is(filled)
  BY <1>7
<1>9. RenderProject(todo, st, p) = new
  BY DEF RenderProject
<1> HIDE DEF filled
<1>10. \A i \in 0 .. n : filled[i] = IF i = 0 THEN st ELSE RenderItem(todo, filled[i - 1], p)
  <2> HIDE DEF n
  <2> QED
    BY <1>8
<1> DEFINE G == {i \in Nat : filled[i] \in X /\ (filled[i].items >= i \/ Ended(filled[i]))}
<1>11. 0 \in G
  <2>1. filled[0] = st
    BY <1>1, <1>10
  <2>2. st.items \in Nat
    BY PageFields DEF Filling
  <2>3. st.items >= 0
    BY <2>2
  <2> HIDE DEF X
  <2> QED
    BY <1>1, <2>1, <2>3
<1>12. ASSUME NEW i \in 0 .. n - 1, i \in G PROVE i + 1 \in G
  <2>1. i + 1 \in 1 .. n /\ i + 1 \in 0 .. n /\ i + 1 # 0 /\ i + 1 - 1 = i /\ i + 1 \in Nat /\ i \in Nat
    BY <1>1
  <2>2. filled[i + 1] = RenderItem(todo, filled[i], p)
    BY <2>1, <1>10
  <2>3. filled[i] \in X /\ (filled[i].items >= i \/ Ended(filled[i]))
    BY <1>12
  <2>4. filled[i].items \in Nat
    BY <2>3, PageFields
  <2> HIDE DEF X, Ended
  <2>5. /\ filled[i + 1] \in X
        /\ \/ filled[i + 1].items = filled[i].items + 1
           \/ filled[i + 1] = filled[i] /\ Ended(filled[i])
    BY <1>2, <2>2, <2>3
  <2>6. CASE filled[i + 1] = filled[i] /\ Ended(filled[i])
    <3>1. Ended(filled[i + 1])
      BY <2>6
    <3> QED
      BY <2>1, <2>5, <3>1
  <2>7. CASE filled[i + 1].items = filled[i].items + 1 /\ filled[i].items >= i
    <3>1. filled[i + 1].items >= i + 1
      BY <2>1, <2>4, <2>7
    <3> QED
      BY <2>1, <2>5, <3>1
  <2>8. CASE filled[i + 1].items = filled[i].items + 1 /\ Ended(filled[i])
    <3>1. filled[i].items # MaxItems
      <4>1. filled[i + 1] \in PageState /\ Filling(todo, filled[i + 1], c)
        BY <2>5 DEF X
      <4>2. filled[i + 1].items <= MaxItems /\ MaxItems \in Nat
        BY <4>1, <1>1 DEF Filling
      <4> QED
        BY <4>2, <2>4, <2>8
    <3>2. filled[i].index[p] = Len(todo[p])
      BY <3>1, <2>8 DEF Ended
    <3>3. filled[i + 1] = filled[i]
      BY <2>2, <3>2 DEF RenderItem
    <3> QED
      BY <3>3, <2>4, <2>8
  <2> QED
    BY <2>3, <2>5, <2>6, <2>7, <2>8
<1>13. n \in G
  <2> HIDE DEF n, G
  <2>1. \A i \in 0 .. n : i \in G
    BY <1>1, <1>11, <1>12, UpTo
  <2> QED
    BY <2>1, <1>1
<1>14. end \in X /\ Ended(end)
  <2>1. end \in X /\ (end.items >= n \/ Ended(end))
    <3> HIDE DEF X, Ended
    <3> QED
      BY <1>13
  <2>2. end.items <= MaxItems /\ end.items \in Nat
    BY <2>1, PageFields DEF Filling
  <2> HIDE DEF end, X
  <2> QED
    BY <2>1, <2>2, <1>1
<1>15. Filling(todo, end, c) /\ end \in PageState /\ end.timers = st.timers
  BY <1>14
<1>18. end.items = MaxItems \/ (c = p /\ end.index[p] = Len(todo[p]))
  <2> HIDE DEF end
  <2> QED
    BY <1>14
<1> HIDE DEF end, X, n, turn
<1>16. /\ new.index = end.index /\ new.mark = end.mark /\ new.containers = end.containers
       /\ new.hidden = end.hidden /\ new.results = end.results /\ new.items = end.items
       /\ new.timers = end.timers + 1
       /\ new \in PageState
  BY <1>15, TimerSet
<1> HIDE DEF new
<1>17. Filling(todo, new, c)
  BY <1>15, <1>16, SamePage
<1> QED
  BY <1>9, <1>18, <1>15, <1>16, <1>17

(* A project that is all there is as good as the next one begun.             *)
LEMMA NextProject ==
  ASSUME NEW todo \in Todo, NEW p \in Projects, NEW st, Filling(todo, st, p),
         st.index[p] = Len(todo[p])
  PROVE  Filling(todo, st, p + 1)
<1> DEFINE n == Len(IndexFiles)
           before == ProjectsTo(todo, p - 1)
           theirs == EntriesTo(todo, p, Len(todo[p]))
<1>1. /\ n \in Nat /\ Projects = 1 .. n /\ p \in 1 .. n /\ p - 1 \in 0 .. n /\ p - 1 < n
      /\ p - 1 + 1 = p /\ p \in 0 .. n /\ p + 1 \in 1 .. n + 1 /\ (p + 1) - 1 = p
  BY ProjectsNumbered
<1>2. Len(todo[p]) \in Nat /\ todo[p] \in Seq(FoundEpisode)
  BY LenProperties DEF Todo
<1>3. FilledTo(todo, st, p) /\ st \in PageState
  BY DEF Filling
<1>4. st.mark = -1
  BY <1>2, <1>3 DEF FilledTo
<1>5. AllBefore(todo, st, p + 1)
  <2>1. \A q \in Projects : q < p + 1 => q < p \/ q = p
    BY <1>1
  <2> QED
    BY <2>1, <1>3 DEF FilledTo, AllBefore
<1>6. NoneAfter(st, p + 1) /\ (p + 1 \in Projects => st.index[p + 1] = 0)
  <2>1. \A q \in Projects : q > p + 1 => q > p
    BY <1>1
  <2>2. p + 1 > p
    BY <1>1
  <2> QED
    BY <2>1, <2>2, <1>3 DEF FilledTo, NoneAfter
<1>7. ShownOf(todo, st, p + 1) = <<>>
  <2>1. CASE p + 1 \in Projects
    <3>1. 0 \in 0 .. Len(todo[p + 1])
      <4>1. todo[p + 1] \in Seq(FoundEpisode)
        BY <2>1 DEF Todo
      <4> QED
        BY <4>1, LenProperties
    <3>2. EntriesTo(todo, p + 1, 0) = <<>>
      BY <2>1, <3>1, EntriesGrow
    <3> QED
      BY <2>1, <3>2, <1>4, <1>6 DEF ShownOf
  <2>2. CASE p + 1 \notin Projects
    BY <2>2 DEF ShownOf
  <2> QED
    BY <2>1, <2>2
<1>8. ShownOf(todo, st, p) = theirs
  BY <1>4 DEF ShownOf
<1>9. st.results = before \o theirs
  BY <1>3, <1>8 DEF FilledTo
<1>10. ProjectsTo(todo, p) = before \o theirs
  <2>1. ProjectsTo(todo, p - 1 + 1) = before \o EntriesTo(todo, p - 1 + 1, Len(todo[p - 1 + 1]))
    BY <1>1, ProjectsGrow
  <2> QED
    BY <2>1, <1>1
<1>11. st.results = ProjectsTo(todo, (p + 1) - 1) \o ShownOf(todo, st, p + 1)
  <2>1. ProjectsTo(todo, p) \in Seq(Item)
    BY <1>1, ProjectsGrow
  <2>2. ProjectsTo(todo, p) \o <<>> = ProjectsTo(todo, p)
    BY <2>1, ConcatEmptySeq
  <2> QED
    BY <2>2, <1>1, <1>7, <1>9, <1>10
<1>12. p + 1 \in Projects => st.index[p + 1] <= Len(todo[p + 1]) /\ ~(st.index[p + 1] > 0)
  <2>1. ASSUME p + 1 \in Projects PROVE Len(todo[p + 1]) \in Nat
    <3>1. todo[p + 1] \in Seq(FoundEpisode)
      BY <2>1 DEF Todo
    <3> QED
      BY <3>1, LenProperties
  <2> QED
    BY <2>1, <1>6
<1> DEFINE c == p + 1
<1>13. FilledTo(todo, st, c)
  <2>1. c \in 1 .. Len(IndexFiles) + 1
    BY <1>1
  <2>2. AllBefore(todo, st, c) /\ NoneAfter(st, c)
    BY <1>5, <1>6
  <2>3. c \in Projects => st.index[c] <= Len(todo[c]) /\ ~(st.index[c] > 0)
    BY <1>12
  <2>4. st.results = ProjectsTo(todo, c - 1) \o ShownOf(todo, st, c)
    BY <1>11
  <2> HIDE DEF c
  <2>5. ~(c \in Projects /\ (st.mark # -1 \/ st.index[c] > 0))
    BY <1>4, <2>3
  <2> QED
    BY <1>4, <2>1, <2>2, <2>3, <2>4, <2>5, FilledBetween
<1> QED
  BY <1>13 DEF Filling

(* Before the outer loop takes project p: unless the batch is full or the    *)
(* loop was ended, all there is of the projects before p is on the page; and *)
(* then only may there be no timer.                                          *)
Rendering(todo, st, p) ==
  /\ \E c \in 1 .. Len(IndexFiles) + 1 :
       Filling(todo, st, c) /\ (~st.stop /\ st.items # MaxItems => c >= p)
  /\ st.live => st.timers >= 1
  /\ st.timers = 0 => ~st.stop /\ st.items # MaxItems

(* What Rendering needs, with its place named.                               *)
LEMMA RenderingWith ==
  ASSUME NEW todo, NEW st, NEW p, NEW c \in 1 .. Len(IndexFiles) + 1, Filling(todo, st, c),
         ~st.stop /\ st.items # MaxItems => c >= p, st.live => st.timers >= 1,
         st.timers = 0 => ~st.stop /\ st.items # MaxItems
  PROVE  Rendering(todo, st, p)
BY DEF Rendering

(* One turn of the outer loop leaves the page so for the next one.           *)
LEMMA ProjectRendered ==
  ASSUME NEW todo \in Todo, NEW p \in Projects, NEW st, Rendering(todo, st, p)
  PROVE  Rendering(todo, RenderProject(todo, st, p), p + 1)
<1> DEFINE n == Len(IndexFiles)
           new == RenderProject(todo, st, p)
<1> SUFFICES Rendering(todo, new, p + 1)
  OBVIOUS
<1>1. PICK c \in 1 .. n + 1 : Filling(todo, st, c) /\ (~st.stop /\ st.items # MaxItems => c >= p)
  BY DEF Rendering
<1>2. /\ n \in Nat /\ Projects = 1 .. n /\ p \in 1 .. n /\ c \in Nat /\ p \in Nat
      /\ MaxItems \in Nat
  BY ProjectsNumbered, SearchAssumption
<1>3. /\ st \in PageState /\ FilledTo(todo, st, c) /\ st.timers \in Nat /\ st.stop \in BOOLEAN
      /\ st.index \in [Projects -> Nat] /\ st.items \in Nat
  BY <1>1, PageFields DEF Filling
<1>4. /\ (st.live => st.timers >= 1) /\ (st.timers = 0 => ~st.stop /\ st.items # MaxItems)
  BY DEF Rendering
<1>5. Len(todo[p]) \in Nat
  <2>1. todo[p] \in Seq(FoundEpisode)
    BY DEF Todo
  <2> QED
    BY <2>1, LenProperties
<1>6. CASE st.stop
  <2>1. new = st
    BY <1>6 DEF RenderProject
  <2> QED
    BY <2>1, <1>1, <1>4, <1>6 DEF Rendering
<1>7. CASE ~st.stop /\ st.index[p] < Len(todo[p])
  <2>1. c = p \/ st.items = MaxItems
    <3>1. ASSUME st.items # MaxItems PROVE c = p
      <4>1. c >= p
        BY <1>1, <1>7, <3>1
      <4>2. ~(p < c)
        BY <1>3, <1>5, <1>7 DEF FilledTo, AllBefore
      <4> QED
        BY <4>1, <4>2, <1>2
    <3> QED
      BY <3>1
  <2>2. /\ Filling(todo, new, c) /\ new.timers = st.timers + 1
        /\ new.items = MaxItems \/ (c = p /\ new.index[p] = Len(todo[p]))
    <3>1. Filling(todo, st, c) /\ st.index[p] < Len(todo[p]) /\ ~st.stop
      BY <1>1, <1>7
    <3> QED
      BY <2>1, <3>1, ProjectFilled
  <2> HIDE DEF new
  <2>3. (new.live => new.timers >= 1) /\ new.timers # 0
    BY <2>2, <1>3
  <2>4. CASE new.items = MaxItems
    BY <2>2, <2>3, <2>4, <1>2, RenderingWith
  <2>5. CASE c = p /\ new.index[p] = Len(todo[p])
    <3>1. Filling(todo, new, p + 1)
      BY <2>2, <2>5, NextProject
    <3>2. p + 1 \in 1 .. n + 1 /\ p + 1 >= p + 1
      BY <1>2
    <3> QED
      BY <3>1, <3>2, <2>3, RenderingWith
  <2> QED
    BY <2>2, <2>4, <2>5 DEF new
<1>8. CASE ~st.stop /\ ~(st.index[p] < Len(todo[p]))
  <2>1. new = [st EXCEPT !.rendering = FALSE]
    BY <1>8 DEF RenderProject
  <2>2. /\ new.index = st.index /\ new.mark = st.mark /\ new.containers = st.containers
        /\ new.hidden = st.hidden /\ new.results = st.results /\ new.items = st.items
        /\ new.timers = st.timers /\ new.live = st.live /\ new.stop = st.stop
        /\ new \in PageState
    <3> HIDE DEF new
    <3> QED
      BY <2>1, <1>3, RenderingEnds
  <2> HIDE DEF new
  <2>3. Filling(todo, new, c)
    BY <2>2, <1>1, SamePage
  <2>4. /\ new.live => new.timers >= 1
        /\ new.timers = 0 => ~new.stop /\ new.items # MaxItems
    BY <2>2, <1>4
  <2>5. CASE new.items = MaxItems \/ c > p
    <3>1. ~new.stop /\ new.items # MaxItems => c >= p + 1
      BY <2>5, <1>2
    <3> QED
      BY <3>1, <2>3, <2>4, RenderingWith
  <2>6. CASE c = p
    <3>1. new.index[p] = Len(todo[p])
      <4>1. st.index[p] <= Len(todo[p])
        BY <2>6, <1>3 DEF FilledTo
      <4> QED
        BY <4>1, <2>2, <1>3, <1>5, <1>8
    <3>2. Filling(todo, new, p + 1)
      BY <2>3, <2>6, <3>1, NextProject
    <3>3. p + 1 \in 1 .. n + 1 /\ p + 1 >= p + 1
      BY <1>2
    <3> QED
      BY <3>2, <3>3, <2>4, RenderingWith
  <2>7. new.items = MaxItems \/ c > p \/ c = p
    BY <2>2, <1>1, <1>2, <1>8
  <2> QED
    BY <2>5, <2>6, <2>7 DEF new
<1> QED
  BY <1>6, <1>7, <1>8, <1>3

(* The outer loop goes over all the projects.                                *)
LEMMA AllRendered ==
  ASSUME NEW todo \in Todo, NEW st, Rendering(todo, st, 1)
  PROVE  Rendering(todo, RenderProjects(todo, st), Len(IndexFiles) + 1)
<1> DEFINE n == Len(IndexFiles)
           turn == [p \in 1 .. n |->
                      [s \in PageState |-> IF Rendering(todo, s, p) THEN RenderProject(todo, s, p) ELSE s]]
           Is(g) == g = [p \in 0 .. n |-> IF p = 0 THEN st ELSE RenderProject(todo, g[p - 1], p)]
<1>1. n \in Nat /\ Projects = 1 .. n
  BY ProjectsNumbered
<1>2. \A s, p : Rendering(todo, s, p) => s \in PageState
  BY DEF Rendering, Filling
<1>3. IsLoop(turn, n, PageState)
  <2>1. \A p \in 1 .. n, s \in PageState : turn[p][s] \in PageState
    <3> TAKE p \in 1 .. n, s \in PageState
    <3>1. CASE Rendering(todo, s, p)
      <4>1. Rendering(todo, RenderProject(todo, s, p), p + 1)
        BY <3>1, <1>1, ProjectRendered
      <4> QED
        BY <4>1, <3>1, <1>2
    <3>2. CASE ~Rendering(todo, s, p)
      BY <3>2
    <3> QED
      BY <3>1, <3>2
  <2> HIDE DEF n
  <2> QED
    BY <2>1 DEF IsLoop
<1>4. st \in PageState
  BY <1>2
<1>5. PICK f : Runs(f, turn, n, PageState, st)
  <2> HIDE DEF n, turn
  <2> QED
    BY <1>1, <1>3, <1>4, Loop, Zenon
<1>6. f \in [0 .. n -> PageState] /\ f[0] = st /\ \A p \in 1 .. n : f[p] = turn[p][f[p - 1]]
  BY <1>5 DEF Runs
<1> DEFINE G == {p \in Nat : Rendering(todo, f[p], p + 1)}
<1>7. 0 \in G
  <2>1. Rendering(todo, f[0], 0 + 1)
    BY <1>6
  <2> QED
    BY <2>1
<1>8. ASSUME NEW p \in 0 .. n - 1, p \in G
      PROVE  p + 1 \in G /\ f[p + 1] = RenderProject(todo, f[p], p + 1)
  <2>1. p + 1 \in 1 .. n /\ p + 1 - 1 = p /\ p \in 0 .. n /\ p + 1 \in Nat /\ p + 1 \in Projects
    BY <1>1
  <2>2. Rendering(todo, f[p], p + 1)
    BY <1>8
  <2>3. f[p] \in PageState
    BY <2>2, <1>2
  <2>4. f[p + 1] = turn[p + 1][f[p + 1 - 1]]
    BY <2>1, <1>6
  <2>5. f[p + 1] = RenderProject(todo, f[p], p + 1)
    <3>1. f[p + 1] = turn[p + 1][f[p]]
      BY <2>1, <2>4
    <3> HIDE DEF n
    <3> QED
      BY <3>1, <2>1, <2>2, <2>3
  <2>6. Rendering(todo, f[p + 1], p + 1 + 1)
    BY <2>1, <2>2, <2>5, ProjectRendered
  <2> QED
    BY <2>1, <2>5, <2>6
<1>9. \A p \in 0 .. n : p \in G
  <2> HIDE DEF n, G
  <2> QED
    BY <1>1, <1>7, <1>8, UpTo
<1>10. Is(f)
  <2>1. \A p \in 0 .. n : f[p] = IF p = 0 THEN st ELSE RenderProject(todo, f[p - 1], p)
    <3> TAKE p \in 0 .. n
    <3>1. CASE p = 0
      BY <3>1, <1>6
    <3>2. CASE p # 0
      <4>1. p - 1 \in 0 .. n - 1 /\ p - 1 + 1 = p /\ p - 1 \in 0 .. n
        BY <3>2, <1>1
      <4>2. p - 1 \in G
        BY <4>1, <1>9
      <4> HIDE DEF G, n
      <4>3. f[p - 1 + 1] = RenderProject(todo, f[p - 1], p - 1 + 1)
        BY <4>1, <4>2, <1>8
      <4> QED
        BY <4>1, <4>3, <3>2
    <3> QED
      BY <3>1, <3>2
  <2> HIDE DEF n
  <2> QED
    BY <2>1, <1>6
<1> DEFINE rendered == CHOOSE g : Is(g)
<1>11. Is(rendered)
  BY <1>10
<1>12. RenderProjects(todo, st) = rendered[n]
  BY DEF RenderProjects
<1> HIDE DEF rendered
<1>13. \A p \in 0 .. n : rendered[p] = IF p = 0 THEN st ELSE RenderProject(todo, rendered[p - 1], p)
  <2> HIDE DEF n
  <2> QED
    BY <1>11
<1>14. \A p \in 0 .. n : f[p] = IF p = 0 THEN st ELSE RenderProject(todo, f[p - 1], p)
  <2> HIDE DEF n
  <2> QED
    BY <1>10
<1> DEFINE H == {p \in Nat : rendered[p] = f[p]}
<1>15. 0 \in H
  <2>1. 0 \in 0 .. n
    BY <1>1
  <2> QED
    BY <2>1, <1>13, <1>14
<1>16. ASSUME NEW p \in 0 .. n - 1, p \in H PROVE p + 1 \in H
  <2>1. p + 1 \in 0 .. n /\ p + 1 # 0 /\ p + 1 - 1 = p /\ p + 1 \in Nat
    BY <1>1
  <2>2. rendered[p + 1] = RenderProject(todo, rendered[p], p + 1)
    BY <2>1, <1>13
  <2>3. f[p + 1] = RenderProject(todo, f[p], p + 1)
    BY <2>1, <1>14
  <2> QED
    BY <2>1, <2>2, <2>3, <1>16
<1>17. n \in G /\ n \in H
  <2>1. n \in 0 .. n
    BY <1>1
  <2>2. \A p \in 0 .. n : p \in H
    <3> HIDE DEF n, H
    <3> QED
      BY <1>1, <1>15, <1>16, UpTo
  <2> HIDE DEF G, H
  <2> QED
    BY <2>1, <2>2, <1>9
<1> QED
  BY <1>12, <1>17

(* One list of items begins another.                                         *)
Begins(s, t) == \E u \in Seq(Item) : t = s \o u

(* Begins is reflexive and transitive, and goes under a list put before.     *)
LEMMA BeginsOf ==
  ASSUME NEW s \in Seq(Item)
  PROVE  /\ Begins(s, s)
         /\ \A t \in Seq(Item) : Begins(s, s \o t)
         /\ \A t \in Seq(Item), v \in Seq(Item) :
              /\ Begins(s, t) /\ Begins(t, v) => Begins(s, v)
              /\ Begins(t, v) => Begins(s \o t, s \o v)
<1>1. Begins(s, s)
  <2>1. <<>> \in Seq(Item) /\ s = s \o <<>>
    BY ConcatEmptySeq
  <2> QED
    BY <2>1 DEF Begins
<1>2. \A t \in Seq(Item) : Begins(s, s \o t)
  BY DEF Begins
<1>3. ASSUME NEW t \in Seq(Item), NEW v \in Seq(Item), Begins(s, t), Begins(t, v) PROVE Begins(s, v)
  <2>1. PICK a \in Seq(Item) : t = s \o a
    BY <1>3 DEF Begins
  <2>2. PICK b \in Seq(Item) : v = t \o b
    BY <1>3 DEF Begins
  <2>3. v = s \o (a \o b)
    <3>1. (s \o a) \o b = s \o (a \o b)
      BY ConcatAssociative
    <3> QED
      BY <2>1, <2>2, <3>1
  <2>4. a \o b \in Seq(Item)
    BY ConcatProperties
  <2> QED
    BY <2>3, <2>4 DEF Begins
<1>4. ASSUME NEW t \in Seq(Item), NEW v \in Seq(Item), Begins(t, v) PROVE Begins(s \o t, s \o v)
  <2>1. PICK a \in Seq(Item) : v = t \o a
    BY <1>4 DEF Begins
  <2>2. (s \o t) \o a = s \o (t \o a)
    BY ConcatAssociative
  <2> QED
    BY <2>1, <2>2 DEF Begins
<1> QED
  BY <1>1, <1>2, <1>3, <1>4

(* A list that begins another is a prefix of it.                             *)
LEMMA BeginsIsPrefix ==
  ASSUME NEW s \in Seq(Item), NEW t \in Seq(Item), Begins(s, t)
  PROVE  IsPrefix(s, t)
<1>1. PICK u \in Seq(Item) : t = s \o u
  BY DEF Begins
<1>2. /\ Len(s) \in Nat /\ Len(u) \in Nat /\ Len(t) = Len(s) + Len(u)
      /\ \A i \in 1 .. Len(s) + Len(u) : t[i] = IF i <= Len(s) THEN s[i] ELSE u[i - Len(s)]
  BY <1>1, ConcatProperties
<1>3. Len(s) <= Len(t)
  BY <1>2
<1>4. \A i \in 1 .. Len(s) : t[i] = s[i]
  BY <1>2
<1>5. SubSeq(s, 1, Len(s)) = SubSeq(t, 1, Len(s))
  <2>1. Len(s) <= Len(t) /\ Len(s) \in Nat /\ Len(t) \in Nat
    BY <1>2, <1>3
  <2> HIDE <1>1
  <2> QED
    BY <1>4, <2>1
<1> QED
  BY <1>3, <1>5 DEF IsPrefix

(* The first part of a list begins it.                                       *)
LEMMA FirstOfSeq ==
  ASSUME NEW s \in Seq(Item), NEW k \in 0 .. Len(s)
  PROVE  SubSeq(s, 1, k) \in Seq(Item) /\ Begins(SubSeq(s, 1, k), s)
<1> DEFINE a == SubSeq(s, 1, k)
           b == SubSeq(s, k + 1, Len(s))
<1>1. Len(s) \in Nat
  OBVIOUS
<1>2. a \o b = SubSeq(s, 1, Len(s))
  <2>1. 1 \in 1 .. Len(s) + 1 /\ k \in 1 - 1 .. Len(s) /\ Len(s) \in k .. Len(s)
    BY <1>1
  <2> QED
    BY <2>1, ConcatAdjacentSubSeq
<1>3. SubSeq(s, 1, Len(s)) = s
  BY SubSeqFull
<1>4. a \in Seq(Item)
  <2>1. 1 \in Int /\ k \in Int /\ \A i \in 1 .. k : s[i] \in Item
    BY <1>1
  <2> QED
    BY <2>1, SubSeqProperties
<1>5. b \in Seq(Item)
  <2>1. k + 1 \in Int /\ Len(s) \in Int /\ \A i \in k + 1 .. Len(s) : s[i] \in Item
    BY <1>1
  <2> QED
    BY <2>1, SubSeqProperties
<1> HIDE DEF a, b
<1>6. s = a \o b
  BY <1>2, <1>3
<1> QED
  BY <1>4, <1>5, <1>6 DEF Begins, a

(* The entries of some episodes of a project begin those of all of them, and *)
(* the same holds of projects.                                               *)
LEMMA EntriesBegin ==
  ASSUME NEW todo \in Todo, NEW p \in Projects, NEW i \in 0 .. Len(todo[p])
  PROVE  Begins(EntriesTo(todo, p, i), EntriesTo(todo, p, Len(todo[p])))
<1> DEFINE n == Len(todo[p])
           G == {k \in Nat : k >= i => Begins(EntriesTo(todo, p, i), EntriesTo(todo, p, k))}
<1>1. n \in Nat
  BY LenProperties DEF Todo
<1>2. \A k \in 0 .. n : EntriesTo(todo, p, k) \in Seq(Item)
  BY EntriesGrow
<1>3. Begins(EntriesTo(todo, p, i), EntriesTo(todo, p, i))
  BY <1>2, BeginsOf
<1>4. 0 \in G
  <2>1. 0 >= i => i = 0
    BY <1>1
  <2> QED
    BY <2>1, <1>3
<1>5. ASSUME NEW k \in 0 .. n - 1, k \in G PROVE k + 1 \in G
  <2>1. k \in 0 .. n /\ k + 1 \in 0 .. n /\ k < n /\ k + 1 \in Nat
    BY <1>1
  <2>2. /\ EntriesTo(todo, p, k + 1) = EntriesTo(todo, p, k) \o EntryOf(p, todo[p][k + 1])
        /\ todo[p][k + 1] \in FoundEpisode
    BY <2>1, EntriesGrow
  <2>3. EntryOf(p, todo[p][k + 1]) \in Seq(Item)
    BY <2>2, EntryLines
  <2>4. Begins(EntriesTo(todo, p, k), EntriesTo(todo, p, k + 1))
    <3>1. EntriesTo(todo, p, k) \in Seq(Item)
      BY <2>1, <1>2
    <3> HIDE DEF n
    <3> QED
      BY <2>2, <2>3 DEF Begins
  <2>5. CASE k >= i
    <3>1. Begins(EntriesTo(todo, p, i), EntriesTo(todo, p, k))
      BY <2>5, <1>5
    <3>2. /\ EntriesTo(todo, p, i) \in Seq(Item) /\ EntriesTo(todo, p, k) \in Seq(Item)
          /\ EntriesTo(todo, p, k + 1) \in Seq(Item)
      BY <2>1, <1>2
    <3>3. Begins(EntriesTo(todo, p, i), EntriesTo(todo, p, k + 1))
      BY <3>1, <3>2, <2>4, BeginsOf
    <3> QED
      BY <3>3, <2>1
  <2>6. CASE ~(k >= i)
    <3>1. k + 1 >= i => k + 1 = i
      BY <2>6, <1>1
    <3> QED
      BY <3>1, <1>3, <2>1
  <2> QED
    BY <2>5, <2>6
<1>6. n \in G
  <2>1. \A k \in 0 .. n : k \in G
    <3> HIDE DEF n, G
    <3> QED
      BY <1>1, <1>4, <1>5, UpTo
  <2> HIDE DEF n
  <2> QED
    BY <2>1, <1>1
<1>7. n >= i
  BY <1>1
<1> QED
  BY <1>6, <1>7

(* The entries of the first projects begin those of all.                     *)
LEMMA ProjectsBegin ==
  ASSUME NEW todo \in Todo, NEW c \in 0 .. Len(IndexFiles)
  PROVE  Begins(ProjectsTo(todo, c), ProjectsTo(todo, Len(IndexFiles)))
<1> DEFINE n == Len(IndexFiles)
           G == {k \in Nat : k >= c => Begins(ProjectsTo(todo, c), ProjectsTo(todo, k))}
<1>1. n \in Nat /\ Projects = 1 .. n
  BY ProjectsNumbered
<1>2. \A k \in 0 .. n : ProjectsTo(todo, k) \in Seq(Item)
  BY ProjectsGrow
<1>3. Begins(ProjectsTo(todo, c), ProjectsTo(todo, c))
  BY <1>2, BeginsOf
<1>4. 0 \in G
  <2>1. 0 >= c => c = 0
    BY <1>1
  <2> QED
    BY <2>1, <1>3
<1>5. ASSUME NEW k \in 0 .. n - 1, k \in G PROVE k + 1 \in G
  <2>1. k \in 0 .. n /\ k + 1 \in 0 .. n /\ k < n /\ k + 1 \in Nat /\ k + 1 \in Projects
    BY <1>1
  <2>2. ProjectsTo(todo, k + 1) = ProjectsTo(todo, k) \o EntriesTo(todo, k + 1, Len(todo[k + 1]))
    BY <2>1, ProjectsGrow
  <2>3. EntriesTo(todo, k + 1, Len(todo[k + 1])) \in Seq(Item)
    <3>1. Len(todo[k + 1]) \in 0 .. Len(todo[k + 1])
      <4>1. todo[k + 1] \in Seq(FoundEpisode)
        BY <2>1 DEF Todo
      <4> QED
        BY <4>1, LenProperties
    <3> QED
      BY <3>1, <2>1, EntriesGrow
  <2>4. Begins(ProjectsTo(todo, k), ProjectsTo(todo, k + 1))
    <3>1. ProjectsTo(todo, k) \in Seq(Item)
      BY <2>1, <1>2
    <3> HIDE DEF n
    <3> QED
      BY <2>2, <2>3 DEF Begins
  <2>5. CASE k >= c
    <3>1. Begins(ProjectsTo(todo, c), ProjectsTo(todo, k))
      BY <2>5, <1>5
    <3>2. /\ ProjectsTo(todo, c) \in Seq(Item) /\ ProjectsTo(todo, k) \in Seq(Item)
          /\ ProjectsTo(todo, k + 1) \in Seq(Item)
      BY <2>1, <1>2
    <3>3. Begins(ProjectsTo(todo, c), ProjectsTo(todo, k + 1))
      BY <3>1, <3>2, <2>4, BeginsOf
    <3> QED
      BY <3>3, <2>1
  <2>6. CASE ~(k >= c)
    <3>1. k + 1 >= c => k + 1 = c
      BY <2>6, <1>1
    <3> QED
      BY <3>1, <1>3, <2>1
  <2> QED
    BY <2>5, <2>6
<1>6. n \in G
  <2>1. \A k \in 0 .. n : k \in G
    <3> HIDE DEF n, G
    <3> QED
      BY <1>1, <1>4, <1>5, UpTo
  <2> HIDE DEF n
  <2> QED
    BY <2>1, <1>1
<1>7. n >= c
  BY <1>1
<1> QED
  BY <1>6, <1>7

(* What a page shows begins what there is to show; and if it has gone past   *)
(* the last project, it shows all of it.                                     *)
LEMMA ShownBegins ==
  ASSUME NEW todo \in Todo, NEW st \in PageState, NEW c, FilledTo(todo, st, c)
  PROVE  /\ Begins(st.results, ProjectsTo(todo, Len(IndexFiles)))
         /\ c = Len(IndexFiles) + 1 => st.results = ProjectsTo(todo, Len(IndexFiles))
<1> DEFINE n == Len(IndexFiles)
<1>1. n \in Nat /\ Projects = 1 .. n /\ c \in 1 .. n + 1 /\ c - 1 \in 0 .. n
  BY ProjectsNumbered DEF FilledTo
<1>2. ProjectsTo(todo, c - 1) \in Seq(Item) /\ ProjectsTo(todo, n) \in Seq(Item)
  <2>1. n \in 0 .. n
    BY <1>1
  <2> QED
    BY <2>1, <1>1, ProjectsGrow
<1>3. st.results = ProjectsTo(todo, c - 1) \o ShownOf(todo, st, c)
  BY DEF FilledTo
<1>4. CASE c \notin Projects
  <2>1. c = n + 1 /\ c - 1 = n
    BY <1>1, <1>4
  <2>2. st.results = ProjectsTo(todo, n)
    <3>1. ShownOf(todo, st, c) = <<>>
      BY <1>4 DEF ShownOf
    <3> QED
      BY <3>1, <2>1, <1>2, <1>3, ConcatEmptySeq
  <2>3. Begins(ProjectsTo(todo, n), ProjectsTo(todo, n))
    BY <1>2, BeginsOf
  <2> QED
    BY <2>2, <2>3
<1>5. CASE c \in Projects
  <2> DEFINE k == st.index[c]
             m == Len(todo[c])
             before == ProjectsTo(todo, c - 1)
             shown == ShownOf(todo, st, c)
             theirs == EntriesTo(todo, c, m)
  <2>1. c # n + 1 /\ c - 1 < n /\ c - 1 + 1 = c /\ c \in 0 .. n
    BY <1>1, <1>5
  <2>2. /\ k \in Nat /\ m \in Nat /\ k <= m
        /\ st.mark # -1 => k < m /\ st.mark \in 0 .. Len(todo[c][k + 1].matches) - 1
    <3>1. k \in Nat
      BY <1>5, PageFields
    <3>2. m \in Nat
      <4>1. todo[c] \in Seq(FoundEpisode)
        BY <1>5 DEF Todo
      <4> QED
        BY <4>1, LenProperties
    <3> QED
      BY <3>1, <3>2, <1>5 DEF FilledTo
  <2>3. k \in 0 .. m /\ m \in 0 .. m
    BY <2>2
  <2>4. /\ EntriesTo(todo, c, k) \in Seq(Item) /\ theirs \in Seq(Item)
        /\ Begins(EntriesTo(todo, c, k), theirs)
    BY <2>3, <1>5, EntriesGrow, EntriesBegin
  <2>5. shown \in Seq(Item) /\ Begins(shown, theirs)
    <3>1. CASE st.mark = -1
      <4>1. shown = EntriesTo(todo, c, k)
        BY <3>1, <1>5 DEF ShownOf
      <4> HIDE DEF shown
      <4> QED
        BY <4>1, <2>4
    <3>2. CASE st.mark # -1
      <4> DEFINE r == todo[c][k + 1]
                 entry == EntryOf(c, r)
                 j == st.mark + 1
                 part == SubSeq(entry, 1, j)
      <4>1. k < m /\ k + 1 \in 0 .. m /\ st.mark \in 0 .. Len(r.matches) - 1
        BY <3>2, <2>2
      <4>2. /\ r \in FoundEpisode
            /\ EntriesTo(todo, c, k + 1) = EntriesTo(todo, c, k) \o entry
        BY <4>1, <2>3, <1>5, EntriesGrow
      <4>3. Len(entry) = Len(r.matches) + 1 /\ Len(r.matches) \in Nat /\ entry \in Seq(Item)
        <5> HIDE DEF r
        <5> QED
          BY <4>2, <1>5, EntryLines
      <4>4. j \in 0 .. Len(entry)
        <5> HIDE DEF entry, r
        <5> QED
          BY <4>1, <4>3
      <4>5. part \in Seq(Item) /\ Begins(part, entry)
        <5> HIDE DEF entry, j
        <5> QED
          BY <4>3, <4>4, FirstOfSeq
      <4>6. shown = EntriesTo(todo, c, k) \o part
        BY <3>2, <1>5 DEF ShownOf
      <4>7. /\ EntriesTo(todo, c, k + 1) \in Seq(Item)
            /\ Begins(EntriesTo(todo, c, k + 1), theirs)
        BY <4>1, <1>5, EntriesGrow, EntriesBegin
      <4> HIDE DEF shown, part, entry, theirs, m, k
      <4>8. Begins(shown, EntriesTo(todo, c, k + 1))
        <5> DEFINE some == EntriesTo(todo, c, k)
        <5>1. some \in Seq(Item)
          BY <2>4
        <5> HIDE DEF some
        <5>2. Begins(some \o part, some \o entry)
          BY <4>3, <4>5, <5>1, BeginsOf
        <5> QED
          BY <4>2, <4>6, <5>2 DEF some
      <4>9. shown \in Seq(Item)
        BY <4>5, <4>6, <2>4, ConcatProperties
      <4> QED
        BY <4>7, <4>8, <4>9, <2>4, BeginsOf
    <3> QED
      BY <3>1, <3>2
  <2>6. ProjectsTo(todo, c) = before \o theirs
    <3>1. ProjectsTo(todo, c - 1 + 1) = before \o EntriesTo(todo, c - 1 + 1, Len(todo[c - 1 + 1]))
      BY <1>1, <2>1, ProjectsGrow
    <3> QED
      BY <3>1, <2>1
  <2>7. ProjectsTo(todo, c) \in Seq(Item) /\ Begins(ProjectsTo(todo, c), ProjectsTo(todo, n))
    BY <2>1, ProjectsGrow, ProjectsBegin
  <2> HIDE DEF shown, theirs, before
  <2>8. before \in Seq(Item) /\ st.results = before \o shown
    BY <1>2, <1>3 DEF before, shown
  <2>9. Begins(st.results, ProjectsTo(todo, c)) /\ st.results \in Seq(Item)
    BY <2>4, <2>5, <2>6, <2>8, BeginsOf, ConcatProperties
  <2>10. Begins(st.results, ProjectsTo(todo, n))
    <3> HIDE DEF n
    <3> QED
      BY <2>7, <2>9, <1>2, BeginsOf
  <2> QED
    BY <2>1, <2>10
<1> QED
  BY <1>4, <1>5

(* How many headings of episodes there are in a list of items.               *)
Headings(s) == Len(Pushed(s, Projects \X STRING))

(* Two lists have the headings of both.                                      *)
LEMMA HeadingsAdd ==
  ASSUME NEW s \in Seq(Item), NEW t \in Seq(Item)
  PROVE  Headings(s) \in Nat /\ Headings(s \o t) = Headings(s) + Headings(t)
<1> DEFINE S == Projects \X STRING
<1> HIDE DEF S
<1>1. Pushed(s \o t, S) = Pushed(s, S) \o Pushed(t, S)
  BY PushedBoth
<1>2. Pushed(s, S) \in Seq(Item \cap S) /\ Pushed(t, S) \in Seq(Item \cap S)
  BY PushedIn
<1>3. Len(Pushed(s, S) \o Pushed(t, S)) = Len(Pushed(s, S)) + Len(Pushed(t, S))
  BY <1>2, ConcatProperties
<1>4. Len(Pushed(s, S)) \in Nat
  BY <1>2, LenProperties
<1> QED
  BY <1>1, <1>3, <1>4 DEF Headings, S

(* An episode has one heading; its markers are none.                         *)
LEMMA OneHeading ==
  ASSUME NEW p \in Projects, NEW r \in FoundEpisode
  PROVE  Headings(EntryOf(p, r)) = 1
<1> DEFINE S == Projects \X STRING
           T == Projects \X STRING \X STRING
           head == <<p, r.name>>
           line(k) == <<p, r.name, r.matches[k]>>
           lines == [k \in DOMAIN r.matches |-> line(k)]
<1>1. /\ head \in S
      /\ p \in Projects /\ r.name \in STRING
      /\ r.matches \in Seq(STRING)
  BY EntryLines DEF FoundEpisode
<1>2. lines \in Seq(T)
  <2> DEFINE n == Len(r.matches)
  <2>1. n \in Nat /\ DOMAIN r.matches = 1 .. n
    BY <1>1
  <2>2. \A k \in 1 .. n : line(k) \in T
    BY <1>1
  <2> HIDE DEF n, line, T
  <2>3. lines \in [1 .. n -> T]
    BY <2>1, <2>2
  <2> HIDE DEF lines
  <2> QED
    BY <2>1, <2>3, SeqDef
<1>3. Pushed(lines, S) = <<>>
  <2>1. T \cap S = {}
    OBVIOUS
  <2>2. Pushed(lines, S) \in Seq(T \cap S)
    <3> HIDE DEF lines, T, S
    <3> QED
      BY <1>2, PushedIn
  <2>3. Pushed(lines, S) \in Seq({})
    <3> HIDE DEF lines, S, T
    <3> QED
      BY <2>1, <2>2
  <2> HIDE DEF lines, S, T
  <2> QED
    BY <2>3
<1>4. S \subseteq Item /\ T \subseteq Item
  BY DEF Item
<1> HIDE DEF S, T, head, lines
<1>5. head \in Item /\ <<>> \in Seq(Item) /\ lines \in Seq(Item)
  BY <1>1, <1>2, <1>4
<1>6. Append(<<>>, head) = <<head>> /\ <<head>> \in Seq(Item)
  BY <1>5
<1>7. Pushed(<<head>>, S) = <<head>>
  <2>1. /\ Pushed(Append(<<>>, head), S) = IF head \in S THEN Append(Pushed(<<>>, S), head) ELSE Pushed(<<>>, S)
        /\ Pushed(<<>>, S) = <<>>
    BY <1>5, PushedOne, PushedNone
  <2> QED
    BY <2>1, <1>1, <1>6
<1>8. Pushed(<<head>> \o lines, S) = <<head>> \o <<>>
  <2>1. Pushed(<<head>> \o lines, S) = Pushed(<<head>>, S) \o Pushed(lines, S)
    <3> DEFINE heads == <<head>>
    <3>1. heads \in Seq(Item)
      BY <1>6
    <3> HIDE DEF heads
    <3>2. Pushed(heads \o lines, S) = Pushed(heads, S) \o Pushed(lines, S)
      BY <3>1, <1>5, PushedBoth
    <3> QED
      BY <3>2 DEF heads
  <2> QED
    BY <2>1, <1>3, <1>7
<1>9. <<head>> \o <<>> = <<head>> /\ Len(<<head>>) = 1
  BY <1>6, ConcatEmptySeq
<1>10. EntryOf(p, r) = <<head>> \o lines
  BY DEF EntryOf, head, lines
<1> QED
  BY <1>8, <1>9, <1>10 DEF Headings, S

(* A project has as many headings as episodes.                               *)
LEMMA EntriesHeaded ==
  ASSUME NEW todo \in Todo, NEW p \in Projects
  PROVE  /\ Headings(EntriesTo(todo, p, Len(todo[p]))) = Len(todo[p])
         /\ Len(todo[p]) \in Nat /\ EntriesTo(todo, p, Len(todo[p])) \in Seq(Item)
<1> DEFINE n == Len(todo[p])
           G == {k \in Nat : Headings(EntriesTo(todo, p, k)) = k}
<1>1. n \in Nat
  BY LenProperties DEF Todo
<1>2. \A k \in 0 .. n : EntriesTo(todo, p, k) \in Seq(Item)
  BY EntriesGrow
<1>3. 0 \in G
  <2>1. EntriesTo(todo, p, 0) = <<>>
    <3>1. 0 \in 0 .. n
      BY <1>1
    <3> QED
      BY <3>1, EntriesGrow
  <2>2. Pushed(<<>>, Projects \X STRING) = <<>>
    BY PushedNone
  <2> QED
    BY <2>1, <2>2 DEF Headings
<1>4. ASSUME NEW k \in 0 .. n - 1, k \in G PROVE k + 1 \in G
  <2>1. k \in 0 .. n /\ k < n /\ k + 1 \in Nat
    BY <1>1
  <2>2. /\ EntriesTo(todo, p, k + 1) = EntriesTo(todo, p, k) \o EntryOf(p, todo[p][k + 1])
        /\ todo[p][k + 1] \in FoundEpisode
    BY <2>1, EntriesGrow
  <2> DEFINE r == todo[p][k + 1]
  <2> HIDE DEF r
  <2>3. EntryOf(p, r) \in Seq(Item) /\ Headings(EntryOf(p, r)) = 1
    BY <2>2, EntryLines, OneHeading DEF r
  <2>4. Headings(EntriesTo(todo, p, k) \o EntryOf(p, r)) = Headings(EntriesTo(todo, p, k)) + Headings(EntryOf(p, r))
    <3>1. EntriesTo(todo, p, k) \in Seq(Item)
      BY <2>1, <1>2
    <3> QED
      BY <3>1, <2>3, HeadingsAdd
  <2> QED
    BY <2>1, <2>2, <2>3, <2>4, <1>4 DEF r
<1>5. n \in G
  <2>1. \A k \in 0 .. n : k \in G
    <3> HIDE DEF n, G
    <3> QED
      BY <1>1, <1>3, <1>4, UpTo
  <2> HIDE DEF n
  <2> QED
    BY <2>1, <1>1
<1>6. n \in 0 .. n
  BY <1>1
<1> QED
  BY <1>1, <1>2, <1>5, <1>6

(* The summary counts the headings of what there is to show.                 *)
LEMMA EpisodesHeaded ==
  ASSUME NEW todo \in Todo
  PROVE  Headings(ProjectsTo(todo, Len(IndexFiles))) = Episodes(todo)
<1> DEFINE n == Len(IndexFiles)
           f == [p \in 0 .. n |-> Headings(ProjectsTo(todo, p))]
           Is(g) == g = [p \in 0 .. n |-> IF p = 0 THEN 0 ELSE g[p - 1] + Len(todo[p])]
<1>1. n \in Nat /\ Projects = 1 .. n
  BY ProjectsNumbered
<1>2. f[0] = 0
  <2>1. 0 \in 0 .. n
    BY <1>1
  <2>2. ProjectsTo(todo, 0) = <<>>
    BY <2>1, ProjectsGrow
  <2>3. Pushed(<<>>, Projects \X STRING) = <<>>
    BY PushedNone
  <2> QED
    BY <2>1, <2>2, <2>3 DEF Headings
<1>3. ASSUME NEW p \in 0 .. n - 1 PROVE f[p + 1] = f[p] + Len(todo[p + 1])
  <2>1. p \in 0 .. n /\ p + 1 \in 0 .. n /\ p < n /\ p + 1 \in Projects
    BY <1>1
  <2>2. /\ ProjectsTo(todo, p + 1) = ProjectsTo(todo, p) \o EntriesTo(todo, p + 1, Len(todo[p + 1]))
        /\ ProjectsTo(todo, p) \in Seq(Item)
    BY <2>1, ProjectsGrow
  <2>3. /\ Headings(EntriesTo(todo, p + 1, Len(todo[p + 1]))) = Len(todo[p + 1])
        /\ EntriesTo(todo, p + 1, Len(todo[p + 1])) \in Seq(Item)
    BY <2>1, EntriesHeaded
  <2>4. Headings(ProjectsTo(todo, p + 1)) = Headings(ProjectsTo(todo, p)) + Len(todo[p + 1])
    BY <2>2, <2>3, HeadingsAdd
  <2> HIDE DEF n
  <2> QED
    BY <2>1, <2>4
<1>4. Is(f)
  <2>1. \A p \in 0 .. n : f[p] = IF p = 0 THEN 0 ELSE f[p - 1] + Len(todo[p])
    <3> TAKE p \in 0 .. n
    <3>1. CASE p = 0
      BY <3>1, <1>2
    <3>2. CASE p # 0
      <4>1. p - 1 \in 0 .. n - 1 /\ p - 1 + 1 = p
        BY <3>2, <1>1
      <4> HIDE DEF f, n
      <4>2. f[p - 1 + 1] = f[p - 1] + Len(todo[p - 1 + 1])
        BY <4>1, <1>3
      <4> QED
        BY <4>1, <4>2, <3>2
    <3> QED
      BY <3>1, <3>2
  <2> DEFINE value(p) == Headings(ProjectsTo(todo, p))
  <2>2. f = [p \in 0 .. n |-> value(p)]
    OBVIOUS
  <2> HIDE DEF f, n, value
  <2> QED
    BY <2>1, <2>2
<1> DEFINE sum == CHOOSE g : Is(g)
<1> HIDE DEF f
<1>5. Is(sum)
  BY <1>4
<1>6. Episodes(todo) = sum[n]
  BY DEF Episodes
<1> HIDE DEF sum
<1>7. \A p \in 0 .. n : sum[p] = IF p = 0 THEN 0 ELSE sum[p - 1] + Len(todo[p])
  <2> HIDE DEF n
  <2> QED
    BY <1>5
<1>8. \A p \in 0 .. n : f[p] = IF p = 0 THEN 0 ELSE f[p - 1] + Len(todo[p])
  <2> HIDE DEF n
  <2> QED
    BY <1>4
<1> DEFINE H == {p \in Nat : sum[p] = f[p]}
<1>9. 0 \in H
  <2>1. 0 \in 0 .. n
    BY <1>1
  <2> QED
    BY <2>1, <1>7, <1>8
<1>10. ASSUME NEW p \in 0 .. n - 1, p \in H PROVE p + 1 \in H
  <2>1. p + 1 \in 0 .. n /\ p + 1 # 0 /\ p + 1 - 1 = p /\ p + 1 \in Nat
    BY <1>1
  <2>2. sum[p + 1] = sum[p] + Len(todo[p + 1]) /\ f[p + 1] = f[p] + Len(todo[p + 1])
    BY <2>1, <1>7, <1>8
  <2> QED
    BY <2>1, <2>2, <1>10
<1>11. n \in H
  <2>1. \A p \in 0 .. n : p \in H
    <3> HIDE DEF n, H
    <3> QED
      BY <1>1, <1>9, <1>10, UpTo
  <2> HIDE DEF n, H
  <2> QED
    BY <2>1, <1>1
<1>12. f[n] = Headings(ProjectsTo(todo, n))
  <2>1. n \in 0 .. n
    BY <1>1
  <2> HIDE DEF n
  <2> QED
    BY <2>1 DEF f
<1> QED
  BY <1>6, <1>11, <1>12

(* The items are filled up to a place whatever the rest of the page is.      *)
LEMMA FilledSame ==
  ASSUME NEW todo, NEW c, NEW st, FilledTo(todo, st, c), NEW new,
         new.index = st.index, new.mark = st.mark, new.containers = st.containers,
         new.results = st.results
  PROVE  FilledTo(todo, new, c)
BY DEF FilledTo, AllBefore, NoneAfter, ShownOf

(* The page, and where it is filled up to: everywhere if no timer is left.   *)
PageNow == Page(FALSE, timers, handleLive)

PageTypeOK ==
  /\ resultsIndex \in [Projects -> Nat] /\ resultsMarkerIndex \in Int
  /\ containers \in Seq(Projects) /\ hiddenContainers \in SUBSET Projects
  /\ results \in Seq(Item) /\ rendering \in BOOLEAN /\ timers \in Nat /\ handleLive \in BOOLEAN

PageFilled ==
  \E c \in 1 .. Len(IndexFiles) + 1 :
    FilledTo(resultsToRender, PageNow, c) /\ (timers = 0 => c = Len(IndexFiles) + 1)

PageInv ==
  /\ PageTypeOK /\ PageFilled
  /\ hiddenContainers = filteredOut \cap ToSet(containers)
  /\ handleLive => timers >= 1

SearchTypeOK ==
  /\ episodes \in [Projects -> Seq(Parsed)] /\ indexSortChronological \in BOOLEAN

SearchInv ==
  /\ SearchTypeOK /\ PageInv
  /\ queryBox = lastQuery /\ off = filteredOut
  /\ resultsToRender = SearchResults(lastQuery, episodes, indexSortChronological)
  /\ queryBox \notin BadQueries => found = Episodes(resultsToRender)

(* The page a loop starts with, as it is or cleared, is one it may be at.    *)
LEMMA PageAsItIs ==
  ASSUME PageTypeOK, hiddenContainers = filteredOut \cap ToSet(containers),
         NEW n \in Nat, NEW live \in BOOLEAN
  PROVE  LET page == Page(FALSE, n, live)
         IN  /\ page \in PageState /\ page.items = 0 /\ page.stop = FALSE
             /\ page.timers = n /\ page.live = live
             /\ page.index = resultsIndex /\ page.mark = resultsMarkerIndex
             /\ page.containers = containers /\ page.results = results
             /\ HiddenOnes(page)
<1> DEFINE page == Page(FALSE, n, live)
<1>1. page = PageOf(resultsIndex, resultsMarkerIndex, containers, hiddenContainers, results, 0,
                    FALSE, n, live, rendering)
  BY DEF Page, PageOf
<1>2. PICK no \in BOOLEAN : no = FALSE
  OBVIOUS
<1> DEFINE other == PageOf(resultsIndex, resultsMarkerIndex, containers, hiddenContainers, results, 0,
                    no, n, live, rendering)
<1> HIDE DEF page
<1>3. page = other
  BY <1>1, <1>2, Zenon
<1>4. other \in PageState
  <2>1. 0 \in Nat
    OBVIOUS
  <2> QED
    BY <1>2, <2>1, PageFields DEF PageTypeOK
<1>5. /\ other.items = 0 /\ other.stop = no /\ other.timers = n /\ other.live = live
      /\ other.index = resultsIndex /\ other.mark = resultsMarkerIndex
      /\ other.containers = containers /\ other.results = results
      /\ other.hidden = hiddenContainers
  BY DEF PageOf
<1> HIDE DEF other
<1>6. HiddenOnes(page)
  BY <1>3, <1>5 DEF HiddenOnes
<1>7. page.stop = FALSE
  BY <1>2, <1>3, <1>5
<1> QED
  BY <1>3, <1>4, <1>5, <1>6, <1>7 DEF page

(* A page just cleared shows nothing, and that is what it should show.       *)
LEMMA PageCleared ==
  ASSUME NEW todo \in Todo, rendering \in BOOLEAN, NEW n \in Nat, NEW live \in BOOLEAN
  PROVE  LET page == Page(TRUE, n, live)
         IN  /\ page.stop = FALSE /\ page.items = 0 /\ page.timers = n /\ page.live = live
             /\ page.index = [p \in Projects |-> 0] /\ page.mark = -1
             /\ page.containers = <<>> /\ page.results = <<>>
             /\ Filling(todo, page, 1)
<1> DEFINE page == Page(TRUE, n, live)
           zero == [p \in Projects |-> 0]
           none == <<>>
<1>1. page = PageOf(zero, -1, none, {}, none, 0, FALSE, n, live, rendering)
  BY DEF Page, PageOf
<1>2. PICK no \in BOOLEAN : no = FALSE
  OBVIOUS
<1>3. zero \in [Projects -> Nat] /\ -1 \in Int /\ 0 \in Nat /\ {} \in SUBSET Projects
  OBVIOUS
<1>4. none \in Seq(Projects) /\ none \in Seq(Item)
  OBVIOUS
<1> HIDE DEF page, zero, none
<1> DEFINE other == PageOf(zero, -1, none, {}, none, 0, no, n, live, rendering)
<1>5. page = other
  BY <1>1, <1>2, Zenon
<1>6. other \in PageState
  BY <1>2, <1>3, <1>4, PageFields
<1>7. /\ other.items = 0 /\ other.stop = no /\ other.timers = n /\ other.live = live
      /\ other.index = zero /\ other.mark = -1
      /\ other.containers = none /\ other.results = none
      /\ other.hidden = {}
  BY DEF PageOf
<1> HIDE DEF other
<1>8. HiddenOnes(page)
  <2>1. ToSet(none) = {}
    BY DEF none, ToSet
  <2> QED
    BY <2>1, <1>5, <1>7 DEF HiddenOnes
<1>9. page.stop = FALSE
  BY <1>2, <1>5, <1>7
<1>10. page.items <= MaxItems
  BY <1>5, <1>7, SearchAssumption
<1>11. FilledTo(todo, page, 1)
  <2>1. 1 \in 1 .. Len(IndexFiles) + 1 /\ Projects = 1 .. Len(IndexFiles) /\ 1 - 1 = 0
        /\ 0 \in 0 .. Len(IndexFiles) /\ Len(IndexFiles) \in Nat
    BY ProjectsNumbered
  <2>2. \A p \in Projects : page.index[p] = 0
    BY <1>5, <1>7 DEF zero
  <2>3. \A p \in Projects : Len(todo[p]) \in Nat /\ 0 \in 0 .. Len(todo[p]) /\ EntriesTo(todo, p, 0) = <<>>
    <3> TAKE p \in Projects
    <3>1. todo[p] \in Seq(FoundEpisode)
      BY DEF Todo
    <3>2. 0 \in 0 .. Len(todo[p]) /\ Len(todo[p]) \in Nat
      BY <3>1, LenProperties
    <3> QED
      BY <3>2, EntriesGrow
  <2>4. page.mark = -1
    BY <1>5, <1>7
  <2>5. ShownOf(todo, page, 1) = <<>>
    BY <2>2, <2>3, <2>4 DEF ShownOf
  <2>6. ProjectsTo(todo, 0) = <<>>
    BY <2>1, ProjectsGrow
  <2>7. page.results = ProjectsTo(todo, 1 - 1) \o ShownOf(todo, page, 1)
    <3>1. <<>> \o <<>> = <<>>
      OBVIOUS
    <3> QED
      BY <3>1, <2>1, <2>5, <2>6, <1>5, <1>7 DEF none
  <2>8. AllBefore(todo, page, 1)
    BY <2>1 DEF AllBefore
  <2>9. NoneAfter(page, 1)
    BY <2>2 DEF NoneAfter
  <2>10. 1 \in Projects => page.index[1] <= Len(todo[1]) /\ ~(page.index[1] > 0)
    BY <2>2, <2>3
  <2> QED
    BY <2>1, <2>4, <2>7, <2>8, <2>9, <2>10 DEF FilledTo
<1>12. Filling(todo, page, 1)
  BY <1>5, <1>6, <1>8, <1>10, <1>11 DEF Filling
<1> QED
  BY <1>5, <1>7, <1>9, <1>12 DEF page, zero, none

(* When nothing is found a page without items shows it all.                  *)
LEMMA NothingFound ==
  ASSUME NEW todo \in Todo, NEW st, Filling(todo, st, 1), todo = [p \in Projects |-> <<>>],
         \A p \in Projects : st.index[p] = 0
  PROVE  Filling(todo, st, Len(IndexFiles) + 1)
<1> DEFINE n == Len(IndexFiles)
           G == {c \in Nat : Filling(todo, st, c + 1)}
<1>1. n \in Nat /\ Projects = 1 .. n
  BY ProjectsNumbered
<1>2. 0 \in G
  <2>1. 0 + 1 = 1
    OBVIOUS
  <2> QED
    BY <2>1
<1>3. ASSUME NEW c \in 0 .. n - 1, c \in G PROVE c + 1 \in G
  <2>1. c + 1 \in Projects /\ c + 1 \in Nat
    BY <1>1
  <2>2. st.index[c + 1] = Len(todo[c + 1])
    <3>1. Len(<<>>) = 0
      OBVIOUS
    <3> QED
      BY <2>1, <3>1
  <2>3. Filling(todo, st, c + 1 + 1)
    BY <2>1, <2>2, <1>3, NextProject
  <2> QED
    BY <2>1, <2>3
<1>4. n \in G
  <2>1. \A c \in 0 .. n : c \in G
    <3> HIDE DEF n, G
    <3> QED
      BY <1>1, <1>2, <1>3, UpTo
  <2> HIDE DEF n, G
  <2> QED
    BY <2>1, <1>1
<1> QED
  BY <1>4

(* What is expected of the page.                                             *)
LEMMA ExpectedIs ==
  ASSUME SearchTypeOK,
         NEW todo \in Todo, todo = SearchResults(lastQuery, episodes, indexSortChronological)
  PROVE  Expected = ProjectsTo(todo, Len(IndexFiles))
<1> DEFINE Of(p) == FlattenSeq([i \in DOMAIN todo[p] |-> EntryOf(p, todo[p][i])])
<1>1. Projects = 1 .. Len(IndexFiles)
  BY ProjectsNumbered
<1>2. \A p \in Projects : Of(p) = EntriesTo(todo, p, Len(todo[p]))
  <2> TAKE p \in Projects
  <2>1. DOMAIN todo[p] = 1 .. Len(todo[p])
    <3>1. todo[p] \in Seq(FoundEpisode)
      BY DEF Todo
    <3> QED
      BY <3>1, LenProperties
  <2> QED
    BY <2>1 DEF EntriesTo
<1>3. Expected = FlattenSeq([p \in Projects |-> Of(p)])
  BY DEF Expected
<1> HIDE DEF Of
<1>4. [p \in Projects |-> Of(p)] = [p \in 1 .. Len(IndexFiles) |-> EntriesTo(todo, p, Len(todo[p]))]
  BY <1>1, <1>2
<1> QED
  BY <1>3, <1>4 DEF ProjectsTo

(* Where no index is parsed nothing is found.                                *)
LEMMA NoEpisodes ==
  ASSUME NEW query, NEW eps, eps = [p \in Projects |-> <<>>], NEW chronological \in BOOLEAN
  PROVE  /\ eps \in [Projects -> Seq(Parsed)]
         /\ SearchResults(query, eps, chronological) = [p \in Projects |-> <<>>]
<1>1. <<>> \in Seq(Parsed)
  OBVIOUS
<1>2. Reverse(<<>>) = <<>>
  <2>1. Reverse(<<>>) \in Seq(Parsed)
    BY <1>1, MatchesFound
  <2>2. Len(<<>>) = 0
    OBVIOUS
  <2>3. Reverse(<<>>) = [i \in 1 .. 0 |-> <<>>[(0 - i) + 1]]
    BY <2>2 DEF Reverse
  <2>4. DOMAIN Reverse(<<>>) = {}
    BY <2>3
  <2>5. Len(Reverse(<<>>)) = 0
    BY <2>1, <2>4, LenProperties
  <2> QED
    BY <2>1, <2>5, EmptySeq
<1>3. MatchesIn(query, <<>>) = <<>>
  BY <1>1, MatchesFound
<1>4. \A p \in Projects : (IF chronological THEN eps[p] ELSE Reverse(eps[p])) = <<>>
  BY <1>2
<1>5. SearchResults(query, eps, chronological) = [p \in Projects |-> <<>>]
  <2> DEFINE Found(p) == IF query \notin DOMAIN Queries THEN <<>>
                         ELSE MatchesIn(query, IF chronological THEN eps[p] ELSE Reverse(eps[p]))
  <2>1. \A p \in Projects : Found(p) = <<>>
    BY <1>3, <1>4
  <2>2. SearchResults(query, eps, chronological) = [p \in Projects |-> Found(p)]
    BY DEF SearchResults
  <2> HIDE DEF Found
  <2> QED
    BY <2>1, <2>2
<1> QED
  BY <1>1, <1>5

(* What is shown after a batch.                                              *)
LEMMA PageRendered ==
  ASSUME NEW todo \in Todo, NEW cleared, NEW n, NEW live,
         Rendering(todo, Page(cleared, n, live), 1), RenderResults(todo, cleared, n, live),
         resultsToRender' = todo, filteredOut' = filteredOut
  PROVE  PageInv'
<1> DEFINE N == Len(IndexFiles)
           page == Page(cleared, n, live)
           st == RenderProjects(todo, page)
<1>1. Rendering(todo, st, N + 1)
  <2> HIDE DEF page
  <2> QED
    BY AllRendered DEF page
<1> HIDE DEF page
<1>2. /\ resultsIndex' = st.index /\ resultsMarkerIndex' = st.mark
      /\ containers' = st.containers /\ hiddenContainers' = st.hidden
      /\ results' = st.results
      /\ timers' = st.timers /\ handleLive' = st.live /\ rendering' = st.rendering
  BY DEF RenderResults, page
<1> HIDE DEF st
<1>3. PICK c \in 1 .. N + 1 : Filling(todo, st, c) /\ (~st.stop /\ st.items # MaxItems => c >= N + 1)
  BY <1>1 DEF Rendering
<1>4. (st.live => st.timers >= 1) /\ (st.timers = 0 => ~st.stop /\ st.items # MaxItems)
  BY <1>1 DEF Rendering
<1>5. st \in PageState /\ FilledTo(todo, st, c) /\ HiddenOnes(st)
  BY <1>3 DEF Filling
<1>6. /\ st.index \in [Projects -> Nat] /\ st.mark \in Int /\ st.containers \in Seq(Projects)
      /\ st.hidden \in SUBSET Projects /\ st.results \in Seq(Item)
      /\ st.timers \in Nat /\ st.live \in BOOLEAN /\ st.rendering \in BOOLEAN
  BY <1>5, PageFields
<1>7. PageTypeOK'
  BY <1>2, <1>6 DEF PageTypeOK
<1>8. (hiddenContainers = filteredOut \cap ToSet(containers))'
  BY <1>2, <1>5 DEF HiddenOnes
<1>9. (handleLive => timers >= 1)'
  BY <1>2, <1>4
<1>10. PageFilled'
  <2> DEFINE now == PageNow'
  <2>1. /\ now.index = st.index /\ now.mark = st.mark /\ now.containers = st.containers
        /\ now.results = st.results
    BY <1>2 DEF PageNow, Page
  <2> HIDE DEF now
  <2>2. FilledTo(todo, now, c)
    BY <2>1, <1>5, FilledSame
  <2>3. timers' = 0 => c = N + 1
    <3>1. N \in Nat
      BY ProjectsNumbered
    <3> QED
      BY <3>1, <1>2, <1>3, <1>4
  <2> QED
    BY <2>2, <2>3 DEF PageFilled, now
<1> QED
  BY <1>7, <1>8, <1>9, <1>10 DEF PageInv

(* A search, of the query and the episodes its caller has changed.           *)
LEMMA SearchRun ==
  ASSUME SearchInv, NEW query, NEW eps \in [Projects -> Seq(Parsed)], NEW chronological \in BOOLEAN,
         NEW refresh \in BOOLEAN, RunSearch(query, eps, chronological, refresh),
         ~refresh => eps = episodes /\ chronological = indexSortChronological,
         filteredOut' = filteredOut
  PROVE  /\ PageInv' /\ lastQuery' = query
         /\ resultsToRender' = SearchResults(query, eps, chronological)
         /\ query \notin BadQueries => found' = Episodes(resultsToRender')
<1> DEFINE N == Len(IndexFiles)
           todo == SearchResults(query, eps, chronological)
           cleared == refresh \/ lastQuery # query
           parsed == {p \in Projects : eps[p] # <<>>}
           cancels == rendering /\ handleLive
           n == timers - (IF cancels THEN 1 ELSE 0)
           live == handleLive /\ ~rendering
           none == [p \in Projects |-> <<>>]
<1> USE DEF SearchInv, PageInv
<1>1. /\ lastQuery' = query /\ resultsToRender' = todo
      /\ found' = IF query \in BadQueries THEN found ELSE Episodes(todo)
      /\ IF query \in DOMAIN Queries /\ parsed # {}
         THEN RenderResults(todo, cleared, n, live)
         ELSE ClearResults(cleared) /\ UNCHANGED <<rendering, timers, handleLive>>
  BY Zenon DEF RunSearch
<1>2. todo \in Todo
  BY SearchFinds
<1>3. ~cleared => todo = resultsToRender
  BY DEF SearchTypeOK
<1>4. n \in Nat /\ live \in BOOLEAN /\ (live => n >= 1)
  BY DEF PageTypeOK
<1>5. N \in Nat /\ Projects = 1 .. N /\ 1 \in 1 .. N + 1 /\ MaxItems \in Nat \ {0}
  BY ProjectsNumbered, SearchAssumption
<1> HIDE DEF n, live, todo, cleared
<1>6. ASSUME query \in DOMAIN Queries, parsed # {} PROVE PageInv'
  <2>1. RenderResults(todo, cleared, n, live)
    BY <1>1, <1>6
  <2>2. Rendering(todo, Page(cleared, n, live), 1)
    <3>1. CASE cleared
      <4> DEFINE page == Page(TRUE, n, live)
      <4>1. Page(cleared, n, live) = page
        BY <3>1 DEF Page
      <4>2. rendering \in BOOLEAN
        BY DEF PageTypeOK
      <4>3. /\ page.stop = FALSE /\ page.items = 0 /\ page.timers = n /\ page.live = live
            /\ Filling(todo, page, 1)
        BY <1>2, <1>4, <4>2, PageCleared
      <4> HIDE DEF page
      <4>4. Rendering(todo, page, 1)
        BY <4>3, <1>4, <1>5, RenderingWith
      <4> QED
        BY <4>1, <4>4
    <3>2. CASE ~cleared
      <4> DEFINE page == Page(FALSE, n, live)
      <4>1. Page(cleared, n, live) = page
        BY <3>2 DEF Page
      <4>2. /\ page.stop = FALSE /\ page.items = 0 /\ page.timers = n /\ page.live = live
            /\ page \in PageState /\ HiddenOnes(page)
        BY <1>4, PageAsItIs
      <4>3. PICK c \in 1 .. N + 1 : FilledTo(resultsToRender, PageNow, c)
        BY DEF PageFilled
      <4>4. /\ page.index = PageNow.index /\ page.mark = PageNow.mark
            /\ page.containers = PageNow.containers /\ page.results = PageNow.results
        BY DEF Page, PageNow
      <4> HIDE DEF page
      <4>5. FilledTo(todo, page, c)
        BY <3>2, <4>3, <4>4, <1>3, FilledSame
      <4>6. Filling(todo, page, c)
        BY <4>2, <4>5, <1>5 DEF Filling
      <4>7. ~page.stop /\ page.items # MaxItems => c >= 1
        BY <1>5
      <4>8. /\ page.live => page.timers >= 1
            /\ page.timers = 0 => ~page.stop /\ page.items # MaxItems
        BY <4>2, <1>4, <1>5
      <4>9. Rendering(todo, page, 1)
        BY <4>6, <4>7, <4>8, RenderingWith
      <4> QED
        BY <4>1, <4>9
    <3> QED
      BY <3>1, <3>2
  <2> QED
    BY <2>1, <2>2, <1>1, <1>2, PageRendered
<1>7. ASSUME ~(query \in DOMAIN Queries /\ parsed # {}) PROVE PageInv'
  <2>1. ClearResults(cleared) /\ UNCHANGED <<rendering, timers, handleLive>>
    BY <1>1, <1>7
  <2>2. todo = none
    <3>1. CASE query \notin DOMAIN Queries
      BY <3>1, SearchFinds DEF todo
    <3>2. CASE parsed = {}
      <4>1. eps = none
        BY <3>2
      <4> QED
        BY <4>1, NoEpisodes DEF todo
    <3> QED
      BY <1>7, <3>1, <3>2
  <2>3. CASE ~cleared
    <3>1. UNCHANGED <<resultsIndex, resultsMarkerIndex, containers, hiddenContainers, results>>
      BY <2>1, <2>3 DEF ClearResults
    <3>2. resultsToRender' = resultsToRender
      BY <2>3, <1>1, <1>3
    <3>3. PageTypeOK' /\ (hiddenContainers = filteredOut \cap ToSet(containers))' /\ (handleLive => timers >= 1)'
      BY <2>1, <3>1 DEF PageTypeOK
    <3>4. PageNow' = PageNow /\ timers' = timers
      BY <2>1, <3>1 DEF PageNow, Page
    <3>5. PageFilled'
      BY <3>2, <3>4 DEF PageFilled
    <3> QED
      BY <3>3, <3>5
  <2>4. CASE cleared
    <3> DEFINE page == Page(TRUE, timers, handleLive)
               zero == [p \in Projects |-> 0]
    <3>1. /\ resultsIndex' = zero /\ resultsMarkerIndex' = -1
          /\ containers' = <<>> /\ hiddenContainers' = {} /\ results' = <<>>
      BY <2>1, <2>4 DEF ClearResults
    <3>2. PageTypeOK'
      <4>1. <<>> \in Seq(Projects) /\ <<>> \in Seq(Item)
        OBVIOUS
      <4> QED
        BY <4>1, <2>1, <3>1 DEF PageTypeOK
    <3>3. (hiddenContainers = filteredOut \cap ToSet(containers))'
      BY <3>1 DEF ToSet
    <3>4. (handleLive => timers >= 1)'
      BY <2>1
    <3>5. /\ page.index = zero /\ page.mark = -1 /\ page.containers = <<>> /\ page.results = <<>>
          /\ Filling(todo, page, 1)
      BY <1>2, PageCleared DEF PageTypeOK
    <3> HIDE DEF page
    <3>6. Filling(todo, page, N + 1)
      <4>1. \A p \in Projects : page.index[p] = 0
        BY <3>5
      <4> QED
        BY <4>1, <3>5, <2>2, <1>2, NothingFound
    <3>7. FilledTo(todo, page, N + 1)
      BY <3>6 DEF Filling
    <3>8. FilledTo(todo, PageNow', N + 1)
      <4> DEFINE now == PageNow'
      <4>1. /\ now.index = page.index /\ now.mark = page.mark
            /\ now.containers = page.containers /\ now.results = page.results
        BY <3>1, <3>5 DEF PageNow, Page
      <4> HIDE DEF now
      <4>2. FilledTo(todo, now, N + 1)
        BY <3>7, <4>1, FilledSame
      <4> QED
        BY <4>2 DEF now
    <3>9. PageFilled'
      <4>1. N + 1 \in 1 .. N + 1
        BY <1>5
      <4> QED
        BY <4>1, <3>8, <1>1 DEF PageFilled
    <3> QED
      BY <3>2, <3>3, <3>4, <3>9
  <2> QED
    BY <2>3, <2>4
<1>8. PageInv'
  BY <1>6, <1>7
<1>9. query \notin BadQueries => found' = Episodes(resultsToRender')
  BY <1>1
<1> QED
  BY <1>1, <1>8, <1>9 DEF todo

(* The page as it comes keeps the invariant.                                 *)
LEMMA SearchInitInv == SearchInit => SearchInv
<1> SUFFICES ASSUME SearchInit PROVE SearchInv
  OBVIOUS
<1> DEFINE none == [p \in Projects |-> <<>>]
           zero == [p \in Projects |-> 0]
           N == Len(IndexFiles)
<1>1. /\ lastQuery = queryBox /\ indexSortChronological = TRUE /\ episodes = none
      /\ off = {} /\ filteredOut = {} /\ hiddenContainers = {} /\ resultsToRender = none
      /\ resultsIndex = zero /\ resultsMarkerIndex = -1
      /\ rendering = FALSE /\ timers = 0 /\ handleLive = FALSE
      /\ containers = <<>> /\ results = <<>> /\ found = 0
  BY DEF SearchInit
<1>2. SearchTypeOK /\ resultsToRender = SearchResults(lastQuery, episodes, indexSortChronological)
  <2>1. /\ none \in [Projects -> Seq(Parsed)]
        /\ SearchResults(lastQuery, none, indexSortChronological) = none
    <3>1. indexSortChronological \in BOOLEAN
      BY <1>1
    <3> QED
      BY <3>1, NoEpisodes
  <2> HIDE DEF none
  <2> QED
    BY <2>1, <1>1 DEF SearchTypeOK
<1>3. resultsToRender \in Todo
  <2>1. <<>> \in Seq(FoundEpisode)
    OBVIOUS
  <2> QED
    BY <2>1, <1>1 DEF Todo
<1>4. PageTypeOK
  <2>1. <<>> \in Seq(Projects) /\ <<>> \in Seq(Item)
    OBVIOUS
  <2>2. resultsIndex \in [Projects -> Nat] /\ resultsMarkerIndex \in Int
    BY <1>1
  <2>3. containers \in Seq(Projects) /\ hiddenContainers \in SUBSET Projects /\ results \in Seq(Item)
    BY <2>1, <1>1
  <2>4. rendering \in BOOLEAN /\ timers \in Nat /\ handleLive \in BOOLEAN
    BY <1>1
  <2> QED
    BY <2>2, <2>3, <2>4 DEF PageTypeOK
<1> DEFINE page == Page(TRUE, timers, handleLive)
<1>5. /\ page.index = zero /\ page.mark = -1 /\ page.containers = <<>> /\ page.results = <<>>
      /\ Filling(resultsToRender, page, 1)
  BY <1>3, <1>4, PageCleared DEF PageTypeOK
<1> HIDE DEF page
<1>6. Filling(resultsToRender, page, N + 1)
  <2>1. \A p \in Projects : page.index[p] = 0
    BY <1>5
  <2> QED
    BY <2>1, <1>1, <1>3, <1>5, NothingFound
<1>7. FilledTo(resultsToRender, page, N + 1) /\ page \in PageState
  BY <1>6 DEF Filling
<1>8. FilledTo(resultsToRender, PageNow, N + 1)
  <2> DEFINE now == PageNow
  <2>1. /\ now.index = page.index /\ now.mark = page.mark
        /\ now.containers = page.containers /\ now.results = page.results
    BY <1>1, <1>5 DEF PageNow, Page
  <2> HIDE DEF now
  <2>2. FilledTo(resultsToRender, now, N + 1)
    BY <1>7, <2>1, FilledSame
  <2> QED
    BY <2>2 DEF now
<1>9. PageInv
  <2>1. N + 1 \in 1 .. N + 1
    BY ProjectsNumbered
  <2>2. hiddenContainers = filteredOut \cap ToSet(containers)
    BY <1>1
  <2> QED
    BY <2>1, <2>2, <1>1, <1>4, <1>8 DEF PageInv, PageFilled
<1>10. found = Episodes(resultsToRender)
  <2>1. ProjectsTo(resultsToRender, N) = <<>>
    BY <1>3, <1>5, <1>7, ShownBegins
  <2>2. Headings(<<>>) = 0
    BY PushedNone DEF Headings
  <2> QED
    BY <2>1, <2>2, <1>1, <1>3, EpisodesHeaded
<1> QED
  BY <1>1, <1>2, <1>9, <1>10 DEF SearchInv

(* A timer that fires puts one batch more into the page.                     *)
LEMMA SearchTimerFires ==
  ASSUME SearchInv, TimerFires
  PROVE  SearchInv'
<1> USE DEF SearchInv, PageInv
<1>1. /\ timers > 0
      /\ RenderResults(resultsToRender, FALSE, timers - 1, handleLive /\ timers > 1)
      /\ UNCHANGED <<queryBox, lastQuery, indexSortChronological, episodes, loading, off, filteredOut,
                     resultsToRender, found>>
  BY DEF TimerFires, loadVars
<1>2. resultsToRender \in Todo
  BY SearchFinds DEF SearchTypeOK
<1> DEFINE n == timers - 1
           live == handleLive /\ timers > 1
           page == Page(FALSE, n, live)
<1>3. n \in Nat /\ live \in BOOLEAN /\ (live => n >= 1)
  BY <1>1 DEF PageTypeOK
<1> HIDE DEF n, live
<1>4. /\ page.stop = FALSE /\ page.items = 0 /\ page.timers = n /\ page.live = live
      /\ page \in PageState /\ HiddenOnes(page)
  BY <1>3, PageAsItIs
<1>5. PICK c \in 1 .. Len(IndexFiles) + 1 : FilledTo(resultsToRender, PageNow, c)
  BY DEF PageFilled
<1>6. /\ page.index = PageNow.index /\ page.mark = PageNow.mark
      /\ page.containers = PageNow.containers /\ page.results = PageNow.results
  BY DEF Page, PageNow
<1> HIDE DEF page
<1>7. FilledTo(resultsToRender, page, c)
  BY <1>5, <1>6, FilledSame
<1>8. MaxItems \in Nat \ {0}
  BY SearchAssumption
<1>9. Filling(resultsToRender, page, c)
  BY <1>4, <1>7, <1>8 DEF Filling
<1>10. ~page.stop /\ page.items # MaxItems => c >= 1
  BY <1>5, ProjectsNumbered
<1>11. /\ page.live => page.timers >= 1
       /\ page.timers = 0 => ~page.stop /\ page.items # MaxItems
  BY <1>3, <1>4, <1>8
<1>12. Rendering(resultsToRender, page, 1)
  BY <1>9, <1>10, <1>11, RenderingWith
<1>13. PageInv'
  <2>1. RenderResults(resultsToRender, FALSE, n, live)
    BY <1>1 DEF n, live
  <2> QED
    BY <2>1, <1>1, <1>2, <1>12, PageRendered DEF page
<1>14. SearchTypeOK'
  BY <1>1 DEF SearchTypeOK
<1>15. (queryBox = lastQuery /\ off = filteredOut)'
  BY <1>1
<1>16. (resultsToRender = SearchResults(lastQuery, episodes, indexSortChronological))'
  BY <1>1
<1>17. (queryBox \notin BadQueries => found = Episodes(resultsToRender))'
  BY <1>1
<1> QED
  BY <1>13, <1>14, <1>15, <1>16, <1>17

(* A click on the filter hides or shows containers, and no item.             *)
LEMMA SearchFilterClicked ==
  ASSUME SearchInv, NEW p \in Projects, ClickFilter(p)
  PROVE  SearchInv'
<1> USE DEF SearchInv, PageInv
<1>1. UNCHANGED <<queryBox, lastQuery, indexSortChronological, episodes, loading, resultsToRender,
                  resultsIndex, resultsMarkerIndex, rendering, timers, handleLive, containers,
                  results, found>>
  BY DEF ClickFilter, loadVars, pageVars
<1> DEFINE ps == Nested(p)
<1> HIDE DEF ps
<1>2. /\ off' = filteredOut'
      /\ hiddenContainers' = filteredOut' \cap ToSet(containers)
      /\ hiddenContainers' \in SUBSET Projects
  <2>1. ps \subseteq Projects
    BY DEF Nested, ps
  <2>2. CASE p \in off /\ ShowEntries(ps) /\ ShowResults(ps)
    BY <2>2 DEF ShowEntries, ShowResults, PageTypeOK
  <2>3. CASE p \notin off /\ HideEntries(ps) /\ HideResults(ps)
    BY <2>1, <2>3 DEF HideEntries, HideResults, PageTypeOK
  <2> QED
    BY <2>2, <2>3 DEF ClickFilter, ps
<1>3. PageTypeOK'
  BY <1>1, <1>2 DEF PageTypeOK
<1>4. PageFilled'
  <2> DEFINE now == PageNow'
  <2>1. /\ now.index = PageNow.index /\ now.mark = PageNow.mark
        /\ now.containers = PageNow.containers /\ now.results = PageNow.results
    BY <1>1 DEF PageNow, Page
  <2>2. PICK c \in 1 .. Len(IndexFiles) + 1 :
          FilledTo(resultsToRender, PageNow, c) /\ (timers = 0 => c = Len(IndexFiles) + 1)
    BY DEF PageFilled
  <2> HIDE DEF now
  <2>3. FilledTo(resultsToRender, now, c)
    BY <2>1, <2>2, FilledSame
  <2> QED
    BY <2>2, <2>3, <1>1 DEF PageFilled, now
<1>5. (hiddenContainers = filteredOut \cap ToSet(containers))' /\ (handleLive => timers >= 1)'
  BY <1>1, <1>2
<1>6. SearchTypeOK' /\ (queryBox = lastQuery /\ off = filteredOut)'
  BY <1>1, <1>2 DEF SearchTypeOK
<1>7. /\ (resultsToRender = SearchResults(lastQuery, episodes, indexSortChronological))'
      /\ (queryBox \notin BadQueries => found = Episodes(resultsToRender))'
  BY <1>1
<1> QED
  BY <1>3, <1>4, <1>5, <1>6, <1>7

(* Steps that search: what they change is what they search.                  *)
LEMMA SearchedAgain ==
  ASSUME SearchInv, NEW query, NEW eps \in [Projects -> Seq(Parsed)], NEW chronological \in BOOLEAN,
         NEW refresh \in BOOLEAN, RunSearch(query, eps, chronological, refresh),
         ~refresh => eps = episodes /\ chronological = indexSortChronological,
         queryBox' = query, episodes' = eps, indexSortChronological' = chronological,
         UNCHANGED <<off, filteredOut>>
  PROVE  SearchInv'
<1>1. /\ PageInv' /\ lastQuery' = query
      /\ resultsToRender' = SearchResults(query, eps, chronological)
      /\ query \notin BadQueries => found' = Episodes(resultsToRender')
  BY SearchRun
<1>2. SearchTypeOK'
  BY DEF SearchTypeOK
<1>3. (queryBox = lastQuery /\ off = filteredOut)'
  BY <1>1 DEF SearchInv
<1>4. (resultsToRender = SearchResults(lastQuery, episodes, indexSortChronological))'
  BY <1>1
<1>5. (queryBox \notin BadQueries => found = Episodes(resultsToRender))'
  BY <1>1
<1> QED
  BY <1>1, <1>2, <1>3, <1>4, <1>5 DEF SearchInv

(* Every step of the search page keeps the invariant.                        *)
LEMMA SearchStep == SearchInv /\ [SearchNext]_searchVars => SearchInv'
<1> SUFFICES ASSUME SearchInv, [SearchNext]_searchVars PROVE SearchInv'
  OBVIOUS
<1>1. ASSUME NEW query, TypeQuery(query) PROVE SearchInv'
  <2>1. /\ queryBox' = query /\ RunSearch(query, episodes, indexSortChronological, FALSE)
        /\ episodes' = episodes /\ indexSortChronological' = indexSortChronological
        /\ UNCHANGED <<off, filteredOut>>
    BY <1>1 DEF TypeQuery, loadVars
  <2>2. episodes \in [Projects -> Seq(Parsed)] /\ indexSortChronological \in BOOLEAN
    BY DEF SearchInv, SearchTypeOK
  <2> QED
    BY <2>1, <2>2, SearchedAgain
<1>2. CASE ClickSort
  <2>1. /\ queryBox' = queryBox /\ RunSearch(queryBox, episodes, ~indexSortChronological, TRUE)
        /\ episodes' = episodes /\ indexSortChronological' = ~indexSortChronological
        /\ UNCHANGED <<off, filteredOut>>
    BY <1>2 DEF ClickSort, loadVars
  <2>2. episodes \in [Projects -> Seq(Parsed)] /\ (~indexSortChronological) \in BOOLEAN
    BY DEF SearchInv, SearchTypeOK
  <2> QED
    BY <2>1, <2>2, SearchedAgain
<1>3. ASSUME NEW p \in Projects, IndexLoads(p) PROVE SearchInv'
  <2> DEFINE eps == [episodes EXCEPT ![p] = ParseIndexFile(IndexFiles[p])]
  <2>1. /\ queryBox' = queryBox /\ RunSearch(queryBox, eps, indexSortChronological, TRUE)
        /\ episodes' = eps /\ indexSortChronological' = indexSortChronological
        /\ UNCHANGED <<off, filteredOut>>
    BY <1>3 DEF IndexLoads
  <2>2. eps \in [Projects -> Seq(Parsed)] /\ indexSortChronological \in BOOLEAN
    <3>1. ParseIndexFile(IndexFiles[p]) \in Seq(Parsed)
      BY ProjectsNumbered, IndexIsParsed
    <3> QED
      BY <3>1 DEF SearchInv, SearchTypeOK
  <2> HIDE DEF eps
  <2> QED
    BY <2>1, <2>2, SearchedAgain
<1>4. ASSUME NEW p \in Projects, IndexFails(p) PROVE SearchInv'
  <2>1. UNCHANGED <<queryBox, lastQuery, indexSortChronological, episodes, off, filteredOut,
                    hiddenContainers, resultsToRender, resultsIndex, resultsMarkerIndex, rendering,
                    timers, handleLive, containers, results, found>>
    BY <1>4 DEF IndexFails, filterClickVars, pageVars
  <2> QED
    BY <2>1 DEF SearchInv, SearchTypeOK, PageInv, PageTypeOK, PageFilled, PageNow, Page
<1>5. ASSUME NEW p \in Projects, ClickFilter(p) PROVE SearchInv'
  BY <1>5, SearchFilterClicked
<1>6. CASE TimerFires
  BY <1>6, SearchTimerFires
<1>7. CASE UNCHANGED searchVars
  <2>1. UNCHANGED <<queryBox, lastQuery, indexSortChronological, episodes, off, filteredOut,
                    hiddenContainers, resultsToRender, resultsIndex, resultsMarkerIndex, rendering,
                    timers, handleLive, containers, results, found>>
    BY <1>7 DEF searchVars, loadVars, filterClickVars, pageVars
  <2> QED
    BY <2>1 DEF SearchInv, SearchTypeOK, PageInv, PageTypeOK, PageFilled, PageNow, Page
<1> QED
  BY <1>1, <1>2, <1>3, <1>4, <1>5, <1>6, <1>7 DEF SearchNext

(* The invariant gives what the page is to show.                             *)
LEMMA SearchShows == SearchInv => SearchComplete
<1> SUFFICES ASSUME SearchInv PROVE SearchComplete
  OBVIOUS
<1> USE DEF SearchInv, PageInv
<1> DEFINE N == Len(IndexFiles)
           todo == resultsToRender
           all == ProjectsTo(todo, N)
<1>1. todo \in Todo
  BY SearchFinds DEF SearchTypeOK
<1>2. Expected = all
  BY <1>1, ExpectedIs
<1>3. all \in Seq(Item)
  <2>1. N \in 0 .. N
    BY ProjectsNumbered
  <2> QED
    BY <2>1, <1>1, ProjectsGrow
<1>4. PICK c \in 1 .. N + 1 : FilledTo(todo, PageNow, c) /\ (timers = 0 => c = N + 1)
  BY DEF PageFilled
<1>5. PageNow \in PageState /\ PageNow.results = results
  BY PageAsItIs DEF PageTypeOK, PageNow
<1>6. Begins(results, all) /\ (c = N + 1 => results = all)
  BY <1>1, <1>4, <1>5, ShownBegins
<1>7. IsPrefix(results, Expected)
  <2>1. results \in Seq(Item)
    BY DEF PageTypeOK
  <2> HIDE DEF all
  <2> QED
    BY <2>1, <1>2, <1>3, <1>6, BeginsIsPrefix
<1>8. timers = 0 => results = Expected
  BY <1>2, <1>4, <1>6
<1>9. queryBox \notin BadQueries => found = Len(Pushed(Expected, Projects \X STRING))
  <2>1. Headings(all) = Episodes(todo)
    BY <1>1, EpisodesHeaded
  <2> QED
    BY <2>1, <1>2 DEF Headings
<1> QED
  BY <1>7, <1>8, <1>9 DEF SearchComplete

(* What a step of the pages is for the search.                               *)
LEMMA PagesSearch == [CineraNext]_cineraVars => [SearchNext]_searchVars
<1> SUFFICES ASSUME [CineraNext]_cineraVars PROVE [SearchNext]_searchVars
  OBVIOUS
<1>1. CASE script = "search" /\ SearchNext
  BY <1>1
<1>2. CASE \E p \in {"player", "menus", "view"} : ScriptRuns(p)
  BY <1>2 DEF ScriptRuns
<1>3. CASE UNCHANGED cineraVars
  BY <1>3 DEF cineraVars
<1> QED
  BY <1>1, <1>2, <1>3 DEF CineraNext

(*****************************************************************************)
(* The search page of the annotated episodes: whatever the order in which    *)
(* indexes load or fail, queries are typed, the order and the filter are     *)
(* clicked and timers fire, the page shows results of the present query      *)
(* only, each once and in its place, all of them when no timer is left, the  *)
(* summary counts them, and the projects filtered out are hidden             *)
(* (cinera_search.js), for any indexes, queries and size of the batches.     *)
(*****************************************************************************)
THEOREM SearchIsComplete == CineraSpec => []SearchComplete
<1>1. CineraInit => SearchInv
  BY SearchInitInv DEF CineraInit
<1>2. SearchInv /\ [CineraNext]_cineraVars => SearchInv'
  BY PagesSearch, SearchStep
<1> QED
  BY <1>1, <1>2, SearchShows, PTL DEF CineraSpec
=============================================================================
