------------------------------ MODULE TwitchProofs ------------------------------
(***************************************************************************)
(* Proofs about the Twitch monitor (src/src/twitch/twitch.go): that no     *)
(* message of the channel is forgotten that is not accounted for, and that *)
(* a stream is said to have ended only if it has, for any streamers,       *)
(* timers, messages and bounds.                                            *)
(***************************************************************************)
EXTENDS Twitch, FiniteSetTheorems, WellFoundedInduction, TLAPS
-----------------------------------------------------------------------------
(* Sets, sequences and natural numbers *)

(* Every set of natural numbers has a smallest one: what the inductions of *)
(* this module rest on.                                                    *)
LEMMA Smallest ==
  ASSUME NEW T \in SUBSET Nat, T # {}
  PROVE  \E x \in T : \A y \in T : x <= y
<1> DEFINE R == OpToRel(<, Nat)
<1>1. IsWellFoundedOn(R, Nat)
  BY NatLessThanWellFounded
<1>2. \E x \in T : \A y \in T : ~ (<<y, x>> \in R)
  <2> HIDE DEF R
  <2> QED
    BY <1>1, WFMin
<1>3. \A x, y \in Nat : y < x => <<y, x>> \in R
  BY DEF OpToRel
<1> HIDE DEF R
<1>4. PICK x \in T : \A y \in T : ~ (<<y, x>> \in R)
  BY <1>2
<1>5. ASSUME NEW y \in T PROVE x <= y
  <2>1. ~ (<<y, x>> \in R)
    BY <1>4
  <2>2. ~ (y < x)
    BY <2>1, <1>3
  <2> QED
    BY <2>2
<1> QED
  BY <1>5

\* A sequence with one of its elements removed.
LEMMA RemoveOne ==
  ASSUME NEW S, NEW s \in Seq(S), NEW i \in DOMAIN s
  PROVE  /\ RemoveAt(s, i) \in Seq(S)
         /\ Len(RemoveAt(s, i)) = Len(s) - 1
         /\ \A j \in 1 .. Len(s) - 1 : RemoveAt(s, i)[j] = IF j < i THEN s[j] ELSE s[j + 1]
<1> DEFINE front == SubSeq(s, 1, i - 1)
           back == SubSeq(s, i + 1, Len(s))
<1>1. i \in 1 .. Len(s) /\ Len(s) \in Nat
  OBVIOUS
<1>2. /\ front \in Seq(S) /\ Len(front) = i - 1
      /\ \A j \in 1 .. i - 1 : front[j] = s[j]
  BY <1>1
<1>3. /\ back \in Seq(S) /\ Len(back) = Len(s) - i
      /\ \A j \in 1 .. Len(s) - i : back[j] = s[i + j]
  BY <1>1
<1>4. RemoveAt(s, i) = front \o back
  BY DEF RemoveAt
<1> HIDE DEF front, back
<1>5. front \o back \in Seq(S) /\ Len(front \o back) = Len(s) - 1
  BY <1>1, <1>2, <1>3
<1>6. ASSUME NEW j \in 1 .. Len(s) - 1
      PROVE  (front \o back)[j] = IF j < i THEN s[j] ELSE s[j + 1]
  <2>1. (front \o back)[j] = IF j <= Len(front) THEN front[j] ELSE back[j - Len(front)]
    BY <1>1, <1>2, <1>3
  <2>2. CASE j < i
    BY <2>1, <2>2, <1>1, <1>2
  <2>3. CASE ~(j < i)
    <3>1. j - Len(front) \in 1 .. Len(s) - i /\ ~(j <= Len(front))
      BY <2>3, <1>1, <1>2
    <3>2. back[j - Len(front)] = s[i + (j - Len(front))]
      BY <3>1, <1>3
    <3>3. i + (j - Len(front)) = j + 1
      BY <1>1, <1>2
    <3> QED
      BY <2>1, <2>3, <3>1, <3>2, <3>3
  <2> QED
    BY <2>2, <2>3
<1> QED
  BY <1>4, <1>5, <1>6

\* The types of the state of the channel.
Pcs == {"idle", "upsert", "notify", "post", "mark", "streams", "fetch", "look", "delete",
        "remove", "edit", "replace", "create", "store"}
HistoryRows == [known : BOOLEAN, ended : BOOLEAN, needs : BOOLEAN,
                vod : {"none", "found", "gone"}, msg : Nat]
Entries == [st : Nat, read : HistoryRows, msg : Nat]
ListRows == [msg : Nat, who : SUBSET Broadcasters]
Tasks == [pc : Pcs, st : Nat, over : BOOLEAN, read : HistoryRows, batch : SUBSET Entries,
          posted : SUBSET Entries, list : SUBSET Broadcasters, old : ListRows, msg : Nat]
ChannelMessages == [id : Nat \ {0}, who : SUBSET Broadcasters, of : Nat, vod : BOOLEAN]

ChannelTypeOK ==
  /\ bound \in Bounds
  /\ onAir \subseteq Broadcasters
  /\ history \in [PastStream -> HistoryRows]
  /\ channel \in Seq(ChannelMessages)
  /\ listed \in ListRows
  /\ task \in [Notifier -> Tasks]
  /\ slips \in Nat

\* No two messages have the same id.
UniqueIds == \A i, k \in DOMAIN channel : channel[i].id = channel[k].id => i = k

\* A job has histories in hand only while it posts and marks them; it gives a message
\* only to one that had none; and the list it has deleted is not in the channel.
TaskSound(j) ==
  /\ IsFiniteSet(j.batch) /\ IsFiniteSet(j.posted)
  /\ j.pc \notin {"post", "mark"} => j.batch = {} /\ j.posted = {}
  /\ j.pc = "post" => j.batch # {}
  /\ j.pc = "mark" => j.posted # {}
  /\ \A e \in j.batch \cup j.posted : e.st \in PastStream
  /\ \A e \in j.batch : e.msg = e.read.msg
  /\ \A e \in j.posted : e.msg = e.read.msg \/ e.read.msg = 0
  /\ j.pc = "remove" => j.old.msg \notin Messages

\* The list a job is about to replace by one that it has posted, or will post.
Replaces(j) == j.pc = "create" \/ (j.pc = "store" /\ j.msg # j.old.msg)
Doomed == {task[p].old.msg : p \in {p \in Notifier : Replaces(task[p])}} \cap Messages

\* The messages that nobody knows of, and those that will be such when a job that could
\* not delete them has saved the id of the next one.
Stray == (Messages \ (Recorded \cup AllInHand)) \cup Doomed

\* No message is forgotten but the slips: the inductive invariant of the channel.
ChannelInv ==
  /\ ChannelTypeOK
  /\ UniqueIds
  /\ \A p \in Notifier : TaskSound(task[p])
  /\ Cardinality(Stray) <= slips

\* The values of an expression over a finite set are finitely many.
LEMMA ImageFinite ==
  ASSUME NEW S, IsFiniteSet(S), NEW f, DOMAIN f = S
  PROVE  IsFiniteSet({f[x] : x \in S})
<1> DEFINE T == {f[x] : x \in S}
           g == [x \in S |-> f[x]]
<1>1. g \in Surjection(S, T)
  BY DEF Surjection
<1> HIDE DEF g
<1> QED
  BY <1>1, FS_Surjection

\* First is one of the entries, the first of them.
LEMMA FirstIn ==
  ASSUME NEW entries \in SUBSET Entries, entries # {}
  PROVE  First(entries) \in entries
<1> DEFINE T == {e.st : e \in entries}
<1>1. T \in SUBSET Nat /\ T # {}
  BY DEF Entries
<1>2. \E x \in T : \A y \in T : x <= y
  <2> HIDE DEF T
  <2> QED
    BY <1>1, Smallest
<1>3. \E e \in entries : \A f \in entries : e.st <= f.st
  BY <1>2
<1> QED
  BY <1>3 DEF First

\* The messages of the channel are finitely many.
LEMMA MessagesFinite == ChannelTypeOK => IsFiniteSet(Messages)
<1> SUFFICES ASSUME ChannelTypeOK PROVE IsFiniteSet(Messages)
  OBVIOUS
<1> DEFINE S == 1 .. Len(channel)
           f == [i \in S |-> channel[i].id]
<1>1. IsFiniteSet(S)
  BY FS_Interval DEF ChannelTypeOK
<1>2. DOMAIN f = S
  OBVIOUS
<1>3. Messages = {f[i] : i \in S}
  BY DEF Messages, ChannelTypeOK
<1> HIDE DEF f, S
<1> QED
  BY <1>1, <1>2, <1>3, ImageFinite

\* So are the streams that have been.
LEMMA PastFinite == ChannelTypeOK => IsFiniteSet(PastStream)
<1> SUFFICES ASSUME ChannelTypeOK PROVE IsFiniteSet(PastStream)
  OBVIOUS
<1>1. bound.past \in Nat
  BY ChannelAssumption DEF ChannelTypeOK
<1> QED
  BY <1>1, FS_Interval DEF PastStream

\* So are the jobs.
LEMMA NotifierFinite == IsFiniteSet(Notifier)
<1>1. IsFiniteSet({Ticker})
  BY FS_Singleton
<1> QED
  BY <1>1, ChannelAssumption, FS_Union DEF Notifier

\* And so are the ids that anybody remembers.
LEMMA RememberedFinite == ChannelInv => IsFiniteSet(Remembered)
<1> SUFFICES ASSUME ChannelInv PROVE IsFiniteSet(Remembered)
  OBVIOUS
<1> DEFINE Kept == {history[st].msg : st \in PastStream}
           Of(p) == {task[p].msg, task[p].old.msg} \cup {e.msg : e \in task[p].posted}
                      \cup {e.read.msg : e \in task[p].batch}
           Known == {Of(p) : p \in Notifier}
<1>1. IsFiniteSet(Kept)
  <2> DEFINE f == [st \in PastStream |-> history[st].msg]
  <2>1. DOMAIN f = PastStream /\ Kept = {f[st] : st \in PastStream}
    OBVIOUS
  <2>2. IsFiniteSet(PastStream)
    BY PastFinite DEF ChannelInv
  <2> HIDE DEF f, Kept
  <2> QED
    BY <2>1, <2>2, ImageFinite
<1>2. ASSUME NEW p \in Notifier PROVE IsFiniteSet(Of(p))
  <2> DEFINE P == task[p].posted
             B == task[p].batch
             f == [e \in P |-> e.msg]
             g == [e \in B |-> e.read.msg]
             Fs == {f[e] : e \in P}
             Gs == {g[e] : e \in B}
             Two == {task[p].msg} \cup {task[p].old.msg}
  <2>1. IsFiniteSet(P) /\ IsFiniteSet(B)
    BY DEF ChannelInv, TaskSound
  <2>2. DOMAIN f = P /\ DOMAIN g = B
    OBVIOUS
  <2>3. Of(p) = (Two \cup Fs) \cup Gs
    OBVIOUS
  <2>4. IsFiniteSet(Two)
    BY FS_Singleton, FS_Union
  <2> HIDE DEF P, B, f, g, Two
  <2>5. IsFiniteSet(Fs) /\ IsFiniteSet(Gs)
    BY <2>1, <2>2, ImageFinite
  <2> HIDE DEF Fs, Gs
  <2>6. IsFiniteSet(Two \cup Fs)
    BY <2>4, <2>5, FS_Union
  <2> QED
    BY <2>3, <2>5, <2>6, FS_Union
<1>3. IsFiniteSet(Known)
  <2> DEFINE h == [p \in Notifier |-> Of(p)]
  <2>1. DOMAIN h = Notifier /\ Known = {h[p] : p \in Notifier}
    OBVIOUS
  <2> HIDE DEF h, Known
  <2> QED
    BY <2>1, NotifierFinite, ImageFinite
<1>4. IsFiniteSet(UNION Known)
  <2>1. \A T \in Known : IsFiniteSet(T)
    BY <1>2
  <2> HIDE DEF Known
  <2> QED
    BY <1>3, <2>1, FS_UNION
<1>5. IsFiniteSet(Messages)
  BY MessagesFinite DEF ChannelInv
<1>6. Remembered = ((Messages \cup {listed.msg}) \cup Kept) \cup UNION Known
  BY DEF Remembered
<1> HIDE DEF Kept, Known
<1>7. IsFiniteSet(Messages \cup {listed.msg})
  BY <1>5, FS_AddElement
<1>8. IsFiniteSet((Messages \cup {listed.msg}) \cup Kept)
  BY <1>1, <1>7, FS_Union
<1> QED
  BY <1>4, <1>6, <1>8, FS_Union

\* There is an id, then, that nobody remembers: NewId is one.
LEMMA NewIdIsNew == ChannelInv => NewId \in Nat \ {0} /\ NewId \notin Remembered
<1> SUFFICES ASSUME ChannelInv PROVE NewId \in Nat \ {0} /\ NewId \notin Remembered
  OBVIOUS
<1> DEFINE n == Cardinality(Remembered)
<1>1. IsFiniteSet(Remembered) /\ n \in Nat
  BY RememberedFinite, FS_CardinalityType
<1> HIDE DEF n
<1>2. IsFiniteSet(1 .. n + 1) /\ Cardinality(1 .. n + 1) = n + 1
  BY <1>1, FS_Interval
<1>3. ~ (1 .. n + 1 \subseteq Remembered)
  <2> SUFFICES ASSUME 1 .. n + 1 \subseteq Remembered PROVE FALSE
    OBVIOUS
  <2>1. Cardinality(1 .. n + 1) <= Cardinality(Remembered)
    BY <1>1, FS_Subset
  <2> QED
    BY <1>1, <1>2, <2>1 DEF n
<1>4. \E id \in 1 .. Cardinality(Remembered) + 1 : id \notin Remembered
  BY <1>3 DEF n
<1>5. NewId \in 1 .. Cardinality(Remembered) + 1 /\ NewId \notin Remembered
  BY <1>4 DEF NewId
<1> QED
  BY <1>1, <1>5 DEF n

\* Posting adds a message to the channel.
LEMMA AppendAdds ==
  ASSUME ChannelTypeOK, UniqueIds, NEW m \in ChannelMessages, m.id \notin Messages,
         channel' = Append(channel, m)
  PROVE  /\ channel' \in Seq(ChannelMessages) /\ UniqueIds'
         /\ Messages' = Messages \cup {m.id}
<1> DEFINE n == Len(channel)
<1>1. channel \in Seq(ChannelMessages) /\ n \in Nat
  BY DEF ChannelTypeOK
<1>2. /\ channel' \in Seq(ChannelMessages) /\ DOMAIN channel' = 1 .. n + 1
      /\ DOMAIN channel = 1 .. n
      /\ \A i \in 1 .. n : channel'[i] = channel[i]
      /\ channel'[n + 1] = m
  BY <1>1
<1> HIDE DEF n
<1>3. Messages' = Messages \cup {m.id}
  <2>1. \A i \in 1 .. n : i \in 1 .. n + 1 
    BY <1>1
  <2>2. \A i \in 1 .. n + 1 : i \in 1 .. n \/ i = n + 1
    BY <1>1
  <2>3. n + 1 \in 1 .. n + 1
    BY <1>1
  <2> QED
    BY <1>2, <2>1, <2>2, <2>3 DEF Messages
<1>4. UniqueIds'
  <2> SUFFICES ASSUME NEW i \in 1 .. n + 1, NEW k \in 1 .. n + 1, channel'[i].id = channel'[k].id
               PROVE  i = k
    BY <1>2 DEF UniqueIds
  <2>1. i \in 1 .. n \/ i = n + 1
    BY <1>1
  <2>2. k \in 1 .. n \/ k = n + 1
    BY <1>1
  <2>3. \A a \in 1 .. n : channel[a].id # m.id
    BY <1>2 DEF Messages
  <2> QED
    BY <1>2, <2>1, <2>2, <2>3 DEF UniqueIds
<1> QED
  BY <1>2, <1>3, <1>4

\* Deleting a message takes it, and no other, from the channel.
LEMMA WithoutRemoves ==
  ASSUME ChannelTypeOK, UniqueIds, NEW id, channel' = Without(id)
  PROVE  /\ channel' \in Seq(ChannelMessages) /\ UniqueIds'
         /\ Messages' = Messages \ {id}
<1>1. CASE id \notin Messages
  BY <1>1 DEF Without, ChannelTypeOK, UniqueIds, Messages
<1>2. CASE id \in Messages
  <2> DEFINE k == CHOOSE i \in DOMAIN channel : channel[i].id = id
             At(j) == IF j < k THEN j ELSE j + 1
             n == Len(channel)
  <2>1. k \in DOMAIN channel /\ channel[k].id = id
    BY <1>2 DEF Messages
  <2>2. channel' = RemoveAt(channel, k)
    BY <1>2 DEF Without
  <2> HIDE DEF k
  <2>3. channel \in Seq(ChannelMessages)
    BY DEF ChannelTypeOK
  <2>4. /\ channel' \in Seq(ChannelMessages) /\ Len(channel') = n - 1
        /\ \A j \in 1 .. n - 1 : channel'[j] = IF j < k THEN channel[j] ELSE channel[j + 1]
    BY <2>1, <2>2, <2>3, RemoveOne
  <2>5. DOMAIN channel = 1 .. n /\ n \in Nat /\ DOMAIN channel' = 1 .. n - 1
    BY <2>3, <2>4
  <2> HIDE DEF n
  <2>6. \A j \in 1 .. n - 1 : channel'[j] = channel[At(j)] /\ At(j) \in 1 .. n /\ At(j) # k
    BY <2>1, <2>4, <2>5
  <2>7. \A i \in 1 .. n : i # k => \E j \in 1 .. n - 1 : At(j) = i
    <3> SUFFICES ASSUME NEW i \in 1 .. n, i # k PROVE \E j \in 1 .. n - 1 : At(j) = i
      OBVIOUS
    <3>1. CASE i < k
      BY <3>1, <2>1, <2>5
    <3>2. CASE ~(i < k)
      <4>1. i - 1 \in 1 .. n - 1 /\ At(i - 1) = i
        BY <3>2, <2>1, <2>5
      <4> QED
        BY <4>1
    <3> QED
      BY <3>1, <3>2
  <2>8. \A i, j \in 1 .. n - 1 : At(i) = At(j) => i = j
    BY <2>1, <2>5
  <2> HIDE DEF At
  <2>9. UniqueIds'
    BY <2>5, <2>6, <2>8 DEF UniqueIds
  <2>10. Messages' \subseteq Messages \ {id}
    BY <2>1, <2>5, <2>6 DEF Messages, UniqueIds
  <2>11. Messages \ {id} \subseteq Messages'
    <3> SUFFICES ASSUME NEW i \in 1 .. n, channel[i].id # id PROVE channel[i].id \in Messages'
      BY <2>5 DEF Messages
    <3>1. i # k
      BY <2>1
    <3>2. PICK j \in 1 .. n - 1 : At(j) = i
      BY <3>1, <2>7
    <3>3. channel'[j] = channel[i]
      BY <3>2, <2>6
    <3> QED
      BY <3>3, <2>5 DEF Messages
  <2> QED
    BY <2>4, <2>9, <2>10, <2>11
<1> QED
  BY <1>1, <1>2

\* Editing a message leaves the ids as they are.
LEMMA EditedKeeps ==
  ASSUME ChannelTypeOK, UniqueIds, NEW m \in ChannelMessages, channel' = Edited(m)
  PROVE  /\ channel' \in Seq(ChannelMessages) /\ UniqueIds'
         /\ Messages' = Messages
<1>1. channel \in Seq(ChannelMessages)
  BY DEF ChannelTypeOK
<1>2. /\ channel' \in Seq(ChannelMessages) /\ DOMAIN channel' = DOMAIN channel
      /\ \A i \in DOMAIN channel : channel'[i].id = channel[i].id
  BY <1>1 DEF Edited
<1> QED
  BY <1>2 DEF UniqueIds, Messages
\* What a step of one job does to the messages, but for those of X.
Moves(p, X) ==
  /\ task' = [task EXCEPT ![p] = task'[p]]
  /\ Messages' \subseteq Messages \cup InHand(task[p])'
  /\ \A q \in Notifier : task[q].old.msg \in Messages' => task[q].old.msg \in Messages
  /\ (Recorded \cap Messages') \subseteq Recorded' \cup Stray \cup X
  /\ InHand(task[p]) \subseteq InHand(task[p])' \cup Recorded' \cup X
  /\ Replaces(task[p])' =>
       \/ Replaces(task[p]) /\ task'[p].old = task[p].old
       \/ task'[p].old.msg \notin Messages'
       \/ task'[p].old.msg \in X

\* Stray messages after a step of one job: those from before and those of X.
LEMMA MovesStray ==
  ASSUME ChannelTypeOK, NEW p \in Notifier, NEW X, Moves(p, X)
  PROVE  Stray' \subseteq Stray \cup X
<1>1. \A q \in Notifier \ {p} : task'[q] = task[q]
  BY DEF Moves, ChannelTypeOK
<1>2. \A q \in Notifier \ {p} : InHand(task[q])' = InHand(task[q])
  BY <1>1 DEF InHand, Unmarked
<1>3. ASSUME NEW x \in Messages', x \notin Recorded', x \notin AllInHand'
      PROVE  x \in Stray \cup X
  <2>1. \A q \in Notifier : x \notin InHand(task[q])'
    BY <1>3 DEF AllInHand, Notifier
  <2>2. x \in Messages
    BY <2>1 DEF Moves
  <2>3. CASE x \in Recorded
    BY <1>3, <2>3 DEF Moves
  <2>4. CASE \E q \in Notifier : x \in InHand(task[q])
    BY <1>2, <1>3, <2>1, <2>4 DEF Moves
  <2>5. CASE x \notin Recorded /\ ~ (\E q \in Notifier : x \in InHand(task[q]))
    BY <2>2, <2>5 DEF Stray, AllInHand
  <2> QED
    BY <2>3, <2>4, <2>5
<1>4. ASSUME NEW q \in Notifier, Replaces(task[q])', task'[q].old.msg \in Messages'
      PROVE  task'[q].old.msg \in Stray \cup X
  <2>1. CASE task'[q].old = task[q].old /\ Replaces(task[q])
    BY <1>4, <2>1 DEF Moves, Stray, Doomed
  <2>2. CASE q = p
    BY <1>4, <2>1, <2>2 DEF Moves
  <2>3. CASE q # p
    BY <1>1, <1>4, <2>1, <2>3 DEF Replaces
  <2> QED
    BY <2>2, <2>3
<1>5. \A x \in Doomed' : \E q \in Notifier : Replaces(task[q])' /\ x = task'[q].old.msg /\ x \in Messages'
  BY DEF Doomed, Notifier, Replaces
<1>6. \A x \in Stray' : x \in Doomed' \/ (x \in Messages' /\ x \notin Recorded' /\ x \notin AllInHand')
  BY DEF Stray
<1> QED
  BY <1>3, <1>4, <1>5, <1>6

\* Stray messages are finitely many.
LEMMA StrayFinite == ChannelTypeOK => IsFiniteSet(Stray)
  BY MessagesFinite, FS_Subset DEF Stray, Doomed

\* They are at most as many more as X has.
LEMMA StrayGrows ==
  ASSUME ChannelInv, NEW X, IsFiniteSet(X), Stray' \subseteq Stray \cup X,
         slips' = slips + Cardinality(X)
  PROVE  slips' \in Nat /\ Cardinality(Stray') <= slips'
<1>1. IsFiniteSet(Stray) /\ slips \in Nat /\ Cardinality(Stray) <= slips
  BY StrayFinite DEF ChannelInv, ChannelTypeOK
<1>2. /\ IsFiniteSet(Stray \cup X)
      /\ Cardinality(Stray \cup X) = Cardinality(Stray) + Cardinality(X) - Cardinality(Stray \cap X)
  BY <1>1, FS_Union
<1>3. IsFiniteSet(Stray \cap X)
  BY <1>1, FS_Intersection
<1>4. IsFiniteSet(Stray') /\ Cardinality(Stray') <= Cardinality(Stray \cup X)
  BY <1>2, FS_Subset
<1>5. Cardinality(Stray) \in Nat /\ Cardinality(X) \in Nat /\ Cardinality(Stray \cap X) \in Nat /\ Cardinality(Stray') \in Nat
  BY <1>1, <1>3, <1>4, FS_CardinalityType
<1> QED
  BY <1>1, <1>2, <1>4, <1>5

\* A step that pays for what it leaves behind keeps the invariant, if it does so for the
\* types, the ids and the job itself.
Paid(p, X) ==
  /\ Moves(p, X)
  /\ IsFiniteSet(X) /\ slips' = slips + Cardinality(X)
  /\ bound' = bound /\ onAir' \subseteq Broadcasters
  /\ history' \in [PastStream -> HistoryRows]
  /\ channel' \in Seq(ChannelMessages) /\ UniqueIds'
  /\ listed' \in ListRows
  /\ task'[p] \in Tasks /\ TaskSound(task[p])'

\* The invariant holds after a step that pays.
LEMMA PaidKeeps ==
  ASSUME ChannelInv, NEW p \in Notifier, NEW X, Paid(p, X)
  PROVE  ChannelInv'
<1>1. ChannelTypeOK
  BY DEF ChannelInv
<1>2. Cardinality(Stray') <= slips' /\ slips' \in Nat
  <2>1. Stray' \subseteq Stray \cup X
    BY <1>1, MovesStray DEF Paid
  <2> QED
    BY <2>1, StrayGrows DEF Paid
<1>3. ChannelTypeOK'
  <2>1. task' \in [Notifier -> Tasks]
    BY <1>1 DEF Paid, Moves, ChannelTypeOK
  <2>2. PastStream' = PastStream /\ Notifier' = Notifier
    BY DEF Paid, PastStream, Notifier
  <2> QED
    BY <1>1, <1>2, <2>1, <2>2 DEF Paid, ChannelTypeOK
<1>4. ASSUME NEW q \in Notifier PROVE TaskSound(task[q])'
  <2>1. CASE q = p
    BY <2>1 DEF Paid
  <2>2. CASE q # p
    <3>1. task'[q] = task[q]
      BY <1>1, <2>2 DEF Paid, Moves, ChannelTypeOK
    <3>2. TaskSound(task[q])
      BY DEF ChannelInv
    <3>3. task[q].old.msg \in Messages' => task[q].old.msg \in Messages
      BY DEF Paid, Moves
    <3> QED
      BY <3>1, <3>2, <3>3 DEF TaskSound, Paid, PastStream
  <2> QED
    BY <2>1, <2>2
<1>5. UniqueIds' /\ Notifier' = Notifier
  BY DEF Paid, Notifier
<1> QED
  BY <1>2, <1>3, <1>4, <1>5 DEF ChannelInv

\* The invariant holds at first.
LEMMA ChannelInitInv == ChannelInit => ChannelInv
<1> SUFFICES ASSUME ChannelInit PROVE ChannelInv
  OBVIOUS
<1>1. NewHistory \in HistoryRows /\ NotListed \in ListRows /\ AtRest \in Tasks
  BY DEF NewHistory, HistoryRows, NotListed, ListRows, AtRest, Tasks, Pcs
<1>2. ChannelTypeOK
  BY <1>1 DEF ChannelInit, ChannelTypeOK
<1>3. UniqueIds /\ Messages = {}
  BY DEF ChannelInit, UniqueIds, Messages
<1>4. \A p \in Notifier : TaskSound(task[p])
  BY <1>3, FS_EmptySet DEF ChannelInit, TaskSound, AtRest
<1>5. Stray = {}
  BY <1>3 DEF Stray, Doomed
<1>6. Cardinality(Stray) <= slips
  BY <1>5, FS_EmptySet DEF ChannelInit
<1> QED
  BY <1>2, <1>3, <1>4, <1>6 DEF ChannelInv
\* 0 is no id: it stands for no message.
LEMMA IdsPositive == ChannelTypeOK => Messages \subseteq Nat \ {0}
<1> SUFFICES ASSUME ChannelTypeOK, NEW i \in DOMAIN channel PROVE channel[i].id \in Nat \ {0}
  BY DEF Messages
<1>1. channel[i] \in ChannelMessages
  BY DEF ChannelTypeOK
<1> QED
  BY <1>1 DEF ChannelMessages

\* A step that changes neither the messages nor what is known of them.
Quiet(p) ==
  /\ task' = [task EXCEPT ![p] = task'[p]]
  /\ UNCHANGED <<channel, listed, slips, bound>>
  /\ onAir' \subseteq Broadcasters
  /\ history' \in [PastStream -> HistoryRows]
  /\ \A st \in PastStream : history'[st].msg = history[st].msg
  /\ InHand(task[p]) \subseteq InHand(task[p])'
  /\ Replaces(task[p])' => task'[p].old.msg = 0 \/ (Replaces(task[p]) /\ task'[p].old = task[p].old)
  /\ task'[p] \in Tasks /\ TaskSound(task[p])'

\* The invariant holds after a step that changes no message.
LEMMA QuietKeeps ==
  ASSUME ChannelInv, NEW p \in Notifier, Quiet(p)
  PROVE  ChannelInv'
<1>1. ChannelTypeOK /\ UniqueIds
  BY DEF ChannelInv
<1>2. Messages' = Messages /\ UniqueIds' /\ channel' \in Seq(ChannelMessages) /\ listed' \in ListRows
  BY <1>1 DEF Quiet, Messages, UniqueIds, ChannelTypeOK
<1>3. Recorded' = Recorded
  <2>1. PastStream' = PastStream
    BY DEF Quiet, PastStream
  <2> QED
    BY <2>1 DEF Quiet, Recorded
<1>4. Moves(p, {})
  BY <1>1, <1>2, <1>3, IdsPositive DEF Moves, Quiet
<1>5. slips' = slips + Cardinality({}) /\ IsFiniteSet({})
  BY <1>1, FS_EmptySet DEF Quiet, ChannelTypeOK
<1>6. Paid(p, {})
  BY <1>2, <1>4, <1>5 DEF Paid, Quiet
<1> QED
  BY <1>6, PaidKeeps

\* Posting leads to one of the stages of a job.
LEMMA PostingFits ==
  ASSUME NEW j \in Tasks
  PROVE  /\ Posting(j) \in Tasks /\ Posting(j).pc \in {"post", "mark", "streams"}
         /\ Posting(j).batch = j.batch /\ Posting(j).posted = j.posted
         /\ Posting(j).pc = "post" => j.batch # {}
         /\ Posting(j).pc = "mark" => j.posted # {}
         /\ Posting(j).pc = "streams" => j.batch = {} /\ j.posted = {}
  BY DEF Posting, Tasks, Pcs

\* What is known of a job, for use in the steps.
LEMMA TaskTyped ==
  ASSUME ChannelInv, NEW p \in Notifier
  PROVE  task[p] \in Tasks /\ TaskSound(task[p])
  BY DEF ChannelInv, ChannelTypeOK

\* An idle job is as it should be.
LEMMA AtRestFits ==
  /\ AtRest \in Tasks /\ AtRest.batch = {} /\ AtRest.posted = {} /\ AtRest.pc = "idle"
  /\ IsFiniteSet({})
  BY FS_EmptySet DEF AtRest, Tasks, Pcs, NewHistory, HistoryRows, NotListed, ListRows

\* updateStreamHistory, its write.
LEMMA WriteHistoryKeeps ==
  ASSUME ChannelInv, NEW p \in Notifier, WriteHistory(p), UNCHANGED bound
  PROVE  ChannelInv'
<1>1. task[p] \in Tasks /\ TaskSound(task[p]) /\ ChannelTypeOK
  BY TaskTyped DEF ChannelInv
<1> DEFINE st == task[p].st
           ended == task[p].read.ended \/ task[p].over
           needs == task[p].read.needs \/ ~task[p].read.known \/ (ended /\ ~task[p].read.ended)
<1>2. /\ history' = [history EXCEPT ![st].known = TRUE, ![st].ended = ended, ![st].needs = needs]
      /\ task' = [task EXCEPT ![p] = [AtRest EXCEPT !.pc = "notify"]]
      /\ task[p].pc = "upsert" /\ UNCHANGED <<onAir, channel, listed, slips, bound>>
  BY DEF WriteHistory
<1>3. ended \in BOOLEAN /\ needs \in BOOLEAN
  <2>1. task[p].read.ended \in BOOLEAN /\ task[p].over \in BOOLEAN /\ task[p].read.needs \in BOOLEAN
        /\ task[p].read.known \in BOOLEAN
    BY <1>1 DEF Tasks, HistoryRows
  <2> QED
    BY <2>1
<1> HIDE DEF ended, needs
<1>4. history' \in [PastStream -> HistoryRows] /\ \A s \in PastStream : history'[s].msg = history[s].msg
  <2>1. \A s \in PastStream : history[s] \in HistoryRows
    BY <1>1 DEF ChannelTypeOK
  <2>2. ASSUME NEW s \in PastStream PROVE history'[s] \in HistoryRows /\ history'[s].msg = history[s].msg
    <3>1. CASE s = st
      <4>1. history'[s] = [history[s] EXCEPT !.known = TRUE, !.ended = ended, !.needs = needs]
        BY <1>1, <1>2, <3>1 DEF ChannelTypeOK
      <4> QED
        BY <2>1, <4>1, <1>3 DEF HistoryRows
    <3>2. CASE s # st
      BY <1>1, <1>2, <2>1, <3>2 DEF ChannelTypeOK
    <3> QED
      BY <3>1, <3>2
  <2>3. DOMAIN history' = PastStream /\ history' = [s \in DOMAIN history' |-> history'[s]]
    BY <1>1, <1>2 DEF ChannelTypeOK
  <2> QED
    BY <2>2, <2>3
<1>5. task'[p] = [AtRest EXCEPT !.pc = "notify"]
  BY <1>1, <1>2 DEF ChannelTypeOK
<1>6. task'[p] \in Tasks /\ task'[p].pc = "notify" /\ task'[p].batch = {} /\ task'[p].posted = {}
  BY <1>5, AtRestFits DEF Tasks, Pcs
<1>7. TaskSound(task[p])' /\ ~Replaces(task[p])'
  BY <1>6, AtRestFits DEF TaskSound, Replaces
<1>8. InHand(task[p]) = {}
  BY <1>1, <1>2 DEF TaskSound, InHand, Unmarked
<1>9. task' = [task EXCEPT ![p] = task'[p]]
  BY <1>1, <1>2, <1>5
<1>10. onAir' \subseteq Broadcasters
  BY <1>1, <1>2 DEF ChannelTypeOK
<1>11. Quiet(p)
  BY <1>2, <1>4, <1>6, <1>7, <1>8, <1>9, <1>10 DEF Quiet
<1> QED
  BY <1>11, QuietKeeps

\* The query of the histories that Discord has to learn of.
LEMMA QueryHistoriesKeeps ==
  ASSUME ChannelInv, NEW p \in Notifier, QueryHistories(p), UNCHANGED bound
  PROVE  ChannelInv'
<1>1. task[p] \in Tasks /\ TaskSound(task[p]) /\ ChannelTypeOK
  BY TaskTyped DEF ChannelInv
<1> DEFINE T == {st \in PastStream : history[st].needs}
           f == [st \in T |-> [st |-> st, read |-> history[st], msg |-> history[st].msg]]
           needy == {[st |-> st, read |-> history[st], msg |-> history[st].msg] : st \in T}
           over == {e \in needy : e.read.ended}
           j == [task[p] EXCEPT !.batch = over, !.posted = needy \ over]
<1>2. /\ task[p].pc = "notify" /\ task' = [task EXCEPT ![p] = Posting(j)]
      /\ UNCHANGED <<onAir, history, channel, listed, slips, bound>>
  BY <1>1 DEF QueryHistories, ChannelTypeOK
<1>3. needy \subseteq Entries /\ \A e \in needy : e.msg = e.read.msg /\ e.st \in PastStream
  <2>1. \A st \in PastStream : st \in Nat
    BY <1>1, ChannelAssumption DEF PastStream, ChannelTypeOK
  <2> QED
    BY <1>1, <2>1 DEF Entries, ChannelTypeOK, HistoryRows
<1>4. IsFiniteSet(needy)
  <2>1. IsFiniteSet(T)
    BY <1>1, PastFinite, FS_Subset
  <2>2. DOMAIN f = T /\ needy = {f[st] : st \in T}
    OBVIOUS
  <2> HIDE DEF f, T, needy
  <2> QED
    BY <2>1, <2>2, ImageFinite
<1> HIDE DEF needy
<1>5. IsFiniteSet(over) /\ IsFiniteSet(needy \ over) /\ over \subseteq needy
  BY <1>4, FS_Subset
<1>6. j \in Tasks /\ j.batch = over /\ j.posted = needy \ over
  <2>1. over \subseteq Entries /\ needy \ over \subseteq Entries
    BY <1>3
  <2> HIDE DEF over
  <2> QED
    BY <1>1, <2>1 DEF Tasks
<1> HIDE DEF j
<1>7. task'[p] = Posting(j) /\ task' = [task EXCEPT ![p] = task'[p]]
  BY <1>1, <1>2 DEF ChannelTypeOK
<1>8. TaskSound(task[p])' /\ task'[p] \in Tasks /\ ~Replaces(task[p])'
  <2>1. /\ task'[p] \in Tasks /\ task'[p].pc \in {"post", "mark", "streams"}
        /\ task'[p].batch = over /\ task'[p].posted = needy \ over
        /\ task'[p].pc = "post" => over # {}
        /\ task'[p].pc = "mark" => needy \ over # {}
        /\ task'[p].pc = "streams" => over = {} /\ needy \ over = {}
    BY <1>6, <1>7, PostingFits
  <2>2. \A e \in over : e \in needy
    BY <1>5
  <2> HIDE DEF over
  <2>3. PastStream' = PastStream
    BY DEF PastStream
  <2> QED
    BY <1>3, <1>5, <2>1, <2>2, <2>3 DEF TaskSound, Replaces
<1>9. InHand(task[p]) = {}
  BY <1>1, <1>2 DEF TaskSound, InHand, Unmarked
<1>10. onAir' \subseteq Broadcasters /\ history' \in [PastStream -> HistoryRows]
  BY <1>1, <1>2 DEF ChannelTypeOK
<1>11. Quiet(p)
  BY <1>2, <1>7, <1>8, <1>9, <1>10 DEF Quiet
<1> QED
  BY <1>11, QuietKeeps

\* The statuses that are read, and the list that is recorded.
LEMMA LookingKeeps ==
  ASSUME ChannelInv, NEW p \in Notifier, UNCHANGED bound,
         QueryStreams(p) \/ FetchListed(p) \/ LookAtChannel(p)
  PROVE  ChannelInv'
<1>1. task[p] \in Tasks /\ TaskSound(task[p]) /\ ChannelTypeOK
  BY TaskTyped DEF ChannelInv
<1>2. UNCHANGED <<onAir, history, channel, listed, slips, bound>>
  BY DEF QueryStreams, FetchListed, LookAtChannel
<1>3. /\ task[p].pc \in {"streams", "fetch", "look"}
      /\ task[p].batch = {} /\ task[p].posted = {} /\ IsFiniteSet({})
  BY <1>1, AtRestFits DEF QueryStreams, FetchListed, LookAtChannel, TaskSound
<1>4. /\ task' = [task EXCEPT ![p] = task'[p]] /\ task'[p] \in Tasks
      /\ task'[p].batch = {} /\ task'[p].posted = {}
      /\ task'[p].pc \in {"idle", "fetch", "look", "delete", "edit", "create", "replace"}
      /\ task'[p].pc = "create" => task'[p].old.msg = 0
  <2>1. CASE QueryStreams(p)
    <3>1. task' = [task EXCEPT ![p] = [task[p] EXCEPT !.pc = "fetch", !.list = onAir]]
      BY <1>1, <2>1 DEF QueryStreams, ChannelTypeOK
    <3>2. onAir \subseteq Broadcasters
      BY <1>1 DEF ChannelTypeOK
    <3> QED
      BY <1>1, <1>3, <3>1, <3>2 DEF ChannelTypeOK, Tasks, Pcs
  <2>2. CASE FetchListed(p)
    <3>1. task' = [task EXCEPT ![p] = [task[p] EXCEPT !.pc = "look", !.old = listed]]
      BY <1>1, <2>2 DEF FetchListed, ChannelTypeOK
    <3>2. listed \in ListRows
      BY <1>1 DEF ChannelTypeOK
    <3> QED
      BY <1>1, <1>3, <3>1, <3>2 DEF ChannelTypeOK, Tasks, Pcs
  <2>3. CASE LookAtChannel(p)
    <3>1. \/ Ends(p)
          \/ Goes(p, "delete") \/ Goes(p, "edit") \/ Goes(p, "replace")
          \/ Goes(p, "create") /\ task[p].old.msg = 0
      BY <2>3 DEF LookAtChannel
    <3>2. CASE Ends(p)
      BY <1>1, <3>2, AtRestFits DEF Ends, ChannelTypeOK
    <3>3. ASSUME NEW pc \in {"delete", "edit", "replace", "create"}, Goes(p, pc)
          PROVE  /\ task' = [task EXCEPT ![p] = task'[p]] /\ task'[p] \in Tasks
                 /\ task'[p].batch = {} /\ task'[p].posted = {}
                 /\ task'[p].pc = pc /\ task'[p].old = task[p].old
      <4>1. task' = [task EXCEPT ![p] = [task[p] EXCEPT !.pc = pc]]
        BY <1>1, <3>3 DEF Goes, ChannelTypeOK
      <4> QED
        BY <1>1, <1>3, <4>1 DEF ChannelTypeOK, Tasks, Pcs
    <3> QED
      BY <3>1, <3>2, <3>3
  <2> QED
    BY <2>1, <2>2, <2>3
<1>5. TaskSound(task[p])' /\ (Replaces(task[p])' => task'[p].old.msg = 0)
  BY <1>3, <1>4 DEF TaskSound, Replaces
<1>6. InHand(task[p]) = {}
  BY <1>3 DEF InHand, Unmarked
<1>7. onAir' \subseteq Broadcasters /\ history' \in [PastStream -> HistoryRows]
  BY <1>1, <1>2 DEF ChannelTypeOK
<1>8. Quiet(p)
  BY <1>2, <1>4, <1>5, <1>6, <1>7 DEF Quiet
<1> QED
  BY <1>8, QuietKeeps
\* A job that ends is idle.
LEMMA EndsFits ==
  ASSUME ChannelTypeOK, NEW p \in Notifier, Ends(p)
  PROVE  /\ task' = [task EXCEPT ![p] = task'[p]] /\ task'[p] \in Tasks
         /\ TaskSound(task[p])' /\ ~Replaces(task[p])'
<1>1. task' = [task EXCEPT ![p] = task'[p]] /\ task'[p] = AtRest
  BY DEF Ends, ChannelTypeOK
<1> QED
  BY <1>1, AtRestFits DEF TaskSound, Replaces

\* What a job has in hand is finitely many messages.
LEMMA InHandFinite ==
  ASSUME ChannelInv, NEW p \in Notifier
  PROVE  IsFiniteSet(InHand(task[p]))
<1> DEFINE U == Unmarked(task[p])
           f == [e \in U |-> e.msg]
           Es == {f[e] : e \in U}
           One == IF task[p].pc = "store" /\ task[p].msg # task[p].old.msg THEN {task[p].msg} ELSE {}
<1>1. IsFiniteSet(U)
  BY TaskTyped, FS_Subset DEF TaskSound, Unmarked
<1>2. DOMAIN f = U /\ InHand(task[p]) = Es \cup One
  BY DEF InHand
<1>3. IsFiniteSet(One)
  BY FS_EmptySet, FS_Singleton
<1> HIDE DEF U, f, One
<1>4. IsFiniteSet(Es)
  BY <1>1, <1>2, ImageFinite
<1> HIDE DEF Es
<1> QED
  BY <1>2, <1>3, <1>4, FS_Union

\* A job that ends and pays for what it had in hand.
LEMMA EndingKeeps ==
  ASSUME ChannelInv, NEW p \in Notifier, Ends(p), slips' = slips + Cardinality(InHand(task[p])),
         channel' \in Seq(ChannelMessages), UniqueIds', Messages' \subseteq Messages,
         UNCHANGED <<onAir, history, listed, bound>>
  PROVE  ChannelInv'
<1>1. ChannelTypeOK
  BY DEF ChannelInv
<1>2. Recorded' = Recorded /\ PastStream' = PastStream
  BY DEF Recorded, PastStream
<1>3. Moves(p, InHand(task[p]))
  BY <1>1, <1>2, EndsFits DEF Moves
<1>4. /\ onAir' \subseteq Broadcasters /\ history' \in [PastStream -> HistoryRows] /\ listed' \in ListRows
  BY <1>1 DEF ChannelTypeOK
<1>5. Paid(p, InHand(task[p]))
  BY <1>1, <1>3, <1>4, EndsFits, InHandFinite DEF Paid
<1> QED
  BY <1>5, PaidKeeps

\* The job p after it has posted the history e with message msg.
PostedNext(p, e, msg) ==
  Posting([task[p] EXCEPT !.batch = @ \ {e}, !.posted = @ \cup {[e EXCEPT !.msg = msg]}])

\* A job that has posted a history is as it should be.
LEMMA PostedFits ==
  ASSUME ChannelInv, NEW p \in Notifier, task[p].pc = "post", NEW e \in task[p].batch,
         NEW msg \in Nat, msg = e.msg \/ e.msg = 0, UNCHANGED bound,
         task' = [task EXCEPT ![p] = PostedNext(p, e, msg)]
  PROVE  /\ task' = [task EXCEPT ![p] = task'[p]] /\ task'[p] \in Tasks
         /\ TaskSound(task[p])' /\ ~Replaces(task[p])'
         /\ InHand(task[p]) \subseteq InHand(task[p])'
         /\ msg # e.msg => msg \in InHand(task[p])'
<1> DEFINE new == [e EXCEPT !.msg = msg]
           j == [task[p] EXCEPT !.batch = @ \ {e}, !.posted = @ \cup {new}]
<1>1. task[p] \in Tasks /\ TaskSound(task[p]) /\ ChannelTypeOK
  BY TaskTyped DEF ChannelInv
<1>2. e \in Entries /\ e.msg = e.read.msg /\ e.st \in PastStream
  BY <1>1 DEF TaskSound, Tasks
<1>3. new \in Entries /\ new.msg = msg /\ new.read = e.read /\ new.st = e.st
  BY <1>2 DEF Entries
<1> HIDE DEF new
<1>4. j \in Tasks /\ j.batch = task[p].batch \ {e} /\ j.posted = task[p].posted \cup {new}
  BY <1>1, <1>3 DEF Tasks
<1>5. IsFiniteSet(j.batch) /\ IsFiniteSet(j.posted)
  BY <1>1, <1>4, FS_RemoveElement, FS_AddElement DEF TaskSound
<1>6. task' = [task EXCEPT ![p] = Posting(j)]
  BY DEF PostedNext, new
<1> HIDE DEF j
<1>7. task' = [task EXCEPT ![p] = task'[p]] /\ task'[p] = Posting(j)
  BY <1>1, <1>6 DEF ChannelTypeOK
<1>8. /\ task'[p] \in Tasks /\ task'[p].pc \in {"post", "mark", "streams"}
      /\ task'[p].batch = task[p].batch \ {e} /\ task'[p].posted = task[p].posted \cup {new}
      /\ task'[p].pc = "post" => task'[p].batch # {}
      /\ task'[p].pc = "mark" => task'[p].posted # {}
      /\ task'[p].pc = "streams" => task'[p].batch = {} /\ task'[p].posted = {}
  BY <1>4, <1>7, PostingFits
<1>9. TaskSound(task[p])'
  <2>1. PastStream' = PastStream
    BY DEF PastStream
  <2>2. IsFiniteSet(task'[p].batch) /\ IsFiniteSet(task'[p].posted)
    BY <1>4, <1>5, <1>8
  <2> QED
    BY <1>1, <1>2, <1>3, <1>8, <2>1, <2>2 DEF TaskSound
<1>10. InHand(task[p]) \subseteq InHand(task[p])' /\ (msg # e.msg => msg \in InHand(task[p])')
  BY <1>2, <1>3, <1>8 DEF InHand, Unmarked
<1> QED
  BY <1>7, <1>8, <1>9, <1>10 DEF Replaces

\* The post, or the edit, of the message of a history.
LEMMA PostHistoryKeeps ==
  ASSUME ChannelInv, NEW p \in Notifier, PostHistory(p), UNCHANGED bound
  PROVE  ChannelInv'
<1> DEFINE e == First(task[p].batch)
           m(id) == PastMessage(id, e.st, e.read)
<1>1. task[p] \in Tasks /\ TaskSound(task[p]) /\ ChannelTypeOK /\ UniqueIds
  BY TaskTyped DEF ChannelInv
<1>2. task[p].pc = "post" /\ UNCHANGED <<onAir, history, listed>>
  BY DEF PostHistory
<1>3. e \in task[p].batch
  BY <1>1, <1>2, FirstIn DEF TaskSound, Tasks
<1>4. e \in Entries /\ e.msg \in Nat
  BY <1>1, <1>3 DEF Tasks, Entries
<1>5. \A id \in Nat \ {0} : m(id) \in ChannelMessages /\ m(id).id = id
  <2>1. (e.read.vod = "found") \in BOOLEAN
    OBVIOUS
  <2> QED
    BY <1>4, <2>1 DEF PastMessage, ChannelMessages, Entries
<1>6. /\ onAir' \subseteq Broadcasters /\ history' \in [PastStream -> HistoryRows] /\ listed' \in ListRows
      /\ Recorded' = Recorded
  BY <1>1, <1>2 DEF ChannelTypeOK, Recorded, PastStream
<1>7. slips + Cardinality({}) = slips /\ IsFiniteSet({})
  BY <1>1, FS_EmptySet DEF ChannelTypeOK
<1>8. \/ /\ e.msg = 0 /\ UNCHANGED slips
         /\ channel' = Append(channel, m(NewId)) /\ task' = [task EXCEPT ![p] = PostedNext(p, e, NewId)]
      \/ /\ e.msg \in Messages /\ UNCHANGED slips
         /\ channel' = Edited(m(e.msg)) /\ task' = [task EXCEPT ![p] = PostedNext(p, e, e.msg)]
      \/ /\ Ends(p) /\ slips' = slips + Cardinality(InHand(task[p])) /\ UNCHANGED channel
  BY DEF PostHistory, Post, PostedNext
<1>9. CASE e.msg = 0 /\ UNCHANGED slips /\ channel' = Append(channel, m(NewId))
           /\ task' = [task EXCEPT ![p] = PostedNext(p, e, NewId)]
  <2>1. NewId \in Nat \ {0} /\ NewId \notin Remembered
    BY NewIdIsNew
  <2>2. NewId \notin Messages /\ \A q \in Notifier : task[q].old.msg # NewId
    BY <2>1 DEF Remembered
  <2>3. m(NewId) \in ChannelMessages /\ m(NewId).id = NewId
    BY <1>5, <2>1
  <2> HIDE DEF m, e
  <2>4. channel' \in Seq(ChannelMessages) /\ UniqueIds' /\ Messages' = Messages \cup {NewId}
    BY <1>1, <1>9, <2>2, <2>3, AppendAdds
  <2>5. /\ task' = [task EXCEPT ![p] = task'[p]] /\ task'[p] \in Tasks
        /\ TaskSound(task[p])' /\ ~Replaces(task[p])'
        /\ InHand(task[p]) \subseteq InHand(task[p])' /\ NewId \in InHand(task[p])'
    BY <1>2, <1>3, <1>9, <2>1, PostedFits
  <2>6. Moves(p, {})
    BY <1>6, <2>2, <2>4, <2>5 DEF Moves
  <2>7. Paid(p, {})
    BY <1>6, <1>7, <1>9, <2>4, <2>5, <2>6 DEF Paid
  <2> QED
    BY <2>7, PaidKeeps
<1>10. CASE e.msg \in Messages /\ UNCHANGED slips /\ channel' = Edited(m(e.msg))
            /\ task' = [task EXCEPT ![p] = PostedNext(p, e, e.msg)]
  <2>1. m(e.msg) \in ChannelMessages
    BY <1>1, <1>5, <1>10, IdsPositive
  <2> HIDE DEF m, e
  <2>2. channel' \in Seq(ChannelMessages) /\ UniqueIds' /\ Messages' = Messages
    BY <1>1, <1>10, <2>1, EditedKeeps
  <2>3. /\ task' = [task EXCEPT ![p] = task'[p]] /\ task'[p] \in Tasks
        /\ TaskSound(task[p])' /\ ~Replaces(task[p])'
        /\ InHand(task[p]) \subseteq InHand(task[p])'
    BY <1>2, <1>3, <1>4, <1>10, PostedFits
  <2>4. Moves(p, {})
    BY <1>6, <2>2, <2>3 DEF Moves
  <2>5. Paid(p, {})
    BY <1>6, <1>7, <1>10, <2>2, <2>3, <2>4 DEF Paid
  <2> QED
    BY <2>5, PaidKeeps
<1>11. CASE Ends(p) /\ slips' = slips + Cardinality(InHand(task[p])) /\ UNCHANGED channel
  <2>1. channel' \in Seq(ChannelMessages) /\ UniqueIds' /\ Messages' = Messages
    BY <1>1, <1>11 DEF ChannelTypeOK, UniqueIds, Messages
  <2> QED
    BY <1>2, <1>11, <2>1, EndingKeeps
<1> QED
  BY <1>8, <1>9, <1>10, <1>11

\* The transaction that marks the histories and keeps the ids of their messages.
LEMMA MarkPostedKeeps ==
  ASSUME ChannelInv, NEW p \in Notifier, MarkPosted(p), UNCHANGED bound
  PROVE  ChannelInv'
<1> DEFINE e == First(task[p].posted)
           j == [task[p] EXCEPT !.posted = @ \ {e}]
           old == history[e.st].msg
           X == IF old \in {e.read.msg, e.msg} THEN {} ELSE {old}
<1>1. task[p] \in Tasks /\ TaskSound(task[p]) /\ ChannelTypeOK /\ UniqueIds
  BY TaskTyped DEF ChannelInv
<1>2. /\ task[p].pc = "mark" /\ UNCHANGED <<onAir, channel, listed>>
      /\ history' = [history EXCEPT ![e.st].needs = FALSE, ![e.st].msg = e.msg]
      /\ slips' = IF old \in {e.read.msg, e.msg} THEN slips ELSE slips + 1
      /\ task' = [task EXCEPT ![p] = Posting(j)]
  BY DEF MarkPosted
<1>3. e \in task[p].posted
  BY <1>1, <1>2, FirstIn DEF TaskSound, Tasks
<1>4. e \in Entries /\ e.msg \in Nat /\ e.st \in PastStream /\ (e.msg = e.read.msg \/ e.read.msg = 0)
  BY <1>1, <1>3 DEF Tasks, Entries, TaskSound
<1> HIDE DEF e
<1>5. /\ history' \in [PastStream -> HistoryRows] /\ history'[e.st].msg = e.msg
      /\ \A s \in PastStream \ {e.st} : history'[s] = history[s]
  <2>1. \A s \in PastStream : history[s] \in HistoryRows
    BY <1>1 DEF ChannelTypeOK
  <2>2. history'[e.st] = [history[e.st] EXCEPT !.needs = FALSE, !.msg = e.msg]
    BY <1>1, <1>2, <1>4 DEF ChannelTypeOK
  <2>3. history'[e.st] \in HistoryRows /\ history'[e.st].msg = e.msg
    BY <1>4, <2>1, <2>2 DEF HistoryRows
  <2>4. \A s \in PastStream \ {e.st} : history'[s] = history[s]
    BY <1>1, <1>2 DEF ChannelTypeOK
  <2>5. DOMAIN history' = PastStream /\ history' = [s \in DOMAIN history' |-> history'[s]]
    BY <1>1, <1>2 DEF ChannelTypeOK
  <2> QED
    BY <2>1, <2>3, <2>4, <2>5
<1>6. j \in Tasks /\ j.posted = task[p].posted \ {e} /\ j.batch = task[p].batch
  BY <1>1 DEF Tasks
<1>7. IsFiniteSet(j.batch) /\ IsFiniteSet(j.posted)
  BY <1>1, <1>6, FS_RemoveElement DEF TaskSound
<1> HIDE DEF j
<1>8. task' = [task EXCEPT ![p] = task'[p]] /\ task'[p] = Posting(j)
  BY <1>1, <1>2 DEF ChannelTypeOK
<1>9. /\ task'[p] \in Tasks /\ task'[p].pc \in {"post", "mark", "streams"}
      /\ task'[p].batch = task[p].batch /\ task'[p].posted = task[p].posted \ {e}
      /\ task'[p].pc = "post" => task'[p].batch # {}
      /\ task'[p].pc = "mark" => task'[p].posted # {}
      /\ task'[p].pc = "streams" => task'[p].batch = {} /\ task'[p].posted = {}
  BY <1>6, <1>8, PostingFits
<1>10. TaskSound(task[p])' /\ ~Replaces(task[p])'
  <2>1. PastStream' = PastStream
    BY DEF PastStream
  <2>2. IsFiniteSet(task'[p].batch) /\ IsFiniteSet(task'[p].posted)
    BY <1>6, <1>7, <1>9
  <2> QED
    BY <1>1, <1>9, <2>1, <2>2 DEF TaskSound, Replaces
<1>11. Messages' = Messages /\ UniqueIds' /\ channel' \in Seq(ChannelMessages)
       /\ listed' \in ListRows /\ onAir' \subseteq Broadcasters
  BY <1>1, <1>2 DEF Messages, UniqueIds, ChannelTypeOK
<1>12. e.msg \in Recorded' /\ Recorded \subseteq Recorded' \cup {old}
  <2>1. PastStream' = PastStream
    BY DEF PastStream
  <2> QED
    BY <1>2, <1>4, <1>5, <2>1 DEF Recorded
<1>13. InHand(task[p]) \subseteq InHand(task[p])' \cup Recorded'
  BY <1>2, <1>9, <1>12 DEF InHand, Unmarked
<1>14. Recorded \cap Messages' \subseteq Recorded' \cup X
  <2>1. old = e.msg => old \in Recorded'
    BY <1>12
  <2>2. old = e.read.msg /\ old # e.msg => old \notin Messages
    BY <1>1, <1>4, IdsPositive
  <2> QED
    BY <1>11, <1>12, <2>1, <2>2
<1>15. IsFiniteSet(X) /\ slips' = slips + Cardinality(X)
  <2>1. slips \in Nat
    BY <1>1 DEF ChannelTypeOK
  <2>2. CASE old \in {e.read.msg, e.msg}
    BY <1>2, <2>1, <2>2, FS_EmptySet
  <2>3. CASE old \notin {e.read.msg, e.msg}
    BY <1>2, <2>1, <2>3, FS_Singleton
  <2> QED
    BY <2>2, <2>3
<1> HIDE DEF X, old
<1>16. Moves(p, X)
  BY <1>8, <1>10, <1>11, <1>13, <1>14 DEF Moves
<1>17. Paid(p, X)
  BY <1>5, <1>9, <1>10, <1>11, <1>15, <1>16 DEF Paid
<1> QED
  BY <1>17, PaidKeeps
\* A step from one of a job's last stages, when it has no histories in hand, to another.
StageStep(p, pc, msg) ==
  /\ task[p].pc \notin {"post", "mark"} /\ pc \in Pcs \ {"post", "mark"} /\ msg \in Nat
  /\ task' = [task EXCEPT ![p] = [task[p] EXCEPT !.pc = pc, !.msg = msg]]
  /\ bound' = bound
  /\ pc = "remove" => task[p].old.msg \notin Messages'

\* A job at its next stage is as it should be.
LEMMA StageFits ==
  ASSUME ChannelInv, NEW p \in Notifier, NEW pc, NEW msg, StageStep(p, pc, msg)
  PROVE  /\ task' = [task EXCEPT ![p] = task'[p]] /\ task'[p] \in Tasks
         /\ task'[p].pc = pc /\ task'[p].old = task[p].old /\ task'[p].msg = msg
         /\ TaskSound(task[p])'
         /\ InHand(task[p])' = IF pc = "store" /\ msg # task[p].old.msg THEN {msg} ELSE {}
         /\ task[p].pc # "store" => InHand(task[p]) = {}
<1>1. task[p] \in Tasks /\ TaskSound(task[p]) /\ ChannelTypeOK
  BY TaskTyped DEF ChannelInv
<1>2. task' = [task EXCEPT ![p] = task'[p]] /\ task'[p] = [task[p] EXCEPT !.pc = pc, !.msg = msg]
  BY <1>1 DEF ChannelTypeOK, StageStep
<1>3. /\ task'[p] \in Tasks /\ task'[p].pc = pc /\ task'[p].old = task[p].old /\ task'[p].msg = msg
      /\ task'[p].batch = task[p].batch /\ task'[p].posted = task[p].posted
  <2>1. pc \in Pcs /\ msg \in Nat
    BY DEF StageStep
  <2> QED
    BY <1>1, <1>2, <2>1 DEF Tasks
<1>4. task[p].batch = {} /\ task[p].posted = {} /\ IsFiniteSet({})
  BY <1>1, AtRestFits DEF TaskSound, StageStep
<1>5. TaskSound(task[p])'
  BY <1>3, <1>4 DEF TaskSound, StageStep
<1>6. /\ InHand(task[p])' = IF pc = "store" /\ msg # task[p].old.msg THEN {msg} ELSE {}
      /\ task[p].pc # "store" => InHand(task[p]) = {}
  BY <1>3, <1>4 DEF InHand, Unmarked
<1> QED
  BY <1>2, <1>3, <1>5, <1>6

\* Goes leads to a stage.
LEMMA GoesStage ==
  ASSUME ChannelInv, NEW p \in Notifier, NEW pc, Goes(p, pc)
  PROVE  /\ task[p].msg \in Nat
         /\ task' = [task EXCEPT ![p] = [task[p] EXCEPT !.pc = pc, !.msg = task[p].msg]]
<1>1. task[p] \in Tasks /\ p \in DOMAIN task
  BY DEF ChannelInv, ChannelTypeOK
<1>2. task[p].msg \in Nat /\ [task[p] EXCEPT !.pc = pc, !.msg = task[p].msg] = [task[p] EXCEPT !.pc = pc]
  BY <1>1 DEF Tasks
<1>3. task' = [task EXCEPT ![p] = [task[p] EXCEPT !.pc = pc]]
  BY <1>1 DEF Goes
<1> QED
  BY <1>2, <1>3

\* The deletion of the list when nobody is live.
LEMMA DeleteListedKeeps ==
  ASSUME ChannelInv, NEW p \in Notifier, DeleteListed(p), UNCHANGED bound
  PROVE  ChannelInv'
<1> DEFINE id == task[p].old.msg
<1>1. task[p] \in Tasks /\ TaskSound(task[p]) /\ ChannelTypeOK /\ UniqueIds
  BY TaskTyped DEF ChannelInv
<1>2. task[p].pc = "delete" /\ UNCHANGED <<onAir, history, listed, slips>> /\ channel' = Without(id)
  BY DEF DeleteListed
<1>3. channel' \in Seq(ChannelMessages) /\ UniqueIds' /\ Messages' = Messages \ {id}
  BY <1>1, <1>2, WithoutRemoves
<1>4. InHand(task[p]) = {} /\ slips + Cardinality({}) = slips /\ IsFiniteSet({})
  BY <1>1, <1>2, FS_EmptySet DEF TaskSound, InHand, Unmarked, ChannelTypeOK
<1>5. CASE Ends(p)
  BY <1>2, <1>3, <1>4, <1>5, EndingKeeps
<1>6. CASE Goes(p, "remove")
  <2>1. "remove" \in Pcs \ {"post", "mark"}
    BY DEF Pcs
  <2>2. /\ task[p].msg \in Nat
        /\ task' = [task EXCEPT ![p] = [task[p] EXCEPT !.pc = "remove", !.msg = task[p].msg]]
    BY <1>6, GoesStage
  <2>3. /\ task' = [task EXCEPT ![p] = task'[p]] /\ task'[p] \in Tasks
        /\ task'[p].pc = "remove" /\ TaskSound(task[p])'
    <3>1. StageStep(p, "remove", task[p].msg)
      BY <1>2, <1>3, <2>1, <2>2 DEF StageStep
    <3> QED
      BY <3>1, StageFits
  <2>4. Recorded' = Recorded
    BY <1>2 DEF Recorded, PastStream
  <2>5. Moves(p, {})
    BY <1>3, <1>4, <2>3, <2>4 DEF Moves, Replaces
  <2>6. onAir' \subseteq Broadcasters /\ history' \in [PastStream -> HistoryRows] /\ listed' \in ListRows
    BY <1>1, <1>2 DEF ChannelTypeOK
  <2>7. Paid(p, {})
    BY <1>2, <1>3, <1>4, <2>3, <2>5, <2>6 DEF Paid
  <2> QED
    BY <2>7, PaidKeeps
<1> QED
  BY <1>5, <1>6 DEF DeleteListed

\* The row of the list is written, and the job ends.
LEMMA ListingKeeps ==
  ASSUME ChannelInv, NEW p \in Notifier, Ends(p), listed' \in ListRows,
         UNCHANGED <<onAir, history, channel, bound>>,
         InHand(task[p]) \subseteq {listed'.msg},
         \/ slips' = slips /\ (listed.msg \in Messages => listed.msg \in Stray \cup {listed'.msg})
         \/ slips' = slips + 1
  PROVE  ChannelInv'
<1>1. ChannelTypeOK /\ UniqueIds /\ slips \in Nat
  BY DEF ChannelInv, ChannelTypeOK
<1>2. /\ task' = [task EXCEPT ![p] = task'[p]] /\ task'[p] \in Tasks
      /\ TaskSound(task[p])' /\ ~Replaces(task[p])'
  BY <1>1, EndsFits
<1>3. /\ Messages' = Messages /\ UniqueIds' /\ channel' \in Seq(ChannelMessages)
      /\ onAir' \subseteq Broadcasters /\ history' \in [PastStream -> HistoryRows]
  BY <1>1 DEF Messages, UniqueIds, ChannelTypeOK
<1>4. listed'.msg \in Recorded' /\ Recorded \subseteq Recorded' \cup {listed.msg}
  BY DEF Recorded, PastStream
<1>5. CASE slips' = slips /\ (listed.msg \in Messages => listed.msg \in Stray \cup {listed'.msg})
  <2>1. Moves(p, {})
    BY <1>2, <1>3, <1>4, <1>5 DEF Moves
  <2>2. slips' = slips + Cardinality({}) /\ IsFiniteSet({})
    BY <1>1, <1>5, FS_EmptySet
  <2>3. Paid(p, {})
    BY <1>2, <1>3, <2>1, <2>2 DEF Paid
  <2> QED
    BY <2>3, PaidKeeps
<1>6. CASE slips' = slips + 1
  <2>1. Moves(p, {listed.msg})
    BY <1>2, <1>3, <1>4, <1>6 DEF Moves
  <2>2. slips' = slips + Cardinality({listed.msg}) /\ IsFiniteSet({listed.msg})
    BY <1>6, FS_Singleton
  <2>3. Paid(p, {listed.msg})
    BY <1>2, <1>3, <2>1, <2>2 DEF Paid
  <2> QED
    BY <2>3, PaidKeeps
<1> QED
  BY <1>5, <1>6

\* The row of the list is deleted.
LEMMA RemoveListedKeeps ==
  ASSUME ChannelInv, NEW p \in Notifier, RemoveListed(p), UNCHANGED bound
  PROVE  ChannelInv'
<1>1. task[p] \in Tasks /\ TaskSound(task[p])
  BY TaskTyped
<1>2. /\ task[p].pc = "remove" /\ UNCHANGED <<onAir, history, channel>> /\ Ends(p)
      /\ listed' = NotListed
      /\ slips' = IF listed.msg = task[p].old.msg THEN slips ELSE slips + 1
  BY DEF RemoveListed
<1>3. task[p].old.msg \notin Messages /\ InHand(task[p]) = {}
  BY <1>1, <1>2 DEF TaskSound, InHand, Unmarked
<1>4. listed' \in ListRows
  BY <1>2 DEF NotListed, ListRows
<1> QED
  BY <1>2, <1>3, <1>4, ListingKeeps

\* The row of the list is written.
LEMMA StoreListedKeeps ==
  ASSUME ChannelInv, NEW p \in Notifier, StoreListed(p), UNCHANGED bound
  PROVE  ChannelInv'
<1>1. task[p] \in Tasks /\ TaskSound(task[p])
  BY TaskTyped
<1>2. /\ task[p].pc = "store" /\ UNCHANGED <<onAir, history, channel>> /\ Ends(p)
      /\ listed' = [msg |-> task[p].msg, who |-> task[p].list]
      /\ slips' = IF listed.msg \in {task[p].old.msg, task[p].msg} THEN slips ELSE slips + 1
  BY DEF StoreListed
<1>3. listed' \in ListRows /\ listed'.msg = task[p].msg
  BY <1>1, <1>2 DEF Tasks, ListRows
<1>4. InHand(task[p]) \subseteq {task[p].msg}
  BY <1>1, <1>2 DEF TaskSound, InHand, Unmarked
<1>5. task[p].old.msg \in Messages /\ task[p].old.msg # task[p].msg => task[p].old.msg \in Stray
  BY <1>2 DEF Stray, Doomed, Replaces
<1> QED
  BY <1>2, <1>3, <1>4, <1>5, ListingKeeps

\* The edit of the list.
LEMMA EditListedKeeps ==
  ASSUME ChannelInv, NEW p \in Notifier, EditListed(p), UNCHANGED bound
  PROVE  ChannelInv'
<1> DEFINE id == task[p].old.msg
           m == ListMessage(id, task[p].list)
<1>1. task[p] \in Tasks /\ TaskSound(task[p]) /\ ChannelTypeOK /\ UniqueIds
  BY TaskTyped DEF ChannelInv
<1>2. /\ task[p].pc = "edit" /\ UNCHANGED <<onAir, history, listed, slips>> /\ channel' = Edited(m)
      /\ IF id \in Messages THEN task' = [task EXCEPT ![p].pc = "store", ![p].msg = id] ELSE Ends(p)
  BY DEF EditListed
<1>3. slips + Cardinality({}) = slips /\ IsFiniteSet({}) /\ InHand(task[p]) = {}
  BY <1>1, <1>2, FS_EmptySet DEF TaskSound, InHand, Unmarked, ChannelTypeOK
<1>4. CASE id \in Messages
  <2>1. id \in Nat \ {0}
    BY <1>1, <1>4, IdsPositive
  <2>2. m \in ChannelMessages
    BY <1>1, <2>1 DEF ListMessage, ChannelMessages, Tasks
  <2> HIDE DEF m
  <2>3. channel' \in Seq(ChannelMessages) /\ UniqueIds' /\ Messages' = Messages
    BY <1>1, <1>2, <2>2, EditedKeeps
  <2>4. task' = [task EXCEPT ![p] = [task[p] EXCEPT !.pc = "store", !.msg = id]]
    BY <1>1, <1>2, <1>4 DEF ChannelTypeOK
  <2>5. "store" \in Pcs \ {"post", "mark"}
    BY DEF Pcs
  <2>6. /\ task' = [task EXCEPT ![p] = task'[p]] /\ task'[p] \in Tasks
        /\ task'[p].pc = "store" /\ task'[p].old = task[p].old /\ task'[p].msg = id
        /\ TaskSound(task[p])'
    <3>1. StageStep(p, "store", id)
      BY <1>2, <2>1, <2>4, <2>5 DEF StageStep
    <3> QED
      BY <3>1, StageFits
  <2>7. Recorded' = Recorded
    BY <1>2 DEF Recorded, PastStream
  <2>8. Moves(p, {})
    BY <1>3, <2>3, <2>6, <2>7 DEF Moves, Replaces
  <2>9. onAir' \subseteq Broadcasters /\ history' \in [PastStream -> HistoryRows] /\ listed' \in ListRows
    BY <1>1, <1>2 DEF ChannelTypeOK
  <2>10. Paid(p, {})
    BY <1>2, <1>3, <2>3, <2>6, <2>8, <2>9 DEF Paid
  <2> QED
    BY <2>10, PaidKeeps
<1>5. CASE id \notin Messages
  <2>1. channel' = channel
    BY <1>1, <1>2, <1>5 DEF Edited, m, ListMessage, Messages, ChannelTypeOK
  <2>2. channel' \in Seq(ChannelMessages) /\ UniqueIds' /\ Messages' = Messages
    BY <1>1, <2>1 DEF ChannelTypeOK, UniqueIds, Messages
  <2> QED
    BY <1>2, <1>3, <1>5, <2>2, EndingKeeps
<1> QED
  BY <1>4, <1>5

\* The deletion of the list, to be posted again below the others.
LEMMA ReplaceListedKeeps ==
  ASSUME ChannelInv, NEW p \in Notifier, ReplaceListed(p), UNCHANGED bound
  PROVE  ChannelInv'
<1> DEFINE id == task[p].old.msg
<1>1. task[p] \in Tasks /\ TaskSound(task[p]) /\ ChannelTypeOK /\ UniqueIds
  BY TaskTyped DEF ChannelInv
<1>2. /\ task[p].pc = "replace" /\ UNCHANGED <<onAir, history, listed, slips>>
      /\ channel' = Without(id) /\ Goes(p, "create")
  BY DEF ReplaceListed
<1>3. channel' \in Seq(ChannelMessages) /\ UniqueIds' /\ Messages' = Messages \ {id}
  BY <1>1, <1>2, WithoutRemoves
<1>4. InHand(task[p]) = {} /\ slips + Cardinality({}) = slips /\ IsFiniteSet({})
  BY <1>1, <1>2, FS_EmptySet DEF TaskSound, InHand, Unmarked, ChannelTypeOK
<1>5. "create" \in Pcs \ {"post", "mark"}
  BY DEF Pcs
<1>6. /\ task[p].msg \in Nat
      /\ task' = [task EXCEPT ![p] = [task[p] EXCEPT !.pc = "create", !.msg = task[p].msg]]
  BY <1>2, GoesStage
<1>7. /\ task' = [task EXCEPT ![p] = task'[p]] /\ task'[p] \in Tasks
      /\ task'[p].old = task[p].old /\ TaskSound(task[p])'
  <2>1. StageStep(p, "create", task[p].msg)
    BY <1>2, <1>5, <1>6 DEF StageStep
  <2> QED
    BY <2>1, StageFits
<1>8. Recorded' = Recorded
  BY <1>2 DEF Recorded, PastStream
<1>9. Moves(p, {})
  BY <1>3, <1>4, <1>7, <1>8 DEF Moves
<1>10. onAir' \subseteq Broadcasters /\ history' \in [PastStream -> HistoryRows] /\ listed' \in ListRows
  BY <1>1, <1>2 DEF ChannelTypeOK
<1>11. Paid(p, {})
  BY <1>2, <1>3, <1>4, <1>7, <1>9, <1>10 DEF Paid
<1> QED
  BY <1>11, PaidKeeps

\* The post of a new list.
LEMMA CreateListedKeeps ==
  ASSUME ChannelInv, NEW p \in Notifier, CreateListed(p), UNCHANGED bound
  PROVE  ChannelInv'
<1> DEFINE m == ListMessage(NewId, task[p].list)
<1>1. task[p] \in Tasks /\ TaskSound(task[p]) /\ ChannelTypeOK /\ UniqueIds
  BY TaskTyped DEF ChannelInv
<1>2. /\ task[p].pc = "create" /\ UNCHANGED <<onAir, history, listed, slips>>
      /\ channel' = Append(channel, m)
      /\ task' = [task EXCEPT ![p] = [task[p] EXCEPT !.pc = "store", !.msg = NewId]]
  BY DEF CreateListed, Post
<1>3. NewId \in Nat \ {0} /\ NewId \notin Remembered
  BY NewIdIsNew
<1>4. NewId \notin Messages /\ \A q \in Notifier : task[q].old.msg # NewId
  BY <1>3 DEF Remembered
<1>5. m \in ChannelMessages /\ m.id = NewId
  BY <1>1, <1>3 DEF ListMessage, ChannelMessages, Tasks
<1> HIDE DEF m
<1>6. channel' \in Seq(ChannelMessages) /\ UniqueIds' /\ Messages' = Messages \cup {NewId}
  BY <1>1, <1>2, <1>4, <1>5, AppendAdds
<1>7. "store" \in Pcs \ {"post", "mark"}
  BY DEF Pcs
<1>8. /\ task' = [task EXCEPT ![p] = task'[p]] /\ task'[p] \in Tasks
      /\ task'[p].old = task[p].old /\ TaskSound(task[p])'
      /\ InHand(task[p])' = {NewId} /\ InHand(task[p]) = {}
  <2>1. StageStep(p, "store", NewId)
    BY <1>2, <1>3, <1>7 DEF StageStep
  <2>2. NewId # task[p].old.msg /\ task[p].pc # "store"
    BY <1>2, <1>4
  <2> QED
    BY <2>1, <2>2, StageFits
<1>9. Recorded' = Recorded
  BY <1>2 DEF Recorded, PastStream
<1>10. Replaces(task[p])
  BY <1>2 DEF Replaces
<1>11. Moves(p, {})
  BY <1>4, <1>6, <1>8, <1>9, <1>10 DEF Moves
<1>12. slips + Cardinality({}) = slips /\ IsFiniteSet({})
  BY <1>1, FS_EmptySet DEF ChannelTypeOK
<1>13. onAir' \subseteq Broadcasters /\ history' \in [PastStream -> HistoryRows] /\ listed' \in ListRows
  BY <1>1, <1>2 DEF ChannelTypeOK
<1>14. Paid(p, {})
  BY <1>2, <1>6, <1>8, <1>11, <1>12, <1>13 DEF Paid
<1> QED
  BY <1>14, PaidKeeps

\* A request or a statement of a job fails.
LEMMA FailNotifyKeeps ==
  ASSUME ChannelInv, NEW p \in Notifier, FailNotify(p), UNCHANGED <<onAir, history, listed, bound>>
  PROVE  ChannelInv'
<1> DEFINE id == task[p].old.msg
<1>1. task[p] \in Tasks /\ TaskSound(task[p]) /\ ChannelTypeOK /\ UniqueIds /\ slips \in Nat
  BY TaskTyped DEF ChannelInv, ChannelTypeOK
<1>2. channel' = channel
  BY DEF FailNotify
<1>3. channel' \in Seq(ChannelMessages) /\ UniqueIds' /\ Messages' = Messages
  BY <1>1, <1>2 DEF ChannelTypeOK, UniqueIds, Messages
<1>4. CASE task[p].pc = "replace"
  <2>1. Goes(p, "create") /\ slips' = slips + 1
    BY <1>4 DEF FailNotify
  <2>2. "create" \in Pcs \ {"post", "mark"}
    BY DEF Pcs
  <2>3. /\ task[p].msg \in Nat
        /\ task' = [task EXCEPT ![p] = [task[p] EXCEPT !.pc = "create", !.msg = task[p].msg]]
    BY <2>1, GoesStage
  <2>4. /\ task' = [task EXCEPT ![p] = task'[p]] /\ task'[p] \in Tasks
        /\ task'[p].old = task[p].old /\ TaskSound(task[p])' /\ InHand(task[p]) = {}
    <3>1. StageStep(p, "create", task[p].msg)
      BY <1>4, <2>2, <2>3 DEF StageStep
    <3> QED
      BY <1>4, <3>1, StageFits
  <2>5. Recorded' = Recorded
    BY DEF Recorded, PastStream
  <2>6. Moves(p, {id})
    BY <1>3, <2>4, <2>5 DEF Moves
  <2>7. slips' = slips + Cardinality({id}) /\ IsFiniteSet({id})
    BY <2>1, FS_Singleton
  <2>8. onAir' \subseteq Broadcasters /\ history' \in [PastStream -> HistoryRows] /\ listed' \in ListRows
    BY <1>1 DEF ChannelTypeOK
  <2>9. Paid(p, {id})
    BY <1>3, <2>4, <2>6, <2>7, <2>8 DEF Paid
  <2> QED
    BY <2>9, PaidKeeps
<1>5. CASE task[p].pc # "replace"
  <2>1. Ends(p) /\ slips' = slips + Cardinality(InHand(task[p]))
    BY <1>5 DEF FailNotify
  <2> QED
    BY <1>3, <2>1, EndingKeeps
<1> QED
  BY <1>4, <1>5

\* Somebody deletes a message.
LEMMA DeleteByHandKeeps ==
  ASSUME ChannelInv, NEW id \in Messages, DeleteByHand(id), UNCHANGED <<onAir, history, listed, bound>>
  PROVE  ChannelInv'
<1>1. Ticker \in Notifier
  BY DEF Notifier
<1>2. task[Ticker] \in Tasks /\ TaskSound(task[Ticker]) /\ ChannelTypeOK /\ UniqueIds
  BY <1>1, TaskTyped DEF ChannelInv
<1>3. channel' = Without(id) /\ UNCHANGED <<task, slips>>
  BY DEF DeleteByHand
<1>4. channel' \in Seq(ChannelMessages) /\ UniqueIds' /\ Messages' = Messages \ {id}
  BY <1>2, <1>3, WithoutRemoves
<1>5. task' = [task EXCEPT ![Ticker] = task'[Ticker]]
  BY <1>1, <1>2, <1>3 DEF ChannelTypeOK
<1>6. TaskSound(task[Ticker])' /\ InHand(task[Ticker])' = InHand(task[Ticker])
  BY <1>2, <1>3, <1>4 DEF TaskSound, InHand, Unmarked, PastStream
<1>7. Recorded' = Recorded
  BY DEF Recorded, PastStream
<1>8. Moves(Ticker, {})
  BY <1>3, <1>4, <1>5, <1>6, <1>7 DEF Moves, Replaces
<1>9. slips' = slips + Cardinality({}) /\ IsFiniteSet({})
  BY <1>2, <1>3, FS_EmptySet DEF ChannelTypeOK
<1>10. onAir' \subseteq Broadcasters /\ history' \in [PastStream -> HistoryRows] /\ listed' \in ListRows
  BY <1>2 DEF ChannelTypeOK
<1>11. Paid(Ticker, {})
  BY <1>2, <1>3, <1>4, <1>6, <1>8, <1>9, <1>10 DEF Paid
<1> QED
  BY <1>1, <1>11, PaidKeeps

\* What all jobs have in hand is finitely many messages.
LEMMA AllInHandFinite == ChannelInv => IsFiniteSet(AllInHand)
<1> SUFFICES ASSUME ChannelInv PROVE IsFiniteSet(AllInHand)
  OBVIOUS
<1> DEFINE f == [p \in Notifier |-> InHand(task[p])]
           Hands == {f[p] : p \in Notifier}
<1>1. DOMAIN f = Notifier /\ AllInHand = UNION Hands
  BY DEF AllInHand
<1>2. \A T \in Hands : IsFiniteSet(T)
  BY InHandFinite
<1> HIDE DEF f
<1>3. IsFiniteSet(Hands)
  BY <1>1, NotifierFinite, ImageFinite
<1> HIDE DEF Hands
<1> QED
  BY <1>1, <1>2, <1>3, FS_UNION

\* A crash leaves what the jobs had in hand to nobody.
LEMMA CrashKeeps ==
  ASSUME ChannelInv, Crash, UNCHANGED <<onAir, history, listed, bound>>
  PROVE  ChannelInv'
<1>1. ChannelTypeOK /\ UniqueIds
  BY DEF ChannelInv
<1>2. task' = [p \in Notifier |-> AtRest] /\ slips' = slips + Cardinality(AllInHand) /\ channel' = channel
  BY DEF Crash
<1>3. Messages' = Messages /\ UniqueIds' /\ Recorded' = Recorded /\ Notifier' = Notifier /\ PastStream' = PastStream
  BY <1>1, <1>2 DEF UniqueIds, Messages, Recorded, PastStream, Notifier
<1>4. \A p \in Notifier : TaskSound(task[p])' /\ ~Replaces(task[p])'
  BY <1>2, AtRestFits DEF TaskSound, Replaces
<1>5. Stray' \subseteq Stray \cup AllInHand
  <2>1. Doomed' = {}
    BY <1>3, <1>4 DEF Doomed
  <2> QED
    BY <1>3, <2>1 DEF Stray
<1>6. IsFiniteSet(AllInHand)
  BY AllInHandFinite
<1>7. slips' \in Nat /\ Cardinality(Stray') <= slips'
  BY <1>2, <1>5, <1>6, StrayGrows
<1>8. ChannelTypeOK'
  BY <1>1, <1>2, <1>3, <1>7, AtRestFits DEF ChannelTypeOK
<1> QED
  BY <1>3, <1>4, <1>7, <1>8 DEF ChannelInv
\* The jobs begin, and the tables of the monitor change.
LEMMA BeginningKeeps ==
  ASSUME ChannelInv, NEW p \in Notifier, NEW j \in Tasks, task' = [task EXCEPT ![p] = j],
         task[p] = AtRest, j.batch = {}, j.posted = {}, j.pc \in {"notify", "upsert"},
         UNCHANGED <<onAir, history, channel, listed, slips, bound>>
  PROVE  ChannelInv'
<1>1. ChannelTypeOK
  BY DEF ChannelInv
<1>2. task' = [task EXCEPT ![p] = task'[p]] /\ task'[p] = j
  BY <1>1 DEF ChannelTypeOK
<1>3. TaskSound(task[p])' /\ ~Replaces(task[p])'
  BY <1>2, AtRestFits DEF TaskSound, Replaces
<1>4. InHand(task[p]) = {}
  BY AtRestFits DEF InHand, Unmarked
<1>5. onAir' \subseteq Broadcasters /\ history' \in [PastStream -> HistoryRows]
  BY <1>1 DEF ChannelTypeOK
<1>6. Quiet(p)
  BY <1>2, <1>3, <1>4, <1>5 DEF Quiet
<1> QED
  BY <1>6, QuietKeeps

\* A job begins that changes no history.
LEMMA NotifyKeeps ==
  ASSUME ChannelInv, NEW p \in Notifier, Notify(p), UNCHANGED <<channel, listed, slips, bound>>
  PROVE  ChannelInv'
<1> DEFINE j == [AtRest EXCEPT !.pc = "notify"]
<1>1. task \in [Notifier -> Tasks]
  BY DEF ChannelInv, ChannelTypeOK
<1>2. j \in Tasks /\ j.batch = {} /\ j.posted = {} /\ j.pc = "notify"
  BY AtRestFits DEF Tasks, Pcs
<1>3. task[p] = AtRest /\ task' = [task EXCEPT ![p] = j] /\ UNCHANGED <<onAir, history>>
  BY <1>1 DEF Notify, Goes
<1> HIDE DEF j
<1> QED
  BY <1>2, <1>3, BeginningKeeps

\* updateStreamHistory, its read.
LEMMA ReadHistoryKeeps ==
  ASSUME ChannelInv, NEW p \in Notifier, NEW st \in PastStream, NEW over \in BOOLEAN,
         ReadHistory(p, st, over), UNCHANGED <<channel, listed, slips, bound>>
  PROVE  ChannelInv'
<1> DEFINE j == [AtRest EXCEPT !.pc = "upsert", !.st = st, !.over = over, !.read = history[st]]
<1>1. ChannelTypeOK
  BY DEF ChannelInv
<1>2. st \in Nat /\ history[st] \in HistoryRows
  BY <1>1, ChannelAssumption DEF ChannelTypeOK, PastStream
<1>3. j \in Tasks /\ j.batch = {} /\ j.posted = {} /\ j.pc = "upsert"
  BY <1>2, AtRestFits DEF Tasks, Pcs
<1>4. task[p] = AtRest /\ task' = [task EXCEPT ![p] = j] /\ UNCHANGED <<onAir, history>>
  BY DEF ReadHistory
<1> HIDE DEF j
<1> QED
  BY <1>3, <1>4, BeginningKeeps

\* A change of the tables that no job has a part in.
LEMMA TablesKeep ==
  ASSUME ChannelInv, UNCHANGED <<task, channel, listed, slips, bound>>, onAir' \subseteq Broadcasters,
         history' \in [PastStream -> HistoryRows],
         \A st \in PastStream : history'[st].msg = history[st].msg
  PROVE  ChannelInv'
<1>1. Ticker \in Notifier
  BY DEF Notifier
<1>2. task[Ticker] \in Tasks /\ TaskSound(task[Ticker]) /\ ChannelTypeOK
  BY <1>1, TaskTyped DEF ChannelInv
<1>3. task' = [task EXCEPT ![Ticker] = task'[Ticker]]
  BY <1>1, <1>2 DEF ChannelTypeOK
<1>4. TaskSound(task[Ticker])' /\ InHand(task[Ticker])' = InHand(task[Ticker])
  BY <1>2 DEF TaskSound, InHand, Unmarked, PastStream, Messages
<1>5. Replaces(task[Ticker])' => Replaces(task[Ticker]) /\ task'[Ticker].old = task[Ticker].old
  BY DEF Replaces
<1>6. Quiet(Ticker)
  BY <1>2, <1>3, <1>4, <1>5 DEF Quiet
<1> QED
  BY <1>1, <1>6, QuietKeeps

\* The changes of the tables of the monitor.
LEMMA ChangesKeep ==
  ASSUME ChannelInv, UNCHANGED <<channel, listed, slips, bound>>,
         \/ \E s \in bound.broadcasters : ChangeStatus(s)
         \/ \E st \in PastStream : ChangeVOD(st)
  PROVE  ChannelInv'
<1>1. ChannelTypeOK
  BY DEF ChannelInv
<1>2. ASSUME NEW s \in bound.broadcasters, ChangeStatus(s) PROVE ChannelInv'
  <2>1. s \in Broadcasters
    BY <1>1, ChannelAssumption DEF ChannelTypeOK
  <2>2. onAir' \subseteq Broadcasters /\ UNCHANGED <<history, task>>
    BY <1>1, <1>2, <2>1 DEF ChangeStatus, ChannelTypeOK
  <2> QED
    BY <1>1, <2>2, TablesKeep DEF ChannelTypeOK
<1>3. ASSUME NEW st \in PastStream, ChangeVOD(st) PROVE ChannelInv'
  <2>1. history[st] \in HistoryRows
    BY <1>1 DEF ChannelTypeOK
  <2>2. PICK vod \in {"found", "gone"}, needs \in {TRUE, history[st].needs} :
          history' = [history EXCEPT ![st].vod = vod, ![st].needs = needs]
    BY <1>3 DEF ChangeVOD
  <2>3. needs \in BOOLEAN
    BY <2>1 DEF HistoryRows
  <2>4. history' = [history EXCEPT ![st] = [history[st] EXCEPT !.vod = vod, !.needs = needs]]
    BY <1>1, <2>2 DEF ChannelTypeOK
  <2>5. /\ [history[st] EXCEPT !.vod = vod, !.needs = needs] \in HistoryRows
        /\ [history[st] EXCEPT !.vod = vod, !.needs = needs].msg = history[st].msg
    BY <2>1, <2>3 DEF HistoryRows
  <2>6. /\ history' \in [PastStream -> HistoryRows]
        /\ \A s \in PastStream : history'[s].msg = history[s].msg
    BY <1>1, <2>4, <2>5 DEF ChannelTypeOK
  <2>7. onAir' \subseteq Broadcasters /\ UNCHANGED task
    BY <1>1, <1>3 DEF ChangeVOD, ChannelTypeOK
  <2> QED
    BY <2>6, <2>7, TablesKeep
<1> QED
  BY <1>2, <1>3

\* The invariant holds after any step.
LEMMA ChannelStepInv == ChannelInv /\ [ChannelNext]_channelVars => ChannelInv'
<1> SUFFICES ASSUME ChannelInv, [ChannelNext]_channelVars PROVE ChannelInv'
  OBVIOUS
<1>1. ASSUME NEW p \in Notifier, NotifyStep(p) PROVE ChannelInv'
  BY <1>1, WriteHistoryKeeps, QueryHistoriesKeeps, PostHistoryKeeps, MarkPostedKeeps, LookingKeeps,
     DeleteListedKeeps, RemoveListedKeeps, EditListedKeeps, ReplaceListedKeeps, CreateListedKeeps,
     StoreListedKeeps DEF NotifyStep
<1>2. CASE TickNotify
  <2>1. Ticker \in Notifier
    BY DEF Notifier
  <2> QED
    BY <1>2, <2>1, NotifyKeeps DEF TickNotify
<1>3. CASE News
  <2>1. bound.jobs \subseteq Notifier
    BY ChannelAssumption DEF ChannelInv, ChannelTypeOK
  <2> QED
    BY <1>3, <2>1, ChangesKeep, ReadHistoryKeeps, NotifyKeeps DEF News
<1>4. CASE Mishap
  BY <1>4, CrashKeeps, FailNotifyKeeps, DeleteByHandKeeps DEF Mishap
<1>5. CASE UNCHANGED channelVars
  <2>1. ChannelTypeOK
    BY DEF ChannelInv
  <2>2. UNCHANGED <<task, channel, listed, slips, bound, onAir, history>>
    BY <1>5 DEF channelVars
  <2> QED
    BY <2>1, <2>2, TablesKeep DEF ChannelTypeOK
<1> QED
  BY <1>1, <1>2, <1>3, <1>4, <1>5 DEF ChannelNext

\* It says that forgotten messages are counted.
LEMMA ChannelInvBounds == ChannelInv => ChannelBound
<1> SUFFICES ASSUME ChannelInv PROVE ChannelBound
  OBVIOUS
<1>1. IsFiniteSet(Stray) /\ Cardinality(Stray) <= slips /\ slips \in Nat /\ IsFiniteSet(Messages)
  BY StrayFinite, MessagesFinite DEF ChannelInv, ChannelTypeOK
<1>2. IsFiniteSet(AllInHand)
  BY AllInHandFinite
<1>3. Messages \ Recorded \subseteq Stray \cup AllInHand
  BY DEF Stray
<1>4. /\ IsFiniteSet(Stray \cup AllInHand)
      /\ Cardinality(Stray \cup AllInHand)
           = Cardinality(Stray) + Cardinality(AllInHand) - Cardinality(Stray \cap AllInHand)
  BY <1>1, <1>2, FS_Union
<1>5. IsFiniteSet(Stray \cap AllInHand)
  BY <1>1, FS_Intersection
<1>6. /\ IsFiniteSet(Messages \ Recorded)
      /\ Cardinality(Messages \ Recorded) <= Cardinality(Stray \cup AllInHand)
  BY <1>3, <1>4, FS_Subset
<1>7. /\ Cardinality(Stray) \in Nat /\ Cardinality(AllInHand) \in Nat
      /\ Cardinality(Stray \cap AllInHand) \in Nat /\ Cardinality(Messages \ Recorded) \in Nat
  BY <1>1, <1>2, <1>5, <1>6, FS_CardinalityType
<1> QED
  BY <1>1, <1>4, <1>6, <1>7 DEF ChannelBound
-----------------------------------------------------------------------------
(* What the monitor knows of the streamers *)

\* The types of the state of the monitor.
HookTypes == {"online", "offline", "update", "revocation"}
Rows == [live : BOOLEAN, stream : Nat, hooked : BOOLEAN]
Statuses == [live : BOOLEAN, stream : Nat]
Hooks == [type : HookTypes, s : Streamers \cup {NoStreamer}, live : BOOLEAN, stream : Nat]
JobFields == {"pc", "sync", "all", "who", "subs", "answers", "rows", "pasts", "s", "got", "read",
              "latest", "wrap", "hist"}

\* Twitch: a stream ends before the next one of its streamer starts, and the answers are
\* what was the case at some time.
WorldInv ==
  /\ limit \in Limits
  /\ started \in Seq(Streamers) /\ Len(started) <= limit.streams
  /\ twitch \in [Streamers -> Statuses] /\ api \in [Streamers -> Statuses]
  /\ \A st \in DOMAIN started : st <= twitch[started[st]].stream
  /\ \A s \in Streamers :
       /\ twitch[s].stream # 0 => twitch[s].stream \in DOMAIN started /\ started[twitch[s].stream] = s
       /\ api[s].stream # 0 => api[s].stream \in DOMAIN started /\ started[api[s].stream] = s
       /\ twitch[s].live => twitch[s].stream # 0
       /\ api[s].live => api[s].stream # 0
       /\ api[s].stream <= twitch[s].stream
       /\ ~api[s].live /\ api[s].stream # 0 => Over(api[s].stream)

\* What the tables and the jobs are measured against: whose the streams are, which may be
\* said to have ended, and the last stream of each streamer that Twitch's answers know of.
Facts ==
  [of |-> started, over |-> {st \in DOMAIN started : Over(st) \/ st \in disturbed},
   seen |-> [s \in Streamers |-> api[s].stream], streams |-> Stream]

\* Later facts know at least as much.
Later(w, v) ==
  /\ \A st \in DOMAIN w.of : st \in DOMAIN v.of /\ v.of[st] = w.of[st]
  /\ \A st \in DOMAIN w.of : w.of[st] \in Streamers
  /\ w.over \subseteq v.over
  /\ \A s \in Streamers : w.seen[s] \in Nat /\ v.seen[s] \in Nat /\ w.seen[s] <= v.seen[s]
  /\ v.streams = w.streams

Owned(w, s, st) == st \in DOMAIN w.of /\ w.of[st] = s

\* A row of s that says that a stream is not live is right; and unless a hook about it is
\* recent, an answer knows of the stream, so that it does not undo a row it is older than.
RowSound(r, s, w) ==
  r.stream # 0 =>
    /\ Owned(w, s, r.stream)
    /\ r.live \/ r.stream \in w.over
    /\ r.hooked \/ r.stream \in w.over \/ r.stream <= w.seen[s]

NoRowOrSound(r, s, w) == r = NoRow \/ (r \in Rows /\ RowSound(r, s, w))

GotSound(got, s, w) ==
  /\ got.live \in BOOLEAN /\ got.stream \in Nat
  /\ got.live => got.type \in {"online", "rest"}
  /\ got.type = "online" => Owned(w, s, got.stream)
  /\ got.type = "rest" /\ got.live => Owned(w, s, got.stream) /\ got.stream <= w.seen[s]

\* An answer ends the stream of the row that was there when it was asked for only if the
\* stream is over.
AnswerSound(got, read, w) ==
  /\ read = NoRow \/ read \in Rows
  /\ got.type = "rest" /\ read # NoRow /\ ~read.hooked /\ read.stream # 0 =>
       read.stream \in w.over \/ (got.live /\ got.stream = read.stream)

\* A transaction's own rows.
WritesSound(j, w) ==
  j.rows # <<>> =>
    /\ DOMAIN j.rows = Streamers /\ DOMAIN j.pasts = w.streams
    /\ \A s \in Streamers : j.rows[s] = Untouched \/ NoRowOrSound(j.rows[s], s, w)
    /\ \A st \in w.streams : j.pasts[st] # Untouched /\ j.pasts[st] = "ended" => st \in w.over

\* What a job has read and is going to write.
HistoryOf(j) == IF j.wrap THEN j.read.stream ELSE j.latest.stream

\* The statements of an update after fetchLatestStreamStatus.
Writing == {"save", "update", "history", "upsert"}

UpdateSound(j, w) ==
  /\ j.pc \in Updating => j.s \in Streamers /\ (j.read = NoRow \/ j.read \in Rows)
  /\ j.pc = "fetch" => /\ GotSound(j.got, j.s, w) /\ AnswerSound(j.got, j.read, w)
                       /\ j.got.type \in {"online", "offline", "update", "rest"}
  /\ j.pc \in Writing => /\ j.latest \in Rows /\ RowSound(j.latest, j.s, w)
                         /\ j.wrap /\ j.read.stream # 0 => j.read.stream \in w.over
  /\ j.pc = "upsert" /\ j.hist = "ended" /\ HistoryOf(j) # 0 => HistoryOf(j) \in w.over

AnswersSound(j, w) ==
  \A s \in DOMAIN j.answers :
    /\ s \in Streamers
    /\ GotSound(j.answers[s].got, s, w) /\ j.answers[s].got.type = "rest"
    /\ AnswerSound(j.answers[s].got, j.answers[s].read, w)

\* The rest of a synchronisation's transaction.
Batch(j, w) ==
  /\ DOMAIN j = JobFields /\ j.wrap \in BOOLEAN /\ j.who \subseteq Streamers
  /\ WritesSound(j, w) /\ AnswersSound(j, w)

JobSound(j, w) == Batch(j, w) /\ UpdateSound(j, w)

\* The inductive invariant of the monitor: of the forms, the tables, the jobs and the queue.
FormsInv == tracked \subseteq Streamers /\ saving \in Streamers \cup {NoStreamer}
RowsInv == DOMAIN row = Streamers /\ \A s \in Streamers : NoRowOrSound(row[s], s, Facts)
PastsInv == DOMAIN past = Stream /\ \A st \in Stream : past[st] = "ended" => st \in Facts.over
JobsInv == DOMAIN job = Job /\ \A p \in Job : JobSound(job[p], Facts)
QueueInv ==
  queue \in Seq(Hooks) /\ \A i \in DOMAIN queue : GotSound(queue[i], queue[i].s, Facts)

MonitorInv == WorldInv /\ FormsInv /\ RowsInv /\ PastsInv /\ JobsInv /\ QueueInv
-----------------------------------------------------------------------------
\* A function with no values has none to change.
LEMMA EmptyExcept == ASSUME NEW s, NEW r PROVE [<<>> EXCEPT ![s] = r] = <<>>
  OBVIOUS

\* A job that does nothing is sound.
LEMMA IdleSound ==
  ASSUME NEW w
  PROVE  JobSound(Idle, w)
  BY DEF JobSound, Batch, WritesSound, AnswersSound, UpdateSound, Idle, JobFields, Updating, Writing

\* So is one that starts.
LEMMA SyncSound ==
  ASSUME NEW w
  PROVE  /\ JobSound(Sync("sync", TRUE), w) /\ JobSound(Sync("sync", FALSE), w)
         /\ JobSound(Sync("set", FALSE), w)
  BY DEF JobSound, Batch, WritesSound, AnswersSound, UpdateSound, Idle, JobFields, Updating, Writing,
         Sync

\* A sound row stays so when the facts grow.
LEMMA RowLater ==
  ASSUME NEW w, NEW v, Later(w, v), NEW r, NEW s, r \in Rows, RowSound(r, s, w)
  PROVE  RowSound(r, s, v)
<1>1. CASE r.stream = 0
  BY <1>1 DEF RowSound
<1>2. CASE r.stream # 0
  <2>1. /\ Owned(w, s, r.stream) /\ Owned(v, s, r.stream) /\ s \in Streamers
    BY <1>2 DEF RowSound, Owned, Later
  <2>2. r.stream \in w.over => r.stream \in v.over
    BY DEF Later
  <2>3. r.stream <= w.seen[s] => r.stream <= v.seen[s]
    BY <2>1 DEF Later, Rows
  <2> QED BY <1>2, <2>1, <2>2, <2>3 DEF RowSound
<1> QED BY <1>1, <1>2

\* The same, if there is a row.
LEMMA NoRowOrSoundLater ==
  ASSUME NEW w, NEW v, Later(w, v), NEW r, NEW s, NoRowOrSound(r, s, w)
  PROVE  NoRowOrSound(r, s, v)
  BY RowLater DEF NoRowOrSound

\* So does a hook or an answer.
LEMMA GotLater ==
  ASSUME NEW w, NEW v, Later(w, v), NEW got, NEW s, GotSound(got, s, w)
  PROVE  GotSound(got, s, v)
<1>1. ASSUME NEW st, Owned(w, s, st)
      PROVE  Owned(v, s, st) /\ s \in Streamers
  BY <1>1 DEF Owned, Later
<1>2. s \in Streamers /\ got.stream <= w.seen[s] => got.stream <= v.seen[s]
  BY DEF Later, GotSound
<1> QED BY <1>1, <1>2 DEF GotSound

\* So does an answer and the row that was there when it was asked for.
LEMMA AnswerLater ==
  ASSUME NEW w, NEW v, Later(w, v), NEW got, NEW read, AnswerSound(got, read, w)
  PROVE  AnswerSound(got, read, v)
  BY DEF AnswerSound, Later

\* So does what a transaction has read and written.
LEMMA BatchLater ==
  ASSUME NEW w, NEW v, Later(w, v), NEW j, Batch(j, w)
  PROVE  Batch(j, v)
<1>1. WritesSound(j, v)
  <2> SUFFICES ASSUME j.rows # <<>> PROVE WritesSound(j, v)
    BY DEF WritesSound
  <2>1. w.streams = v.streams
    BY DEF Later
  <2>2. \A s \in Streamers : j.rows[s] = Untouched \/ NoRowOrSound(j.rows[s], s, v)
    BY NoRowOrSoundLater DEF Batch, WritesSound
  <2>3. \A st \in w.streams : j.pasts[st] # Untouched /\ j.pasts[st] = "ended" => st \in v.over
    BY DEF Batch, WritesSound, Later
  <2> QED BY <2>1, <2>2, <2>3 DEF Batch, WritesSound
<1>2. AnswersSound(j, v)
  BY GotLater, AnswerLater DEF Batch, AnswersSound
<1> QED BY <1>1, <1>2 DEF Batch

\* And so does a job.
LEMMA JobLater ==
  ASSUME NEW w, NEW v, Later(w, v), NEW j, JobSound(j, w)
  PROVE  JobSound(j, v)
<1>1. Batch(j, v)
  BY BatchLater DEF JobSound
<1>2. UpdateSound(j, w)
  BY DEF JobSound
<1>3. j.pc = "fetch" => GotSound(j.got, j.s, v) /\ AnswerSound(j.got, j.read, v)
  BY <1>2, GotLater, AnswerLater DEF UpdateSound
<1>4. j.pc \in Writing => RowSound(j.latest, j.s, v)
  BY <1>2, RowLater DEF UpdateSound
<1>5. w.over \subseteq v.over
  BY DEF Later
<1> QED BY <1>1, <1>2, <1>3, <1>4, <1>5 DEF JobSound, UpdateSound
-----------------------------------------------------------------------------
\* A synchronisation that goes on to the next user.
LEMMA NextUserSound ==
  ASSUME NEW w, NEW j, Batch(j, w), NEW k \in NextUser(j)
  PROVE  JobSound(k, w)
<1>1. CASE DOMAIN j.answers = {}
  <2>1. k = [j EXCEPT !.pc = "commit", !.s = NoStreamer]
    BY <1>1 DEF NextUser
  <2>2. /\ DOMAIN k = JobFields /\ k.wrap = j.wrap /\ k.who = j.who /\ k.rows = j.rows
        /\ k.pasts = j.pasts /\ k.answers = j.answers /\ k.pc = "commit"
    BY <2>1 DEF Batch, JobFields
  <2>3. Batch(k, w)
    BY <2>2 DEF Batch, WritesSound, AnswersSound
  <2>4. UpdateSound(k, w)
    BY <2>2 DEF UpdateSound, Updating, Writing
  <2> QED BY <2>3, <2>4 DEF JobSound
<1>2. CASE DOMAIN j.answers # {}
  <2>1. PICK s \in DOMAIN j.answers :
          k = [j EXCEPT !.pc = "fetch", !.s = s, !.got = j.answers[s].got,
                        !.read = j.answers[s].read,
                        !.answers = [u \in DOMAIN j.answers \ {s} |-> j.answers[u]]]
    BY <1>2 DEF NextUser, Batch, JobFields
  <2>2. /\ DOMAIN k = JobFields /\ k.wrap = j.wrap /\ k.who = j.who /\ k.rows = j.rows
        /\ k.pasts = j.pasts /\ k.pc = "fetch" /\ k.s = s
        /\ k.got = j.answers[s].got /\ k.read = j.answers[s].read
        /\ k.answers = [u \in DOMAIN j.answers \ {s} |-> j.answers[u]]
    BY <2>1 DEF Batch, JobFields
  <2>3. Batch(k, w)
    BY <2>2 DEF Batch, WritesSound, AnswersSound
  <2>4. UpdateSound(k, w)
    BY <2>2 DEF UpdateSound, Updating, Writing, Batch, AnswersSound, AnswerSound
  <2> QED BY <2>3, <2>4 DEF JobSound
<1> QED BY <1>1, <1>2

\* A job that has updated, or given up, one user.
LEMMA AfterHistoryBatch ==
  ASSUME NEW w, NEW j, Batch(j, w), ~j.wrap, NEW k \in AfterHistory(j)
  PROVE  JobSound(k, w)
<1>1. CASE j.sync
  <2> DEFINE i == [j EXCEPT !.hist = "none", !.read = NoRow, !.latest = NewRow]
  <2>1. k \in NextUser(i)
    BY <1>1 DEF AfterHistory
  <2>2. /\ DOMAIN i = JobFields /\ i.wrap = j.wrap /\ i.who = j.who /\ i.rows = j.rows
        /\ i.pasts = j.pasts /\ i.answers = j.answers
    BY DEF Batch, JobFields
  <2>3. Batch(i, w)
    BY <2>2 DEF Batch, WritesSound, AnswersSound
  <2> HIDE DEF i
  <2> QED BY <2>1, <2>3, NextUserSound
<1>2. CASE ~j.sync
  <2>1. k = Idle
    BY <1>2 DEF AfterHistory
  <2> QED BY <2>1, IdleSound
<1> QED BY <1>1, <1>2

\* A job that has written a history.
LEMMA AfterHistorySound ==
  ASSUME NEW w, NEW j, JobSound(j, w), j.pc \in Writing, NEW k \in AfterHistory(j)
  PROVE  JobSound(k, w)
<1>1. CASE ~j.wrap
  BY <1>1, AfterHistoryBatch DEF JobSound
<1>2. CASE j.wrap
  <2>1. k = [j EXCEPT !.pc = "save", !.wrap = FALSE, !.hist = "none"]
    BY <1>2 DEF AfterHistory
  <2>2. /\ DOMAIN k = JobFields /\ k.wrap = FALSE /\ k.who = j.who /\ k.rows = j.rows
        /\ k.pasts = j.pasts /\ k.answers = j.answers /\ k.pc = "save" /\ k.s = j.s
        /\ k.read = j.read /\ k.latest = j.latest
    BY <2>1 DEF JobSound, Batch, JobFields
  <2>3. Batch(k, w)
    BY <2>2 DEF JobSound, Batch, WritesSound, AnswersSound
  <2>4. UpdateSound(k, w)
    BY <2>2 DEF JobSound, UpdateSound, Updating, Writing
  <2> QED BY <2>3, <2>4 DEF JobSound
<1> QED BY <1>1, <1>2

\* A job that goes on to another statement of its update.
LEMMA GotoSound ==
  ASSUME NEW w, NEW j, JobSound(j, w), j.pc \in Writing, NEW pc \in {"update", "history"}
  PROVE  JobSound([j EXCEPT !.pc = pc], w)
<1> DEFINE k == [j EXCEPT !.pc = pc]
<1>1. /\ DOMAIN k = JobFields /\ k.wrap = j.wrap /\ k.who = j.who /\ k.rows = j.rows
      /\ k.pasts = j.pasts /\ k.answers = j.answers /\ k.pc = pc /\ k.s = j.s
      /\ k.read = j.read /\ k.latest = j.latest
  BY DEF JobSound, Batch, JobFields
<1>2. Batch(k, w)
  BY <1>1 DEF JobSound, Batch, WritesSound, AnswersSound
<1>3. UpdateSound(k, w)
  BY <1>1 DEF JobSound, UpdateSound, Updating, Writing
<1> QED BY <1>2, <1>3 DEF JobSound

\* A job that has saved a row.
LEMMA AfterSaveSound ==
  ASSUME NEW w, NEW j, JobSound(j, w), j.pc \in Writing, NEW k \in AfterSave(j)
  PROVE  JobSound(k, w)
  BY AfterHistorySound, GotoSound DEF AfterSave

\* A sound row that a job writes in its transaction, if it has one.
LEMMA WriteRowSound ==
  ASSUME NEW w, NEW j, JobSound(j, w), NEW s \in Streamers, NEW r, NoRowOrSound(r, s, w)
  PROVE  JobSound([j EXCEPT !.rows[s] = r], w)
<1> DEFINE k == [j EXCEPT !.rows[s] = r]
<1>1. /\ DOMAIN k = JobFields /\ k.wrap = j.wrap /\ k.who = j.who
      /\ k.rows = [j.rows EXCEPT ![s] = r]
      /\ k.pasts = j.pasts /\ k.answers = j.answers /\ k.pc = j.pc /\ k.s = j.s /\ k.got = j.got
      /\ k.read = j.read /\ k.latest = j.latest /\ k.hist = j.hist
  BY DEF JobSound, Batch, JobFields
<1>2. Batch(k, w)
  <2>1. WritesSound(k, w)
    <3>1. j.rows = <<>> => k.rows = <<>>
      BY <1>1, EmptyExcept
    <3>2. j.rows # <<>> => WritesSound(k, w)
      BY <1>1 DEF JobSound, Batch, WritesSound
    <3> QED BY <3>1, <3>2 DEF WritesSound
  <2> QED BY <1>1, <2>1 DEF JobSound, Batch, AnswersSound
<1>3. UpdateSound(k, w)
  BY <1>1 DEF JobSound, UpdateSound, HistoryOf
<1> QED BY <1>2, <1>3 DEF JobSound

\* The history of a stream, which says that it ended only if it is over.
LEMMA WritePastSound ==
  ASSUME NEW w, NEW j, JobSound(j, w), NEW st, NEW h,
         h = "ended" /\ st # 0 => st \in w.over, 0 \notin w.streams
  PROVE  JobSound([j EXCEPT !.pasts[st] = h], w)
<1> DEFINE k == [j EXCEPT !.pasts[st] = h]
<1>1. /\ DOMAIN k = JobFields /\ k.wrap = j.wrap /\ k.who = j.who
      /\ k.pasts = [j.pasts EXCEPT ![st] = h]
      /\ k.rows = j.rows /\ k.answers = j.answers /\ k.pc = j.pc /\ k.s = j.s /\ k.got = j.got
      /\ k.read = j.read /\ k.latest = j.latest /\ k.hist = j.hist
  BY DEF JobSound, Batch, JobFields
<1>2. Batch(k, w)
  <2>1. WritesSound(k, w)
    BY <1>1 DEF JobSound, Batch, WritesSound
  <2> QED BY <1>1, <2>1 DEF JobSound, Batch, AnswersSound
<1>3. UpdateSound(k, w)
  BY <1>1 DEF JobSound, UpdateSound, HistoryOf
<1> QED BY <1>2, <1>3 DEF JobSound
-----------------------------------------------------------------------------
\* What a step may do to Twitch and to the streams that were disturbed.
WorldMoves ==
  /\ limit' = limit /\ disturbed \subseteq disturbed'
  /\ \/ \E s \in Streamers : GoLive(s) \/ GoOffline(s) \/ ApiCatchesUp(s)
     \/ UNCHANGED <<twitch, api, started>>

\* The streams that started are within the bound, and 0 is none of them.
LEMMA StartedIsStream ==
  ASSUME WorldInv
  PROVE  /\ DOMAIN started = 1 .. Len(started) /\ Len(started) \in Nat
         /\ DOMAIN started \subseteq Stream /\ limit.streams \in Nat
         /\ Facts.over \subseteq DOMAIN started
         /\ 0 \notin Stream
<1>1. limit.streams \in Nat
  BY MonitorAssumption DEF WorldInv
<1>2. DOMAIN started = 1 .. Len(started) /\ Len(started) \in Nat
  BY DEF WorldInv
<1> QED BY <1>1, <1>2 DEF WorldInv, Stream, Facts

\* A stream is over once a later one of its streamer has started.
LEMMA EarlierIsOver ==
  ASSUME WorldInv, NEW s \in Streamers, NEW st \in DOMAIN started, started[st] = s,
         st # twitch[s].stream
  PROVE  Over(st)
  BY DEF Over

\* A streamer goes live: what was over stays so, and the answers are older still.
LEMMA GoLiveWorld ==
  ASSUME WorldInv, NEW s \in Streamers, GoLive(s), limit' = limit
  PROVE  /\ WorldInv'
         /\ \A st \in DOMAIN started : st \in DOMAIN started' /\ started'[st] = started[st]
         /\ \A st \in DOMAIN started : Over(st) => Over(st)'
         /\ \A u \in Streamers : api'[u].stream = api[u].stream
<1> DEFINE n == Len(started) + 1
<1>1. /\ DOMAIN started = 1 .. Len(started) /\ Len(started) \in Nat /\ limit.streams \in Nat
  BY StartedIsStream
<1>2. /\ started' = Append(started, s) /\ started' \in Seq(Streamers) /\ Len(started') = n
      /\ DOMAIN started' = 1 .. n /\ started'[n] = s
      /\ \A st \in DOMAIN started : started'[st] = started[st]
  BY <1>1 DEF GoLive, WorldInv
<1>3. /\ twitch \in [Streamers -> Statuses] /\ twitch' \in [Streamers -> Statuses]
      /\ twitch'[s] = [live |-> TRUE, stream |-> n]
      /\ \A u \in Streamers \ {s} : twitch'[u] = twitch[u]
  BY <1>1, <1>2 DEF GoLive, WorldInv, Statuses
<1>4. api' = api
  BY DEF GoLive
<1>5. \A st \in DOMAIN started : st \in Nat /\ st # n /\ st < n /\ st \in DOMAIN started'
  BY <1>1, <1>2
<1>6. \A st \in DOMAIN started : started[st] \in Streamers
  BY DEF WorldInv
<1>7. \A st \in DOMAIN started : Over(st) => Over(st)'
  <2> SUFFICES ASSUME NEW st \in DOMAIN started, Over(st) PROVE Over(st)'
    OBVIOUS
  <2>1. CASE started[st] = s
    BY <1>2, <1>3, <1>5, <2>1 DEF Over
  <2>2. CASE started[st] # s
    BY <1>2, <1>3, <1>6, <2>2 DEF Over
  <2> QED BY <2>1, <2>2
<1>8. Len(started') <= limit'.streams
  BY <1>1, <1>2 DEF GoLive
<1>9. \A st \in DOMAIN started' : st <= twitch'[started'[st]].stream
  <2> SUFFICES ASSUME NEW st \in DOMAIN started' PROVE st <= twitch'[started'[st]].stream
    OBVIOUS
  <2>1. CASE st = n
    BY <2>1, <1>1, <1>2, <1>3
  <2>2. CASE st # n
    <3>1. st \in DOMAIN started
      BY <1>1, <1>2, <2>2
    <3>2. CASE started[st] = s
      BY <3>1, <3>2, <1>1, <1>2, <1>3, <1>5
    <3>3. CASE started[st] # s
      BY <3>1, <3>3, <1>2, <1>3, <1>6 DEF WorldInv
    <3> QED BY <3>2, <3>3
  <2> QED BY <2>1, <2>2
<1>10. \A u \in Streamers :
         /\ twitch'[u].stream # 0 => twitch'[u].stream \in DOMAIN started'
                                     /\ started'[twitch'[u].stream] = u
         /\ twitch'[u].live => twitch'[u].stream # 0
  <2> SUFFICES ASSUME NEW u \in Streamers
               PROVE  /\ twitch'[u].stream # 0 => twitch'[u].stream \in DOMAIN started'
                                                  /\ started'[twitch'[u].stream] = u
                      /\ twitch'[u].live => twitch'[u].stream # 0
    OBVIOUS
  <2>1. CASE u = s
    BY <2>1, <1>1, <1>2, <1>3
  <2>2. CASE u # s
    BY <2>2, <1>2, <1>3, <1>5 DEF WorldInv
  <2> QED BY <2>1, <2>2
<1>11. \A u \in Streamers :
         /\ api'[u].stream # 0 => api'[u].stream \in DOMAIN started' /\ started'[api'[u].stream] = u
         /\ api'[u].live => api'[u].stream # 0
         /\ ~api'[u].live /\ api'[u].stream # 0 => Over(api[u].stream)'
  BY <1>2, <1>4, <1>5, <1>7 DEF WorldInv, Over
<1>12. \A u \in Streamers : api'[u].stream <= twitch'[u].stream
  <2> SUFFICES ASSUME NEW u \in Streamers PROVE api'[u].stream <= twitch'[u].stream
    OBVIOUS
  <2>1. api[u].stream \in Nat /\ (api[u].stream # 0 => api[u].stream < n)
    BY <1>5 DEF WorldInv, Statuses
  <2>2. CASE u = s
    BY <2>1, <2>2, <1>1, <1>3, <1>4
  <2>3. CASE u # s
    BY <2>3, <1>3, <1>4 DEF WorldInv
  <2> QED BY <2>2, <2>3
<1>13. limit' \in Limits /\ api' \in [Streamers -> Statuses]
  BY <1>4 DEF WorldInv
<1>14. WorldInv'
  BY <1>2, <1>3, <1>8, <1>9, <1>10, <1>11, <1>12, <1>13 DEF WorldInv
<1> QED BY <1>2, <1>4, <1>5, <1>7, <1>14

\* A streamer goes offline.
LEMMA GoOfflineWorld ==
  ASSUME WorldInv, NEW s \in Streamers, GoOffline(s), limit' = limit
  PROVE  /\ WorldInv'
         /\ \A st \in DOMAIN started : Over(st) => Over(st)'
<1>1. /\ api' = api /\ started' = started
      /\ twitch \in [Streamers -> Statuses] /\ twitch' \in [Streamers -> Statuses]
      /\ twitch'[s].live = FALSE
      /\ \A u \in Streamers : twitch'[u].stream = twitch[u].stream
      /\ \A u \in Streamers : twitch'[u].live => twitch[u].live
  BY DEF GoOffline, WorldInv, Statuses
<1>2. \A st \in DOMAIN started : started[st] \in Streamers
  BY DEF WorldInv
<1>3. \A st \in DOMAIN started : Over(st) => Over(st)'
  BY <1>1, <1>2 DEF Over
<1>4. \A st \in DOMAIN started' : st <= twitch'[started'[st]].stream
  BY <1>1, <1>2 DEF WorldInv
<1>5. \A u \in Streamers :
         /\ twitch'[u].stream # 0 => twitch'[u].stream \in DOMAIN started'
                                     /\ started'[twitch'[u].stream] = u
         /\ api'[u].stream # 0 => api'[u].stream \in DOMAIN started' /\ started'[api'[u].stream] = u
         /\ twitch'[u].live => twitch'[u].stream # 0
         /\ api'[u].live => api'[u].stream # 0
         /\ api'[u].stream <= twitch'[u].stream
  BY <1>1 DEF WorldInv
<1>6. \A u \in Streamers : ~api'[u].live /\ api'[u].stream # 0 => Over(api[u].stream)'
  BY <1>1, <1>3 DEF WorldInv, Over
<1>7. /\ limit' \in Limits /\ started' \in Seq(Streamers) /\ Len(started') <= limit'.streams
      /\ api' \in [Streamers -> Statuses]
  BY <1>1 DEF WorldInv
<1>8. WorldInv'
  BY <1>1, <1>4, <1>5, <1>6, <1>7 DEF WorldInv
<1> QED BY <1>3, <1>8

\* The answers catch up.
LEMMA ApiWorld ==
  ASSUME WorldInv, NEW s \in Streamers, ApiCatchesUp(s), limit' = limit
  PROVE  /\ WorldInv'
         /\ \A st \in DOMAIN started : Over(st) => Over(st)'
         /\ \A u \in Streamers : api[u].stream <= api'[u].stream
<1>1. /\ twitch' = twitch /\ started' = started
      /\ api \in [Streamers -> Statuses] /\ api' \in [Streamers -> Statuses]
      /\ api'[s] = twitch[s] /\ \A u \in Streamers \ {s} : api'[u] = api[u]
  BY DEF ApiCatchesUp, WorldInv
<1>2. \A st \in DOMAIN started : Over(st) <=> Over(st)'
  BY <1>1 DEF Over
<1>3. \A u \in Streamers :
         /\ twitch'[u].stream # 0 => twitch'[u].stream \in DOMAIN started'
                                     /\ started'[twitch'[u].stream] = u
         /\ api'[u].stream # 0 => api'[u].stream \in DOMAIN started' /\ started'[api'[u].stream] = u
         /\ twitch'[u].live => twitch'[u].stream # 0
         /\ api'[u].live => api'[u].stream # 0
  BY <1>1 DEF WorldInv
<1>4. \A u \in Streamers : api[u].stream \in Nat /\ twitch[u].stream \in Nat
  BY DEF WorldInv, Statuses
<1>5. \A u \in Streamers : api'[u].stream <= twitch'[u].stream /\ api[u].stream <= api'[u].stream
  BY <1>1, <1>4 DEF WorldInv
<1>6. \A u \in Streamers : ~api'[u].live /\ api'[u].stream # 0 => Over(api[u].stream)'
  <2> SUFFICES ASSUME NEW u \in Streamers, ~api'[u].live, api'[u].stream # 0
               PROVE  Over(api[u].stream)'
    OBVIOUS
  <2>1. CASE u = s
    BY <2>1, <1>1, <1>3 DEF Over
  <2>2. CASE u # s
    BY <2>2, <1>1, <1>2 DEF WorldInv, Over
  <2> QED BY <2>1, <2>2
<1>7. /\ limit' \in Limits /\ started' \in Seq(Streamers) /\ Len(started') <= limit'.streams
      /\ twitch' \in [Streamers -> Statuses]
      /\ \A st \in DOMAIN started' : st <= twitch'[started'[st]].stream
  BY <1>1 DEF WorldInv
<1>8. WorldInv'
  BY <1>1, <1>3, <1>5, <1>6, <1>7 DEF WorldInv
<1> QED BY <1>2, <1>5, <1>8

\* Whatever Twitch does, the facts only grow.
LEMMA WorldLater ==
  ASSUME WorldInv, WorldMoves
  PROVE  WorldInv' /\ Later(Facts, Facts')
<1>1. /\ WorldInv'
      /\ \A st \in DOMAIN started : st \in DOMAIN started' /\ started'[st] = started[st]
      /\ \A st \in DOMAIN started : Over(st) => Over(st)'
      /\ \A u \in Streamers : api[u].stream <= api'[u].stream
  <2>0. \A u \in Streamers : api[u].stream \in Nat
    BY DEF WorldInv, Statuses
  <2>1. CASE \E s \in Streamers : GoLive(s)
    BY <2>0, <2>1, GoLiveWorld DEF WorldMoves
  <2>2. CASE \E s \in Streamers : GoOffline(s)
    <3>1. started' = started /\ api' = api
      BY <2>2 DEF GoOffline
    <3> QED BY <2>0, <2>2, <3>1, GoOfflineWorld DEF WorldMoves
  <2>3. CASE \E s \in Streamers : ApiCatchesUp(s)
    <3>1. started' = started
      BY <2>3 DEF ApiCatchesUp
    <3> QED BY <2>3, <3>1, ApiWorld DEF WorldMoves
  <2>4. CASE UNCHANGED <<twitch, api, started>>
    <3>1. \A st \in DOMAIN started : Over(st) <=> Over(st)'
      BY <2>4 DEF Over
    <3>2. \A u \in Streamers : ~api'[u].live /\ api'[u].stream # 0 => Over(api[u].stream)'
      BY <2>4, <3>1 DEF WorldInv, Over
    <3>3. WorldInv'
      BY <2>4, <3>2 DEF WorldInv, WorldMoves
    <3> QED BY <2>0, <2>4, <3>1, <3>3
  <2> QED BY <2>1, <2>2, <2>3, <2>4 DEF WorldMoves
<1>2. \A st \in DOMAIN started : started[st] \in Streamers
  BY DEF WorldInv
<1>3. \A u \in Streamers : api[u].stream \in Nat /\ api'[u].stream \in Nat
  BY <1>1 DEF WorldInv, Statuses
<1>4. Facts.over \subseteq Facts'.over
  BY <1>1 DEF Facts, WorldMoves
<1>5. Stream' = Stream
  BY DEF Stream, WorldMoves
<1>6. Later(Facts, Facts')
  BY <1>1, <1>2, <1>3, <1>4, <1>5 DEF Later, Facts
<1> QED BY <1>1, <1>6
-----------------------------------------------------------------------------
(* What of the tables, the jobs and the queue a step leaves alone stays    *)
(* sound, since the facts only grow.                                       *)

\* The facts after a step that the world allows.
Calm == MonitorInv /\ WorldMoves

\* What holds of the state before such a step.
LEMMA CalmFacts ==
  ASSUME Calm
  PROVE  /\ WorldInv' /\ Later(Facts, Facts') /\ Stream' = Stream
         /\ 0 \notin Stream /\ Facts'.streams = Stream
         /\ Facts.over \subseteq Facts'.over /\ Facts'.over \subseteq DOMAIN started'
         /\ \A p \in Job : JobSound(job[p], Facts) /\ JobSound(job[p], Facts')
         /\ \A s \in Streamers : NoRowOrSound(row[s], s, Facts) /\ NoRowOrSound(row[s], s, Facts')
<1>1. WorldInv' /\ Later(Facts, Facts')
  BY WorldLater DEF Calm, MonitorInv
<1>2. 0 \notin Stream
  BY StartedIsStream DEF Calm, MonitorInv
<1>3. Stream' = Stream
  BY DEF Stream, Calm, WorldMoves
<1>4. Facts'.streams = Stream' /\ Facts'.over \subseteq DOMAIN started'
  BY DEF Facts
<1>5. \A p \in Job : JobSound(job[p], Facts) /\ JobSound(job[p], Facts')
  BY <1>1, JobLater DEF Calm, MonitorInv, JobsInv
<1>6. \A s \in Streamers : NoRowOrSound(row[s], s, Facts) /\ NoRowOrSound(row[s], s, Facts')
  BY <1>1, NoRowOrSoundLater DEF Calm, MonitorInv, RowsInv
<1>7. Facts.over \subseteq Facts'.over
  BY <1>1 DEF Later
<1> QED BY <1>1, <1>2, <1>3, <1>4, <1>5, <1>6, <1>7

\* Forms that a step leaves alone,
LEMMA FormsStay ==
  ASSUME Calm, UNCHANGED forms
  PROVE  FormsInv'
  BY DEF Calm, MonitorInv, FormsInv, forms

\* rows,
LEMMA RowsStay ==
  ASSUME Calm, row' = row
  PROVE  RowsInv'
  BY CalmFacts DEF Calm, MonitorInv, RowsInv

\* histories,
LEMMA PastsStay ==
  ASSUME Calm, past' = past
  PROVE  PastsInv'
  BY CalmFacts DEF Calm, MonitorInv, PastsInv

\* jobs,
LEMMA JobsStay ==
  ASSUME Calm, job' = job
  PROVE  JobsInv'
  BY CalmFacts DEF Calm, MonitorInv, JobsInv

\* all jobs but one,
LEMMA JobBecomes ==
  ASSUME Calm, NEW p \in Job, NEW k, JobSound(k, Facts'), Become(p, k)
  PROVE  JobsInv'
<1>1. DOMAIN job = Job
  BY DEF Calm, MonitorInv, JobsInv
<1>2. \A q \in Job : JobSound(job'[q], Facts')
  BY <1>1, CalmFacts DEF Become
<1> QED BY <1>1, <1>2 DEF JobsInv, Become

\* and the queue, from which it may take a hook or all of them.
LEMMA QueueShrinks ==
  ASSUME Calm, \/ queue' = queue
               \/ queue # <<>> /\ queue' = Tail(queue)
               \/ queue' = <<>>
  PROVE  QueueInv'
<1>1. queue \in Seq(Hooks) /\ \A i \in DOMAIN queue : GotSound(queue[i], queue[i].s, Facts')
  BY CalmFacts, GotLater DEF Calm, MonitorInv, QueueInv
<1>2. CASE queue' = queue
  BY <1>1, <1>2 DEF QueueInv
<1>3. CASE queue # <<>> /\ queue' = Tail(queue)
  <2>1. queue' \in Seq(Hooks)
    BY <1>1, <1>3
  <2>2. \A i \in DOMAIN queue' : i + 1 \in DOMAIN queue /\ queue'[i] = queue[i + 1]
    BY <1>1, <1>3
  <2> QED BY <1>1, <2>1, <2>2 DEF QueueInv
<1>4. CASE queue' = <<>>
  BY <1>4 DEF QueueInv
<1> QED BY <1>2, <1>3, <1>4

\* A sound hook joins the queue.
LEMMA QueueGrows ==
  ASSUME Calm, NEW h \in Hooks, GotSound(h, h.s, Facts'), Enqueue(h)
  PROVE  QueueInv'
<1>1. queue \in Seq(Hooks) /\ \A i \in DOMAIN queue : GotSound(queue[i], queue[i].s, Facts')
  BY CalmFacts, GotLater DEF Calm, MonitorInv, QueueInv
<1>2. CASE queue' = queue
  BY <1>1, <1>2 DEF QueueInv
<1>3. CASE queue' = Append(queue, h)
  <2>1. queue' \in Seq(Hooks)
    BY <1>1, <1>3
  <2>2. \A i \in DOMAIN queue' : queue'[i] = h \/ (i \in DOMAIN queue /\ queue'[i] = queue[i])
    BY <1>1, <1>3
  <2> QED BY <1>1, <2>1, <2>2 DEF QueueInv
<1> QED BY <1>2, <1>3 DEF Enqueue

\* What a job sees of the tables is as sound as the tables.
LEMMA RowOfSound ==
  ASSUME Calm, NEW p \in Job, NEW s \in Streamers
  PROVE  NoRowOrSound(RowOf(p, s), s, Facts) /\ NoRowOrSound(RowOf(p, s), s, Facts')
<1>1. CASE InTransaction(p) /\ job[p].rows[s] # Untouched
  BY <1>1, CalmFacts DEF RowOf, InTransaction, JobSound, Batch, WritesSound
<1>2. CASE ~(InTransaction(p) /\ job[p].rows[s] # Untouched)
  BY <1>2, CalmFacts DEF RowOf
<1> QED BY <1>1, <1>2

\* The history of a stream, as a job sees it.
LEMMA PastOfSound ==
  ASSUME Calm, NEW p \in Job, NEW st \in Stream, PastOf(p, st) = "ended"
  PROVE  st \in Facts.over /\ st \in Facts'.over
<1>1. Facts.streams = Stream /\ Facts.over \subseteq Facts'.over
  BY CalmFacts DEF Facts
<1>2. CASE InTransaction(p) /\ job[p].pasts[st] # Untouched
  BY <1>1, <1>2, CalmFacts DEF PastOf, InTransaction, JobSound, Batch, WritesSound
<1>3. CASE ~(InTransaction(p) /\ job[p].pasts[st] # Untouched)
  BY <1>1, <1>3 DEF PastOf, Calm, MonitorInv, PastsInv
<1> QED BY <1>2, <1>3

\* The stream whose history a job reads and writes.
LEMMA HistoryIsStream ==
  ASSUME Calm, NEW p \in Job, job[p].pc \in Writing, HistoryOf(job[p]) # 0
  PROVE  HistoryOf(job[p]) \in Stream
<1>1. JobSound(job[p], Facts)
  BY CalmFacts
<1>2. Facts.over \subseteq DOMAIN started /\ DOMAIN started \subseteq Stream /\ Facts.of = started
  BY StartedIsStream DEF Calm, MonitorInv, Facts
<1>3. CASE job[p].wrap
  BY <1>1, <1>2, <1>3 DEF JobSound, UpdateSound, HistoryOf
<1>4. CASE ~job[p].wrap
  BY <1>1, <1>2, <1>4 DEF JobSound, UpdateSound, HistoryOf, RowSound, Owned
<1> QED BY <1>3, <1>4

\* A job that writes a sound row, or the history of a stream that it knows to be over.
LEMMA RowWritten ==
  ASSUME Calm, NEW p \in Job, NEW s \in Streamers, NEW r, NoRowOrSound(r, s, Facts'),
         NEW next, \A k \in next : JobSound(k, Facts'), WriteRow(p, s, r, next)
  PROVE  RowsInv' /\ JobsInv'
<1>1. PICK k \in next :
        IF InTransaction(p) THEN Become(p, [k EXCEPT !.rows[s] = r]) /\ UNCHANGED row
        ELSE Become(p, k) /\ row' = [row EXCEPT ![s] = r]
  BY DEF WriteRow, Become
<1>2. JobsInv'
  BY <1>1, WriteRowSound, JobBecomes
<1>3. RowsInv'
  <2>1. CASE row' = row
    BY <2>1, RowsStay
  <2>2. CASE row' = [row EXCEPT ![s] = r]
    BY <2>2, CalmFacts DEF RowsInv, Calm, MonitorInv
  <2> QED BY <1>1, <2>1, <2>2
<1> QED BY <1>2, <1>3

\* A job writes the history of a stream.
LEMMA PastWritten ==
  ASSUME Calm, NEW p \in Job, NEW st, NEW h, h = "ended" /\ st # 0 => st \in Facts'.over,
         NEW next, \A k \in next : JobSound(k, Facts'), WritePast(p, st, h, next)
  PROVE  PastsInv' /\ JobsInv'
<1>1. PICK k \in next :
        IF InTransaction(p) THEN Become(p, [k EXCEPT !.pasts[st] = h]) /\ UNCHANGED past
        ELSE Become(p, k) /\ past' = [past EXCEPT ![st] = h]
  BY DEF WritePast, Become
<1>2. JobsInv'
  <2>1. 0 \notin Facts'.streams
    BY CalmFacts
  <2>2. JobSound([k EXCEPT !.pasts[st] = h], Facts')
    BY <2>1, WritePastSound
  <2> QED BY <1>1, <2>2, JobBecomes
<1>3. PastsInv'
  <2>1. CASE past' = past
    BY <2>1, PastsStay
  <2>2. CASE past' = [past EXCEPT ![st] = h]
    BY <2>2, CalmFacts DEF PastsInv, Calm, MonitorInv
  <2> QED BY <1>1, <2>1, <2>2
<1> QED BY <1>2, <1>3
-----------------------------------------------------------------------------
(* What becomes of a row *)

\* A streamer's stream other than the one he is on is over, and so is that one if an
\* answer says that he is not live.
LEMMA OlderIsOver ==
  ASSUME WorldInv, NEW s \in Streamers, NEW st, Owned(Facts, s, st), st # twitch[s].stream
  PROVE  st \in Facts.over
  BY EarlierIsOver DEF Owned, Facts

\* A stream that is disturbed may be said to have ended.
LEMMA DisturbedIsOver ==
  ASSUME Calm, NEW s \in Streamers, NEW st, Owned(Facts, s, st), NEW streams,
         Disturb(streams), st \in streams, started' = started
  PROVE  st \in Facts'.over
<1>1. st \in DOMAIN started /\ st # 0
  BY StartedIsStream DEF Owned, Facts, Calm, MonitorInv
<1> QED BY <1>1 DEF Facts, Disturb

\* A new row is sound.
LEMMA NewRowSound ==
  ASSUME NEW s, NEW w
  PROVE  NewRow \in Rows /\ RowSound(NewRow, s, w) /\ NoRowOrSound(NewRow, s, w)
  BY DEF NewRow, Rows, RowSound, NoRowOrSound

\* The row that is read, its update, and the stream that is wrapped up.
FetchedRow(p) == IF RowOf(p, job[p].s) = NoRow THEN NewRow ELSE RowOf(p, job[p].s)
Fetched(p) ==
  Calm /\ p \in Job /\ FetchLatest(p) /\ job[p].pc = "fetch"

\* What fetchLatestStreamStatus finds is sound.
LEMMA FetchedSound ==
  ASSUME NEW p, Fetched(p)
  PROVE  /\ FetchedRow(p) \in Rows /\ job[p].s \in Streamers
         /\ RowSound(FetchedRow(p), job[p].s, Facts) /\ RowSound(FetchedRow(p), job[p].s, Facts')
         /\ GotSound(job[p].got, job[p].s, Facts) /\ GotSound(job[p].got, job[p].s, Facts')
         /\ AnswerSound(job[p].got, job[p].read, Facts)
         /\ job[p].got.type \in {"online", "offline", "update", "rest"}
         /\ started' = started /\ api' = api /\ WorldInv /\ Facts.over \subseteq Facts'.over
<1>1. JobSound(job[p], Facts)
  BY CalmFacts DEF Fetched
<1>2. /\ job[p].s \in Streamers /\ GotSound(job[p].got, job[p].s, Facts)
      /\ AnswerSound(job[p].got, job[p].read, Facts)
      /\ job[p].got.type \in {"online", "offline", "update", "rest"}
  BY <1>1 DEF JobSound, UpdateSound, Updating, Fetched
<1>3. GotSound(job[p].got, job[p].s, Facts')
  BY <1>2, CalmFacts, GotLater DEF Fetched
<1>4. /\ NoRowOrSound(RowOf(p, job[p].s), job[p].s, Facts)
      /\ NoRowOrSound(RowOf(p, job[p].s), job[p].s, Facts')
  BY <1>2, RowOfSound DEF Fetched
<1>5. /\ FetchedRow(p) \in Rows
      /\ RowSound(FetchedRow(p), job[p].s, Facts) /\ RowSound(FetchedRow(p), job[p].s, Facts')
  BY <1>4, NewRowSound DEF FetchedRow, NoRowOrSound
<1>6. started' = started /\ api' = api
  BY DEF Fetched, FetchLatest, world
<1>7. WorldInv /\ Facts.over \subseteq Facts'.over
  BY CalmFacts DEF Fetched, Calm, MonitorInv
<1> QED BY <1>2, <1>3, <1>5, <1>6, <1>7

\* If the job is misled then the stream of the row it reads is disturbed.
LEMMA MisledIsOver ==
  ASSUME NEW p, Fetched(p),
         Misled(job[p].got, job[p].s, RowOf(p, job[p].s), job[p].read),
         FetchedRow(p).stream # 0
  PROVE  FetchedRow(p).stream \in Facts'.over
<1>1. Owned(Facts, job[p].s, FetchedRow(p).stream)
  BY FetchedSound DEF RowSound
<1>2. Disturb({FetchedRow(p).stream, twitch[job[p].s].stream})
  BY DEF Fetched, FetchLatest, FetchedRow
<1> QED BY <1>1, <1>2, FetchedSound, DisturbedIsOver DEF Fetched

\* The stream that is wrapped up is over: the row says one and Twitch another.
LEMMA WrappedIsOver ==
  ASSUME NEW p, Fetched(p), WrapsUp(job[p].got, FetchedRow(p)), FetchedRow(p).stream # 0
  PROVE  FetchedRow(p).stream \in Facts'.over
<1> DEFINE s == job[p].s
           got == job[p].got
           r == FetchedRow(p)
<1>1. /\ Owned(Facts, s, r.stream) /\ WorldInv /\ s \in Streamers
      /\ got.live /\ r.live /\ got.stream # r.stream /\ got.type \in {"online", "rest"}
      /\ Facts.over \subseteq Facts'.over
  BY FetchedSound DEF RowSound, WrapsUp, GotSound
<1>2. CASE Misled(got, s, RowOf(p, s), job[p].read)
  BY <1>2, MisledIsOver
<1>3. CASE ~Misled(got, s, RowOf(p, s), job[p].read) /\ got.type = "online"
  <2>1. twitch[s].stream = got.stream
    BY <1>3 DEF Misled
  <2> QED BY <1>1, <2>1, OlderIsOver
<1>4. CASE ~Misled(got, s, RowOf(p, s), job[p].read) /\ got.type = "rest"
  <2>1. ~r.hooked
    BY <1>4 DEF WrapsUp
  <2>2. RowOf(p, s) # NoRow
    BY DEF FetchedRow, NewRow
  <2>3. r = job[p].read
    BY <1>4, <2>1, <2>2 DEF Misled, FetchedRow
  <2>4. r.stream \in Facts.over
    BY <1>1, <1>4, <2>1, <2>2, <2>3, FetchedSound DEF AnswerSound, FetchedRow
  <2> QED BY <1>1, <2>4
<1> QED BY <1>1, <1>2, <1>3, <1>4

\* The row that gotStreamOnline, gotStreamOffline, gotChannelUpdate or gotRESTUpdate makes of
\* a sound one is sound: this is where the three minutes are needed.
LEMMA UpdatedSound ==
  ASSUME NEW p, Fetched(p)
  PROVE  /\ Updated(job[p].got, FetchedRow(p)) \in Rows
         /\ RowSound(Updated(job[p].got, FetchedRow(p)), job[p].s, Facts')
<1> DEFINE s == job[p].s
           got == job[p].got
           r == FetchedRow(p)
           new == Updated(got, r)
<1>1. /\ r \in Rows /\ s \in Streamers /\ WorldInv
      /\ RowSound(r, s, Facts) /\ RowSound(r, s, Facts')
      /\ GotSound(got, s, Facts) /\ GotSound(got, s, Facts')
      /\ got.type \in {"online", "offline", "update", "rest"}
      /\ Facts.over \subseteq Facts'.over
  BY FetchedSound
<1>2. CASE got.type = "online"
  <2>1. new = [live |-> TRUE, stream |-> got.stream, hooked |-> TRUE]
    BY <1>2 DEF Updated
  <2> QED BY <1>1, <1>2, <2>1 DEF RowSound, Rows, GotSound
<1>3. CASE got.type = "offline"
  <2>1. new = [r EXCEPT !.live = FALSE, !.hooked = TRUE]
    BY <1>3 DEF Updated
  <2>2. new \in Rows /\ new.stream = r.stream /\ new.hooked
    BY <1>1, <2>1 DEF Rows
  <2>3. ASSUME r.stream # 0 PROVE r.stream \in Facts'.over
    <3>1. CASE Misled(got, s, RowOf(p, s), job[p].read)
      BY <2>3, <3>1, MisledIsOver
    <3>2. CASE ~Misled(got, s, RowOf(p, s), job[p].read)
      <4>1. ~twitch[s].live
        BY <1>3, <3>2 DEF Misled
      <4>2. Owned(Facts, s, r.stream)
        BY <1>1, <2>3 DEF RowSound
      <4>3. r.stream \in Facts.over
        BY <4>1, <4>2 DEF Owned, Facts, Over
      <4> QED BY <1>1, <4>3
    <3> QED BY <3>1, <3>2
  <2> QED BY <1>1, <2>2, <2>3 DEF RowSound
<1>4. CASE got.type = "update"
  <2>1. new = [r EXCEPT !.stream = IF r.live THEN r.stream ELSE 0]
    BY <1>1, <1>4 DEF Updated, Rows
  <2> QED BY <1>1, <2>1 DEF Rows, RowSound
<1>5. CASE got.type = "rest" /\ r.hooked
  BY <1>1, <1>5 DEF Updated
<1>6. CASE got.type = "rest" /\ ~r.hooked /\ got.live
  <2>1. new = [r EXCEPT !.live = got.live, !.stream = got.stream]
    BY <1>1, <1>6 DEF Updated, Rows
  <2> QED BY <1>1, <1>6, <2>1 DEF Rows, RowSound, GotSound
<1>7. CASE got.type = "rest" /\ ~r.hooked /\ ~got.live
  <2>1. new = [r EXCEPT !.live = got.live, !.stream = r.stream]
    BY <1>1, <1>7 DEF Updated, Rows
  <2>2. new \in Rows /\ new.stream = r.stream /\ new.hooked = r.hooked /\ ~new.live
    BY <1>1, <1>7, <2>1 DEF Rows, GotSound
  <2>3. ASSUME r.stream # 0 PROVE r.stream \in Facts'.over
    <3>1. CASE Misled(got, s, RowOf(p, s), job[p].read)
      BY <2>3, <3>1, MisledIsOver
    <3>2. CASE ~Misled(got, s, RowOf(p, s), job[p].read)
      <4>1. RowOf(p, s) # NoRow
        BY <2>3 DEF FetchedRow, NewRow
      <4>2. r = job[p].read /\ r # NoRow
        BY <1>7, <3>2, <4>1 DEF Misled, FetchedRow
      <4>3. r.stream \in Facts.over
        BY <1>7, <2>3, <4>2, FetchedSound DEF AnswerSound
      <4> QED BY <1>1, <4>3
    <3> QED BY <3>1, <3>2
  <2> QED BY <1>1, <2>2, <2>3 DEF RowSound
<1> QED BY <1>1, <1>2, <1>3, <1>4, <1>5, <1>6, <1>7 DEF Rows

\* fetchLatestStreamStatus.
LEMMA FetchLatestKeeps ==
  ASSUME Calm, NEW p \in Job, FetchLatest(p)
  PROVE  RowsInv' /\ JobsInv'
<1> DEFINE s == job[p].s
           r == FetchedRow(p)
           wraps == WrapsUp(job[p].got, r)
           next == [job[p] EXCEPT !.pc = IF wraps THEN "history" ELSE "save", !.got = NotLive,
                                  !.read = r, !.latest = Updated(job[p].got, r), !.wrap = wraps]
<1>1. Fetched(p) /\ JobSound(job[p], Facts') /\ s \in Streamers /\ r \in Rows
  BY CalmFacts, FetchedSound DEF Fetched, FetchLatest
<1>2. /\ IF RowOf(p, s) = NoRow THEN WriteRow(p, s, NewRow, {next})
         ELSE Become(p, next) /\ UNCHANGED row
  BY DEF FetchLatest, FetchedRow
<1>3. /\ DOMAIN next = JobFields /\ next.wrap = wraps /\ next.who = job[p].who
      /\ next.rows = job[p].rows /\ next.pasts = job[p].pasts /\ next.answers = job[p].answers
      /\ next.pc \in {"history", "save"} /\ next.s = s /\ next.read = r
      /\ next.latest = Updated(job[p].got, r)
  BY <1>1 DEF JobSound, Batch, JobFields
<1>4. wraps \in BOOLEAN
  BY DEF WrapsUp
<1>5. wraps /\ r.stream # 0 => r.stream \in Facts'.over
  BY <1>1, WrappedIsOver
<1>6. /\ Updated(job[p].got, r) \in Rows
      /\ RowSound(Updated(job[p].got, r), s, Facts')
  BY <1>1, UpdatedSound
<1> HIDE DEF next, wraps, r, s
<1>7. Batch(next, Facts')
  BY <1>1, <1>3, <1>4 DEF JobSound, Batch, WritesSound, AnswersSound
<1>8. UpdateSound(next, Facts')
  BY <1>1, <1>3, <1>5, <1>6 DEF UpdateSound, Writing, Updating
<1>9. JobSound(next, Facts')
  BY <1>7, <1>8 DEF JobSound
<1>10. CASE RowOf(p, s) = NoRow
  <2>1. WriteRow(p, s, NewRow, {next})
    BY <1>2, <1>10
  <2> QED BY <1>1, <1>9, <2>1, NewRowSound, RowWritten
<1>11. CASE RowOf(p, s) # NoRow
  <2>1. Become(p, next) /\ row' = row
    BY <1>2, <1>11
  <2> QED BY <1>9, <2>1, JobBecomes, RowsStay
<1> QED BY <1>10, <1>11
\* saveLatestStreamStatus.
LEMMA SaveKeeps ==
  ASSUME Calm, NEW p \in Job, FindLatest(p) \/ SaveLatest(p)
  PROVE  RowsInv' /\ JobsInv'
<1> DEFINE s == job[p].s
           j == job[p]
<1>1. JobSound(j, Facts') /\ j.pc \in Writing
  BY CalmFacts DEF FindLatest, SaveLatest, Writing
<1>2. s \in Streamers /\ NoRowOrSound(j.latest, s, Facts')
  BY <1>1 DEF JobSound, UpdateSound, Writing, Updating, NoRowOrSound
<1>3. \A k \in AfterSave(j) : JobSound(k, Facts')
  BY <1>1, AfterSaveSound
<1>4. \/ Become(p, [j EXCEPT !.pc = "update"]) /\ row' = row
      \/ (\E k \in AfterSave(j) : Become(p, k)) /\ row' = row
      \/ WriteRow(p, s, j.latest, AfterSave(j))
  BY DEF FindLatest, SaveLatest, Goto
<1>5. CASE Become(p, [j EXCEPT !.pc = "update"]) /\ row' = row
  <2>1. JobSound([j EXCEPT !.pc = "update"], Facts')
    BY <1>1, GotoSound
  <2> QED BY <1>5, <2>1, JobBecomes, RowsStay
<1>6. CASE (\E k \in AfterSave(j) : Become(p, k)) /\ row' = row
  BY <1>3, <1>6, JobBecomes, RowsStay
<1>7. CASE WriteRow(p, s, j.latest, AfterSave(j))
  <2> DEFINE next == AfterSave(j)
  <2>1. \A k \in next : JobSound(k, Facts')
    BY <1>3
  <2>2. WriteRow(p, s, j.latest, next)
    BY <1>7
  <2> HIDE DEF next
  <2> QED BY <1>2, <2>1, <2>2, RowWritten
<1> QED BY <1>4, <1>5, <1>6, <1>7

\* updateStreamHistory, its read.
LEMMA FetchHistoryKeeps ==
  ASSUME Calm, NEW p \in Job, FetchHistory(p)
  PROVE  JobsInv'
<1> DEFINE j == job[p]
           k == [j EXCEPT !.pc = "upsert", !.hist = PastOf(p, HistoryOf(j))]
<1>1. JobSound(j, Facts') /\ j.pc \in Writing
  BY CalmFacts DEF FetchHistory, Writing
<1>2. Become(p, k)
  BY DEF FetchHistory, HistoryStream, HistoryOf
<1>3. /\ DOMAIN k = JobFields /\ k.wrap = j.wrap /\ k.who = j.who /\ k.rows = j.rows
      /\ k.pasts = j.pasts /\ k.answers = j.answers /\ k.pc = "upsert" /\ k.s = j.s
      /\ k.read = j.read /\ k.latest = j.latest /\ k.hist = PastOf(p, HistoryOf(j))
  BY <1>1 DEF JobSound, Batch, JobFields
<1>4. k.hist = "ended" /\ HistoryOf(j) # 0 => HistoryOf(j) \in Facts'.over
  BY <1>1, <1>3, HistoryIsStream, PastOfSound
<1>5. HistoryOf(k) = HistoryOf(j)
  BY <1>3 DEF HistoryOf
<1> HIDE DEF k
<1>6. Batch(k, Facts')
  BY <1>1, <1>3 DEF JobSound, Batch, WritesSound, AnswersSound
<1>7. UpdateSound(k, Facts')
  BY <1>1, <1>3, <1>4, <1>5 DEF JobSound, UpdateSound, Writing, Updating
<1> QED BY <1>2, <1>6, <1>7, JobBecomes DEF JobSound

\* updateStreamHistory, its write: no stream that goes on is said to have ended.
LEMMA UpsertHistoryKeeps ==
  ASSUME Calm, NEW p \in Job, UpsertHistory(p)
  PROVE  PastsInv' /\ JobsInv'
<1> DEFINE j == job[p]
           st == HistoryOf(j)
           over == j.hist = "ended" \/ j.wrap \/ ~j.latest.live
           h == IF over THEN "ended" ELSE "open"
           next == AfterHistory(j)
<1>1. JobSound(j, Facts') /\ j.pc = "upsert" /\ j.pc \in Writing
  BY CalmFacts DEF UpsertHistory, Writing
<1>2. WritePast(p, st, h, next)
  BY DEF UpsertHistory, HistoryStream, HistoryOf
<1>3. h = "ended" /\ st # 0 => st \in Facts'.over
  <2> SUFFICES ASSUME over, st # 0 PROVE st \in Facts'.over
    OBVIOUS
  <2>1. CASE j.hist = "ended"
    BY <1>1, <2>1 DEF JobSound, UpdateSound
  <2>2. CASE j.wrap
    BY <1>1, <2>2 DEF JobSound, UpdateSound, HistoryOf
  <2>3. CASE ~j.wrap /\ ~j.latest.live
    BY <1>1, <2>3 DEF JobSound, UpdateSound, HistoryOf, RowSound
  <2> QED BY <2>1, <2>2, <2>3
<1>4. \A k \in next : JobSound(k, Facts')
  BY <1>1, AfterHistorySound
<1> HIDE DEF next, h, st
<1> QED BY <1>2, <1>3, <1>4, PastWritten

\* An update that ends in an error.
LEMMA GiveUpKeeps ==
  ASSUME Calm, NEW p \in Job, GiveUp(p)
  PROVE  JobsInv' /\ UNCHANGED tables
<1> DEFINE j == [job[p] EXCEPT !.wrap = FALSE, !.got = NotLive]
<1>1. JobSound(job[p], Facts')
  BY CalmFacts
<1>2. /\ DOMAIN j = JobFields /\ j.wrap = FALSE /\ j.who = job[p].who /\ j.rows = job[p].rows
      /\ j.pasts = job[p].pasts /\ j.answers = job[p].answers
  BY <1>1 DEF JobSound, Batch, JobFields
<1>3. PICK k \in AfterHistory(j) : Become(p, k)
  BY DEF GiveUp
<1>4. Batch(j, Facts')
  BY <1>1, <1>2 DEF JobSound, Batch, WritesSound, AnswersSound
<1> HIDE DEF j
<1>5. JobSound(k, Facts')
  BY <1>2, <1>4, AfterHistoryBatch
<1> QED BY <1>3, <1>5, JobBecomes DEF GiveUp
-----------------------------------------------------------------------------
(* Synchronisations *)

\* syncWithTwitch reads the streamers and the subscriptions,
LEMMA ReadSubscriptionsKeeps ==
  ASSUME Calm, NEW p \in Job, ReadSubscriptions(p)
  PROVE  JobsInv'
<1> DEFINE j == job[p]
           k == [j EXCEPT !.pc = "subscribe", !.who = tracked, !.subs = subbed]
<1>1. JobSound(j, Facts') /\ tracked \subseteq Streamers
  BY CalmFacts DEF Calm, MonitorInv, FormsInv
<1>2. Become(p, k)
  BY DEF ReadSubscriptions
<1>3. /\ DOMAIN k = JobFields /\ k.wrap = j.wrap /\ k.who = tracked /\ k.rows = j.rows
      /\ k.pasts = j.pasts /\ k.answers = j.answers /\ k.pc = "subscribe"
  BY <1>1 DEF JobSound, Batch, JobFields
<1> HIDE DEF k
<1>4. Batch(k, Facts')
  BY <1>1, <1>3 DEF JobSound, Batch, WritesSound, AnswersSound
<1>5. UpdateSound(k, Facts')
  BY <1>3 DEF UpdateSound, Writing, Updating
<1> QED BY <1>2, <1>4, <1>5, JobBecomes DEF JobSound

\* changes the subscriptions,
LEMMA SyncSubscriptionsKeeps ==
  ASSUME Calm, NEW p \in Job, SyncSubscriptions(p)
  PROVE  JobsInv'
<1> DEFINE j == job[p]
           k == [j EXCEPT !.pc = "begin"]
<1>1. JobSound(j, Facts')
  BY CalmFacts
<1>2. Become(p, k) \/ Become(p, Idle)
  BY DEF SyncSubscriptions, Goto
<1>3. /\ DOMAIN k = JobFields /\ k.wrap = j.wrap /\ k.who = j.who /\ k.rows = j.rows
      /\ k.pasts = j.pasts /\ k.answers = j.answers /\ k.pc = "begin"
  BY <1>1 DEF JobSound, Batch, JobFields
<1> HIDE DEF k
<1>4. Batch(k, Facts')
  BY <1>1, <1>3 DEF JobSound, Batch, WritesSound, AnswersSound
<1>5. UpdateSound(k, Facts')
  BY <1>3 DEF UpdateSound, Writing, Updating
<1> QED BY <1>2, <1>4, <1>5, IdleSound, JobBecomes DEF JobSound

\* An answer of Twitch, and the row that was there when it was asked.
LEMMA AnswerIsSound ==
  ASSUME MonitorInv, NEW s \in Streamers
  PROVE  /\ GotSound(Answer(s), s, Facts) /\ Answer(s).type = "rest"
         /\ AnswerSound(Answer(s), row[s], Facts)
<1>1. /\ WorldInv /\ NoRowOrSound(row[s], s, Facts)
      /\ api[s] \in Statuses /\ twitch[s] \in Statuses
  BY DEF MonitorInv, RowsInv, WorldInv
<1>2. /\ api[s].live => api[s].stream # 0
      /\ api[s].stream # 0 => Owned(Facts, s, api[s].stream)
      /\ api[s].stream <= twitch[s].stream
      /\ ~api[s].live /\ api[s].stream # 0 => api[s].stream \in Facts.over
      /\ Facts.seen[s] = api[s].stream
  BY <1>1 DEF WorldInv, Facts, Owned
<1>3. /\ Answer(s).type = "rest" /\ Answer(s).live = api[s].live
      /\ api[s].live => Answer(s).stream = api[s].stream
      /\ Answer(s).live \in BOOLEAN /\ Answer(s).stream \in Nat
  BY <1>1 DEF Answer, NotLive, Statuses
<1>4. GotSound(Answer(s), s, Facts)
  <2>1. Answer(s).live => Owned(Facts, s, Answer(s).stream) /\ Answer(s).stream <= Facts.seen[s]
    BY <1>1, <1>2, <1>3 DEF Statuses
  <2> QED BY <1>3, <2>1 DEF GotSound
<1>5. AnswerSound(Answer(s), row[s], Facts)
  <2>1. row[s] = NoRow \/ row[s] \in Rows
    BY <1>1 DEF NoRowOrSound
  <2>2. ASSUME row[s] # NoRow, ~row[s].hooked, row[s].stream # 0, row[s].stream \notin Facts.over
        PROVE  Answer(s).live /\ Answer(s).stream = row[s].stream
    <3>1. /\ row[s].stream \in Nat /\ Owned(Facts, s, row[s].stream)
          /\ row[s].stream <= api[s].stream
      BY <1>1, <1>2, <2>1, <2>2 DEF NoRowOrSound, RowSound, Rows
    <3>2. row[s].stream = twitch[s].stream
      BY <1>1, <2>2, <3>1, OlderIsOver
    <3>3. row[s].stream = api[s].stream
      BY <1>1, <1>2, <3>1, <3>2 DEF Statuses
    <3> QED BY <1>2, <1>3, <2>2, <3>3
  <2> QED BY <2>1, <2>2 DEF AnswerSound
<1> QED BY <1>3, <1>4, <1>5

\* deletes rows and asks for statuses,
LEMMA BeginSyncKeeps ==
  ASSUME Calm, NEW p \in Job, BeginSync(p)
  PROVE  JobsInv'
<1> DEFINE j == job[p]
           gone == Untracked(j)
           asked == IF j.all THEN j.who ELSE Missing(j)
           begun == [j EXCEPT
                  !.who = {}, !.subs = {},
                  !.rows = [s \in Streamers |-> IF s \in gone THEN NoRow ELSE Untouched],
                  !.pasts = [st \in Stream |-> Untouched],
                  !.answers = [s \in asked |-> [got |-> Answer(s), read |-> row[s]]]]
<1>1. JobSound(j, Facts) /\ Facts.streams = Stream
  BY CalmFacts DEF Facts
<1>2. PICK k \in NextUser(begun) : Become(p, k)
  BY DEF BeginSync
<1>3. /\ DOMAIN begun = JobFields /\ begun.wrap = j.wrap /\ begun.who = {}
      /\ begun.rows = [s \in Streamers |-> IF s \in gone THEN NoRow ELSE Untouched]
      /\ begun.pasts = [st \in Stream |-> Untouched]
      /\ begun.answers = [s \in asked |-> [got |-> Answer(s), read |-> row[s]]]
  BY <1>1 DEF JobSound, Batch, JobFields
<1>4. asked \subseteq Streamers
  BY <1>1 DEF JobSound, Batch, Missing
<1> HIDE DEF begun, asked, gone
<1>5. WritesSound(begun, Facts)
  BY <1>1, <1>3 DEF WritesSound, NoRowOrSound
<1>6. AnswersSound(begun, Facts)
  <2> SUFFICES ASSUME NEW s \in DOMAIN begun.answers
               PROVE  /\ s \in Streamers
                      /\ GotSound(begun.answers[s].got, s, Facts)
                      /\ begun.answers[s].got.type = "rest"
                      /\ AnswerSound(begun.answers[s].got, begun.answers[s].read, Facts)
    BY DEF AnswersSound
  <2>1. s \in Streamers /\ begun.answers[s].got = Answer(s) /\ begun.answers[s].read = row[s]
    BY <1>3, <1>4
  <2> QED BY <2>1, AnswerIsSound DEF Calm
<1>7. Batch(begun, Facts)
  BY <1>1, <1>3, <1>5, <1>6 DEF JobSound, Batch
<1>8. JobSound(k, Facts)
  BY <1>7, NextUserSound
<1>9. JobSound(k, Facts')
  BY <1>8, CalmFacts, JobLater
<1> QED BY <1>2, <1>9, JobBecomes

\* and commits.
LEMMA CommitSyncKeeps ==
  ASSUME Calm, NEW p \in Job, CommitSync(p)
  PROVE  RowsInv' /\ PastsInv' /\ JobsInv'
<1>1. JobsInv'
  BY IdleSound, JobBecomes DEF CommitSync
<1>2. RowsInv'
  BY RowOfSound DEF CommitSync, RowsInv
<1>3. PastsInv'
  BY CalmFacts, PastOfSound DEF CommitSync, PastsInv
<1> QED BY <1>1, <1>2, <1>3
-----------------------------------------------------------------------------
(* Time passes *)

\* Once Twitch's answers know of all there is, a row needs no hook.
LEMMA AgedRow ==
  ASSUME WorldInv, NEW s \in Streamers, api[s] = twitch[s], NEW r, r \in Rows,
         RowSound(r, s, Facts)
  PROVE  Aged(r) \in Rows /\ Aged(r).stream = r.stream /\ RowSound(Aged(r), s, Facts)
<1>1. /\ Aged(r) \in Rows /\ Aged(r).stream = r.stream /\ Aged(r).live = r.live
  BY DEF Aged, Rows
<1>2. ASSUME r.stream # 0 PROVE r.stream <= Facts.seen[s]
  BY <1>2 DEF RowSound, Owned, Facts, WorldInv
<1> QED BY <1>1, <1>2 DEF RowSound

\* The same, if there is a row.
LEMMA AgedNoRowOrSound ==
  ASSUME WorldInv, NEW s \in Streamers, api[s] = twitch[s], NEW r, NoRowOrSound(r, s, Facts)
  PROVE  NoRowOrSound(Aged(r), s, Facts)
<1>1. CASE r = NoRow
  BY <1>1 DEF Aged
<1>2. CASE r \in Rows /\ RowSound(r, s, Facts)
  BY <1>2, AgedRow DEF NoRowOrSound
<1> QED BY <1>1, <1>2 DEF NoRowOrSound

\* The copies that a job has of the row.
LEMMA AgedJobSound ==
  ASSUME WorldInv, NEW s \in Streamers, api[s] = twitch[s], NEW j, JobSound(j, Facts),
         ~(s \in DOMAIN j.answers \/ (j.s = s /\ j.pc = "fetch"))
  PROVE  JobSound(AgedJob(j, s), Facts)
<1> DEFINE k == AgedJob(j, s)
<1>1. /\ DOMAIN k = JobFields /\ k.wrap = j.wrap /\ k.who = j.who /\ k.pc = j.pc /\ k.s = j.s
      /\ k.pasts = j.pasts /\ k.answers = j.answers /\ k.got = j.got /\ k.hist = j.hist
      /\ k.read = IF j.s = s THEN Aged(j.read) ELSE j.read
      /\ k.latest = IF j.s = s THEN Aged(j.latest) ELSE j.latest
      /\ k.rows = IF j.rows = <<>> THEN <<>> ELSE [j.rows EXCEPT ![s] = Aged(j.rows[s])]
  BY DEF JobSound, Batch, JobFields, AgedJob
<1> SUFFICES JobSound(k, Facts)
  OBVIOUS
<1> HIDE DEF k
<1>2. WritesSound(k, Facts)
  <2> SUFFICES ASSUME j.rows # <<>> PROVE WritesSound(k, Facts)
    BY <1>1 DEF WritesSound
  <2>1. /\ DOMAIN j.rows = Streamers
        /\ \A u \in Streamers : j.rows[u] = Untouched \/ NoRowOrSound(j.rows[u], u, Facts)
    BY DEF JobSound, Batch, WritesSound
  <2>2. k.rows[s] = Untouched \/ NoRowOrSound(k.rows[s], s, Facts)
    <3>1. k.rows[s] = Aged(j.rows[s])
      BY <1>1, <2>1
    <3>2. CASE j.rows[s] = Untouched
      BY <3>1, <3>2 DEF Aged
    <3>3. CASE NoRowOrSound(j.rows[s], s, Facts)
      BY <3>1, <3>3, AgedNoRowOrSound
    <3> QED BY <2>1, <3>2, <3>3
  <2>3. \A u \in Streamers : k.rows[u] = Untouched \/ NoRowOrSound(k.rows[u], u, Facts)
    BY <1>1, <2>1, <2>2
  <2> QED BY <1>1, <2>1, <2>3 DEF JobSound, Batch, WritesSound
<1>3. Batch(k, Facts)
  BY <1>1, <1>2 DEF JobSound, Batch, AnswersSound
<1>4. CASE j.s # s
  <2>1. k.read = j.read /\ k.latest = j.latest
    BY <1>1, <1>4
  <2>2. HistoryOf(k) = HistoryOf(j)
    BY <1>1, <2>1 DEF HistoryOf
  <2>3. UpdateSound(k, Facts)
    BY <1>1, <2>1, <2>2 DEF JobSound, UpdateSound
  <2> QED BY <1>3, <2>3 DEF JobSound
<1>5. CASE j.s = s
  <2>1. k.read = Aged(j.read) /\ k.latest = Aged(j.latest) /\ j.pc # "fetch"
    BY <1>1, <1>5
  <2>2. ASSUME j.read \in Rows PROVE k.read \in Rows /\ k.read.stream = j.read.stream
    BY <2>1, <2>2 DEF Aged, Rows
  <2>3. j.read = NoRow => k.read = NoRow
    BY <2>1 DEF Aged
  <2>4. ASSUME j.pc \in Writing
        PROVE  /\ j.latest \in Rows /\ k.latest \in Rows /\ k.latest.stream = j.latest.stream
               /\ RowSound(k.latest, s, Facts)
    BY <1>5, <2>1, <2>4, AgedRow DEF JobSound, UpdateSound
  <2>5. ASSUME j.pc \in Writing, j.wrap PROVE k.read.stream = j.read.stream
    BY <2>2, <2>3, <2>5 DEF JobSound, UpdateSound, Writing, Updating
  <2>6. j.pc \in Writing => HistoryOf(k) = HistoryOf(j)
    BY <1>1, <2>4, <2>5 DEF HistoryOf
  <2>7. k.pc \in Updating => k.s \in Streamers /\ (k.read = NoRow \/ k.read \in Rows)
    BY <1>1, <2>2, <2>3 DEF JobSound, UpdateSound
  <2>8. k.pc \in Writing => /\ k.latest \in Rows /\ RowSound(k.latest, k.s, Facts)
                            /\ k.wrap /\ k.read.stream # 0 => k.read.stream \in Facts.over
    BY <1>1, <1>5, <2>4, <2>5 DEF JobSound, UpdateSound
  <2>9. k.pc = "upsert" /\ k.hist = "ended" /\ HistoryOf(k) # 0 => HistoryOf(k) \in Facts.over
    BY <1>1, <2>6 DEF JobSound, UpdateSound, Writing
  <2>10. k.pc # "fetch"
    BY <1>1, <2>1
  <2>11. UpdateSound(k, Facts)
    BY <2>7, <2>8, <2>9, <2>10 DEF UpdateSound
  <2> QED BY <1>3, <2>11 DEF JobSound
<1> QED BY <1>4, <1>5

\* The last hook about a streamer becomes three minutes old.
LEMMA HooksAgeKeeps ==
  ASSUME Calm, NEW s \in Streamers, HooksAge(s)
  PROVE  RowsInv' /\ JobsInv'
<1>1. WorldInv /\ api[s] = twitch[s]
  BY DEF Calm, MonitorInv, HooksAge
<1>2. row' = [row EXCEPT ![s] = Aged(row[s])]
  BY DEF HooksAge
<1>3. NoRowOrSound(Aged(row[s]), s, Facts)
  BY <1>1, CalmFacts, AgedNoRowOrSound
<1>4. NoRowOrSound(Aged(row[s]), s, Facts')
  BY <1>3, CalmFacts, NoRowOrSoundLater
<1>5. RowsInv'
  BY <1>2, <1>4, CalmFacts DEF RowsInv, Calm, MonitorInv
<1>6. DOMAIN job' = Job /\ \A p \in Job : job'[p] = AgedJob(job[p], s)
  BY DEF HooksAge
<1>7. ASSUME NEW p \in Job PROVE JobSound(job'[p], Facts')
  <2>1. /\ JobSound(job[p], Facts)
        /\ ~(s \in DOMAIN job[p].answers \/ (job[p].s = s /\ job[p].pc = "fetch"))
    BY CalmFacts DEF HooksAge
  <2>2. JobSound(job'[p], Facts)
    BY <1>1, <1>6, <2>1, AgedJobSound
  <2> QED BY <2>2, CalmFacts, JobLater
<1> QED BY <1>5, <1>6, <1>7 DEF JobsInv
-----------------------------------------------------------------------------
(* The loop, and its timers *)

\* A timer expires.
LEMMA FireKeeps ==
  ASSUME Calm, NEW t \in Job, Fire(t)
  PROVE  JobsInv'
<1> DEFINE j == job[t]
           s == j.s
           k == [j EXCEPT !.pc = "fetch", !.got = Answer(s), !.read = row[s]]
<1>1. JobSound(j, Facts) /\ tracked \subseteq Streamers /\ MonitorInv
  BY CalmFacts DEF Calm, MonitorInv, FormsInv
<1>2. \/ Become(t, Sync("sync", FALSE)) \/ Become(t, Idle)
      \/ s \in tracked /\ Become(t, k)
  BY DEF Fire
<1>3. CASE s \in tracked /\ Become(t, k)
  <2>1. s \in Streamers
    BY <1>1, <1>3
  <2>2. /\ DOMAIN k = JobFields /\ k.wrap = j.wrap /\ k.who = j.who /\ k.rows = j.rows
        /\ k.pasts = j.pasts /\ k.answers = j.answers /\ k.pc = "fetch" /\ k.s = s
        /\ k.got = Answer(s) /\ k.read = row[s]
    BY <1>1 DEF JobSound, Batch, JobFields
  <2>3. /\ GotSound(Answer(s), s, Facts) /\ Answer(s).type = "rest"
        /\ AnswerSound(Answer(s), row[s], Facts)
    BY <1>1, <2>1, AnswerIsSound
  <2> HIDE DEF k, s
  <2>4. Batch(k, Facts)
    BY <1>1, <2>2 DEF JobSound, Batch, WritesSound, AnswersSound
  <2>5. UpdateSound(k, Facts)
    BY <2>1, <2>2, <2>3 DEF UpdateSound, Updating, Writing, AnswerSound
  <2>6. JobSound(k, Facts')
    BY <2>4, <2>5, CalmFacts, JobLater DEF JobSound
  <2> QED BY <1>3, <2>6, JobBecomes
<1>4. JobSound(Sync("sync", FALSE), Facts')
  BY SyncSound
<1>5. JobSound(Idle, Facts')
  BY IdleSound
<1> QED BY <1>2, <1>3, <1>4, <1>5, JobBecomes

\* The loop takes a hook.
LEMMA TakeNotificationKeeps ==
  ASSUME Calm, NEW t \in Timers, TakeNotification(t)
  PROVE  JobsInv' /\ QueueInv'
<1> DEFINE h == Head(queue)
           set == [Idle EXCEPT !.s = h.s, !.pc = "set"]
           got == [Idle EXCEPT !.s = h.s, !.pc = "fetch", !.got = h]
           k == IF h.s \in tracked THEN got ELSE Idle
<1>1. /\ tracked \subseteq Streamers /\ queue \in Seq(Hooks) /\ queue # <<>>
      /\ \A i \in DOMAIN queue : GotSound(queue[i], queue[i].s, Facts)
  BY DEF Calm, MonitorInv, FormsInv, QueueInv, TakeNotification
<1>2. h \in Hooks /\ GotSound(h, h.s, Facts) /\ h.type # "revocation"
  BY <1>1 DEF TakeNotification
<1>3. GotSound(h, h.s, Facts')
  BY <1>2, CalmFacts, GotLater
<1>4. job' = [job EXCEPT ![t] = set, ![Loop] = k]
  BY DEF TakeNotification, Idle
<1>5. JobSound(set, Facts')
  BY DEF JobSound, Batch, WritesSound, AnswersSound, UpdateSound, Idle, JobFields, Updating, Writing
<1>6. h.s \in tracked => JobSound(got, Facts')
  <2> SUFFICES ASSUME h.s \in tracked PROVE JobSound(got, Facts')
    OBVIOUS
  <2>1. /\ DOMAIN got = JobFields /\ got.wrap = FALSE /\ got.who = {} /\ got.rows = <<>>
        /\ got.answers = <<>> /\ got.pc = "fetch" /\ got.s = h.s /\ got.got = h
        /\ got.read = NoRow
    BY DEF Idle, JobFields
  <2>2. h.s \in Streamers /\ h.type \in {"online", "offline", "update", "rest"}
    BY <1>1, <1>2 DEF Hooks, HookTypes
  <2> HIDE DEF got, h
  <2>3. Batch(got, Facts')
    <3>1. got.wrap \in BOOLEAN /\ got.who \subseteq Streamers
      BY <2>1
    <3>2. WritesSound(got, Facts') /\ AnswersSound(got, Facts')
      BY <2>1 DEF WritesSound, AnswersSound
    <3> QED BY <2>1, <3>1, <3>2 DEF Batch
  <2>4. UpdateSound(got, Facts')
    BY <1>3, <2>1, <2>2 DEF UpdateSound, Updating, Writing, AnswerSound
  <2> QED BY <2>3, <2>4 DEF JobSound
<1>7. JobSound(k, Facts')
  BY <1>6, IdleSound
<1> HIDE DEF set, k
<1>8. DOMAIN job = Job /\ DOMAIN job' = Job
  BY <1>4 DEF Calm, MonitorInv, JobsInv
<1>9. ASSUME NEW q \in Job PROVE JobSound(job'[q], Facts')
  <2>1. job'[q] = job[q] \/ job'[q] = set \/ job'[q] = k
    BY <1>4, <1>8
  <2> QED BY <1>5, <1>7, <2>1, CalmFacts
<1>10. QueueInv'
  BY QueueShrinks DEF TakeNotification
<1> QED BY <1>8, <1>9, <1>10 DEF JobsInv

\* Any step of the loop and the timers.
LEMMA LoopKeeps ==
  ASSUME Calm, LoopStep
  PROVE  JobsInv' /\ QueueInv'
<1>0. limit.timers \subseteq Timers /\ Loop \in Job /\ Timers \subseteq Job
  BY MonitorAssumption DEF Calm, MonitorInv, WorldInv, Job
<1>1. CASE FirstRun \/ Tick \/ TakeRevocation
  <2>1. \/ Become(Loop, Sync("sync", TRUE)) \/ Become(Loop, Sync("sync", FALSE))
    BY <1>1 DEF FirstRun, Tick, TakeRevocation
  <2>2. JobsInv'
    BY <1>0, <2>1, SyncSound, JobBecomes
  <2>3. CASE FirstRun \/ Tick
    BY <2>2, <2>3, QueueShrinks DEF FirstRun, Tick, inputs
  <2>4. CASE TakeRevocation
    BY <2>2, <2>4, QueueShrinks DEF TakeRevocation
  <2> QED BY <1>1, <2>3, <2>4
<1>2. CASE \E t \in limit.timers : TakeLinks(t)
  <2>1. PICK t \in Job : Become(t, Sync("set", FALSE)) /\ queue' = queue
    BY <1>0, <1>2 DEF TakeLinks
  <2> QED BY <2>1, SyncSound, JobBecomes, QueueShrinks
<1>3. CASE \E t \in limit.timers : TakeNotification(t)
  BY <1>0, <1>3, TakeNotificationKeeps
<1>4. CASE \E t \in limit.timers : Fire(t)
  <2>1. PICK t \in Job : Fire(t) /\ queue' = queue
    BY <1>0, <1>4 DEF Fire, inputs
  <2> QED BY <2>1, FireKeeps, QueueShrinks
<1> QED BY <1>1, <1>2, <1>3, <1>4 DEF LoopStep
-----------------------------------------------------------------------------
(* Hooks, crashes and failures *)

\* A hook arrives.
LEMMA ReceiveKeeps ==
  ASSUME Calm, Receive
  PROVE  QueueInv'
<1>1. PICK h \in Sent : Enqueue(h)
  BY DEF Receive
<1>2. /\ WorldInv /\ started \in Seq(Streamers) /\ \A st \in DOMAIN started : st \in Nat
  BY DEF Calm, MonitorInv, WorldInv
<1>3. h \in Hooks /\ GotSound(h, h.s, Facts)
  <2>1. CASE h \in {Hook("online", started[st], st) : st \in DOMAIN started}
    <3>1. PICK st \in DOMAIN started : h = Hook("online", started[st], st)
      BY <2>1
    <3>2. /\ h.type = "online" /\ h.s = started[st] /\ h.live = TRUE /\ h.stream = st
          /\ h = [type |-> "online", s |-> started[st], live |-> TRUE, stream |-> st]
      BY <3>1 DEF Hook
    <3>3. started[st] \in Streamers /\ st \in Nat
      BY <1>2
    <3>4. h \in Hooks
      BY <3>2, <3>3 DEF Hooks, HookTypes
    <3> QED BY <3>2, <3>3, <3>4 DEF GotSound, Owned, Facts
  <2>2. CASE h \in {Hook("offline", s, 0) : s \in {s \in Streamers : \E st \in DOMAIN started :
                       started[st] = s /\ (~twitch[s].live \/ st < twitch[s].stream)}}
    <3>1. PICK s \in Streamers : h = Hook("offline", s, 0)
      BY <2>2
    <3>2. /\ h.type = "offline" /\ h.s = s /\ h.live = FALSE /\ h.stream = 0
          /\ h = [type |-> "offline", s |-> s, live |-> FALSE, stream |-> 0]
      BY <3>1 DEF Hook
    <3>3. h \in Hooks
      BY <3>2 DEF Hooks, HookTypes
    <3> QED BY <3>2, <3>3 DEF GotSound
  <2>3. CASE h \in {Hook("update", s, 0) : s \in Streamers}
    <3>1. PICK s \in Streamers : h = Hook("update", s, 0)
      BY <2>3
    <3>2. /\ h.type = "update" /\ h.s = s /\ h.live = FALSE /\ h.stream = 0
          /\ h = [type |-> "update", s |-> s, live |-> FALSE, stream |-> 0]
      BY <3>1 DEF Hook
    <3>3. h \in Hooks
      BY <3>2 DEF Hooks, HookTypes
    <3> QED BY <3>2, <3>3 DEF GotSound
  <2> QED BY <1>1, <2>1, <2>2, <2>3 DEF Sent
<1>4. GotSound(h, h.s, Facts')
  BY <1>3, CalmFacts, GotLater
<1> QED BY <1>1, <1>3, <1>4, QueueGrows

\* A revocation arrives, or none.
LEMMA RevokeKeeps ==
  ASSUME Calm, NEW s \in Streamers, Revoke(s)
  PROVE  QueueInv'
<1> DEFINE h == Hook("revocation", NoStreamer, 0)
<1>1. h \in Hooks /\ GotSound(h, h.s, Facts')
  BY DEF Hook, Hooks, HookTypes, GotSound
<1>2. Enqueue(h) \/ queue' = queue
  BY DEF Revoke
<1> HIDE DEF h
<1> QED BY <1>1, <1>2, QueueGrows, QueueShrinks

\* The jobs of a process that starts.
LEMMA StartingSound ==
  ASSUME NEW w
  PROVE  DOMAIN Starting = Job /\ \A p \in Job : JobSound(Starting[p], w)
<1>1. \A pc \in {"start", "ended"} : JobSound([Idle EXCEPT !.pc = pc], w)
  BY DEF JobSound, Batch, WritesSound, AnswersSound, UpdateSound, Idle, JobFields, Updating, Writing
<1> QED BY <1>1, IdleSound DEF Starting

\* The process ends, and starts anew.
LEMMA RestartKeeps ==
  ASSUME Calm, Restart
  PROVE  JobsInv' /\ QueueInv' /\ UNCHANGED tables
<1>1. JobsInv'
  BY StartingSound DEF Restart, JobsInv
<1> QED BY <1>1, QueueShrinks DEF Restart

\* The monitor ends.
LEMMA EndedSound ==
  ASSUME NEW w, NEW j, JobSound(j, w)
  PROVE  JobSound([j EXCEPT !.pc = "ended"], w)
<1> DEFINE k == [j EXCEPT !.pc = "ended"]
<1>1. /\ DOMAIN k = JobFields /\ k.wrap = j.wrap /\ k.who = j.who /\ k.rows = j.rows
      /\ k.pasts = j.pasts /\ k.answers = j.answers /\ k.pc = "ended"
  BY DEF JobSound, Batch, JobFields
<1>2. Batch(k, w)
  BY <1>1 DEF JobSound, Batch, WritesSound, AnswersSound
<1>3. UpdateSound(k, w)
  BY <1>1 DEF UpdateSound, Writing, Updating
<1> QED BY <1>2, <1>3 DEF JobSound

\* A job fails.
LEMMA FailKeeps ==
  ASSUME Calm, NEW p \in Job, Fail(p)
  PROVE  JobsInv' /\ QueueInv' /\ UNCHANGED tables
<1>0. JobSound(job[p], Facts')
  BY CalmFacts
<1>1. CASE Restart
  BY <1>1, RestartKeeps
<1>2. CASE GiveUp(p)
  BY <1>2, GiveUpKeeps, QueueShrinks DEF GiveUp, inputs
<1>3. CASE (Become(p, Idle) \/ Goto(p, "ended")) /\ UNCHANGED <<inputs, tables>>
  BY <1>0, <1>3, IdleSound, EndedSound, JobBecomes, QueueShrinks DEF Goto, inputs
<1> QED BY <1>1, <1>2, <1>3 DEF Fail

\* Any step of a job.
LEMMA JobStepKeeps ==
  ASSUME Calm, NEW p \in Job, JobStep(p)
  PROVE  RowsInv' /\ PastsInv' /\ JobsInv' /\ QueueInv'
<1>1. QueueInv'
  <2>1. queue' = queue
    BY DEF JobStep, ReadSubscriptions, SyncSubscriptions, BeginSync, CommitSync, FetchLatest,
           FindLatest, SaveLatest, FetchHistory, UpsertHistory, Collide, EndDeadlock, GiveUp, inputs
  <2> QED BY <2>1, QueueShrinks
<1>2. CASE ReadSubscriptions(p)
  BY <1>1, <1>2, ReadSubscriptionsKeeps, RowsStay, PastsStay DEF ReadSubscriptions, tables
<1>3. CASE SyncSubscriptions(p)
  BY <1>1, <1>3, SyncSubscriptionsKeeps, RowsStay, PastsStay DEF SyncSubscriptions, tables
<1>4. CASE BeginSync(p)
  BY <1>1, <1>4, BeginSyncKeeps, RowsStay, PastsStay DEF BeginSync, tables
<1>5. CASE CommitSync(p)
  BY <1>1, <1>5, CommitSyncKeeps
<1>6. CASE FetchLatest(p)
  BY <1>1, <1>6, FetchLatestKeeps, PastsStay DEF FetchLatest
<1>7. CASE FindLatest(p) \/ SaveLatest(p)
  BY <1>1, <1>7, SaveKeeps, PastsStay DEF FindLatest, SaveLatest
<1>8. CASE FetchHistory(p)
  BY <1>1, <1>8, FetchHistoryKeeps, RowsStay, PastsStay DEF FetchHistory, tables
<1>9. CASE UpsertHistory(p)
  BY <1>1, <1>9, UpsertHistoryKeeps, RowsStay DEF UpsertHistory
<1>10. CASE GiveUp(p)
  BY <1>1, <1>10, GiveUpKeeps, RowsStay, PastsStay DEF tables
<1> QED BY <1>2, <1>3, <1>4, <1>5, <1>6, <1>7, <1>8, <1>9, <1>10
        DEF JobStep, Collide, EndDeadlock
-----------------------------------------------------------------------------
\* Steps change Twitch only as WorldMoves says, and disturb streams.
LEMMA StepMovesWorld ==
  ASSUME MonitorInv, [MonitorNext]_monitorVars
  PROVE  WorldMoves
<1>0. limit.streamers \subseteq Streamers
  BY MonitorAssumption DEF MonitorInv, WorldInv
<1>1. CASE UNCHANGED monitorVars
  BY <1>1 DEF monitorVars, world, WorldMoves
<1>2. CASE TwitchStep
  BY <1>0, <1>2 DEF TwitchStep, WorldMoves
<1>3. CASE LoopStep
  BY <1>3 DEF LoopStep, world, WorldMoves
<1>4. CASE \E p \in Job : JobStep(p)
  <2>1. UNCHANGED <<twitch, api, started>> /\ disturbed \subseteq disturbed' /\ limit' = limit
    BY <1>4 DEF JobStep, ReadSubscriptions, SyncSubscriptions, BeginSync, CommitSync, FetchLatest,
           FindLatest, SaveLatest, FetchHistory, UpsertHistory, Collide, EndDeadlock, GiveUp, world,
           Disturb
  <2> QED BY <2>1 DEF WorldMoves
<1>5. CASE TimeStep
  BY <1>5 DEF TimeStep, HooksAge, world, WorldMoves
<1>6. CASE EventStep
  <2>1. UNCHANGED <<twitch, api, started>> /\ disturbed \subseteq disturbed' /\ limit' = limit
    BY <1>6 DEF EventStep, Receive, Revoke, Restart, Fail, GiveUp, world, Disturb
  <2> QED BY <2>1 DEF WorldMoves
<1> QED BY <1>1, <1>2, <1>3, <1>4, <1>5, <1>6 DEF MonitorNext

\* The invariant holds after any step.
LEMMA MonitorStepKeeps ==
  MonitorInv /\ [MonitorNext]_monitorVars => MonitorInv'
<1> SUFFICES ASSUME MonitorInv, [MonitorNext]_monitorVars PROVE MonitorInv'
  OBVIOUS
<1>0. Calm /\ WorldInv' /\ limit.streamers \subseteq Streamers
  BY StepMovesWorld, CalmFacts, MonitorAssumption DEF Calm, MonitorInv, WorldInv
<1>1. CASE UNCHANGED monitorVars \/ TwitchStep
  <2>1. UNCHANGED <<forms, inputs, tables, job>>
    BY <1>1 DEF monitorVars, TwitchStep
  <2> QED BY <1>0, <2>1, FormsStay, RowsStay, PastsStay, JobsStay, QueueShrinks
          DEF MonitorInv, inputs, tables
<1>2. CASE LoopStep
  <2>1. UNCHANGED <<forms, tables>>
    BY <1>2 DEF LoopStep
  <2> QED BY <1>0, <1>2, <2>1, LoopKeeps, FormsStay, RowsStay, PastsStay DEF MonitorInv, tables
<1>3. CASE \E p \in Job : JobStep(p)
  <2>1. UNCHANGED forms
    BY <1>3 DEF JobStep
  <2> QED BY <1>0, <1>3, <2>1, JobStepKeeps, FormsStay DEF MonitorInv
<1>4. CASE \E s \in Streamers : HooksAge(s) /\ UNCHANGED forms
  <2>1. past' = past /\ queue' = queue
    BY <1>4 DEF HooksAge, inputs
  <2> QED BY <1>0, <1>4, <2>1, HooksAgeKeeps, FormsStay, PastsStay, QueueShrinks DEF MonitorInv
<1>5. CASE CommitLinks /\ UNCHANGED <<world, queue, tables, job, disturbed>>
  <2>1. FormsInv'
    BY <1>5 DEF CommitLinks, MonitorInv, FormsInv
  <2> QED BY <1>0, <1>5, <2>1, RowsStay, PastsStay, JobsStay, QueueShrinks DEF MonitorInv, tables
<1>6. CASE (Receive \/ \E s \in Streamers : Revoke(s)) /\ UNCHANGED <<forms, tables, job>>
  <2>1. QueueInv'
    BY <1>0, <1>6, ReceiveKeeps, RevokeKeeps
  <2> QED BY <1>0, <1>6, <2>1, FormsStay, RowsStay, PastsStay, JobsStay DEF MonitorInv, tables
<1>7. CASE (\E s \in limit.streamers : LinksUpdated(s)) /\ UNCHANGED <<queue, tables, job>>
  <2>1. FormsInv'
    BY <1>0, <1>7 DEF LinksUpdated, MonitorInv, FormsInv
  <2> QED BY <1>0, <1>7, <2>1, RowsStay, PastsStay, JobsStay, QueueShrinks DEF MonitorInv, tables
<1>8. CASE (Restart \/ \E p \in Job : Fail(p)) /\ UNCHANGED forms
  <2>1. JobsInv' /\ QueueInv' /\ UNCHANGED tables
    BY <1>0, <1>8, RestartKeeps, FailKeeps
  <2> QED BY <1>0, <1>8, <2>1, FormsStay, RowsStay, PastsStay DEF MonitorInv, tables
<1> QED BY <1>1, <1>2, <1>3, <1>4, <1>5, <1>6, <1>7, <1>8 DEF MonitorNext, TimeStep, EventStep

\* The invariant holds at first.
LEMMA MonitorInitInv ==
  MonitorInit => MonitorInv
<1> SUFFICES ASSUME MonitorInit PROVE MonitorInv
  OBVIOUS
<1>1. limit \in Limits /\ limit.tracked \subseteq Streamers /\ limit.streams \in Nat
  BY MonitorAssumption DEF MonitorInit
<1>2. started = <<>> /\ \A s \in Streamers : twitch[s] = [live |-> FALSE, stream |-> 0]
  BY DEF MonitorInit
<1>3. WorldInv
  BY <1>1, <1>2 DEF MonitorInit, WorldInv, Statuses
<1>4. RowsInv /\ FormsInv
  BY <1>1 DEF MonitorInit, RowsInv, NoRowOrSound, FormsInv
<1>5. PastsInv
  BY DEF MonitorInit, PastsInv
<1>6. JobsInv
  BY StartingSound DEF MonitorInit, JobsInv
<1>7. QueueInv
  BY DEF MonitorInit, QueueInv
<1> QED BY <1>3, <1>4, <1>5, <1>6, <1>7 DEF MonitorInv

\* It says that what has ended is over.
LEMMA MonitorInvEnds ==
  MonitorInv => EndedIsOver
  BY StartedIsStream DEF MonitorInv, PastsInv, Facts, EndedIsOver
-----------------------------------------------------------------------------
(* The two together *)

\* The specification without its fairness.
LEMMA SpecSteps ==
  TwitchSpec => TwitchInit /\ [][TwitchNext]_<<monitorVars, channelVars>>
  BY DEF TwitchSpec

(***************************************************************************)
(* The channel's messages, the table of histories and the jobs that post   *)
(* are of their types, whatever fails: ids are positive, and what a job    *)
(* has in hand are rows that it has read.                                  *)
(***************************************************************************)
THEOREM ChannelTyped == TwitchSpec => []ChannelTypeOK
<1>1. TwitchInit => ChannelInv
  BY ChannelInitInv DEF TwitchInit
<1>2. ChannelInv /\ [TwitchNext]_<<monitorVars, channelVars>> => ChannelInv'
  BY ChannelStepInv DEF TwitchNext
<1>3. ChannelInv => ChannelTypeOK
  BY DEF ChannelInv
<1> QED BY <1>1, <1>2, <1>3, SpecSteps, PTL

(***************************************************************************)
(* The messages in the channel that no table knows of are at most as many  *)
(* as requests and statements that failed or were cut off could lose, and  *)
(* those that a job alone has in hand, for any number of jobs, streams and *)
(* messages, in whichever order they post, mark, edit, delete, fail and    *)
(* crash (notifyDiscordOfLiveStream).                                      *)
(***************************************************************************)
THEOREM ForgottenAreCounted == TwitchSpec => []ChannelBound
<1>1. TwitchInit => ChannelInv
  BY ChannelInitInv DEF TwitchInit
<1>2. ChannelInv /\ [TwitchNext]_<<monitorVars, channelVars>> => ChannelInv'
  BY ChannelStepInv DEF TwitchNext
<1> QED BY <1>1, <1>2, ChannelInvBounds, SpecSteps, PTL

(***************************************************************************)
(* A history says that a stream ended only if it did, or an update of it   *)
(* was misled, cut off or overwritten, for any streamers, timers, streams  *)
(* and numbers of hooks, in whichever order hooks, timers, synchronisations*)
(* and their statements come, are lost and fail.                           *)
(***************************************************************************)
THEOREM EndedAreOver == TwitchSpec => []EndedIsOver
<1>1. TwitchInit => MonitorInv
  BY MonitorInitInv DEF TwitchInit
<1>2. MonitorInv /\ [TwitchNext]_<<monitorVars, channelVars>> => MonitorInv'
  BY MonitorStepKeeps DEF TwitchNext
<1> QED BY <1>1, <1>2, MonitorInvEnds, SpecSteps, PTL

(***************************************************************************)
(* The status of a streamer names a stream of his own, and one that is not *)
(* live only if it is over or was disturbed: what a hook that is recent,   *)
(* an answer that lags, and a transaction that overlaps others leave in    *)
(* twitch_latest_status.                                                   *)
(***************************************************************************)
THEOREM StatusesAreSound == TwitchSpec => []RowsInv
<1>1. TwitchInit => MonitorInv
  BY MonitorInitInv DEF TwitchInit
<1>2. MonitorInv /\ [TwitchNext]_<<monitorVars, channelVars>> => MonitorInv'
  BY MonitorStepKeeps DEF TwitchNext
<1>3. MonitorInv => RowsInv
  BY DEF MonitorInv
<1> QED BY <1>1, <1>2, <1>3, SpecSteps, PTL
=============================================================================
