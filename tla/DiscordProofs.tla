---------------------------- MODULE DiscordProofs ----------------------------
(***************************************************************************)
(* Proofs about what goes out to Discord: the messages of DiscordOutbox,   *)
(* for any number of messages, of connections that end and of transactions *)
(* that fail, and the calls of RateLimiter, for any number of calls,       *)
(* routes and buckets and any limit.                                       *)
(***************************************************************************)
EXTENDS DiscordOutbox, RateLimiter, FiniteSetTheorems, TLAPS

(***************************************************************************)
(* The outgoing messages.                                                  *)
(*                                                                         *)
(* VanishedBound speaks of deleted messages only; what makes it inductive  *)
(* is where a fetched message is while it is still stored: during a round  *)
(* it is in the batch, on its way or settled (RoundAccounted), so that the *)
(* DELETE loses none, and the end of a connection only the one on its way. *)
(* DuplicateBound counts what reached Discord; the invariant counts the    *)
(* attempts, those to come included, and leaves room for one more whenever *)
(* a message may be fetched again (AttemptsPaid).                          *)
(***************************************************************************)

RoundOK ==
  /\ \A m \in fetched : stage[m] \in {"stored", "gone"}
  /\ \A m \in batch : stage[m] = "stored"
  /\ reader \in {"wait", "delete"} => batch = {}

Settled(m) == m \in expired \cup failed \/ delivered[m] > 0

RoundAccounted ==
  reader # "wait" =>
    \A m \in fetched : stage[m] = "stored" => m \in batch \/ m = sending \/ Settled(m)

(* The attempts to post m, with the one on its way. *)
Attempts(m) == delivered[m] + (IF m = sending THEN 1 ELSE 0)

AttemptsPaid ==
  \A m \in Message :
    /\ m \notin fetched => Attempts(m) = 0
    /\ Attempts(m) + (IF m \in batch THEN 1 ELSE 0) <= 1 + aborted
    /\ reader = "wait" /\ stage[m] # "gone" => Attempts(m) <= aborted

OutboxInv == OutboxTypeOK /\ RoundOK /\ RoundAccounted /\ AttemptsPaid /\ VanishedBound
-----------------------------------------------------------------------------
LEMMA OutboxInitInv == OutboxInit => OutboxInv
<1> SUFFICES ASSUME OutboxInit PROVE OutboxInv
  OBVIOUS
<1> USE OutboxAssumption DEF OutboxInit, Message
<1>1. OutboxTypeOK
  <2>1. /\ stage \in [Message -> {"new"}] /\ delivered \in [Message -> {0}]
        /\ ready = FALSE /\ reader = "wait" /\ sending = NoMessage
        /\ expired = {} /\ notices = {} /\ batch = {} /\ fetched = {} /\ failed = {}
    OBVIOUS
  <2>2. resets \in 0 .. Resets /\ faults \in 0 .. Faults /\ aborted \in Nat
    OBVIOUS
  <2> QED
    BY <2>1, <2>2 DEF OutboxTypeOK
<1>2. RoundOK /\ RoundAccounted /\ AttemptsPaid
  BY DEF RoundOK, RoundAccounted, AttemptsPaid, Attempts
<1>3. Vanished = {}
  BY DEF Vanished
<1>4. VanishedBound
  BY <1>3, FS_EmptySet DEF VanishedBound
<1> QED
  BY <1>1, <1>2, <1>4 DEF OutboxInv

LEMMA VanishedFinite == OutboxTypeOK => IsFiniteSet(Vanished) /\ Cardinality(Vanished) \in Nat
<1> SUFFICES ASSUME OutboxTypeOK PROVE IsFiniteSet(Vanished)
  BY FS_CardinalityType
<1>1. IsFiniteSet(1 .. Messages)
  BY FS_Interval, OutboxAssumption
<1>2. Vanished \in SUBSET (1 .. Messages)
  BY DEF Vanished, OutboxTypeOK, Message
<1> QED
  BY <1>1, <1>2, FS_Subset

(* The bound holds after a step that lets no message vanish. *)
LEMMA NoneVanishes ==
  ASSUME OutboxTypeOK, OutboxTypeOK', VanishedBound, Vanished' \subseteq Vanished, resets' >= resets
  PROVE  VanishedBound'
<1>1. IsFiniteSet(Vanished) /\ Cardinality(Vanished) \in Nat
  BY VanishedFinite
<1>2. Cardinality(Vanished') <= Cardinality(Vanished) /\ Cardinality(Vanished') \in Nat
  BY <1>1, FS_Subset, FS_CardinalityType
<1> QED
  BY <1>1, <1>2 DEF VanishedBound, OutboxTypeOK

(* And after one that lets the message on its way vanish, if it is counted. *)
LEMMA OneVanishes ==
  ASSUME OutboxTypeOK, OutboxTypeOK', VanishedBound, Vanished' \subseteq Vanished \cup {sending},
         resets' = resets + 1
  PROVE  VanishedBound'
<1>1. IsFiniteSet(Vanished) /\ Cardinality(Vanished) \in Nat
  BY VanishedFinite
<1>2. /\ IsFiniteSet(Vanished \cup {sending})
      /\ Cardinality(Vanished \cup {sending}) \in Nat
      /\ Cardinality(Vanished \cup {sending}) <= Cardinality(Vanished) + 1
  <2>1. /\ IsFiniteSet(Vanished \cup {sending})
        /\ \/ Cardinality(Vanished \cup {sending}) = Cardinality(Vanished)
           \/ Cardinality(Vanished \cup {sending}) = Cardinality(Vanished) + 1
    BY <1>1, FS_AddElement
  <2> QED
    BY <1>1, <2>1
<1>3. Cardinality(Vanished') <= Cardinality(Vanished \cup {sending})
        /\ Cardinality(Vanished') \in Nat
  BY <1>2, FS_Subset, FS_CardinalityType
<1> QED
  BY <1>1, <1>2, <1>3 DEF VanishedBound, OutboxTypeOK
-----------------------------------------------------------------------------
(* The parts of the invariant but the bound, for a step that keeps them.   *)
RestInv == OutboxTypeOK /\ RoundOK /\ RoundAccounted /\ AttemptsPaid

LEMMA MessageSteps ==
  ASSUME OutboxInv, NEW m \in Message,
         Store(m) \/ Notify(m) \/ StoreInTransaction(m) \/ EndTransaction(m) \/ Expire(m)
  PROVE  OutboxInv'
<1> USE OutboxAssumption DEF OutboxInv, table, bot, history
<1>1. RestInv'
  <2> USE DEF Store, Notify, StoreInTransaction, EndTransaction, Expire
  <2>1. OutboxTypeOK'
    BY DEF OutboxTypeOK, Message
  <2>2. RoundOK'
    BY DEF RoundOK, OutboxTypeOK
  <2>3. RoundAccounted'
    BY DEF RoundAccounted, RoundOK, Settled, OutboxTypeOK
  <2>4. AttemptsPaid'
    BY DEF AttemptsPaid, Attempts, RoundOK, OutboxTypeOK
  <2> QED
    BY <2>1, <2>2, <2>3, <2>4 DEF RestInv
<1>2. Vanished' \subseteq Vanished /\ resets' = resets
  BY DEF Vanished, OutboxTypeOK, Store, Notify, StoreInTransaction, EndTransaction, Expire
<1>3. resets \in Nat
  BY DEF OutboxTypeOK
<1> QED
  BY <1>1, <1>2, <1>3, NoneVanishes DEF RestInv

LEMMA ReaderSteps ==
  ASSUME OutboxInv, ReaderStep \/ TransactionFails
  PROVE  OutboxInv'
<1> USE OutboxAssumption DEF OutboxInv, table, history
<1>0. resets \in Nat
  BY DEF OutboxTypeOK
<1>1. ASSUME Select, ready' \in BOOLEAN, reader = "wait",
             UNCHANGED <<stage, expired, notices, sending, failed, delivered, resets,
                         faults, aborted>>
      PROVE  OutboxInv'
  <2> USE <1>1 DEF Select, Stored
  <2>1. OutboxTypeOK'
    BY DEF OutboxTypeOK
  <2>2. RoundOK' /\ RoundAccounted'
    BY DEF RoundOK, RoundAccounted, OutboxTypeOK
  <2>3. AttemptsPaid'
    BY DEF AttemptsPaid, Attempts, OutboxTypeOK
  <2>4. Vanished' \subseteq Vanished
    BY DEF Vanished
  <2> QED
    BY <1>0, <2>1, <2>2, <2>3, <2>4, NoneVanishes
<1>2. CASE WakeUp
  BY <1>1, <1>2 DEF WakeUp
<1>3. CASE Poll
  BY <1>1, <1>3 DEF Poll, OutboxTypeOK
<1>4. CASE NextMessage
  <2> PICK m \in batch :
        IF m \in expired THEN batch' = batch \ {m} /\ UNCHANGED reader
        ELSE reader' = "offer" /\ UNCHANGED batch
    BY <1>4 DEF NextMessage
  <2> reader = "loop" /\ UNCHANGED <<table, sending, history>>
    BY <1>4 DEF NextMessage
  <2>1. OutboxTypeOK'
    BY DEF OutboxTypeOK
  <2>2. RoundOK' /\ RoundAccounted'
    BY DEF RoundOK, RoundAccounted, Settled, OutboxTypeOK
  <2>3. AttemptsPaid'
    BY DEF AttemptsPaid, Attempts, OutboxTypeOK
  <2>4. Vanished' \subseteq Vanished
    BY DEF Vanished
  <2> QED
    BY <1>0, <2>1, <2>2, <2>3, <2>4, NoneVanishes
<1>5. CASE HandOver
  <2> PICK m \in batch : sending' = m /\ batch' = batch \ {m}
    BY <1>5 DEF HandOver
  <2> sending = NoMessage /\ reader' = "loop" /\ reader = "offer" /\ UNCHANGED <<table, history>>
    BY <1>5 DEF HandOver
  <2>0. m \in Message /\ NoMessage \notin Message
    BY DEF OutboxTypeOK, Message
  <2>1. OutboxTypeOK'
    BY <2>0 DEF OutboxTypeOK
  <2>2. RoundOK' /\ RoundAccounted'
    BY <2>0 DEF RoundOK, RoundAccounted, Settled, OutboxTypeOK
  <2>3. AttemptsPaid'
    BY <2>0 DEF AttemptsPaid, Attempts, OutboxTypeOK
  <2>4. Vanished' \subseteq Vanished
    BY <2>0 DEF Vanished, OutboxTypeOK
  <2> QED
    BY <1>0, <2>1, <2>2, <2>3, <2>4, NoneVanishes
<1>6. CASE EndOfBatch
  <2> USE <1>6 DEF EndOfBatch
  <2>1. OutboxTypeOK'
    BY DEF OutboxTypeOK
  <2>2. RoundOK' /\ RoundAccounted' /\ AttemptsPaid'
    BY DEF RoundOK, RoundAccounted, AttemptsPaid, Attempts, Settled, OutboxTypeOK
  <2>3. Vanished' \subseteq Vanished
    BY DEF Vanished
  <2> QED
    BY <1>0, <2>1, <2>2, <2>3, NoneVanishes
<1>7. CASE CommitDelete
  <2> USE <1>7 DEF CommitDelete, DeleteAll
  <2>1. OutboxTypeOK'
    BY DEF OutboxTypeOK
  <2>2. RoundOK' /\ RoundAccounted'
    BY DEF RoundOK, RoundAccounted, OutboxTypeOK
  <2>3. AttemptsPaid'
    <3>1. \A m \in Message : stage'[m] # "gone" => m \notin fetched
      BY DEF RoundOK, OutboxTypeOK
    <3> QED
      BY <3>1 DEF AttemptsPaid, Attempts, OutboxTypeOK
  <2>4. Vanished' \subseteq Vanished
    BY DEF Vanished, RoundOK, RoundAccounted, Settled, OutboxTypeOK
  <2> QED
    BY <1>0, <2>1, <2>2, <2>3, <2>4, NoneVanishes
<1>8. CASE TransactionFails
  <2> USE <1>8 DEF TransactionFails
  <2>1. OutboxTypeOK'
    BY DEF OutboxTypeOK
  <2>2. RoundOK' /\ RoundAccounted'
    BY DEF RoundOK, RoundAccounted, OutboxTypeOK
  <2>3. AttemptsPaid'
    BY DEF AttemptsPaid, Attempts, RoundOK, OutboxTypeOK
  <2>4. Vanished' \subseteq Vanished
    BY DEF Vanished
  <2> QED
    BY <1>0, <2>1, <2>2, <2>3, <2>4, NoneVanishes
<1> QED
  BY <1>2, <1>3, <1>4, <1>5, <1>6, <1>7, <1>8 DEF ReaderStep

(* The next instance of the bot starts with nothing.  A DELETE under way   *)
(* may have been committed, and the message on its way may have arrived.   *)
LEMMA EndsOfConnection ==
  ASSUME OutboxInv, Disconnect \/ Crash
  PROVE  OutboxInv'
<1> USE OutboxAssumption DEF OutboxInv
<1>1. /\ resets < Resets /\ resets' = resets + 1
      /\ aborted' = IF reader = "wait" THEN aborted ELSE aborted + 1
      /\ reader' = "wait" /\ batch' = {} /\ sending' = NoMessage
      /\ UNCHANGED <<expired, fetched, failed, faults>>
  BY DEF Disconnect, Crash
<1>2. delivered' = delivered
        \/ (sending # NoMessage /\ delivered' = [delivered EXCEPT ![sending] = @ + 1])
  BY DEF Disconnect, Crash, Post
<1>3. /\ stage' \in [Message -> {"new", "inTx", "stored", "gone", "dropped"}]
      /\ \A m \in Message :
           \/ stage'[m] = stage[m]
           \/ stage[m] = "inTx" /\ stage'[m] = "dropped"
           \/ reader = "delete" /\ stage[m] = "stored" /\ stage'[m] = "gone"
  BY DEF Disconnect, Crash, DeleteAll, OutboxTypeOK
<1>4. notices' \subseteq Message /\ ready' \in BOOLEAN
  BY DEF Disconnect, Crash, OutboxTypeOK
<1>5. sending # NoMessage => sending \in Message
  BY DEF OutboxTypeOK
<1>6. OutboxTypeOK'
  BY <1>1, <1>2, <1>3, <1>4, <1>5 DEF OutboxTypeOK
<1>7. RoundOK' /\ RoundAccounted'
  BY <1>1, <1>3 DEF RoundOK, RoundAccounted, OutboxTypeOK
<1>8. AttemptsPaid'
  <2> SUFFICES ASSUME NEW m \in Message
               PROVE  /\ m \notin fetched => delivered'[m] = 0
                      /\ delivered'[m] <= 1 + aborted'
                      /\ stage'[m] # "gone" => delivered'[m] <= aborted'
    BY <1>1, <1>6, OutboxAssumption DEF AttemptsPaid, Attempts, OutboxTypeOK, Message
  <2>1. delivered'[m] <= Attempts(m) /\ delivered'[m] \in Nat /\ Attempts(m) \in Nat
    BY <1>2, <1>5 DEF Attempts, OutboxTypeOK
  <2>2. /\ m \notin fetched => Attempts(m) = 0
        /\ Attempts(m) <= 1 + aborted
        /\ reader = "wait" /\ stage[m] # "gone" => Attempts(m) <= aborted
    BY <2>1 DEF AttemptsPaid, OutboxTypeOK
  <2>3. reader = "wait" /\ stage'[m] # "gone" => stage[m] # "gone"
    BY <1>3
  <2> QED
    BY <1>1, <2>1, <2>2, <2>3 DEF OutboxTypeOK
<1>9. Vanished' \subseteq Vanished \cup {sending}
  <2> SUFFICES ASSUME NEW m \in Vanished', m # sending PROVE m \in Vanished
    OBVIOUS
  <2>1. /\ m \in fetched /\ stage'[m] = "gone" /\ m \notin expired \cup failed
        /\ delivered'[m] = 0
    BY <1>1 DEF Vanished
  <2>2. m \in Message
    BY <2>1 DEF OutboxTypeOK
  <2>3. delivered[m] = 0
    BY <1>2, <1>5, <2>1, <2>2 DEF OutboxTypeOK
  <2>4. stage[m] = "gone" \/ (reader = "delete" /\ stage[m] = "stored")
    BY <1>3, <2>1, <2>2
  <2>5. ~(reader = "delete" /\ stage[m] = "stored")
    BY <2>1, <2>3 DEF RoundAccounted, RoundOK, Settled
  <2> QED
    BY <2>1, <2>3, <2>4, <2>5 DEF Vanished
<1> QED
  BY <1>1, <1>6, <1>7, <1>8, <1>9, OneVanishes

LEMMA SenderSteps ==
  ASSUME OutboxInv, Sent \/ PostFails
  PROVE  OutboxInv'
<1> USE OutboxAssumption DEF OutboxInv, table
<1>1. /\ sending # NoMessage /\ sending' = NoMessage
      /\ \/ delivered' = [delivered EXCEPT ![sending] = @ + 1] /\ failed' = failed
         \/ delivered' = [delivered EXCEPT ![sending] = @ + 1] /\ failed' = failed \cup {sending}
         \/ delivered' = delivered /\ failed' = failed \cup {sending}
      /\ UNCHANGED <<table, reader, batch, fetched, resets, faults, aborted>>
  BY DEF Sent, PostFails, Post
<1>2. sending \in Message /\ NoMessage \notin Message
  BY <1>1 DEF OutboxTypeOK, Message
<1>3. OutboxTypeOK'
  BY <1>1, <1>2 DEF OutboxTypeOK
<1>4. RoundOK' /\ RoundAccounted'
  BY <1>1, <1>2 DEF RoundOK, RoundAccounted, Settled, OutboxTypeOK
<1>5. AttemptsPaid'
  BY <1>1, <1>2 DEF AttemptsPaid, Attempts, OutboxTypeOK
<1>6. Vanished' \subseteq Vanished
  BY <1>1, <1>2 DEF Vanished, OutboxTypeOK
<1>7. resets' = resets /\ resets \in Nat
  BY <1>1 DEF OutboxTypeOK
<1> QED
  BY <1>3, <1>4, <1>5, <1>6, <1>7, NoneVanishes

LEMMA OutboxStepInv == OutboxInv /\ [OutboxNext]_outbox => OutboxInv'
<1> SUFFICES ASSUME OutboxInv, [OutboxNext]_outbox PROVE OutboxInv'
  OBVIOUS
<1>1. CASE \E m \in Message : Store(m) \/ Notify(m) \/ StoreInTransaction(m)
                                \/ EndTransaction(m) \/ Expire(m)
  BY <1>1, MessageSteps
<1>2. CASE ReaderStep \/ TransactionFails
  BY <1>2, ReaderSteps
<1>3. CASE Sent \/ PostFails
  BY <1>3, SenderSteps
<1>4. CASE Disconnect \/ Crash
  BY <1>4, EndsOfConnection
<1>5. CASE UNCHANGED outbox
  BY <1>5 DEF outbox, table, bot, history, OutboxInv, OutboxTypeOK, RoundOK, RoundAccounted, Settled,
              AttemptsPaid, Attempts, VanishedBound, Vanished
<1> QED
  BY <1>1, <1>2, <1>3, <1>4, <1>5 DEF OutboxNext
-----------------------------------------------------------------------------
(***************************************************************************)
(* The types of the table, the bot and the histories.                      *)
(***************************************************************************)
THEOREM OutboxTyped == OutboxSpec => []OutboxTypeOK
<1>1. OutboxInv => OutboxTypeOK
  BY DEF OutboxInv
<1> QED
  BY OutboxInitInv, OutboxStepInv, <1>1, PTL DEF OutboxSpec

(***************************************************************************)
(* Every end of a connection or of the process costs at most one fetched   *)
(* message, the one in CreateMessage, and a message is posted again only   *)
(* after a round of the reader that did not commit (doSender).             *)
(***************************************************************************)
THEOREM DeliveryIsBounded == OutboxSpec => []DeliveryBound
<1>1. OutboxInv => DuplicateBound
  BY DEF OutboxInv, AttemptsPaid, Attempts, DuplicateBound, OutboxTypeOK
<1>2. OutboxInv => DeliveryBound
  BY <1>1 DEF OutboxInv, DeliveryBound
<1> QED
  BY OutboxInitInv, OutboxStepInv, <1>2, PTL DEF OutboxSpec

-----------------------------------------------------------------------------
(***************************************************************************)
(* The rate limiter: its types, that every granted token is accounted for, *)
(* and that a bucket runs dry only after losing a whole filling.           *)
(*                                                                         *)
(* The heart of the inductive invariant is the equation of TokensAccounted *)
(* itself.  What it needs beside it is that a call with a fresh token is   *)
(* waiting for its response and that the refiller of its bucket is not     *)
(* asleep (CallsOK): then Wake finds no holder, and a call that ends finds *)
(* the token it loses among those granted.                                 *)
(***************************************************************************)

Call == [at : {"idle", "loop", "take", "send", "create", "tell"}, route : Route,
         bucket : Bucket \cup {NoBucket}, told : Bucket \cup {NoBucket},
         refused : BOOLEAN, fresh : BOOLEAN]

CallOK(w) ==
  /\ w \in Call
  /\ w.fresh => w.at = "send" /\ w.bucket \in Bucket
                /\ refiller[w.bucket] \in {"filling", "listening"}
  /\ w.at = "take" => w.bucket \in Bucket
  /\ w.bucket \in Bucket => refiller[w.bucket] # "none"
  /\ w.at = "tell" => w.told \in Bucket

CallsOK == \A r \in Request : CallOK(req[r])

LimitersOK ==
  /\ \A rt \in Route : buckets[rt] \in Bucket => refiller[buckets[rt]] # "none"
  /\ \A b \in Bucket : refiller[b] = "none" => lost[b] = 0
  /\ \A b \in Bucket : refiller[b] = "listening" =>
       granted[b] = Limit \/ \E r \in Request : req[r].at = "tell" /\ req[r].told = b

LimiterInv == TypeOK /\ CallsOK /\ LimitersOK /\ TokensAccounted
-----------------------------------------------------------------------------
LEMMA LimiterInit == Init => LimiterInv
<1> SUFFICES ASSUME Init PROVE LimiterInv
  OBVIOUS
<1> USE RateLimiterAssumption DEF Init
<1>1. PICK rt \in Route : req = [r \in Request |-> Idle(rt)]
  OBVIOUS
<1>2. Idle(rt) \in Call
  BY DEF Idle, Call
<1>3. TypeOK
  BY <1>1, <1>2 DEF TypeOK, Call
<1>4. CallsOK
  BY <1>1, <1>2 DEF CallsOK, CallOK, Idle
<1>5. LimitersOK /\ TokensAccounted
  BY DEF LimitersOK, TokensAccounted
<1> QED
  BY <1>3, <1>4, <1>5 DEF LimiterInv

(* What is left of a call after its response or its failure. *)
LEMMA Leftovers ==
  ASSUME NEW w \in Call, NEW refused \in BOOLEAN
  PROVE  /\ AfterResponse(w, refused) \in Call
         /\ ~AfterResponse(w, refused).fresh
         /\ AfterResponse(w, refused).at \in {"idle", "loop"}
         /\ AfterResponse(w, refused).bucket \in {w.bucket, NoBucket}
BY DEF AfterResponse, Idle, Call

LEMMA HoldersFinite == \A b : IsFiniteSet(Holders(b))
<1> TAKE b
<1> QED
  BY RateLimiterAssumption, FS_Subset DEF Holders

LEMMA HoldersCount == \A b : Cardinality(Holders(b)) \in Nat
BY HoldersFinite, FS_CardinalityType

(* A bucket whose holders, tokens and counts stay, stays accounted for. *)
LEMMA Untouched ==
  ASSUME TokensAccounted, NEW b \in Bucket,
         Holders(b)' = Holders(b),
         refiller'[b] = refiller[b] \/ refiller'[b] \in {"none", "asleep"},
         tokens'[b] = tokens[b], lost'[b] = lost[b], granted'[b] = granted[b]
  PROVE  refiller'[b] \in {"filling", "listening"} =>
           tokens'[b] + Cardinality(Holders(b)') + lost'[b] = granted'[b]
BY DEF TokensAccounted

(* A call that ends without news turns its token from held to lost. *)
LEMMA Loses ==
  ASSUME LimiterInv, NEW r \in Request, NEW w \in Call, req[r].at = "send",
         req' = [req EXCEPT ![r] = w], ~w.fresh,
         LoseToken(r), UNCHANGED <<tokens, refiller, granted>>
  PROVE  /\ lost' \in [Bucket -> 0 .. Limit]
         /\ TokensAccounted'
         /\ \A b \in Bucket : refiller[b] = "none" => lost'[b] = lost[b]
<1> USE RateLimiterAssumption DEF LimiterInv
<1>t. req[r] \in Call /\ CallOK(req[r]) /\ lost \in [Bucket -> 0 .. Limit]
  BY DEF CallsOK, TypeOK, CallOK
<1>1. CASE req[r].fresh
  <2>0. PICK c \in Bucket : c = req[r].bucket
    BY <1>1, <1>t DEF CallOK
  <2>1. refiller[c] \in {"filling", "listening"}
    BY <1>1, <1>t, <2>0 DEF CallOK
  <2>2. lost' = [lost EXCEPT ![c] = @ + 1]
    BY <1>1, <2>0 DEF LoseToken
  <2>3. r \in Holders(c) /\ Holders(c)' = Holders(c) \ {r}
    BY <1>1, <2>0 DEF Holders, TypeOK, Call
  <2>4. Cardinality(Holders(c)') = Cardinality(Holders(c)) - 1
    BY <2>3, HoldersFinite, FS_RemoveElement
  <2>5. tokens[c] + Cardinality(Holders(c)) + lost[c] = granted[c]
    BY <2>1 DEF TokensAccounted
  <2>6. Cardinality(Holders(c)) \in Nat /\ Cardinality(Holders(c)') \in Nat
    BY HoldersCount, <2>3, HoldersFinite, FS_RemoveElement, FS_CardinalityType
  <2>7. lost[c] + 1 \in 0 .. Limit
    BY <2>1, <2>4, <2>5, <2>6 DEF TypeOK
  <2>8. \A b \in Bucket : b # c => Holders(b)' = Holders(b)
    BY <2>0 DEF Holders, TypeOK
  <2>9. \A b \in Bucket : b # c => lost'[b] = lost[b]
    BY <2>2, <1>t
  <2>10. lost'[c] = lost[c] + 1
    BY <2>2, <2>1, <1>t
  <2>11. ASSUME NEW b \in Bucket, refiller'[b] \in {"filling", "listening"}
         PROVE  tokens'[b] + Cardinality(Holders(b)') + lost'[b] = granted'[b]
    <3>1. CASE b = c
      BY <3>1, <2>1, <2>4, <2>5, <2>6, <2>10 DEF TypeOK
    <3>2. CASE b # c
      BY <3>2, <2>8, <2>9, <2>11, Untouched
    <3> QED
      BY <3>1, <3>2
  <2>12. TokensAccounted'
    BY <2>11 DEF TokensAccounted
  <2> QED
    BY <2>1, <2>2, <2>7, <2>9, <2>12, <1>t
<1>2. CASE ~req[r].fresh
  <2>1. lost' = lost
    BY <1>2 DEF LoseToken
  <2>2. \A b \in Bucket : Holders(b)' = Holders(b)
    BY <1>2 DEF Holders, TypeOK
  <2> QED
    BY <1>t, <2>1, <2>2 DEF TokensAccounted
<1> QED
  BY <1>1, <1>2

(* A step of one call that neither takes nor loses a token. *)
LEMMA Moves ==
  ASSUME LimiterInv, NEW r \in Request, NEW w, CallOK(w),
         req[r].at = "tell" => w.at = "tell" /\ w.told = req[r].told,
         ~req[r].fresh, ~w.fresh, req' = [req EXCEPT ![r] = w],
         UNCHANGED limiters,
         buckets' \in [Route -> Bucket \cup {NoBucket}],
         \A rt \in Route : buckets'[rt] \in Bucket => refiller[buckets'[rt]] # "none"
  PROVE  LimiterInv'
<1> USE DEF LimiterInv, limiters
<1>1. TypeOK'
  BY DEF TypeOK, CallOK, Call
<1>2. CallsOK'
  BY DEF CallsOK, CallOK, TypeOK
<1>3. LimitersOK'
  <2>1. ASSUME NEW b \in Bucket, NEW q \in Request, req[q].at = "tell", req[q].told = b
        PROVE  req'[q].at = "tell" /\ req'[q].told = b
    BY <2>1 DEF TypeOK
  <2> QED
    BY <2>1 DEF LimitersOK
<1>4. \A b \in Bucket : Holders(b)' = Holders(b)
  BY DEF Holders, TypeOK, CallOK, Call
<1>5. TokensAccounted'
  BY <1>4 DEF TokensAccounted
<1> QED
  BY <1>1, <1>2, <1>3, <1>5

(* A call that ends without news leaves everything else alone. *)
LEMMA Ending ==
  ASSUME LimiterInv, NEW r \in Request, NEW w, CallOK(w),
         req[r].at = "send", ~w.fresh, w.at # "tell", LoseToken(r),
         req' = [req EXCEPT ![r] = w],
         UNCHANGED <<buckets, tokens, refiller, granted>>
  PROVE  LimiterInv'
<1> USE DEF LimiterInv
<1>1. /\ lost' \in [Bucket -> 0 .. Limit]
      /\ TokensAccounted'
      /\ \A b \in Bucket : refiller[b] = "none" => lost'[b] = lost[b]
  BY Loses DEF CallOK
<1>2. TypeOK'
  BY <1>1 DEF TypeOK, CallOK, Call
<1>3. CallsOK'
  BY DEF CallsOK, CallOK, TypeOK
<1>4. LimitersOK'
  <2>1. ASSUME NEW b \in Bucket, NEW q \in Request, req[q].at = "tell", req[q].told = b
        PROVE  req'[q].at = "tell" /\ req'[q].told = b
    BY <2>1 DEF TypeOK
  <2> QED
    BY <1>1, <2>1 DEF LimitersOK
<1> QED
  BY <1>1, <1>2, <1>3, <1>4

(* A call whose news put the refiller to sleep. *)
LEMMA Sleeps ==
  ASSUME LimiterInv, NEW r \in Request, NEW b \in Bucket, NEW w, CallOK(w),
         w.at \in {"idle", "loop"}, ~w.fresh,
         req[r].fresh => req[r].bucket = b,
         req[r].at = "tell" => req[r].told = b,
         refiller[b] = "listening",
         refiller' = [refiller EXCEPT ![b] = "asleep"],
         req' = Outdate(b, [req EXCEPT ![r] = w]),
         UNCHANGED <<buckets, tokens, granted, lost>>
  PROVE  LimiterInv'
<1> USE DEF LimiterInv
<1>1. \A q \in Request :
        /\ req'[q] \in Call
        /\ req'[q].fresh => req'[q] = req[q] /\ req[q].bucket # b
        /\ q # r => /\ req'[q].at = req[q].at /\ req'[q].told = req[q].told
                    /\ req'[q].bucket = req[q].bucket
                    /\ req[q].bucket # b => req'[q] = req[q]
        /\ q = r => req'[q].at = w.at /\ req'[q].bucket = w.bucket /\ ~req'[q].fresh
  BY DEF Outdate, TypeOK, Call, CallOK
<1>s. \A c \in Bucket : /\ refiller'[c] = IF c = b THEN "asleep" ELSE refiller[c]
                        /\ refiller[c] # "none" => refiller'[c] # "none"
  BY DEF TypeOK
<1>2. TypeOK'
  <2>1. req' \in [Request -> Call]
    BY <1>1 DEF Outdate
  <2> QED
    BY <2>1 DEF TypeOK, Call
<1>3. CallsOK'
  <2> SUFFICES ASSUME NEW q \in Request PROVE CallOK(req[q])'
    BY DEF CallsOK
  <2>1. CallOK(req[q])
    BY DEF CallsOK
  <2>2. CASE q = r
    <3>1. req'[q].bucket \in Bucket => refiller'[req'[q].bucket] # "none"
      BY <1>1, <1>s, <2>2 DEF CallOK
    <3> QED
      BY <1>1, <2>2, <3>1 DEF CallOK
  <2>3. CASE q # r
    <3>1. req'[q].bucket \in Bucket => refiller'[req'[q].bucket] # "none"
      BY <1>1, <1>s, <2>1, <2>3 DEF CallOK
    <3>2. req'[q].fresh => /\ req'[q].at = "send" /\ req'[q].bucket \in Bucket
                           /\ refiller'[req'[q].bucket] \in {"filling", "listening"}
      <4> SUFFICES ASSUME req'[q].fresh
                   PROVE  /\ req'[q].at = "send" /\ req'[q].bucket \in Bucket
                          /\ refiller'[req'[q].bucket] \in {"filling", "listening"}
        OBVIOUS
      <4>1. req'[q] = req[q] /\ req[q].bucket # b
        BY <1>1
      <4>2. req[q].at = "send" /\ req[q].bucket \in Bucket
            /\ refiller[req[q].bucket] \in {"filling", "listening"}
        BY <4>1, <2>1 DEF CallOK
      <4>3. refiller'[req[q].bucket] = refiller[req[q].bucket]
        BY <1>s, <4>1, <4>2
      <4> QED
        BY <4>1, <4>2, <4>3
    <3> QED
      BY <1>1, <2>1, <2>3, <3>1, <3>2 DEF CallOK
  <2> QED
    BY <2>2, <2>3
<1>4. LimitersOK'
  <2>1. ASSUME NEW c \in Bucket, NEW q \in Request, c # b, req[q].at = "tell", req[q].told = c
        PROVE  req'[q].at = "tell" /\ req'[q].told = c
    BY <2>1, <1>1
  <2>2. \A rt \in Route : buckets'[rt] \in Bucket => refiller'[buckets'[rt]] # "none"
    BY <1>s DEF LimitersOK
  <2>3. \A c \in Bucket : refiller'[c] = "none" => lost'[c] = 0
    BY <1>s DEF LimitersOK
  <2>4. ASSUME NEW c \in Bucket, refiller'[c] = "listening"
        PROVE  granted'[c] = Limit \/ \E q \in Request : req'[q].at = "tell" /\ req'[q].told = c
    <3>1. c # b /\ refiller[c] = "listening"
      BY <1>s, <2>4
    <3> QED
      BY <3>1, <2>1 DEF LimitersOK
  <2> QED
    BY <2>2, <2>3, <2>4 DEF LimitersOK
<1>5. \A c \in Bucket : c # b => Holders(c)' = Holders(c)
  BY <1>1 DEF Holders
<1>6. TokensAccounted'
  BY <1>5, Untouched DEF TokensAccounted, TypeOK
<1> QED
  BY <1>2, <1>3, <1>4, <1>6

-----------------------------------------------------------------------------
LEMMA LimiterNext == LimiterInv /\ [Next]_vars => LimiterInv'
<1> SUFFICES ASSUME LimiterInv, [Next]_vars PROVE LimiterInv'
  OBVIOUS
<1> USE RateLimiterAssumption DEF LimiterInv
<1>c. \A r \in Request : CallOK(req[r])
  BY DEF CallsOK
<1>1. ASSUME NEW r \in Request, NEW rt \in Route, Start(r, rt) PROVE LimiterInv'
  <2> DEFINE w == [Idle(rt) EXCEPT !.at = "loop", !.bucket = buckets[rt]]
  <2>1. CallOK(w) /\ ~w.fresh
    BY DEF CallOK, Call, Idle, TypeOK, LimitersOK
  <2>2. ~req[r].fresh /\ req[r].at # "tell" /\ req' = [req EXCEPT ![r] = w]
    BY <1>1, <1>c DEF Start, CallOK
  <2> HIDE DEF w
  <2> QED
    BY <1>1, <2>1, <2>2, Moves DEF Start, LimitersOK, TypeOK
<1>2. ASSUME NEW r \in Request, Go(r) PROVE LimiterInv'
  <2> DEFINE w == [req[r] EXCEPT !.at = IF req[r].bucket = NoBucket THEN "send" ELSE "take"]
  <2>1. CallOK(w) /\ ~w.fresh
    BY <1>2, <1>c DEF CallOK, Call, Go
  <2>2. ~req[r].fresh /\ req[r].at # "tell" /\ req' = [req EXCEPT ![r] = w]
    BY <1>2, <1>c DEF Go, CallOK, TypeOK
  <2> HIDE DEF w
  <2> QED
    BY <1>2, <2>1, <2>2, Moves DEF Go, LimitersOK, TypeOK
<1>3. ASSUME NEW r \in Request, Interrupt(r) PROVE LimiterInv'
  <2> DEFINE w == Idle(req[r].route)
  <2>1. CallOK(w) /\ ~w.fresh
    BY <1>c DEF CallOK, Call, Idle
  <2>2. ~req[r].fresh /\ req[r].at # "tell" /\ req' = [req EXCEPT ![r] = w]
    BY <1>3, <1>c DEF Interrupt, CallOK
  <2> HIDE DEF w
  <2> QED
    BY <1>3, <2>1, <2>2, Moves DEF Interrupt, LimitersOK, TypeOK
<1>4. ASSUME NEW r \in Request, Take(r) PROVE LimiterInv'
  <2>0. PICK b \in Bucket : b = req[r].bucket
    BY <1>4, <1>c DEF Take, CallOK
  <2> DEFINE w == [req[r] EXCEPT !.at = "send", !.fresh = refiller[b] # "asleep"]
  <2>1. req[r].at = "take" /\ ~req[r].fresh
    BY <1>4, <1>c DEF Take, CallOK
  <2>2. refiller[b] \in {"listening", "asleep", "filling"}
    BY <2>0, <1>c DEF CallOK, TypeOK
  <2>3. CallOK(w)
    BY <2>0, <2>2, <1>c DEF CallOK, Call
  <2>4. req' = [req EXCEPT ![r] = w] /\ tokens' = [tokens EXCEPT ![b] = @ - 1]
        /\ tokens[b] > 0
    BY <1>4, <2>0 DEF Take, TypeOK
  <2>5. w.bucket = b /\ w.at = "send" /\ (w.fresh <=> refiller[b] # "asleep")
    BY <2>0, <1>c DEF CallOK, Call
  <2>6. UNCHANGED <<buckets, refiller, granted, lost>>
    BY <1>4 DEF Take
  <2> HIDE DEF w
  <2>7. TypeOK'
    BY <2>3, <2>4, <2>6 DEF TypeOK, CallOK, Call
  <2>8. CallsOK'
    BY <2>3, <2>4, <2>6 DEF CallsOK, CallOK, TypeOK
  <2>9. LimitersOK'
    <3>1. ASSUME NEW c \in Bucket, NEW q \in Request, req[q].at = "tell", req[q].told = c
          PROVE  req'[q].at = "tell" /\ req'[q].told = c
      BY <3>1, <2>1, <2>4 DEF TypeOK
    <3> QED
      BY <3>1, <2>6 DEF LimitersOK
  <2>10. TokensAccounted'
    <3>1. \A c \in Bucket : c # b => Holders(c)' = Holders(c)
      BY <2>0, <2>4, <2>5 DEF Holders, TypeOK
    <3>2. ASSUME NEW c \in Bucket, refiller'[c] \in {"filling", "listening"}
          PROVE  tokens'[c] + Cardinality(Holders(c)') + lost'[c] = granted'[c]
      <4>1. CASE c # b
        BY <4>1, <3>1, <3>2, <2>4, <2>6, Untouched DEF TypeOK
      <4>2. CASE c = b
        <5>1. r \notin Holders(b) /\ Holders(b)' = Holders(b) \cup {r}
          BY <4>2, <3>2, <2>1, <2>4, <2>5, <2>6 DEF Holders, TypeOK
        <5>2. Cardinality(Holders(b)') = Cardinality(Holders(b)) + 1
          BY <5>1, HoldersFinite, FS_AddElement
        <5>3. tokens[b] + Cardinality(Holders(b)) + lost[b] = granted[b]
          BY <4>2, <3>2, <2>6 DEF TokensAccounted
        <5>4. Cardinality(Holders(b)) \in Nat
          BY HoldersCount
        <5> QED
          BY <4>2, <5>2, <5>3, <5>4, <2>4, <2>6 DEF TypeOK
      <4> QED
        BY <4>1, <4>2
    <3> QED
      BY <3>2 DEF TokensAccounted
  <2> QED
    BY <2>7, <2>8, <2>9, <2>10
<1>5. ASSUME NEW r \in Request, SendFails(r) PROVE LimiterInv'
  <2> DEFINE w == Idle(req[r].route)
  <2>1. CallOK(w) /\ ~w.fresh /\ w.at = "idle"
    BY <1>c DEF CallOK, Call, Idle
  <2>2. req' = [req EXCEPT ![r] = w]
    BY <1>5 DEF SendFails
  <2> HIDE DEF w
  <2> QED
    BY <1>5, <2>1, <2>2, Ending DEF SendFails
<1>a. ASSUME NEW r \in Request, NEW refused \in BOOLEAN
      PROVE  /\ CallOK(AfterResponse(req[r], refused))
             /\ ~AfterResponse(req[r], refused).fresh
             /\ AfterResponse(req[r], refused).at \in {"idle", "loop"}
  BY <1>c, Leftovers DEF CallOK
<1>6. ASSUME NEW r \in Request, NEW refused \in BOOLEAN, RespondGarbled(r, refused)
      PROVE  LimiterInv'
  BY <1>6, <1>a, Ending DEF RespondGarbled
<1>7. ASSUME NEW r \in Request, NEW refused \in BOOLEAN,
             NEW b \in Bucket \cup {NoBucket}, RespondOther(r, b, refused)
      PROVE  LimiterInv'
  <2> DEFINE w == [req[r] EXCEPT !.at = "create", !.told = b, !.refused = refused,
                                 !.fresh = FALSE]
  <2>1. CallOK(w) /\ ~w.fresh /\ w.at = "create"
    BY <1>c DEF CallOK, Call
  <2>2. req' = [req EXCEPT ![r] = w]
    BY <1>7 DEF RespondOther, TypeOK
  <2> HIDE DEF w
  <2> QED
    BY <1>7, <2>1, <2>2, Ending DEF RespondOther
<1>8. ASSUME NEW r \in Request, NEW refused \in BOOLEAN, Respond(r, refused)
      PROVE  LimiterInv'
  <2> DEFINE w == AfterResponse(req[r], refused)
  <2>0. PICK b \in Bucket : b = req[r].bucket
    BY <1>8, <1>c DEF Respond, CallOK, Call
  <2>1. CallOK(w) /\ ~w.fresh /\ w.at \in {"idle", "loop"}
    BY <1>a
  <2>2. req[r].at = "send" /\ UNCHANGED <<buckets, tokens, granted>>
    BY <1>8 DEF Respond
  <2>3. CASE refiller[b] = "listening"
    <3>1. /\ refiller' = [refiller EXCEPT ![b] = "asleep"]
          /\ req' = Outdate(b, [req EXCEPT ![r] = w])
          /\ lost' = lost
      BY <1>8, <2>0, <2>3 DEF Respond, Update
    <3> HIDE DEF w
    <3> QED
      BY <2>0, <2>1, <2>2, <2>3, <3>1, Sleeps
  <2>4. CASE refiller[b] # "listening"
    <3>1. LoseToken(r) /\ req' = [req EXCEPT ![r] = w] /\ refiller' = refiller
      BY <1>8, <2>0, <2>4 DEF Respond, Update
    <3> HIDE DEF w
    <3> QED
      BY <2>1, <2>2, <3>1, Ending
  <2> QED
    BY <2>3, <2>4
<1>9. ASSUME NEW r \in Request, KnownBucket(r) PROVE LimiterInv'
  <2> DEFINE w == AfterResponse(req[r], req[r].refused)
  <2>1. CallOK(w) /\ ~w.fresh
    BY <1>a, <1>c DEF CallOK, Call
  <2>2. ~req[r].fresh /\ req[r].at # "tell" /\ req' = [req EXCEPT ![r] = w]
    BY <1>9, <1>c DEF KnownBucket, CallOK
  <2>3. buckets' \in [Route -> Bucket \cup {NoBucket}]
    BY <1>9, <1>c DEF KnownBucket, CallOK, Call, TypeOK
  <2>4. \A rt \in Route : buckets'[rt] \in Bucket => refiller[buckets'[rt]] # "none"
    BY <1>9 DEF KnownBucket, LimitersOK, TypeOK
  <2> HIDE DEF w
  <2> QED
    BY <1>9, <2>1, <2>2, <2>3, <2>4, Moves DEF KnownBucket
<1>10. ASSUME NEW r \in Request, NEW remaining \in 0 .. Limit - 1, NewLimiter(r, remaining)
       PROVE  LimiterInv'
  <2>0. PICK b \in Bucket : b = req[r].told
    BY <1>10, <1>c DEF NewLimiter, CallOK, Call
  <2>1. /\ req[r].at = "create" /\ ~req[r].fresh /\ refiller[b] = "none"
        /\ buckets' = [buckets EXCEPT ![req[r].route] = b]
        /\ tokens' = [tokens EXCEPT ![b] = remaining]
        /\ granted' = [granted EXCEPT ![b] = remaining]
        /\ refiller' = [refiller EXCEPT ![b] = "listening"]
        /\ req' = [req EXCEPT ![r].at = "tell"] /\ lost' = lost
    BY <1>10, <2>0, <1>c DEF NewLimiter, CallOK
  <2>2. \A q \in Request :
          /\ q # r => req'[q] = req[q]
          /\ req'[q].bucket = req[q].bucket /\ req'[q].told = req[q].told
          /\ req'[q].fresh = req[q].fresh
          /\ req[q].at = "tell" => req'[q].at = "tell"
    BY <2>1 DEF TypeOK
  <2>3. req'[r] = [req[r] EXCEPT !.at = "tell"] /\ req'[r] \in Call /\ req'[r].at = "tell"
    BY <2>1, <1>c DEF TypeOK, CallOK, Call
  <2>4. \A c \in Bucket : refiller'[c] = (IF c = b THEN "listening" ELSE refiller[c])
    BY <2>1 DEF TypeOK
  <2>5. TypeOK'
    BY <2>0, <2>1, <2>3, <1>c DEF TypeOK, CallOK, Call
  <2>6. CallsOK'
    <3> SUFFICES ASSUME NEW q \in Request PROVE CallOK(req[q])'
      BY DEF CallsOK
    <3>1. CASE q = r
      BY <3>1, <2>0, <2>1, <2>3, <2>4, <1>c DEF CallOK, Call
    <3>2. CASE q # r
      <4>1. req'[q] = req[q] /\ CallOK(req[q])
        BY <3>2, <2>2, <1>c
      <4> QED
        BY <4>1, <2>1, <2>4 DEF CallOK
    <3> QED
      BY <3>1, <3>2
  <2>7. LimitersOK'
    BY <2>0, <2>1, <2>2, <2>3, <2>4 DEF LimitersOK, TypeOK
  <2>8. \A c \in Bucket : Holders(c)' = Holders(c)
    BY <2>2 DEF Holders
  <2>9. Holders(b) = {}
    BY <2>1, <1>c DEF Holders, CallOK
  <2>10. TokensAccounted'
    <3>1. ASSUME NEW c \in Bucket, c # b, refiller'[c] \in {"filling", "listening"}
          PROVE  tokens'[c] + Cardinality(Holders(c)') + lost'[c] = granted'[c]
      BY <3>1, <2>1, <2>4, <2>8, Untouched DEF TypeOK
    <3>2. tokens'[b] = remaining /\ granted'[b] = remaining /\ lost'[b] = 0
      BY <2>1 DEF TypeOK, LimitersOK
    <3>3. Cardinality(Holders(b)') = 0
      BY <2>8, <2>9, FS_EmptySet
    <3> QED
      BY <3>1, <3>2, <3>3 DEF TokensAccounted
  <2> QED
    BY <2>5, <2>6, <2>7, <2>10
<1>11. ASSUME NEW r \in Request, TellRefiller(r) PROVE LimiterInv'
  <2> DEFINE w == AfterResponse(req[r], req[r].refused)
  <2>0. PICK b \in Bucket : b = req[r].told
    BY <1>11, <1>c DEF TellRefiller, CallOK
  <2>1. CallOK(w) /\ ~w.fresh /\ w.at \in {"idle", "loop"}
    BY <1>a, <1>c DEF CallOK, Call
  <2>2. ~req[r].fresh
    BY <1>11, <1>c DEF TellRefiller, CallOK
  <2>3. /\ refiller[b] = "listening"
        /\ refiller' = [refiller EXCEPT ![b] = "asleep"]
        /\ req' = Outdate(b, [req EXCEPT ![r] = w])
        /\ UNCHANGED <<buckets, tokens, granted, lost>>
    BY <1>11, <2>0 DEF TellRefiller
  <2> HIDE DEF w
  <2> QED
    BY <2>0, <2>1, <2>2, <2>3, Sleeps
<1>b. ASSUME NEW b \in Bucket, Wake(b) \/ Fill(b) \/ Listen(b) PROVE LimiterInv'
  <2>1. /\ UNCHANGED <<buckets, req>> /\ refiller[b] \in {"asleep", "filling"}
        /\ \A c \in Bucket \ {b} : /\ refiller'[c] = refiller[c] /\ tokens'[c] = tokens[c]
                                  /\ granted'[c] = granted[c] /\ lost'[c] = lost[c]
    BY <1>b DEF Wake, Fill, Listen, TypeOK
  <2>2. \A c \in Bucket : Holders(c)' = Holders(c)
    BY <2>1 DEF Holders
  <2>3. /\ refiller'[b] \in {"filling", "listening"}
        /\ refiller' \in [Bucket -> {"none", "listening", "asleep", "filling"}]
        /\ refiller'[b] = "listening" => granted'[b] = Limit
    BY <1>b DEF Wake, Fill, Listen, TypeOK
  <2>4. CallsOK'
    <3> SUFFICES ASSUME NEW q \in Request PROVE CallOK(req[q])'
      BY DEF CallsOK
    <3> QED
      BY <1>c, <2>1, <2>3 DEF CallOK
  <2>5. LimitersOK'
    BY <2>1, <2>3 DEF LimitersOK
  <2>6. Cardinality(Holders(b)) \in Nat
    BY HoldersCount
  <2>7. /\ tokens'[b] + Cardinality(Holders(b)) + lost'[b] = granted'[b]
        /\ tokens' \in [Bucket -> Nat] /\ granted' \in [Bucket -> 0 .. Limit]
        /\ lost' \in [Bucket -> 0 .. Limit]
    <3>1. CASE Wake(b)
      <4>1. Holders(b) = {}
        BY <3>1, <1>c DEF Wake, Holders, CallOK
      <4>2. Cardinality(Holders(b)) = 0
        BY <4>1, FS_EmptySet
      <4> QED
        BY <3>1, <4>2 DEF Wake, TypeOK
    <3>2. CASE Fill(b)
      <4>1. tokens[b] + Cardinality(Holders(b)) + lost[b] = granted[b]
        BY <3>2 DEF Fill, TokensAccounted
      <4> QED
        BY <3>2, <4>1, <2>6 DEF Fill, TypeOK
    <3>3. CASE Listen(b)
      <4>1. tokens[b] + Cardinality(Holders(b)) + lost[b] = granted[b]
        BY <3>3 DEF Listen, TokensAccounted
      <4> QED
        BY <3>3, <4>1, <2>6 DEF Listen, TypeOK
    <3> QED
      BY <1>b, <3>1, <3>2, <3>3
  <2>8. tokens' \in [Bucket -> 0 .. Limit]
    <3>1. ASSUME NEW c \in Bucket PROVE tokens'[c] \in 0 .. Limit
      <4>1. CASE c = b
        BY <4>1, <2>6, <2>7
      <4>2. CASE c # b
        BY <4>2, <2>1 DEF TypeOK
      <4> QED
        BY <4>1, <4>2
    <3> QED
      BY <3>1, <2>7
  <2>9. TypeOK'
    BY <2>1, <2>3, <2>7, <2>8 DEF TypeOK
  <2>10. TokensAccounted'
    <3>1. ASSUME NEW c \in Bucket, refiller'[c] \in {"filling", "listening"}
          PROVE  tokens'[c] + Cardinality(Holders(c)') + lost'[c] = granted'[c]
      <4>1. CASE c = b
        BY <4>1, <2>2, <2>7
      <4>2. CASE c # b
        BY <4>2, <3>1, <2>1, <2>2, Untouched
      <4> QED
        BY <4>1, <4>2
    <3> QED
      BY <3>1 DEF TokensAccounted
  <2> QED
    BY <2>4, <2>5, <2>9, <2>10
<1>u. CASE UNCHANGED vars
  <2>1. \A c \in Bucket : Holders(c)' = Holders(c)
    BY <1>u DEF Holders, vars
  <2> QED
    BY <1>u, <2>1 DEF vars, TypeOK, CallsOK, CallOK, LimitersOK, TokensAccounted
<1> QED
  BY <1>1, <1>2, <1>3, <1>4, <1>5, <1>6, <1>7, <1>8, <1>9, <1>10, <1>11, <1>b, <1>u
  DEF Next, Ends, Creates

(* The inductive invariant: the types, what holds of each call and of each *)
(* limiter on the way through doWithRateLimiting and createLimiter         *)
(* (ratelimiting.go:107-288), and the account of the tokens.               *)
THEOREM LimiterInvariant == Spec => []LimiterInv
BY LimiterInit, LimiterNext, PTL DEF Spec

(* Every variable keeps its type; in particular the channel never holds    *)
(* more than the limit (ratelimiting.go:159).                              *)
THEOREM LimiterTyped == Spec => []TypeOK
<1>1. LimiterInv => TypeOK
  BY DEF LimiterInv
<1> QED
  BY <1>1, LimiterInvariant, PTL

(* Every token granted is in the channel, held or lost                     *)
(* (ratelimiting.go:159).                                                  *)
THEOREM EveryTokenIsAccounted == Spec => []TokensAccounted
<1>1. LimiterInv => TokensAccounted
  BY DEF LimiterInv
<1> QED
  BY <1>1, LimiterInvariant, PTL

(* A bucket runs dry only after the Limit tokens of a filling were lost    *)
(* (ratelimiting.go:141).                                                  *)
THEOREM DroughtTakesAFilling == Spec => []DroughtNeedsLosses
<1>1. LimiterInv => DroughtNeedsLosses
  <2> SUFFICES ASSUME LimiterInv, NEW b \in Bucket, Drought(b) PROVE lost[b] = Limit
    BY DEF DroughtNeedsLosses
  <2>1. Holders(b) = {}
    BY DEF Drought, Holders, LimiterInv, CallsOK, CallOK
  <2>2. Cardinality(Holders(b)) = 0
    BY <2>1, FS_EmptySet
  <2>3. granted[b] = Limit
    BY DEF Drought, LimiterInv, LimitersOK
  <2> QED
    BY <2>2, <2>3, RateLimiterAssumption DEF Drought, LimiterInv, TokensAccounted, TypeOK
<1> QED
  BY <1>1, LimiterInvariant, PTL
=============================================================================
