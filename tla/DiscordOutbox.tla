---------------------------- MODULE DiscordOutbox ----------------------------
(***************************************************************************)
(* Outgoing Discord messages: SendMessages stores them in the table        *)
(* discord_outgoing_message, the database reader of the bot fetches them,  *)
(* hands them to the sender one by one and deletes them, all in one        *)
(* transaction (src/src/discord/gateway.go).                               *)
(*                                                                         *)
(* A message is its id.  Read Committed: the SELECT and the DELETE each    *)
(* see what is committed when they start.  When the connection ends the    *)
(* context of reader and sender is canceled; whatever they still do has no *)
(* effect on the table or on Discord, and the next instance starts over.   *)
(* Why and when a connection ends is module DiscordGateway.                *)
(***************************************************************************)
EXTENDS Integers, FiniteSets

CONSTANTS
  Messages,   \* number of messages ever sent
  Resets,     \* bound: connections that end, processes that die
  Faults,     \* bound: transactions of the reader that fail on their own
  NoMessage   \* the sender is idle

ASSUME OutboxAssumption ==
  /\ Messages \in Nat /\ Resets \in Nat /\ Faults \in Nat
  /\ NoMessage \notin Nat

Message == 1 .. Messages

VARIABLES
  stage,      \* where each message is: in an open transaction, in the table...
  expired,    \* messages past their expires_at
  notices,    \* messages committed whose sender has not notified the reader yet
  ready,      \* outgoingMessagesReady holds a value
  reader,     \* control state of the database reader
  batch,      \* fetched messages it has not handed over yet
  sending,    \* the message in CreateMessage
  fetched,    \* history: messages returned by a SELECT
  failed,     \* history: messages CreateMessage failed for
  delivered,  \* history: how often each message reached Discord
  resets,     \* history: connections that ended
  faults,     \* history: transactions of the reader that failed on their own
  aborted     \* history: rounds of the reader that did not commit

table == <<stage, expired, notices, ready>>
bot == <<reader, batch, sending>>
history == <<fetched, failed, delivered, resets, faults, aborted>>
outbox == <<table, bot, history>>

Stored == {m \in Message : stage[m] = "stored"}

OutboxTypeOK ==
  /\ stage \in [Message -> {"new", "inTx", "stored", "gone", "dropped"}]
  /\ expired \subseteq Message /\ notices \subseteq Message
  /\ ready \in BOOLEAN
  /\ reader \in {"wait", "loop", "offer", "delete"}
  /\ batch \subseteq fetched
  /\ sending \in Message \cup {NoMessage}
  /\ fetched \subseteq Message /\ failed \subseteq Message
  /\ delivered \in [Message -> Nat]
  /\ resets \in 0 .. Resets /\ faults \in 0 .. Faults /\ aborted \in Nat

OutboxInit ==
  /\ stage = [m \in Message |-> "new"]
  /\ expired = {} /\ notices = {} /\ ready = FALSE
  /\ reader = "wait" /\ batch = {} /\ sending = NoMessage
  /\ fetched = {} /\ failed = {} /\ delivered = [m \in Message |-> 0]
  /\ resets = 0 /\ faults = 0 /\ aborted = 0
-----------------------------------------------------------------------------
(* SendMessages.  Ids are drawn in order, by the INSERT. *)
Drawn(m) == \A n \in Message : n < m => stage[n] # "new"

Store(m) ==
  /\ stage[m] = "new" /\ Drawn(m)
  /\ stage' = [stage EXCEPT ![m] = "stored"]
  /\ notices' = notices \cup {m}
  /\ UNCHANGED <<expired, ready, bot, history>>

Notify(m) ==
  /\ m \in notices
  /\ notices' = notices \ {m}
  /\ ready' = TRUE
  /\ UNCHANGED <<stage, expired, bot, history>>

(* Called with a transaction (SaveMessageContents, handling of tags), its  *)
(* Commit releases a savepoint, and it notifies before the real commit.    *)
StoreInTransaction(m) ==
  /\ stage[m] = "new" /\ Drawn(m)
  /\ stage' = [stage EXCEPT ![m] = "inTx"]
  /\ ready' = TRUE
  /\ UNCHANGED <<expired, notices, bot, history>>

EndTransaction(m) ==
  /\ stage[m] = "inTx"
  /\ \E s \in {"stored", "dropped"} : stage' = [stage EXCEPT ![m] = s]
  /\ UNCHANGED <<expired, notices, ready, bot, history>>

Expire(m) ==
  /\ stage[m] \in {"inTx", "stored"} /\ m \notin expired
  /\ expired' = expired \cup {m}
  /\ UNCHANGED <<stage, notices, ready, bot, history>>
-----------------------------------------------------------------------------
(* The database reader *)

Select ==
  /\ batch' = Stored
  /\ fetched' = fetched \cup Stored
  /\ reader' = "loop"

WakeUp ==
  /\ reader = "wait" /\ ready
  /\ ready' = FALSE
  /\ Select
  /\ UNCHANGED <<stage, expired, notices, sending, failed, delivered, resets,
                 faults, aborted>>

NoPolling == FALSE /\ UNCHANGED outbox  \* mutant: only notifications wake it

(* The ticker, in case the notification mechanism does not work. *)
Poll ==
  /\ reader = "wait"
  /\ Select
  /\ UNCHANGED <<table, sending, failed, delivered, resets, faults, aborted>>

First(m) == m \in batch /\ \A n \in batch : m <= n

NextMessage ==
  /\ reader = "loop"
  /\ \E m \in batch :
       /\ First(m)
       /\ IF m \in expired THEN batch' = batch \ {m} /\ UNCHANGED reader
          ELSE reader' = "offer" /\ UNCHANGED batch
  /\ UNCHANGED <<table, sending, history>>

(* messages <- msg is unbuffered: it waits for the sender's select. *)
HandOver ==
  /\ reader = "offer" /\ sending = NoMessage
  /\ \E m \in batch : First(m) /\ sending' = m /\ batch' = batch \ {m}
  /\ reader' = "loop"
  /\ UNCHANGED <<table, history>>

EndAfterFirst ==              \* mutant: the loop does not go on
  /\ reader = "loop"
  /\ reader' = "delete"
  /\ UNCHANGED <<table, batch, sending, history>>

EndOfBatch ==
  /\ reader = "loop" /\ batch = {}
  /\ reader' = "delete"
  /\ UNCHANGED <<table, batch, sending, history>>

(* DELETE FROM discord_outgoing_message: whatever is committed by now. *)
DeleteAll ==
  [m \in Message |-> IF stage[m] = "stored" THEN "gone" ELSE stage[m]]

CommitDelete ==
  /\ reader = "delete"
  /\ stage' = DeleteAll
  /\ reader' = "wait"
  /\ UNCHANGED <<expired, notices, ready, batch, sending, history>>

TransactionFails ==
  /\ reader = "delete" /\ faults < Faults
  /\ reader' = "wait"
  /\ faults' = faults + 1 /\ aborted' = aborted + 1
  /\ UNCHANGED <<table, batch, sending, fetched, failed, delivered, resets>>
-----------------------------------------------------------------------------
(* The sender: CreateMessage, whose errors are only logged; a message may  *)
(* have been posted in spite of the error.                                 *)
Post(m) == delivered' = [delivered EXCEPT ![m] = @ + 1]

Sent ==
  /\ sending # NoMessage
  /\ Post(sending)
  /\ sending' = NoMessage
  /\ UNCHANGED <<table, reader, batch, fetched, failed, resets, faults,
                 aborted>>

PostFails ==
  /\ sending # NoMessage
  /\ Post(sending) \/ UNCHANGED delivered
  /\ failed' = failed \cup {sending}
  /\ sending' = NoMessage
  /\ UNCHANGED <<table, reader, batch, fetched, resets, faults, aborted>>

(* The connection ends.  A request or a commit under way may have been     *)
(* carried out; the next instance starts with nothing.                     *)
Disconnect ==
  /\ resets < Resets
  /\ resets' = resets + 1
  /\ aborted' = IF reader = "wait" THEN aborted ELSE aborted + 1
  /\ \/ reader = "delete" /\ stage' = DeleteAll
     \/ UNCHANGED stage
  /\ \/ sending # NoMessage /\ Post(sending)
     \/ UNCHANGED delivered
  /\ reader' = "wait" /\ batch' = {} /\ sending' = NoMessage
  /\ UNCHANGED <<expired, notices, ready, fetched, failed, faults>>

(* The process dies: the channel and the open transactions go with it. *)
Crash ==
  /\ resets < Resets
  /\ resets' = resets + 1
  /\ aborted' = IF reader = "wait" THEN aborted ELSE aborted + 1
  /\ stage' = [m \in Message |->
                 IF stage[m] = "inTx" THEN "dropped" ELSE stage[m]]
  /\ \/ sending # NoMessage /\ Post(sending)
     \/ UNCHANGED delivered
  /\ notices' = {} /\ ready' = FALSE
  /\ reader' = "wait" /\ batch' = {} /\ sending' = NoMessage
  /\ UNCHANGED <<expired, fetched, failed, faults>>
-----------------------------------------------------------------------------
ReaderStep ==
  WakeUp \/ Poll \/ NextMessage \/ HandOver \/ EndOfBatch \/ CommitDelete

OutboxNext ==
  \/ \E m \in Message :
       \/ Store(m) \/ Notify(m) \/ StoreInTransaction(m) \/ EndTransaction(m)
       \/ Expire(m)
  \/ ReaderStep \/ TransactionFails
  \/ Sent \/ PostFails
  \/ Disconnect \/ Crash

OutboxSpec == OutboxInit /\ [][OutboxNext]_outbox
-----------------------------------------------------------------------------
(* Properties *)

(* A fetched message is deleted although it neither reached Discord, nor   *)
(* failed, nor expired, nor is on its way. *)
Vanished ==
  {m \in fetched : /\ stage[m] = "gone" /\ m # sending
                   /\ m \notin expired \cup failed
                   /\ delivered[m] = 0}

(* Of the fetched messages, the end of a connection costs at most the one  *)
(* in CreateMessage: messages are deleted only after they were handed over *)
(* (gateway.go:465).                                                       *)
VanishedBound == Cardinality(Vanished) <= resets

(* A message is posted again only after a round that did not commit        *)
(* (gateway.go:481).                                                       *)
DuplicateBound == \A m \in Message : delivered[m] <= 1 + aborted

(* Both: what happens to a message beyond being posted once is paid for by *)
(* a connection that ended or a round that failed.                         *)
DeliveryBound == VanishedBound /\ DuplicateBound
-----------------------------------------------------------------------------
(* Liveness.  Reader and sender run, the ticker ticks; a CreateMessage     *)
(* ends.                                                                   *)
OutboxFairness ==
  /\ WF_outbox(Poll) /\ WF_outbox(NextMessage \/ HandOver \/ EndOfBatch)
  /\ WF_outbox(CommitDelete)
  /\ WF_outbox(Sent \/ PostFails)

OutboxFairSpec == OutboxSpec /\ OutboxFairness

(* A committed message does not stay in the table, though the notification *)
(* may come before the commit, or never (gateway.go:432).                  *)
StoredIsCleared ==
  \A m \in Message : stage[m] = "stored" ~> stage[m] # "stored"
=============================================================================
