--------------------------- MODULE DiscordGateway ---------------------------
(***************************************************************************)
(* The Discord bot's connection to the gateway (src/src/discord/           *)
(* gateway.go): the loop of RunDiscordBot, the goroutine of Run, the       *)
(* sender, the database reader and the goroutine that waits for both, and  *)
(* the session row that lets the next connection resume.                   *)
(*                                                                         *)
(* A connection is numbered by the bot instance that made it; goroutines   *)
(* of an old instance may outlive its Run.  The events of the server are   *)
(* numbered in the order they happen, and a sequence number is modelled by *)
(* the number of the last event it covers.  What the reader does with the  *)
(* rows it fetches is module DiscordOutbox.                                *)
(***************************************************************************)
EXTENDS Integers, Sequences, FiniteSets

CONSTANTS
  Runs,       \* bound: connections attempted
  MaxEvents,  \* bound: events that happen on the server
  NoSession,  \* the table discord_session is empty
  DBFaults,   \* TRUE if a statement may fail on its own
  Crashes     \* TRUE if the web server may be killed and restarted

ASSUME GatewayAssumption ==
  /\ Runs \in Nat \ {0} /\ MaxEvents \in Nat
  /\ NoSession \notin Nat
  /\ DBFaults \in BOOLEAN /\ Crashes \in BOOLEAN

VARIABLES
  job,        \* the job's context: "running" or "canceled"
  run,        \* control state of RunDiscordBot and Run
  cur,        \* the current instance
  inst,       \* the goroutines and the connection of every instance
  saved,      \* discord_session.sequence_number, if there is a row
  handled,    \* history: the events that were processed, in order
  failed,     \* history: the events whose processing failed and was logged
  panicked,   \* history: a goroutine without a recover panicked
  occurred,   \* events that happened on the server
  base,       \* the last event before the session of the row began
  peer,       \* Discord's end of the current connection
  link,       \* what Discord made of Resume or Identify
  pos,        \* the last event Discord sent on the current connection
  owed        \* heartbeats Discord has not acknowledged

local == <<job, run, cur, inst>>
outcome == <<handled, failed>>
stored == <<saved, outcome>>
discord == <<occurred, base, peer, link, pos, owed>>
vars == <<local, stored, panicked, discord>>

NoInstance == [sender |-> "none", reader |-> "none", acked |-> TRUE,
               ticking |-> FALSE, canceled |-> FALSE, ws |-> "none"]

TypeOK ==
  /\ job \in {"running", "canceled"}
  /\ run \in {"top", "connect", "hello", "ready", "receive", "save", "process",
              "beat", "done"}
  /\ cur \in 0 .. Runs
  /\ inst \in [1 .. Runs ->
       [sender : {"none", "select", "beat", "forced", "send", "exited"},
        reader : {"none", "wait", "offer", "delete", "exited"},
        acked : BOOLEAN, ticking : BOOLEAN, canceled : BOOLEAN,
        ws : {"none", "open", "closed"}]]
  /\ saved \in 0 .. MaxEvents \cup {NoSession}
  /\ handled \in Seq(1 .. MaxEvents)
  /\ failed \subseteq 1 .. MaxEvents
  /\ panicked \in BOOLEAN
  /\ occurred \in 0 .. MaxEvents /\ base \in 0 .. MaxEvents
  /\ pos \in 0 .. MaxEvents
  /\ peer \in {"up", "down"} /\ link \in {"none", "live", "refused"}
  /\ owed \in Nat

Init ==
  /\ job = "running" /\ run = "top" /\ cur = 0
  /\ inst = [i \in 1 .. Runs |-> NoInstance]
  /\ saved = NoSession /\ handled = <<>> /\ failed = {} /\ panicked = FALSE
  /\ occurred = 0 /\ base = 0 /\ pos = 0
  /\ peer = "down" /\ link = "none" /\ owed = 0

CanceledByItself(i) == inst[i].canceled   \* mutant: not derived from the job's

Canceled(i) == job = "canceled" \/ inst[i].canceled
Fails(i) == Canceled(i) \/ DBFaults

(* Run returns, by an error, a panic or the end of the connection: the     *)
(* deferred cancel and Close, then the loop of RunDiscordBot.              *)
Return ==
  /\ run' = "top"
  /\ inst' = [inst EXCEPT ![cur].canceled = TRUE, ![cur].ws = "closed"]
  /\ UNCHANGED <<job, cur>>

(* connect fails: the Close is not deferred yet. *)
ConnectFails ==
  /\ run' = "top"
  /\ inst' = [inst EXCEPT ![cur].canceled = TRUE]
  /\ UNCHANGED <<job, cur>>

StartGoroutines ==
  /\ run' = "receive"
  /\ inst' = [inst EXCEPT ![cur].sender = "select", ![cur].reader = "wait"]
  /\ UNCHANGED <<job, cur>>

Continue(pc) == run' = pc /\ UNCHANGED <<job, cur, inst>>
-----------------------------------------------------------------------------
(* RunDiscordBot *)

NewInstance ==
  /\ run = "top" /\ job = "running" /\ cur < Runs
  /\ run' = "connect" /\ cur' = cur + 1
  /\ inst' = [inst EXCEPT ![cur + 1] = NoInstance]
  /\ UNCHANGED <<job, stored, panicked, discord>>

FinishJob ==
  /\ run = "top" /\ job = "canceled"
  /\ Continue("done")
  /\ UNCHANGED <<stored, panicked, discord>>

CancelJob ==
  /\ job = "running"
  /\ job' = "canceled"
  /\ UNCHANGED <<run, cur, inst, stored, panicked, discord>>
-----------------------------------------------------------------------------
(* connect *)

Dial ==
  /\ run = "connect"
  /\ \/ /\ inst' = [inst EXCEPT ![cur].ws = "open"]
        /\ run' = "hello" /\ peer' = "up" /\ link' = "none" /\ owed' = 0
        /\ UNCHANGED <<job, cur>>
     \/ ConnectFails /\ UNCHANGED <<peer, link, owed>>
  /\ UNCHANGED <<stored, panicked, occurred, base, pos>>

(* Hello arrives; the SELECT decides between Resume and Identify.  Discord *)
(* may have dropped the session that we resume.                            *)
SayHello ==
  /\ run = "hello"
  /\ \/ /\ peer = "up" /\ ~Canceled(cur) /\ saved # NoSession
        /\ link' \in {"live", "refused"} /\ pos' = saved
        /\ StartGoroutines
     \/ /\ peer = "up" /\ ~Canceled(cur) /\ saved = NoSession
        /\ Continue("ready")
        /\ UNCHANGED <<link, pos>>
     \/ (peer = "down" \/ Fails(cur)) /\ ConnectFails /\ UNCHANGED <<link, pos>>
  /\ UNCHANGED <<stored, panicked, occurred, base, peer, owed>>

ReadySequence == occurred

(* READY arrives; the row is written.  A canceled or broken INSERT may     *)
(* have taken effect all the same.                                         *)
SaveSession ==
  /\ run = "ready"
  /\ \/ /\ peer = "up"
        /\ saved' = ReadySequence /\ base' = occurred
        /\ pos' = occurred /\ link' = "live"
        /\ \/ StartGoroutines
           \/ Fails(cur) /\ ConnectFails
     \/ /\ peer = "down" \/ Fails(cur)
        /\ ConnectFails
        /\ UNCHANGED <<saved, base, pos, link>>
  /\ UNCHANGED <<outcome, panicked, occurred, peer, owed>>
-----------------------------------------------------------------------------
(* The receive loop of Run *)

Receives == run = "receive" /\ peer = "up" /\ inst[cur].ws = "open"

(* A statement that starts with a canceled context is not sent. *)
ReceiveEvent ==
  /\ Receives /\ link = "live" /\ pos < occurred
  /\ pos' = pos + 1
  /\ IF Canceled(cur) THEN Return ELSE Continue("save")
  /\ UNCHANGED <<stored, panicked, occurred, base, peer, link, owed>>

SaveAfterwards ==              \* mutant: process first, then save the number
  /\ run = "save"
  /\ handled' = Append(handled, pos)
  /\ \/ Continue("receive") /\ saved' = pos
     \/ Fails(cur) /\ Return /\ UNCHANGED saved
  /\ UNCHANGED <<failed, panicked, discord>>

CarryOn ==                     \* mutant: a failed UPDATE is only logged
  /\ run = "save"
  /\ \/ saved' = pos /\ Continue("process")
     \/ Fails(cur) /\ saved' \in {saved, pos} /\ Continue("receive")
  /\ UNCHANGED <<outcome, panicked, discord>>

(* UPDATE discord_session SET sequence_number.  An error ends the          *)
(* connection, whether or not the statement took effect.                   *)
SaveSequence ==
  /\ run = "save"
  /\ \/ saved' = pos /\ Continue("process")
     \/ Fails(cur) /\ saved' \in {saved, pos} /\ Return
  /\ UNCHANGED <<outcome, panicked, discord>>

(* processEventMsg logs what fails in it, a statement or a request, and    *)
(* returns nil: Run goes on with the next event.  It recovers from a panic *)
(* and ends.                                                               *)
ProcessEvent ==
  /\ run = "process"
  /\ \/ /\ handled' = Append(handled, pos)
        /\ Continue("receive") /\ UNCHANGED failed
     \/ /\ failed' = failed \cup {pos}
        /\ Continue("receive") /\ UNCHANGED handled
     \/ Return /\ UNCHANGED outcome
  /\ UNCHANGED <<saved, panicked, discord>>

HeartbeatRequested ==
  /\ Receives
  /\ Continue("beat")
  /\ UNCHANGED <<stored, panicked, discord>>

HeartbeatAck ==
  /\ Receives /\ owed > 0
  /\ owed' = owed - 1
  /\ inst' = [inst EXCEPT ![cur].acked = TRUE]
  /\ UNCHANGED <<job, run, cur, stored, panicked, occurred, base, peer, link,
                 pos>>

ReconnectRequested ==
  /\ Receives
  /\ Return
  /\ UNCHANGED <<stored, panicked, discord>>

InvalidSession ==
  /\ Receives /\ link = "refused"
  /\ \/ saved' = NoSession
     \/ Fails(cur) /\ UNCHANGED saved
  /\ Return
  /\ UNCHANGED <<outcome, panicked, discord>>

OnlyWhenClosed ==              \* mutant: other errors are skipped
  /\ run = "receive" /\ inst[cur].ws = "closed"
  /\ Return
  /\ UNCHANGED <<stored, panicked, discord>>

(* ReadMessage fails: somebody closed the connection here, or it broke. *)
ReceiveFails ==
  /\ run = "receive" /\ (peer = "down" \/ inst[cur].ws = "closed")
  /\ Return
  /\ UNCHANGED <<stored, panicked, discord>>
-----------------------------------------------------------------------------
(* doSender *)

Quit(i) == inst' = [inst EXCEPT ![i].sender = "exited", ![i].canceled = TRUE]

SenderQuits(i) ==
  /\ inst[i].sender = "select" /\ Canceled(i)
  /\ Quit(i)
  /\ UNCHANGED <<job, run, cur, stored, panicked, discord>>

TimerFires(i) ==
  /\ inst[i].sender = "select"
  /\ inst' = [inst EXCEPT ![i].sender = "beat"]
  /\ UNCHANGED <<job, run, cur, stored, panicked, discord>>

(* The unbuffered send on forceHeartbeat meets the sender's select. *)
ForceHeartbeat ==
  /\ run = "beat" /\ inst[cur].sender = "select"
  /\ run' = "receive"
  /\ inst' = [inst EXCEPT ![cur].sender = "forced"]
  /\ UNCHANGED <<job, cur, stored, panicked, discord>>

AckIgnored(i) == TRUE          \* mutant: didAckHeartbeat is not looked at
Acked(i) == inst[i].acked

(* sendHeartbeat from a timer: the ACK of the last one, the sequence       *)
(* number from the database, the write.                                    *)
BeatSucceeds(i) ==
  /\ Acked(i)
  /\ ~Canceled(i) /\ saved # NoSession /\ inst[i].ws = "open"
  /\ owed' = IF i = cur THEN owed + 1 ELSE owed
BeatFails(i) ==
  /\ ~Acked(i) \/ Fails(i) \/ saved = NoSession \/ inst[i].ws = "closed"
  /\ Quit(i) /\ UNCHANGED owed

SendHeartbeat(i) ==
  /\ inst[i].sender = "beat"
  /\ \/ /\ BeatSucceeds(i)
        /\ inst' = [inst EXCEPT ![i].sender = "select", ![i].acked = FALSE,
                                ![i].ticking = TRUE]
     \/ BeatFails(i)
  /\ UNCHANGED <<job, run, cur, stored, panicked, occurred, base, peer, link,
                 pos>>

(* sendHeartbeat on demand, then heartbeatTicker.Reset: before the first   *)
(* beat of the timer there is no ticker to reset, and Reset panics.        *)
SendForcedHeartbeat(i) ==
  /\ inst[i].sender = "forced"
  /\ \/ /\ BeatSucceeds(i) /\ inst[i].ticking
        /\ inst' = [inst EXCEPT ![i].sender = "select", ![i].acked = FALSE]
     \/ BeatFails(i)
  /\ UNCHANGED <<job, run, cur, stored, panicked, occurred, base, peer, link,
                 pos>>

MessageSent(i) ==
  /\ inst[i].sender = "send"
  /\ inst' = [inst EXCEPT ![i].sender = "select"]
  /\ UNCHANGED <<job, run, cur, stored, panicked, discord>>
-----------------------------------------------------------------------------
(* The database reader, and the goroutine that waits for both. *)

NeverQuits(i) == FALSE /\ UNCHANGED vars   \* mutant: no case for ctx.Done()

ReaderQuits(i) ==
  /\ inst[i].reader = "wait" /\ Canceled(i)
  /\ inst' = [inst EXCEPT ![i].reader = "exited", ![i].canceled = TRUE]
  /\ UNCHANGED <<job, run, cur, stored, panicked, discord>>

Fetch(i) ==
  /\ inst[i].reader = "wait" /\ ~Canceled(i)
  /\ \E pc \in {"offer", "delete"} : inst' = [inst EXCEPT ![i].reader = pc]
  /\ UNCHANGED <<job, run, cur, stored, panicked, discord>>

(* The unbuffered send on messages meets the sender's select. *)
HandOver(i) ==
  /\ inst[i].reader = "offer" /\ inst[i].sender = "select"
  /\ \E pc \in {"offer", "delete"} :
       inst' = [inst EXCEPT ![i].reader = pc, ![i].sender = "send"]
  /\ UNCHANGED <<job, run, cur, stored, panicked, discord>>

DeleteSent(i) ==
  /\ inst[i].reader = "delete"
  /\ inst' = [inst EXCEPT ![i].reader = "wait"]
  /\ UNCHANGED <<job, run, cur, stored, panicked, discord>>

CloseConnection(i) ==
  /\ inst[i].sender = "exited" /\ inst[i].reader = "exited"
  /\ inst[i].ws = "open"
  /\ inst' = [inst EXCEPT ![i].ws = "closed"]
  /\ UNCHANGED <<job, run, cur, stored, panicked, discord>>
-----------------------------------------------------------------------------
(* The environment.  A panic in the sender ends the process like a kill;   *)
(* either way it is started again.                                         *)
Restart ==
  /\ job' = "running" /\ run' = "top"
  /\ inst' = [i \in 1 .. Runs |-> NoInstance]
  /\ peer' = "down" /\ link' = "none" /\ owed' = 0
  /\ UNCHANGED <<cur, stored, occurred, base, pos>>

Panic(i) ==
  /\ inst[i].sender = "forced" /\ ~inst[i].ticking
  /\ Acked(i) /\ ~Canceled(i) /\ saved # NoSession /\ inst[i].ws = "open"
  /\ panicked' = TRUE
  /\ Restart

Crash == Crashes /\ Restart /\ UNCHANGED panicked

EventOccurs ==
  /\ occurred < MaxEvents
  /\ occurred' = occurred + 1
  /\ UNCHANGED <<local, stored, panicked, base, peer, link, pos, owed>>

ConnectionBreaks ==
  /\ peer = "up"
  /\ peer' = "down"
  /\ UNCHANGED <<local, stored, panicked, occurred, base, link, pos, owed>>
-----------------------------------------------------------------------------
RunStep ==
  \/ NewInstance \/ FinishJob \/ Dial \/ SayHello \/ SaveSession
  \/ SaveSequence \/ ProcessEvent \/ ForceHeartbeat \/ ReceiveFails

Receive ==
  \/ ReceiveEvent \/ HeartbeatRequested \/ HeartbeatAck
  \/ ReconnectRequested \/ InvalidSession

SenderStep(i) ==
  \/ SenderQuits(i) \/ TimerFires(i) \/ SendHeartbeat(i)
  \/ SendForcedHeartbeat(i) \/ Panic(i) \/ MessageSent(i)

ReaderStep(i) == ReaderQuits(i) \/ Fetch(i) \/ HandOver(i) \/ DeleteSent(i)

Next ==
  \/ RunStep \/ Receive
  \/ \E i \in 1 .. cur : SenderStep(i) \/ ReaderStep(i) \/ CloseConnection(i)
  \/ CancelJob \/ Crash \/ EventOccurs \/ ConnectionBreaks

Spec == Init /\ [][Next]_vars
-----------------------------------------------------------------------------
(* Properties *)

(* No event is processed twice, and none before an earlier one, over any   *)
(* number of reconnects, resumes and restarts (gateway.go:207).            *)
EventsInOrder ==
  \A j, k \in 1 .. Len(handled) : j < k => handled[j] < handled[k]

(* Events of the stored session whose number was saved and that were never *)
(* given to processEventMsg, or not to its end: nothing tells of them.     *)
Lost ==
  IF saved = NoSession THEN {}
  ELSE {e \in base + 1 .. saved :
          /\ \A k \in 1 .. Len(handled) : handled[k] # e
          /\ e \notin failed
          /\ ~(run = "process" /\ pos = e)}

(* The number is saved before the event is processed, so an event may be   *)
(* lost.  A connection skips at most one, however it ends; every other     *)
(* event that had no effect failed in processEventMsg, which logged it     *)
(* (gateway.go:207, 642).                                                  *)
LossBound == Cardinality(Lost) <= cur

(* There is never more than one heartbeat without its ACK (gateway.go:142) *)
OneUnacked == owed <= 1
-----------------------------------------------------------------------------
(* Liveness.  Every goroutine that can run runs.  A select with several    *)
(* ready cases picks one at random, so a canceled context is noticed if it *)
(* is offered again and again.  Discord says Hello, and drops a connection *)
(* that no longer sends heartbeats.                                        *)
DropSilent == inst[cur].sender = "exited" /\ ConnectionBreaks

Fairness ==
  /\ WF_vars(RunStep)
  /\ WF_vars(cur > 0 /\ DropSilent)
  /\ \A i \in 1 .. Runs :
       /\ SF_vars(i <= cur /\ SenderQuits(i))
       /\ SF_vars(i <= cur /\ ReaderQuits(i))
       /\ WF_vars(i <= cur /\ (SendHeartbeat(i) \/ SendForcedHeartbeat(i)
                                 \/ Panic(i) \/ MessageSent(i)))
       /\ WF_vars(i <= cur /\ DeleteSent(i))
       /\ WF_vars(i <= cur /\ CloseConnection(i))

FairSpec == Spec /\ Fairness

Wedged == run = "beat" /\ inst[cur].sender = "exited"

(* A canceled job finishes, except when Run waits to hand a requested      *)
(* heartbeat to a sender that is gone (gateway.go:223).                    *)
JobFinishes == job = "canceled" ~> (run = "done" \/ Wedged \/ job = "running")

(* A connection whose sender gave up is replaced: the bot does not stay    *)
(* deaf (gateway.go:144), again except when Run waits for that sender.     *)
DeafConnectionEnds ==
  \A i \in 1 .. Runs :
    (i = cur /\ inst[i].sender = "exited" /\ run = "receive")
      ~> (run # "receive" \/ i # cur)

(* "Wait for child goroutines to exit (they will do so when context is     *)
(* canceled)" (gateway.go:185): they do, except for a reader that offers a *)
(* message to a sender that is gone (gateway.go:465).                      *)
ChildrenExit ==
  \A i \in 1 .. Runs :
    inst[i].canceled ~> /\ inst[i].sender \in {"none", "exited"}
                        /\ inst[i].reader \in {"none", "exited", "offer"}
=============================================================================
