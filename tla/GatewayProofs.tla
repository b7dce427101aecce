---------------------------- MODULE GatewayProofs ----------------------------
(***************************************************************************)
(* Proofs about DiscordGateway, for any number of connections and events:  *)
(* its types, that there is at most one heartbeat without its answer, that *)
(* events are processed in order and once, and that a connection skips at  *)
(* most one.                                                               *)
(***************************************************************************)
EXTENDS DiscordGateway, FiniteSetTheorems, TLAPS

-----------------------------------------------------------------------------
(* Type correctness.  Run is in its loop only with an instance, and saves  *)
(* or processes only an event it has received.                             *)
Instance == [sender : {"none", "select", "beat", "forced", "send", "exited"},
             reader : {"none", "wait", "offer", "delete", "exited"},
             acked : BOOLEAN, ticking : BOOLEAN, canceled : BOOLEAN,
             ws : {"none", "open", "closed"}]

Outside == {"top", "done"}

RunOK ==
  /\ run \notin Outside => cur > 0
  /\ run \in {"save", "process"} => pos > 0

TypeInv == TypeOK /\ RunOK

(* An instance changes, the others stay. *)
LEMMA InstanceMoves ==
  ASSUME TypeInv, NEW i \in 1 .. Runs, NEW w \in Instance
  PROVE  [inst EXCEPT ![i] = w] \in [1 .. Runs -> Instance]
BY DEF TypeInv, TypeOK, Instance

LEMMA InstancesTyped ==
  ASSUME TypeInv
  PROVE  inst \in [1 .. Runs -> Instance] /\ \A i \in 1 .. Runs : inst[i] \in Instance
<1>1. inst \in [1 .. Runs -> Instance]
  BY DEF TypeInv, TypeOK, Instance
<1> QED
  BY <1>1

LEMMA NewInstanceTyped == NoInstance \in Instance
BY DEF NoInstance, Instance

(* The goroutines' steps on one instance. *)
InstanceStep(i) == SenderStep(i) \/ ReaderStep(i) \/ CloseConnection(i)

LEMMA QuitTyped ==
  ASSUME TypeInv, NEW i \in 1 .. Runs, Quit(i)
  PROVE  inst' \in [1 .. Runs -> Instance]
<1> DEFINE w == [inst[i] EXCEPT !.sender = "exited", !.canceled = TRUE]
<1>1. w \in Instance
  BY InstancesTyped DEF Instance
<1>2. inst' = [inst EXCEPT ![i] = w]
  BY DEF Quit, TypeInv, TypeOK
<1> QED
  BY <1>1, <1>2, InstanceMoves

LEMMA ReturnTyped ==
  ASSUME TypeInv, cur > 0, Return
  PROVE  inst' \in [1 .. Runs -> Instance]
<1> DEFINE w == [inst[cur] EXCEPT !.canceled = TRUE, !.ws = "closed"]
<1>0. cur \in 1 .. Runs
  BY DEF TypeInv, TypeOK
<1>1. w \in Instance
  BY <1>0, InstancesTyped DEF Instance
<1>2. inst' = [inst EXCEPT ![cur] = w]
  BY <1>0 DEF Return, TypeInv, TypeOK
<1> QED
  BY <1>0, <1>1, <1>2, InstanceMoves

LEMMA StartTyped ==
  ASSUME TypeInv, cur > 0, StartGoroutines
  PROVE  inst' \in [1 .. Runs -> Instance]
<1> DEFINE w == [inst[cur] EXCEPT !.sender = "select", !.reader = "wait"]
<1>0. cur \in 1 .. Runs
  BY DEF TypeInv, TypeOK
<1>1. w \in Instance
  BY <1>0, InstancesTyped DEF Instance
<1>2. inst' = [inst EXCEPT ![cur] = w]
  BY <1>0 DEF StartGoroutines, TypeInv, TypeOK
<1> QED
  BY <1>0, <1>1, <1>2, InstanceMoves

LEMMA ConnectFailsTyped ==
  ASSUME TypeInv, cur > 0, ConnectFails
  PROVE  inst' \in [1 .. Runs -> Instance]
<1> DEFINE w == [inst[cur] EXCEPT !.canceled = TRUE]
<1>0. cur \in 1 .. Runs
  BY DEF TypeInv, TypeOK
<1>1. w \in Instance
  BY <1>0, InstancesTyped DEF Instance
<1>2. inst' = [inst EXCEPT ![cur] = w]
  BY <1>0 DEF ConnectFails, TypeInv, TypeOK
<1> QED
  BY <1>0, <1>1, <1>2, InstanceMoves

(* A beat leaves an instance that is one. *)
LEMMA BeatTyped ==
  ASSUME TypeInv, NEW i \in 1 .. Runs, SendHeartbeat(i) \/ SendForcedHeartbeat(i)
  PROVE  inst' \in [1 .. Runs -> Instance] /\ owed' \in Nat
<1>1. CASE BeatFails(i)
  BY <1>1, QuitTyped DEF BeatFails, TypeInv, TypeOK
<1>2. CASE BeatSucceeds(i) /\ inst' = [inst EXCEPT ![i].sender = "select", ![i].acked = FALSE,
                                                   ![i].ticking = TRUE]
  <2> DEFINE w == [inst[i] EXCEPT !.sender = "select", !.acked = FALSE, !.ticking = TRUE]
  <2>1. w \in Instance
    BY InstancesTyped DEF Instance
  <2>2. inst' = [inst EXCEPT ![i] = w]
    BY <1>2 DEF TypeInv, TypeOK
  <2>3. owed' \in Nat
    BY <1>2 DEF BeatSucceeds, TypeInv, TypeOK
  <2> QED
    BY <2>1, <2>2, <2>3, InstanceMoves
<1>3. CASE BeatSucceeds(i) /\ inst' = [inst EXCEPT ![i].sender = "select", ![i].acked = FALSE]
  <2> DEFINE w == [inst[i] EXCEPT !.sender = "select", !.acked = FALSE]
  <2>1. w \in Instance
    BY InstancesTyped DEF Instance
  <2>2. inst' = [inst EXCEPT ![i] = w]
    BY <1>3 DEF TypeInv, TypeOK
  <2>3. owed' \in Nat
    BY <1>3 DEF BeatSucceeds, TypeInv, TypeOK
  <2> QED
    BY <2>1, <2>2, <2>3, InstanceMoves
<1> QED
  BY <1>1, <1>2, <1>3 DEF SendHeartbeat, SendForcedHeartbeat

LEMMA TypeInit == Init => TypeInv
<1> SUFFICES ASSUME Init PROVE TypeInv
  OBVIOUS
<1>1. inst \in [1 .. Runs -> Instance]
  BY NewInstanceTyped DEF Init
<1>2. handled \in Seq(1 .. MaxEvents) /\ failed \subseteq 1 .. MaxEvents
  BY DEF Init
<1>4. Runs \in Nat /\ MaxEvents \in Nat
  BY GatewayAssumption DEF GatewayAssumption
<1>6. /\ job = "running" /\ run = "top" /\ cur = 0 /\ saved = NoSession
      /\ panicked = FALSE /\ occurred = 0 /\ base = 0 /\ pos = 0
      /\ peer = "down" /\ link = "none" /\ owed = 0
  BY DEF Init
<1>7. /\ cur \in 0 .. Runs /\ saved \in 0 .. MaxEvents \cup {NoSession}
      /\ occurred \in 0 .. MaxEvents /\ base \in 0 .. MaxEvents /\ pos \in 0 .. MaxEvents
  BY <1>4, <1>6
<1>5. TypeOK
  BY <1>1, <1>2, <1>6, <1>7 DEF TypeOK, Instance
<1>3. RunOK
  BY DEF Init, RunOK, Outside
<1> QED
  BY <1>3, <1>5 DEF TypeInv

LEMMA TypeNext == TypeInv /\ [Next]_vars => TypeInv'
<1> SUFFICES ASSUME TypeInv, [Next]_vars PROVE TypeInv'
  OBVIOUS
<1> USE GatewayAssumption
<1>t. TypeOK /\ RunOK /\ inst \in [1 .. Runs -> Instance]
  BY DEF TypeInv, TypeOK, Instance
<1>1. ASSUME NEW i \in 1 .. cur, InstanceStep(i), ~Panic(i) PROVE TypeInv'
  <2>0. i \in 1 .. Runs
    BY <1>t DEF TypeOK
  <2>1. inst' \in [1 .. Runs -> Instance]
    <3>1. CASE SenderQuits(i)
      BY <2>0, <3>1, QuitTyped DEF SenderQuits
    <3>2. CASE TimerFires(i) \/ MessageSent(i) \/ Fetch(i) \/ DeleteSent(i) \/ CloseConnection(i)
      BY <1>t, <2>0, <3>2
      DEF TimerFires, MessageSent, Fetch, DeleteSent, CloseConnection, Instance
    <3>3. CASE SendHeartbeat(i) \/ SendForcedHeartbeat(i)
      BY <2>0, <3>3, BeatTyped
    <3>4. CASE ReaderQuits(i)
      <4> DEFINE w == [inst[i] EXCEPT !.reader = "exited", !.canceled = TRUE]
      <4>1. w \in Instance
        BY <2>0, InstancesTyped DEF Instance
      <4>2. inst' = [inst EXCEPT ![i] = w]
        BY <1>t, <2>0, <3>4 DEF ReaderQuits
      <4> QED
        BY <2>0, <4>1, <4>2, InstanceMoves
    <3>5. CASE HandOver(i)
      <4>0. PICK pc \in {"offer", "delete"} :
              inst' = [inst EXCEPT ![i].reader = pc, ![i].sender = "send"]
        BY <3>5 DEF HandOver
      <4> DEFINE w == [inst[i] EXCEPT !.reader = pc, !.sender = "send"]
      <4>1. w \in Instance
        BY <2>0, InstancesTyped DEF Instance
      <4>2. inst' = [inst EXCEPT ![i] = w]
        BY <1>t, <2>0, <4>0
      <4> QED
        BY <2>0, <4>1, <4>2, InstanceMoves
    <3> QED
      BY <1>1, <3>1, <3>2, <3>3, <3>4, <3>5 DEF InstanceStep, SenderStep, ReaderStep
  <2>2. /\ UNCHANGED <<job, run, cur, stored, panicked, occurred, base, peer, link, pos>>
        /\ owed' \in Nat
    <3>1. CASE SendHeartbeat(i) \/ SendForcedHeartbeat(i)
      BY <2>0, <3>1, BeatTyped DEF SendHeartbeat, SendForcedHeartbeat
    <3>2. CASE ~(SendHeartbeat(i) \/ SendForcedHeartbeat(i))
      BY <1>1, <3>2, <1>t
      DEF InstanceStep, SenderStep, ReaderStep, SenderQuits, TimerFires, MessageSent, Fetch,
          DeleteSent, CloseConnection, ReaderQuits, HandOver, discord, TypeOK
    <3> QED
      BY <3>1, <3>2
  <2> QED
    BY <1>t, <2>1, <2>2 DEF TypeInv, TypeOK, RunOK, stored, outcome, Instance
<1>2. CASE Crash \/ \E i \in 1 .. cur : Panic(i)
  <2>1. Restart /\ panicked' \in BOOLEAN
    BY <1>2, <1>t DEF Crash, Panic, TypeOK
  <2>2. inst' \in [1 .. Runs -> Instance]
    BY <2>1, NewInstanceTyped DEF Restart
  <2> QED
    BY <1>t, <2>1, <2>2 DEF Restart, TypeInv, TypeOK, RunOK, stored, outcome, Instance, Outside
<1>3. CASE NewInstance
  <2>1. cur + 1 \in 1 .. Runs
    BY <1>t, <1>3 DEF NewInstance, TypeOK
  <2>2. inst' \in [1 .. Runs -> Instance]
    BY <1>3, <2>1, NewInstanceTyped, InstanceMoves DEF NewInstance
  <2> QED
    BY <1>t, <1>3, <2>1, <2>2
    DEF NewInstance, TypeInv, TypeOK, RunOK, stored, outcome, discord, Instance, Outside
<1>4. CASE FinishJob \/ CancelJob \/ EventOccurs \/ ConnectionBreaks
  <2>1. CASE FinishJob \/ CancelJob
    BY <1>t, <2>1
    DEF FinishJob, CancelJob, Continue, TypeInv, TypeOK, RunOK, stored, outcome, discord, Outside
  <2>2. CASE EventOccurs
    BY <1>t, <2>2 DEF EventOccurs, TypeInv, TypeOK, RunOK, local, stored, outcome, Outside
  <2>3. CASE ConnectionBreaks
    BY <1>t, <2>3 DEF ConnectionBreaks, TypeInv, TypeOK, RunOK, local, stored, outcome, Outside
  <2> QED
    BY <1>4, <2>1, <2>2, <2>3
<1>5. CASE Dial
  <2>1. cur > 0 /\ cur \in 1 .. Runs
    BY <1>t, <1>5 DEF Dial, RunOK, Outside, TypeOK
  <2>2. inst' \in [1 .. Runs -> Instance]
    <3>1. CASE ConnectFails
      BY <2>1, <3>1, ConnectFailsTyped
    <3>2. CASE inst' = [inst EXCEPT ![cur].ws = "open"]
      BY <1>t, <2>1, <3>2 DEF Instance
    <3> QED
      BY <1>5, <3>1, <3>2 DEF Dial
  <2> QED
    BY <1>t, <1>5, <2>1, <2>2
    DEF Dial, ConnectFails, TypeInv, TypeOK, RunOK, stored, outcome, Instance, Outside
<1>6. CASE SayHello
  <2>1. cur > 0
    BY <1>t, <1>6 DEF SayHello, RunOK, Outside
  <2>2. inst' \in [1 .. Runs -> Instance]
    BY <1>t, <1>6, <2>1, StartTyped, ConnectFailsTyped DEF SayHello, Continue
  <2>3. pos' \in 0 .. MaxEvents /\ link' \in {"none", "live", "refused"}
    BY <1>t, <1>6 DEF SayHello, TypeOK
  <2> QED
    BY <1>t, <1>6, <2>1, <2>2, <2>3
    DEF SayHello, StartGoroutines, ConnectFails, Continue, TypeInv, TypeOK, RunOK, stored, outcome,
        Instance, Outside
<1>7. CASE SaveSession
  <2>1. cur > 0
    BY <1>t, <1>7 DEF SaveSession, RunOK, Outside
  <2>2. inst' \in [1 .. Runs -> Instance]
    BY <1>7, <2>1, StartTyped, ConnectFailsTyped DEF SaveSession
  <2> QED
    BY <1>t, <1>7, <2>1, <2>2
    DEF SaveSession, ReadySequence, StartGoroutines, ConnectFails, outcome, TypeInv, TypeOK,
        RunOK, Instance, Outside
<1>8. CASE ReceiveEvent \/ SaveSequence \/ ProcessEvent \/ HeartbeatRequested
           \/ ReconnectRequested \/ InvalidSession \/ ReceiveFails
  <2>1. cur > 0
    BY <1>t, <1>8 DEF ReceiveEvent, SaveSequence, ProcessEvent, HeartbeatRequested, Receives,
       ReconnectRequested, InvalidSession, ReceiveFails, RunOK, Outside
  <2>2. /\ inst' \in [1 .. Runs -> Instance]
        /\ UNCHANGED <<job, cur>>
        /\ run' \in {"top", "receive", "save", "process", "beat"}
    BY <1>t, <1>8, <2>1, ReturnTyped
    DEF ReceiveEvent, SaveSequence, ProcessEvent, HeartbeatRequested, ReconnectRequested,
        InvalidSession, ReceiveFails, Return, Continue
  <2>3. /\ UNCHANGED <<panicked, occurred, base, peer, link, owed>>
        /\ saved' \in {saved, pos, NoSession}
    BY <1>8 DEF ReceiveEvent, SaveSequence, ProcessEvent, HeartbeatRequested,
       ReconnectRequested, InvalidSession, ReceiveFails, stored, outcome, discord
  <2>4. pos' \in 0 .. MaxEvents /\ (run' \in {"save", "process"} => pos' > 0)
    BY <1>t, <1>8
    DEF ReceiveEvent, SaveSequence, ProcessEvent, HeartbeatRequested, ReconnectRequested,
        InvalidSession, ReceiveFails, Return, Continue, discord, TypeOK, RunOK
  <2>5. handled' \in Seq(1 .. MaxEvents) /\ failed' \subseteq 1 .. MaxEvents
    <3>1. handled \in Seq(1 .. MaxEvents) /\ failed \subseteq 1 .. MaxEvents
      BY <1>t DEF TypeOK
    <3>2. CASE ProcessEvent
      <4>1. pos \in 1 .. MaxEvents
        BY <1>t, <3>2 DEF ProcessEvent, TypeOK, RunOK
      <4>2. handled' \in {handled, Append(handled, pos)} /\ failed' \in {failed, failed \cup {pos}}
        BY <3>2 DEF ProcessEvent, outcome
      <4>3. handled' \in Seq(1 .. MaxEvents)
        BY <3>1, <4>1, <4>2
      <4> QED
        BY <3>1, <4>1, <4>2, <4>3
    <3>3. CASE ~ProcessEvent
      BY <1>8, <3>1, <3>3
      DEF ReceiveEvent, SaveSequence, HeartbeatRequested, ReconnectRequested,
          InvalidSession, ReceiveFails, stored, outcome
    <3> QED
      BY <3>2, <3>3
  <2> QED
    BY <1>t, <2>1, <2>2, <2>3, <2>4, <2>5 DEF TypeInv, TypeOK, RunOK, Instance, Outside
<1>9. CASE HeartbeatAck \/ ForceHeartbeat
  <2>1. cur > 0 /\ cur \in 1 .. Runs
    BY <1>t, <1>9 DEF HeartbeatAck, ForceHeartbeat, Receives, RunOK, Outside, TypeOK
  <2>2. inst' \in [1 .. Runs -> Instance]
    <3>1. CASE inst' = [inst EXCEPT ![cur].acked = TRUE]
      BY <1>t, <2>1, <3>1 DEF Instance
    <3>2. CASE inst' = [inst EXCEPT ![cur].sender = "forced"]
      BY <1>t, <2>1, <3>2 DEF Instance
    <3> QED
      BY <1>9, <3>1, <3>2 DEF HeartbeatAck, ForceHeartbeat
  <2>3. CASE HeartbeatAck
    <3>1. owed' \in Nat
      BY <1>t, <2>3 DEF HeartbeatAck, TypeOK
    <3> QED
      BY <1>t, <2>1, <2>2, <2>3, <3>1
      DEF HeartbeatAck, TypeInv, TypeOK, RunOK, stored, outcome, Instance, Outside
  <2>4. CASE ForceHeartbeat
    BY <1>t, <2>1, <2>2, <2>4
    DEF ForceHeartbeat, TypeInv, TypeOK, RunOK, stored, outcome, discord, Instance, Outside
  <2> QED
    BY <1>9, <2>3, <2>4
<1>10. CASE UNCHANGED vars
  BY <1>t, <1>10 DEF vars, local, stored, outcome, discord, TypeInv, TypeOK, RunOK
<1> QED
  BY <1>1, <1>2, <1>3, <1>4, <1>5, <1>6, <1>7, <1>8, <1>9, <1>10
  DEF Next, RunStep, Receive, InstanceStep

(* Every variable keeps its type (gateway.go:120-560). *)
THEOREM GatewayTyped == Spec => []TypeOK
<1>1. TypeInv => TypeOK
  BY DEF TypeInv
<1> QED
  BY TypeInit, TypeNext, <1>1, PTL DEF Spec
-----------------------------------------------------------------------------
(* Heartbeats.  didAckHeartbeat tells the truth about the connection that  *)
(* Run reads from: while it is set, Discord owes no answer.                *)
Unconnected == Outside \cup {"connect"}

BeatInv ==
  /\ run \notin Unconnected => inst[cur].ws # "none"
  /\ owed <= 1
  /\ cur > 0 /\ inst[cur].ws # "none" /\ inst[cur].acked => owed = 0

LEMMA BeatKept ==
  ASSUME BeatInv, UNCHANGED <<owed, cur>>,
         run' = run \/ run' \in Unconnected \/ run \notin Unconnected,
         run \notin Outside => cur > 0,
         cur > 0 => /\ inst'[cur].ws = "none" <=> inst[cur].ws = "none"
                    /\ inst'[cur].acked => inst[cur].acked
  PROVE  BeatInv'
BY DEF BeatInv, Unconnected

LEMMA BeatNext == TypeInv /\ BeatInv /\ [Next]_vars => BeatInv'
<1> SUFFICES ASSUME TypeInv, BeatInv, [Next]_vars PROVE BeatInv'
  OBVIOUS
<1>t. /\ inst \in [1 .. Runs -> Instance] /\ cur \in 0 .. Runs /\ owed \in Nat
      /\ Runs \in Nat /\ RunOK
  BY GatewayAssumption DEF TypeInv, TypeOK, Instance
<1>1. ASSUME NEW i \in 1 .. cur, InstanceStep(i), ~Panic(i),
             ~SendHeartbeat(i), ~SendForcedHeartbeat(i)
      PROVE  BeatInv'
  <2>1. UNCHANGED <<owed, cur, run>>
    BY <1>1 DEF InstanceStep, SenderStep, ReaderStep, SenderQuits, TimerFires, MessageSent,
       Fetch, DeleteSent, CloseConnection, ReaderQuits, HandOver, discord
  <2>2. /\ inst'[cur].ws = "none" <=> inst[cur].ws = "none"
        /\ inst'[cur].acked = inst[cur].acked
    <3>1. CASE CloseConnection(i)
      BY <1>t, <3>1 DEF CloseConnection, Instance
    <3>2. CASE SenderQuits(i) \/ TimerFires(i) \/ MessageSent(i)
      BY <1>t, <3>2 DEF SenderQuits, Quit, TimerFires, MessageSent, Instance
    <3>3. CASE ReaderStep(i)
      BY <1>t, <3>3 DEF ReaderStep, Fetch, DeleteSent, ReaderQuits, HandOver, Instance
    <3> QED
      BY <1>1, <3>1, <3>2, <3>3 DEF InstanceStep, SenderStep
  <2> QED
    BY <1>t, <2>1, <2>2, BeatKept DEF RunOK
<1>2. ASSUME NEW i \in 1 .. cur, SendHeartbeat(i) \/ SendForcedHeartbeat(i) PROVE BeatInv'
  <2>1. UNCHANGED <<cur, run>> /\ i \in 1 .. Runs /\ cur \in 1 .. Runs
    BY <1>t, <1>2 DEF SendHeartbeat, SendForcedHeartbeat
  <2>2. CASE BeatFails(i)
    <3>1. UNCHANGED owed
      BY <2>2 DEF BeatFails
    <3>2. inst'[cur].ws = inst[cur].ws /\ inst'[cur].acked = inst[cur].acked
      BY <1>t, <2>1, <2>2 DEF BeatFails, Quit, Instance
    <3> QED
      BY <2>1, <3>1, <3>2, BeatKept
  <2>3. CASE /\ BeatSucceeds(i)
             /\ \/ inst' = [inst EXCEPT ![i].sender = "select", ![i].acked = FALSE,
                                        ![i].ticking = TRUE]
                \/ inst' = [inst EXCEPT ![i].sender = "select", ![i].acked = FALSE]
    <3>1. ~inst'[i].acked /\ inst'[i].ws = inst[i].ws /\ (i # cur => inst'[cur] = inst[cur])
      BY <1>t, <2>1, <2>3 DEF Instance
    <3>2. CASE i = cur
      <4>1. owed' = owed + 1 /\ owed = 0
        BY <1>t, <2>1, <2>3, <3>2 DEF BeatSucceeds, Acked, BeatInv
      <4> QED
        BY <2>1, <3>1, <3>2, <4>1 DEF BeatInv
    <3>3. CASE i # cur
      <4>1. UNCHANGED owed
        BY <2>3, <3>3 DEF BeatSucceeds
      <4> QED
        BY <2>1, <3>1, <3>3, <4>1, BeatKept
    <3> QED
      BY <3>2, <3>3
  <2> QED
    BY <1>2, <2>2, <2>3 DEF SendHeartbeat, SendForcedHeartbeat
<1>3. CASE Crash \/ \E i \in 1 .. cur : Panic(i)
  <2>1. owed' = 0 /\ run' = "top"
    BY <1>3 DEF Crash, Panic, Restart
  <2> QED
    BY <2>1 DEF BeatInv, Unconnected, Outside
<1>4. CASE NewInstance
  <2>1. cur + 1 \in 1 .. Runs
    BY <1>t, <1>4 DEF NewInstance
  <2>2. inst'[cur'].ws = "none"
    BY <1>t, <1>4, <2>1 DEF NewInstance, NoInstance
  <2> QED
    BY <1>4, <2>2 DEF NewInstance, discord, BeatInv, Unconnected
<1>5. CASE Dial
  <2>1. cur \in 1 .. Runs
    BY <1>t, <1>5 DEF Dial, RunOK, Outside
  <2>2. CASE ConnectFails /\ UNCHANGED owed
    <3>1. /\ UNCHANGED cur /\ run' = "top"
          /\ inst'[cur].ws = inst[cur].ws /\ inst'[cur].acked = inst[cur].acked
      BY <1>t, <2>1, <2>2 DEF ConnectFails, Instance
    <3> QED
      BY <2>1, <2>2, <3>1, BeatKept DEF Unconnected, Outside
  <2>3. CASE owed' = 0 /\ inst' = [inst EXCEPT ![cur].ws = "open"] /\ UNCHANGED cur
    BY <1>t, <2>1, <2>3 DEF BeatInv, Instance
  <2> QED
    BY <1>5, <2>2, <2>3 DEF Dial
<1>6. CASE HeartbeatAck
  <2>1. owed = 1 /\ owed' = 0
    BY <1>t, <1>6 DEF HeartbeatAck, BeatInv
  <2>2. UNCHANGED <<run, cur>> /\ cur \in 1 .. Runs
    BY <1>t, <1>6 DEF HeartbeatAck, Receives, RunOK, Outside
  <2>3. inst'[cur].ws = inst[cur].ws
    BY <1>t, <1>6, <2>2 DEF HeartbeatAck, Instance
  <2> QED
    BY <2>1, <2>2, <2>3 DEF BeatInv
<1>7. CASE \/ SayHello \/ SaveSession \/ ReceiveEvent \/ SaveSequence \/ ProcessEvent
           \/ HeartbeatRequested \/ ReconnectRequested \/ InvalidSession \/ ReceiveFails
           \/ ForceHeartbeat
  <2>1. cur \in 1 .. Runs
    BY <1>t, <1>7 DEF SayHello, SaveSession, ReceiveEvent, SaveSequence, ProcessEvent,
       HeartbeatRequested, Receives, ReconnectRequested, InvalidSession, ReceiveFails,
       ForceHeartbeat, RunOK, Outside
  <2>2. UNCHANGED <<owed, cur>>
    BY <1>7 DEF SayHello, SaveSession, ReceiveEvent, SaveSequence, ProcessEvent,
       HeartbeatRequested, ReconnectRequested, InvalidSession, ReceiveFails, ForceHeartbeat,
       Return, Continue, StartGoroutines, ConnectFails, discord
  <2>3. \/ UNCHANGED inst \/ Return \/ StartGoroutines \/ ConnectFails
        \/ inst' = [inst EXCEPT ![cur].sender = "forced"]
    BY <1>7 DEF SayHello, SaveSession, ReceiveEvent, SaveSequence, ProcessEvent,
       HeartbeatRequested, ReconnectRequested, InvalidSession, ReceiveFails, ForceHeartbeat,
       Continue
  <2>4. run \notin Unconnected
    BY <1>7 DEF SayHello, SaveSession, ReceiveEvent, SaveSequence, ProcessEvent,
       HeartbeatRequested, Receives, ReconnectRequested, InvalidSession, ReceiveFails,
       ForceHeartbeat, Unconnected, Outside
  <2>5. inst[cur].ws # "none"
    BY <2>4 DEF BeatInv
  <2>6. inst'[cur].ws # "none" /\ inst'[cur].acked = inst[cur].acked
    <3>1. CASE Return
      BY <1>t, <2>1, <2>5, <3>1 DEF Return, Instance
    <3>2. CASE UNCHANGED inst
      BY <2>2, <2>5, <3>2
    <3>3. CASE StartGoroutines
      BY <1>t, <2>1, <2>5, <3>3 DEF StartGoroutines, Instance
    <3>4. CASE ConnectFails
      BY <1>t, <2>1, <2>5, <3>4 DEF ConnectFails, Instance
    <3>5. CASE inst' = [inst EXCEPT ![cur].sender = "forced"]
      BY <1>t, <2>1, <2>5, <3>5 DEF Instance
    <3> QED
      BY <2>3, <3>1, <3>2, <3>3, <3>4, <3>5
  <2> QED
    BY <2>1, <2>2, <2>4, <2>5, <2>6, BeatKept
<1>8. CASE FinishJob \/ CancelJob \/ EventOccurs \/ ConnectionBreaks \/ UNCHANGED vars
  <2>1. UNCHANGED <<owed, cur, inst>> /\ run' \in {run, "done"}
    BY <1>8 DEF FinishJob, CancelJob, EventOccurs, ConnectionBreaks, Continue, vars, local,
       discord
  <2> QED
    BY <1>t, <2>1, BeatKept DEF RunOK, Unconnected, Outside
<1> QED
  BY <1>1, <1>2, <1>3, <1>4, <1>5, <1>6, <1>7, <1>8
  DEF Next, RunStep, Receive, InstanceStep

(* There is never more than one heartbeat without its answer               *)
(* (gateway.go:142).                                                       *)
THEOREM OneHeartbeatOwed == Spec => []OneUnacked
<1>1. Init => BeatInv
  BY DEF Init, BeatInv, Unconnected, Outside
<1>2. BeatInv => OneUnacked
  BY DEF BeatInv, OneUnacked
<1> QED
  BY TypeInit, TypeNext, BeatNext, <1>1, <1>2, PTL DEF Spec
-----------------------------------------------------------------------------
(* Events.  While Run reads, the row holds the number of the last event it *)
(* was sent; it holds it already when the event is processed, and all      *)
(* events processed before come before it.                                 *)
UpTo(n) == \A k \in 1 .. Len(handled) : handled[k] <= n

Reading == {"receive", "beat", "process"}

OrderInv ==
  /\ EventsInOrder /\ UpTo(occurred)
  /\ saved # NoSession => base <= saved /\ saved <= occurred /\ UpTo(saved)
  /\ run \in Reading => saved = pos
  /\ run = "save" => saved # NoSession /\ pos = saved + 1 /\ pos <= occurred
  /\ run = "process" => UpTo(pos - 1)

(* A connection that is still open has skipped nothing. *)
LossInv == Cardinality(Lost) <= IF run \in Outside THEN cur ELSE cur - 1

EventInv == OrderInv /\ LossInv

LEMMA HandledNumbers ==
  ASSUME TypeInv
  PROVE  handled \in Seq(Nat) /\ \A k \in 1 .. Len(handled) : handled[k] \in Nat
<1>1. handled \in Seq(1 .. MaxEvents) /\ MaxEvents \in Nat
  BY GatewayAssumption DEF TypeInv, TypeOK
<1>2. handled \in Seq(Nat)
  BY <1>1
<1> QED
  BY <1>2

LEMMA LostCounts ==
  ASSUME TypeInv
  PROVE  IsFiniteSet(Lost) /\ Cardinality(Lost) \in Nat
<1>1. CASE saved = NoSession
  BY <1>1, FS_EmptySet DEF Lost, outcome
<1>2. CASE saved # NoSession
  <2>1. base + 1 \in Int /\ saved \in Int
    BY <1>2, GatewayAssumption DEF TypeInv, TypeOK
  <2>2. Lost \subseteq base + 1 .. saved
    BY <1>2 DEF Lost, outcome
  <2> QED
    BY <2>1, <2>2, FS_Interval, FS_Subset, FS_CardinalityType
<1> QED
  BY <1>1, <1>2

LEMMA LostShrinks ==
  ASSUME TypeInv, Lost' \subseteq Lost
  PROVE  Cardinality(Lost') \in Nat /\ Cardinality(Lost') <= Cardinality(Lost)
BY LostCounts, FS_Subset, FS_CardinalityType

LEMMA LostGrows ==
  ASSUME TypeInv, NEW e, Lost' \subseteq Lost \cup {e}
  PROVE  Cardinality(Lost') \in Nat /\ Cardinality(Lost') <= Cardinality(Lost) + 1
<1>1. IsFiniteSet(Lost \cup {e}) /\ Cardinality(Lost \cup {e}) <= Cardinality(Lost) + 1
      /\ Cardinality(Lost \cup {e}) \in Nat
  BY LostCounts, FS_AddElement, FS_CardinalityType
<1>2. /\ Cardinality(Lost') <= Cardinality(Lost \cup {e})
      /\ Cardinality(Lost') \in Nat
  BY <1>1, FS_Subset, FS_CardinalityType
<1> QED
  BY <1>1, <1>2, LostCounts

(* A step that leaves Run and the row alone. *)
LEMMA EventsQuiet ==
  ASSUME TypeInv, TypeInv', EventInv,
         UNCHANGED <<run, cur, saved, outcome, base, pos>>, occurred <= occurred'
  PROVE  EventInv'
<1>1. OrderInv'
  <2>1. UpTo(occurred)'
    <3> SUFFICES ASSUME NEW k \in 1 .. Len(handled) PROVE handled[k] <= occurred'
      BY DEF UpTo, outcome
    <3>1. handled[k] <= occurred
      BY DEF EventInv, OrderInv, UpTo
    <3>2. handled[k] \in Nat /\ occurred \in Nat /\ occurred' \in Nat
      BY HandledNumbers DEF TypeInv, TypeOK
    <3> QED
      BY <3>1, <3>2
  <2>2. saved # NoSession => saved \in Nat
    BY DEF TypeInv, TypeOK
  <2> QED
    BY <2>1, <2>2 DEF EventInv, OrderInv, EventsInOrder, UpTo, outcome, TypeInv, TypeOK
<1>2. Lost' \subseteq Lost
  BY DEF Lost, outcome
<1> QED
  BY <1>1, <1>2, LostShrinks, LostCounts DEF EventInv, LossInv, TypeInv, TypeOK

(* A connection, or the process, ends: it may have been processing an      *)
(* event.                                                                  *)
LEMMA EventsEnd ==
  ASSUME TypeInv, EventInv, UNCHANGED <<cur, saved, outcome, base, occurred>>,
         run' \in Outside
  PROVE  EventInv'
<1>1. OrderInv'
  BY DEF EventInv, OrderInv, EventsInOrder, UpTo, outcome, Outside, Reading
<1>2. cur \in Nat /\ Cardinality(Lost) \in Nat
  BY LostCounts DEF TypeInv, TypeOK
<1>3. Cardinality(Lost') <= cur
  <2>1. CASE run = "process"
    <3>1. Lost' \subseteq Lost \cup {pos}
      BY <2>1 DEF Lost, outcome
    <3>2. Cardinality(Lost) <= cur - 1
      BY <2>1 DEF EventInv, LossInv, Outside
    <3> QED
      BY <1>2, <3>1, <3>2, LostGrows
  <2>2. CASE run # "process"
    <3>1. Lost' \subseteq Lost
      BY <2>2 DEF Lost, outcome
    <3>2. Cardinality(Lost) <= cur
      BY <1>2 DEF EventInv, LossInv
    <3> QED
      BY <1>2, <3>1, <3>2, LostShrinks
  <2> QED
    BY <2>1, <2>2
<1> QED
  BY <1>1, <1>3 DEF EventInv, LossInv

(* A step that reads the stream, or writes the row, and loses nothing. *)
LEMMA LossKept ==
  ASSUME TypeInv, EventInv, cur > 0, UNCHANGED cur, Lost' \subseteq Lost,
         run \notin Outside
  PROVE  LossInv'
<1>1. Cardinality(Lost') \in Nat /\ Cardinality(Lost') <= Cardinality(Lost)
      /\ Cardinality(Lost) \in Nat /\ cur \in Nat
  BY LostShrinks, LostCounts DEF TypeInv, TypeOK
<1> QED
  BY <1>1 DEF EventInv, LossInv, Outside

LEMMA EventNext == TypeInv /\ TypeInv' /\ EventInv /\ [Next]_vars => EventInv'
<1> SUFFICES ASSUME TypeInv, TypeInv', EventInv, [Next]_vars PROVE EventInv'
  OBVIOUS
<1>t. /\ inst \in [1 .. Runs -> Instance] /\ cur \in 0 .. Runs
      /\ Runs \in Nat /\ RunOK /\ MaxEvents \in Nat
      /\ occurred \in Nat /\ base \in Nat /\ pos \in Nat
      /\ (saved # NoSession => saved \in Nat)
  BY GatewayAssumption DEF TypeInv, TypeOK, Instance
<1>o. OrderInv /\ LossInv
  BY DEF EventInv
<1>h. handled \in Seq(1 .. MaxEvents)
  BY DEF TypeInv, TypeOK
<1>n. \A k \in 1 .. Len(handled) : handled[k] \in Nat
  BY HandledNumbers
<1>1. ASSUME NEW i \in 1 .. cur, InstanceStep(i), ~Panic(i) PROVE EventInv'
  <2>1. UNCHANGED <<job, run, cur, saved, outcome, occurred, base, pos>>
    BY <1>1 DEF InstanceStep, SenderStep, ReaderStep, SenderQuits, TimerFires, MessageSent,
       SendHeartbeat, SendForcedHeartbeat, Fetch, DeleteSent, CloseConnection, ReaderQuits,
       HandOver, stored, outcome, discord
  <2> QED
    BY <1>t, <2>1, EventsQuiet
<1>2. CASE Crash \/ \E i \in 1 .. cur : Panic(i)
  BY <1>2, EventsEnd DEF Crash, Panic, Restart, stored, outcome, Outside
<1>3. CASE NewInstance
  <2>1. Lost' = Lost
    BY <1>3 DEF NewInstance, stored, outcome, discord, Lost
  <2>2. OrderInv'
    BY <1>o, <1>3
    DEF NewInstance, stored, outcome, discord, OrderInv, EventsInOrder, UpTo, outcome, Reading
  <2>3. Cardinality(Lost) <= cur /\ cur' = cur + 1 /\ run' = "connect"
    BY <1>o, <1>3 DEF NewInstance, LossInv, Outside
  <2> QED
    BY <1>t, <2>1, <2>2, <2>3, LostCounts DEF EventInv, LossInv, Outside
<1>4. CASE FinishJob
  BY <1>4, EventsEnd DEF FinishJob, Continue, stored, outcome, discord, Outside
<1>5. CASE CancelJob \/ EventOccurs \/ ConnectionBreaks \/ HeartbeatAck \/ UNCHANGED vars
  <2>1. UNCHANGED <<run, cur, saved, outcome, base, pos>> /\ occurred <= occurred'
    BY <1>t, <1>5 DEF CancelJob, EventOccurs, ConnectionBreaks, HeartbeatAck, vars, local,
       stored, outcome, discord
  <2> QED
    BY <2>1, EventsQuiet
<1>6. CASE Dial
  <2>1. CASE run' = "top"
    BY <1>6, <2>1, EventsEnd DEF Dial, ConnectFails, stored, outcome, Outside
  <2>2. CASE run' = "hello" /\ UNCHANGED cur
    <3>1. UNCHANGED <<saved, outcome, occurred, base, pos>> /\ cur > 0 /\ run = "connect"
      BY <1>t, <1>6 DEF Dial, stored, outcome, RunOK, Outside
    <3>2. OrderInv'
      BY <1>o, <2>2, <3>1 DEF OrderInv, EventsInOrder, UpTo, outcome, Reading
    <3>3. Lost' = Lost
      BY <2>2, <3>1 DEF Lost, outcome
    <3> QED
      BY <2>2, <3>1, <3>2, <3>3, LossKept DEF EventInv, Outside
  <2> QED
    BY <1>6, <2>1, <2>2 DEF Dial, ConnectFails
<1>7. CASE SayHello
  <2>1. UNCHANGED <<saved, outcome, occurred, base, cur>> /\ cur > 0 /\ run = "hello"
    BY <1>t, <1>7 DEF SayHello, StartGoroutines, Continue, ConnectFails, stored, outcome, RunOK, Outside
  <2>2. CASE run' = "top"
    BY <2>1, <2>2, EventsEnd DEF Outside
  <2>3. CASE run' = "ready" \/ (run' = "receive" /\ pos' = saved)
    <3>1. OrderInv'
      BY <1>o, <2>1, <2>3 DEF OrderInv, EventsInOrder, UpTo, outcome, Reading
    <3>2. Lost' = Lost
      BY <2>1, <2>3 DEF Lost, outcome
    <3> QED
      BY <2>1, <3>1, <3>2, LossKept DEF EventInv, Outside
  <2>4. run' = "top" \/ run' = "ready" \/ (run' = "receive" /\ pos' = saved)
    BY <1>7 DEF SayHello, StartGoroutines, Continue, ConnectFails
  <2> QED
    BY <2>2, <2>3, <2>4
<1>8. CASE SaveSession
  <2>1. UNCHANGED <<outcome, occurred, cur>> /\ cur > 0 /\ run' \in {"top", "receive"}
    BY <1>t, <1>8 DEF SaveSession, StartGoroutines, ConnectFails, RunOK, Outside
  <2>2. CASE UNCHANGED <<saved, base>> /\ run' = "top"
    BY <2>1, <2>2, EventsEnd DEF Outside
  <2>3. CASE saved' = occurred /\ base' = occurred /\ pos' = occurred
    <3>1. OrderInv'
      BY <1>t, <1>o, <2>1, <2>3 DEF OrderInv, EventsInOrder, UpTo, outcome, Reading
    <3>2. Lost' = {}
      BY <1>t, <2>3 DEF Lost, outcome
    <3>3. Cardinality(Lost') = 0
      BY <3>2, FS_EmptySet
    <3> QED
      BY <1>t, <2>1, <3>1, <3>3 DEF EventInv, LossInv
  <2> QED
    BY <1>8, <2>2, <2>3 DEF SaveSession, ReadySequence, ConnectFails
<1>9. CASE ReceiveEvent
  <2>1. /\ UNCHANGED <<saved, outcome, occurred, base, cur>> /\ cur > 0 /\ run = "receive"
        /\ pos' = pos + 1 /\ pos < occurred
    BY <1>t, <1>9 DEF ReceiveEvent, Receives, Return, Continue, stored, outcome, RunOK, Outside
  <2>2. CASE Canceled(cur)
    BY <1>9, <2>1, <2>2, EventsEnd DEF ReceiveEvent, Return, Outside
  <2>3. CASE ~Canceled(cur)
    <3>1. run' = "save"
      BY <1>9, <2>3 DEF ReceiveEvent, Continue
    <3>2. saved = pos /\ saved # NoSession
      BY <1>t, <1>o, <2>1, GatewayAssumption DEF OrderInv, Reading
    <3>3. pos' = saved' + 1 /\ pos' <= occurred' /\ saved' # NoSession
      BY <1>t, <2>1, <3>2
    <3>4. OrderInv'
      BY <1>o, <2>1, <3>1, <3>3 DEF OrderInv, EventsInOrder, UpTo, outcome, Reading
    <3>5. Lost' = Lost
      BY <2>1, <3>1 DEF Lost, outcome
    <3> QED
      BY <2>1, <3>1, <3>4, <3>5, LossKept DEF EventInv, Outside
  <2> QED
    BY <2>2, <2>3
<1>10. CASE SaveSequence
  <2>1. /\ UNCHANGED <<outcome, pos, occurred, base, cur>> /\ cur > 0 /\ run = "save"
        /\ saved' \in {saved, pos}
    BY <1>t, <1>10
    DEF SaveSequence, Return, Continue, discord, RunOK, Outside
  <2>2. saved # NoSession /\ pos = saved + 1 /\ pos <= occurred /\ base <= saved
        /\ saved \in Nat /\ UpTo(saved)
    BY <1>t, <1>o, <2>1 DEF OrderInv
  <2>3. UpTo(pos - 1) /\ UpTo(pos) /\ pos # NoSession
    <3>1. saved = pos - 1
      BY <1>t, <2>2
    <3>2. ASSUME NEW k \in 1 .. Len(handled) PROVE handled[k] <= pos
      <4>1. handled[k] <= saved
        BY <2>2 DEF UpTo
      <4>2. handled[k] \in Nat
        BY <1>n
      <4> QED
        BY <1>t, <2>2, <4>1, <4>2
    <3> QED
      BY <1>t, <2>2, <3>1, <3>2, GatewayAssumption DEF UpTo
  <2>4. Lost' \subseteq Lost \cup {pos}
    BY <1>t, <2>1, <2>2, <2>3 DEF Lost, outcome
  <2>5. CASE saved' = pos /\ run' = "process"
    <3>1. Lost' \subseteq Lost
      BY <2>1, <2>4, <2>5 DEF Lost, outcome
    <3>2. OrderInv'
      BY <1>t, <1>o, <2>1, <2>2, <2>3, <2>5 DEF OrderInv, EventsInOrder, UpTo, outcome, Reading
    <3> QED
      BY <2>1, <3>1, <3>2, LossKept DEF EventInv, Outside
  <2>6. CASE run' = "top"
    <3>1. OrderInv'
      BY <1>t, <1>o, <2>1, <2>2, <2>3, <2>6 DEF OrderInv, EventsInOrder, UpTo, outcome, Reading
    <3>2. Cardinality(Lost) <= cur - 1
      BY <1>o, <2>1 DEF LossInv, Outside
    <3>3. Cardinality(Lost') <= cur
      <4>1. Cardinality(Lost') \in Nat /\ Cardinality(Lost') <= Cardinality(Lost) + 1
        BY <2>4, LostGrows
      <4> QED
        BY <1>t, <3>2, <4>1, LostCounts
    <3> QED
      BY <2>1, <2>6, <3>1, <3>3 DEF EventInv, LossInv, Outside
  <2> QED
    BY <1>10, <2>5, <2>6 DEF SaveSequence, Return, Continue
<1>11. CASE ProcessEvent
  <2>1. /\ UNCHANGED <<saved, occurred, base, pos, cur, job>> /\ cur > 0 /\ run = "process"
    BY <1>t, <1>11 DEF ProcessEvent, Return, Continue, discord, RunOK, Outside
  <2>2. saved = pos /\ saved # NoSession /\ UpTo(pos - 1) /\ UpTo(pos) /\ UpTo(occurred)
        /\ pos <= occurred /\ base <= pos
    BY <1>t, <1>o, <2>1, GatewayAssumption DEF OrderInv, Reading
  <2>3. Cardinality(Lost) <= cur - 1
    BY <1>o, <2>1 DEF LossInv, Outside
  <2>4. CASE handled' = Append(handled, pos) /\ UNCHANGED failed /\ Continue("receive")
    <3>0. pos \in 1 .. MaxEvents
      BY <1>t, <2>1 DEF TypeInv, TypeOK, RunOK
    <3>1. /\ Len(handled') = Len(handled) + 1 /\ Len(handled) \in Nat
          /\ \A k \in 1 .. Len(handled) : handled'[k] = handled[k]
          /\ handled'[Len(handled) + 1] = pos
      BY <1>h, <2>4, <3>0
    <3>2. \A k \in 1 .. Len(handled) : handled[k] < pos
      <4> SUFFICES ASSUME NEW k \in 1 .. Len(handled) PROVE handled[k] < pos
        OBVIOUS
      <4>1. handled[k] <= pos - 1
        BY <2>2 DEF UpTo
      <4>2. handled[k] \in Nat
        BY <1>n
      <4> QED
        BY <1>t, <4>1, <4>2
    <3>3. EventsInOrder'
      BY <1>o, <3>1, <3>2 DEF OrderInv, EventsInOrder
    <3>4. UpTo(pos)'
      <4> SUFFICES ASSUME NEW k \in 1 .. Len(handled') PROVE handled'[k] <= pos
        BY <2>1 DEF UpTo
      <4>1. CASE k \in 1 .. Len(handled)
        BY <2>2, <3>1, <4>1 DEF UpTo
      <4>2. CASE k = Len(handled) + 1
        BY <1>t, <3>1, <4>2
      <4> QED
        BY <3>1, <4>1, <4>2
    <3>5. UpTo(occurred)'
      <4> SUFFICES ASSUME NEW k \in 1 .. Len(handled') PROVE handled'[k] <= occurred
        BY <2>1 DEF UpTo
      <4>1. CASE k \in 1 .. Len(handled)
        BY <2>2, <3>1, <4>1 DEF UpTo
      <4>2. CASE k = Len(handled) + 1
        BY <2>2, <3>1, <4>2
      <4> QED
        BY <3>1, <4>1, <4>2
    <3>6. run' = "receive"
      BY <2>4 DEF Continue
    <3>7. OrderInv'
      BY <2>1, <2>2, <3>3, <3>4, <3>5, <3>6 DEF OrderInv, UpTo, Reading
    <3>8. Lost' \subseteq Lost
      BY <2>1, <2>2, <2>4, <3>1, <3>6 DEF Lost, outcome
    <3> QED
      BY <2>1, <3>6, <3>7, <3>8, LossKept DEF EventInv, Outside
  <2>5. CASE failed' = failed \cup {pos} /\ UNCHANGED handled /\ Continue("receive")
    <3>1. run' = "receive"
      BY <2>5 DEF Continue
    <3>2. OrderInv'
      BY <1>o, <2>1, <2>2, <2>5, <3>1 DEF OrderInv, EventsInOrder, UpTo, outcome, Reading
    <3>3. Lost' \subseteq Lost
      BY <2>1, <2>5, <3>1 DEF Lost, outcome
    <3> QED
      BY <2>1, <3>1, <3>2, <3>3, LossKept DEF EventInv, Outside
  <2>6. CASE UNCHANGED outcome /\ Return
    BY <2>1, <2>6, EventsEnd DEF Return, Outside
  <2> QED
    BY <1>11, <2>4, <2>5, <2>6 DEF ProcessEvent
<1>12. CASE HeartbeatRequested \/ ForceHeartbeat
  <2>1. /\ UNCHANGED <<job, saved, outcome, occurred, base, pos, cur>> /\ cur > 0
        /\ run \in {"receive", "beat"} /\ run' \in {"receive", "beat"}
    BY <1>t, <1>12
    DEF HeartbeatRequested, ForceHeartbeat, Receives, Continue, stored, outcome, discord, RunOK, Outside
  <2>2. OrderInv'
    BY <1>o, <2>1 DEF OrderInv, EventsInOrder, UpTo, outcome, Reading
  <2>3. Lost' = Lost
    BY <2>1 DEF Lost, outcome
  <2> QED
    BY <2>1, <2>2, <2>3, LossKept DEF EventInv, Outside
<1>13. CASE InvalidSession
  <2>1. UNCHANGED <<outcome, occurred, base, pos, cur>> /\ run' = "top" /\ cur > 0
    BY <1>t, <1>13 DEF InvalidSession, Receives, Return, discord, RunOK, Outside
  <2>2. CASE UNCHANGED saved
    BY <2>1, <2>2, EventsEnd DEF Outside
  <2>3. CASE saved' = NoSession
    <3>1. Cardinality(Lost') = 0
      BY <2>3, FS_EmptySet DEF Lost, outcome
    <3>2. OrderInv'
      BY <1>o, <2>1, <2>3 DEF OrderInv, EventsInOrder, UpTo, outcome, Reading
    <3> QED
      BY <1>t, <2>1, <3>1, <3>2 DEF EventInv, LossInv
  <2> QED
    BY <1>13, <2>2, <2>3 DEF InvalidSession
<1>14. CASE ReconnectRequested \/ ReceiveFails
  BY <1>14, EventsEnd DEF ReconnectRequested, ReceiveFails, Return, stored, outcome, discord, Outside
<1> QED
  BY <1>1, <1>2, <1>3, <1>4, <1>5, <1>6, <1>7, <1>8, <1>9, <1>10, <1>11, <1>12, <1>13, <1>14
  DEF Next, RunStep, Receive, InstanceStep

LEMMA EventInit == Init => EventInv
<1> SUFFICES ASSUME Init PROVE EventInv
  OBVIOUS
<1>1. handled = <<>> /\ saved = NoSession /\ run = "top" /\ cur = 0
  BY DEF Init
<1>2. Cardinality(Lost) = 0
  BY <1>1, FS_EmptySet DEF Lost, outcome
<1>3. OrderInv
  BY <1>1 DEF OrderInv, EventsInOrder, UpTo, outcome, Reading
<1> QED
  BY <1>1, <1>2, <1>3 DEF EventInv, LossInv, Outside

(* Over any number of connections, resumes and restarts, no event is       *)
(* processed twice and none before an earlier one (gateway.go:207).        *)
THEOREM EventsStayInOrder == Spec => []EventsInOrder
<1>1. EventInv => EventsInOrder
  BY DEF EventInv, OrderInv
<1> QED
  BY TypeInit, TypeNext, EventInit, EventNext, <1>1, PTL DEF Spec

(* Every connection skips at most one event, however it ends; the others   *)
(* are processed, or their failure is logged (gateway.go:207, 642).        *)
THEOREM LossIsBounded == Spec => []LossBound
<1>1. TypeInv /\ EventInv => LossBound
  <2> SUFFICES ASSUME TypeInv, EventInv PROVE LossBound
    OBVIOUS
  <2>1. cur \in Nat /\ Cardinality(Lost) \in Nat
    BY LostCounts DEF TypeInv, TypeOK
  <2> QED
    BY <2>1 DEF EventInv, LossInv, LossBound
<1> QED
  BY TypeInit, TypeNext, EventInit, EventNext, <1>1, PTL DEF Spec
=============================================================================
