----------------------------- MODULE TwitchMonitor -----------------------------
(***************************************************************************)
(* Who is live on Twitch (src/src/twitch/twitch.go).  Twitch tells the     *)
(* site by hooks, and answers its questions, with a lag.  A loop handles   *)
(* the hooks and, every two hours, asks for everything; timers ask on      *)
(* goroutines of their own.  Each of these jobs reads and writes, in       *)
(* statements of their own, the latest status of a streamer and the        *)
(* history of a stream.  What it then shows on Discord, and the titles and *)
(* videos of streams, are module StreamsChannel.                           *)
(*                                                                         *)
(* Streams are numbered in the order they start; 0 is none.                *)
(***************************************************************************)
EXTENDS Integers, Sequences, FiniteSets

CONSTANTS
  Streamers,
  Loop,        \* the goroutine of MonitorTwitchSubscriptions
  Timers,      \* bound: timers set at a time
  QueueSize,   \* capacity of twitchNotificationChannel
  Limits,      \* whether there is a configuration; and bounds: who is tracked at first, and
               \* who may be; how many streams there are, and how many hooks, changes of
               \* links, revocations, failures and crashes
  NoStreamer,
  NoRow,       \* no row in twitch_latest_status
  Untouched    \* a transaction has not written the row

ASSUME MonitorAssumption ==
  /\ \A l \in Limits : /\ l.tracked \subseteq l.streamers /\ l.streamers \subseteq Streamers
                       /\ l.timers \subseteq Timers
                       /\ {l.streams, l.events} \subseteq Nat /\ l.configured \in BOOLEAN
  /\ Loop \notin Timers /\ NoStreamer \notin Streamers

VARIABLE limit   \* the one of Limits that holds

Stream == 1 .. limit.streams
Job == {Loop} \cup Timers

VARIABLES
  twitch,     \* each streamer's current or last stream, and whether he is live
  api,        \* the same, as Twitch answers when asked
  started,    \* whose each stream is
  subbed,     \* streamers whose events Twitch sends
  tracked,    \* FetchTwitchStreamers
  saving,     \* whose links a form's transaction changes that has not committed
  linked,     \* linksChangedChannel holds a value, or several
  queue,      \* twitchNotificationChannel
  row,        \* twitch_latest_status
  past,       \* twitch_stream_history: no row, an open one, or one that ended
  job,        \* what the loop and the timers are doing
  events,     \* history: how many of them there have been
  disturbed   \* history: streams an update of which was lost, cut or misled

world == <<twitch, api, started, subbed>>
forms == <<tracked, saving>>
inputs == <<queue, linked>>
tables == <<row, past>>
monitorVars == <<world, forms, inputs, tables, job, events, disturbed, limit>>

\* twitch_latest_status as a new row has it; hooked: last_hook_live_update is less
\* than three minutes old.
NewRow == [live |-> FALSE, stream |-> 0, hooked |-> FALSE]

NotLive == [type |-> "rest", live |-> FALSE, stream |-> 0]

Idle == [pc |-> "idle", sync |-> FALSE, all |-> FALSE, who |-> {}, subs |-> {},
         answers |-> <<>>, rows |-> <<>>, pasts |-> <<>>,
         s |-> NoStreamer, got |-> NotLive, read |-> NoRow, latest |-> NewRow,
         wrap |-> FALSE, hist |-> "none"]

\* Without a configuration the monitor ends at once.
Starting ==
  [p \in Job |-> IF p # Loop THEN Idle
                 ELSE [Idle EXCEPT !.pc = IF limit.configured THEN "start" ELSE "ended"]]

MonitorInit ==
  /\ limit \in Limits
  /\ twitch = [s \in Streamers |-> [live |-> FALSE, stream |-> 0]] /\ api = twitch
  /\ started = <<>> /\ subbed = {}
  /\ tracked = limit.tracked /\ saving = NoStreamer
  /\ queue = <<>> /\ linked = FALSE
  /\ row = [s \in Streamers |-> NoRow] /\ past = [st \in Stream |-> "none"]
  /\ job = Starting
  /\ events = 0 /\ disturbed = {}
-----------------------------------------------------------------------------
(* Twitch *)

GoLive(s) ==
  /\ ~twitch[s].live /\ Len(started) < limit.streams
  /\ started' = Append(started, s)
  /\ twitch' = [twitch EXCEPT ![s] = [live |-> TRUE, stream |-> Len(started')]]
  /\ UNCHANGED <<api, subbed>>

GoOffline(s) ==
  /\ twitch[s].live
  /\ twitch' = [twitch EXCEPT ![s].live = FALSE]
  /\ UNCHANGED <<api, started, subbed>>

ApiCatchesUp(s) ==
  /\ api[s] # twitch[s]
  /\ api' = [api EXCEPT ![s] = twitch[s]]
  /\ UNCHANGED <<twitch, started, subbed>>

\* A streamer in the answer to getStreamStatus, which has only those who are live.
Answer(s) ==
  IF api[s].live THEN [type |-> "rest", live |-> TRUE, stream |-> api[s].stream] ELSE NotLive

\* Twitch sends hooks about what has happened, in any order, again, or not at all.
Hook(type, s, st) == [type |-> type, s |-> s, live |-> type = "online", stream |-> st]
Sent ==
  {Hook("online", started[st], st) : st \in DOMAIN started}
    \cup {Hook("offline", s, 0) : s \in {s \in Streamers : \E st \in DOMAIN started :
            started[st] = s /\ (~twitch[s].live \/ st < twitch[s].stream)}}
    \cup {Hook("update", s, 0) : s \in Streamers}

\* TwitchEventSubCallback and QueueTwitchNotification: a full channel loses it.
Enqueue(h) == queue' = IF Len(queue) < QueueSize THEN Append(queue, h) ELSE queue

Receive ==
  /\ \E h \in Sent : h.s \in subbed /\ Enqueue(h)
  /\ UNCHANGED <<world, linked>>

\* Twitch revokes its subscriptions for a streamer, and says so, or not.
Revoke(s) ==
  /\ s \in subbed
  /\ subbed' = subbed \ {s}
  /\ Enqueue(Hook("revocation", NoStreamer, 0)) \/ UNCHANGED queue
  /\ UNCHANGED <<twitch, api, started, linked>>
-----------------------------------------------------------------------------
(* The links of users and projects.  UserOrProjectLinksUpdated is called   *)
(* inside the form's transaction.                                          *)

LinksUpdated(s) ==
  /\ saving = NoStreamer
  /\ saving' = s /\ linked' = TRUE
  /\ UNCHANGED tracked

CommitLinks ==
  /\ saving # NoStreamer
  /\ tracked' = IF saving \in tracked THEN tracked \ {saving} ELSE tracked \cup {saving}
  /\ saving' = NoStreamer
  /\ UNCHANGED linked
-----------------------------------------------------------------------------
(* The tables.  A job in a transaction sees its own writes, keeps the rows *)
(* it has written locked, and shows nothing to the others until it commits. *)

InTransaction(p) == job[p].rows # <<>>
RowOf(p, s) == IF InTransaction(p) /\ job[p].rows[s] # Untouched THEN job[p].rows[s] ELSE row[s]
PastOf(p, st) ==
  IF InTransaction(p) /\ job[p].pasts[st] # Untouched THEN job[p].pasts[st] ELSE past[st]

RowLocks(p, s) == {q \in Job \ {p} : InTransaction(q) /\ job[q].rows[s] # Untouched}
PastLocks(p, st) == {q \in Job \ {p} : InTransaction(q) /\ job[q].pasts[st] # Untouched}

\* The job writes r, or h, and goes on as one of next.
WriteRow(p, s, r, next) ==
  \E j \in next :
    IF InTransaction(p) THEN job' = [job EXCEPT ![p] = [j EXCEPT !.rows[s] = r]] /\ UNCHANGED row
    ELSE job' = [job EXCEPT ![p] = j] /\ row' = [row EXCEPT ![s] = r]
WritePast(p, st, h, next) ==
  \E j \in next :
    IF InTransaction(p) THEN job' = [job EXCEPT ![p] = [j EXCEPT !.pasts[st] = h]] /\ UNCHANGED past
    ELSE job' = [job EXCEPT ![p] = j] /\ past' = [past EXCEPT ![st] = h]

Become(p, j) == job' = [job EXCEPT ![p] = j]
Goto(p, pc) == Become(p, [job[p] EXCEPT !.pc = pc])
Disturb(streams) == disturbed' = disturbed \cup (streams \ {0})
StreamOf(r) == IF r = NoRow THEN 0 ELSE r.stream
-----------------------------------------------------------------------------
(* gotStreamOnline, gotStreamOffline, gotChannelUpdate and gotRESTUpdate:  *)
(* what becomes of the row of a streamer.                                  *)

\* An answer that may be older than the last hook is believed.
UpdatedByOldAnswer(got, latest) ==
  CASE got.type = "online" -> [live |-> TRUE, stream |-> got.stream, hooked |-> TRUE]
    [] got.type = "offline" -> [latest EXCEPT !.live = FALSE, !.hooked = TRUE]
    [] got.type = "update" -> [latest EXCEPT !.stream = IF latest.live THEN @ ELSE 0]
    [] got.type = "rest" ->
         [latest EXCEPT !.live = got.live, !.stream = IF got.live THEN got.stream ELSE @]

Updated(got, latest) ==
  CASE got.type = "online" -> [live |-> TRUE, stream |-> got.stream, hooked |-> TRUE]
    [] got.type = "offline" -> [latest EXCEPT !.live = FALSE, !.hooked = TRUE]
    [] got.type = "update" -> [latest EXCEPT !.stream = IF latest.live THEN @ ELSE 0]
    [] got.type = "rest" /\ latest.hooked -> latest
    [] got.type = "rest" /\ ~latest.hooked ->
         [latest EXCEPT !.live = got.live, !.stream = IF got.live THEN got.stream ELSE @]

\* The answer of Twitch wraps nothing up.
WrapsUpOnHook(got, latest) ==
  got.type = "online" /\ latest.live /\ got.stream # latest.stream

\* A stream that was live, and is another one now, is wrapped up first.
WrapsUp(got, latest) ==
  /\ latest.live /\ got.live /\ got.stream # latest.stream
  /\ got.type = "rest" => ~latest.hooked

\* A hook that is not what is the case, or an answer with an older row in mind.
Misled(got, s, r, read) ==
  CASE got.type = "online" -> twitch[s] # [live |-> TRUE, stream |-> got.stream]
    [] got.type = "offline" -> twitch[s].live
    [] got.type = "update" -> FALSE
    [] got.type = "rest" -> r # read /\ ~(r # NoRow /\ r.hooked)

\* fetchLatestStreamStatus, which inserts a row if there is none.
FetchLatest(p) ==
  LET s == job[p].s
      got == job[p].got
      r == IF RowOf(p, s) = NoRow THEN NewRow ELSE RowOf(p, s)
      wraps == WrapsUp(got, r)
      next == [job[p] EXCEPT !.pc = IF wraps THEN "history" ELSE "save", !.got = NotLive,
                             !.read = r, !.latest = Updated(got, r), !.wrap = wraps]
  IN /\ job[p].pc = "fetch"
     /\ IF RowOf(p, s) = NoRow THEN RowLocks(p, s) = {} /\ WriteRow(p, s, r, {next})
        ELSE Become(p, next) /\ UNCHANGED row
     /\ Disturb(IF Misled(got, s, RowOf(p, s), job[p].read)
                THEN {r.stream, twitch[s].stream} ELSE {})
     /\ UNCHANGED <<world, inputs, past>>

\* The user whose status is saved next, in any order, or the end of the transaction.
NextUser(j) ==
  LET users == DOMAIN j.answers
  IN IF users = {} THEN {[j EXCEPT !.pc = "commit", !.s = NoStreamer]}
     ELSE {[j EXCEPT !.pc = "fetch", !.s = s, !.got = j.answers[s].got, !.read = j.answers[s].read,
                     !.answers = [u \in users \ {s} |-> @[u]]] : s \in users}

AfterHistory(j) ==
  IF j.wrap THEN {[j EXCEPT !.pc = "save", !.wrap = FALSE, !.hist = "none"]}
  ELSE IF j.sync THEN NextUser([j EXCEPT !.hist = "none", !.read = NoRow, !.latest = NewRow])
  ELSE {Idle}

AfterSave(j) == IF j.latest.stream = 0 THEN AfterHistory(j) ELSE {[j EXCEPT !.pc = "history"]}

\* saveLatestStreamStatus, whose row may be gone again, or go while it waits for it.
FindLatest(p) ==
  LET s == job[p].s
  IN /\ job[p].pc = "save"
     /\ IF RowOf(p, s) # NoRow THEN Goto(p, "update") /\ UNCHANGED row
        ELSE RowLocks(p, s) = {} /\ WriteRow(p, s, job[p].latest, AfterSave(job[p]))
     /\ Disturb(IF RowOf(p, s) = NoRow THEN {job[p].latest.stream, job[p].read.stream} ELSE {})
     /\ UNCHANGED <<world, inputs, past>>

SaveLatest(p) ==
  LET s == job[p].s
      r == RowOf(p, s)
  IN /\ job[p].pc = "update" /\ RowLocks(p, s) = {}
     /\ IF r # NoRow THEN WriteRow(p, s, job[p].latest, AfterSave(job[p]))
        ELSE (\E j \in AfterSave(job[p]) : Become(p, j)) /\ UNCHANGED row
     /\ Disturb(IF r = job[p].read THEN {}
                ELSE {StreamOf(r), job[p].latest.stream, job[p].read.stream})
     /\ UNCHANGED <<world, inputs, past>>

\* updateStreamHistory, of the stream just saved or of the one wrapped up
HistoryStream(p) == IF job[p].wrap THEN job[p].read.stream ELSE job[p].latest.stream

FetchHistory(p) ==
  /\ job[p].pc = "history"
  /\ Become(p, [job[p] EXCEPT !.pc = "upsert", !.hist = PastOf(p, HistoryStream(p))])
  /\ UNCHANGED <<world, inputs, tables, disturbed>>

UpsertHistory(p) ==
  LET st == HistoryStream(p)
      h == job[p].hist
      over == h = "ended" \/ job[p].wrap \/ ~job[p].latest.live
  IN /\ job[p].pc = "upsert" /\ PastLocks(p, st) = {}
     /\ WritePast(p, st, IF over THEN "ended" ELSE "open", AfterHistory(job[p]))
     /\ Disturb(IF PastOf(p, st) = h THEN {} ELSE {st})
     /\ UNCHANGED <<world, inputs, row>>
-----------------------------------------------------------------------------
(* syncWithTwitch *)

\* The streamers, and whose events Twitch sends.
ReadSubscriptions(p) ==
  /\ job[p].pc = "sync"
  /\ Become(p, [job[p] EXCEPT !.pc = "subscribe", !.who = tracked, !.subs = subbed])
  /\ UNCHANGED <<world, inputs, tables, disturbed>>

Missing(j) == j.who \ j.subs
Resubscribe(j, made) == subbed' = (subbed \ (j.subs \ j.who)) \cup made

\* Each streamer has one subscription here, not one for each kind of event.  Twitch
\* refuses one that another job has made since, which ends this one.
SyncSubscriptions(p) ==
  LET refused == Missing(job[p]) \cap subbed
  IN /\ job[p].pc = "subscribe"
     /\ \/ refused = {} /\ Resubscribe(job[p], Missing(job[p])) /\ Goto(p, "begin")
        \/ /\ refused # {}
           /\ \E made \in SUBSET (Missing(job[p]) \ refused) : Resubscribe(job[p], made)
           /\ Become(p, Idle)
     /\ UNCHANGED <<twitch, api, started, inputs, tables, disturbed>>

\* Rows of streamers that are no longer tracked.
Untracked(j) == {s \in Streamers \ j.who : row[s] # NoRow}

\* Begin, the DELETE of untracked streamers, and the statuses of the others.
BeginSync(p) ==
  LET gone == Untracked(job[p])
      asked == IF job[p].all THEN job[p].who ELSE Missing(job[p])
      begun == [job[p] EXCEPT
                  !.who = {}, !.subs = {},
                  !.rows = [s \in Streamers |-> IF s \in gone THEN NoRow ELSE Untouched],
                  !.pasts = [st \in Stream |-> Untouched],
                  !.answers = [s \in asked |-> [got |-> Answer(s), read |-> row[s]]]]
  IN /\ job[p].pc = "begin"
     /\ \A s \in gone : RowLocks(p, s) = {}
     /\ \E j \in NextUser(begun) : Become(p, j)
     /\ Disturb({row[s].stream : s \in gone})
     /\ UNCHANGED <<world, inputs, tables>>

CommitSync(p) ==
  /\ job[p].pc = "commit"
  /\ row' = [s \in Streamers |-> RowOf(p, s)]
  /\ past' = [st \in Stream |-> PastOf(p, st)]
  /\ Become(p, Idle)
  /\ UNCHANGED <<world, inputs, disturbed>>
-----------------------------------------------------------------------------
(* The loop, and its timers.  A timer that is set is one of Timers in use. *)

Sync(pc, all) == [Idle EXCEPT !.pc = pc, !.sync = TRUE, !.all = all]

FirstRun ==
  /\ job[Loop].pc = "start"
  /\ Become(Loop, Sync("sync", TRUE))
  /\ UNCHANGED inputs

Tick ==
  /\ job[Loop].pc = "idle"
  /\ Become(Loop, Sync("sync", TRUE))
  /\ UNCHANGED inputs

TakeLinks(t) ==
  /\ job[Loop].pc = "idle" /\ linked
  /\ job[t] = Idle
  /\ linked' = FALSE
  /\ Become(t, Sync("set", FALSE))
  /\ UNCHANGED queue

TakeRevocation ==
  /\ job[Loop].pc = "idle" /\ queue # <<>> /\ Head(queue).type = "revocation"
  /\ queue' = Tail(queue)
  /\ Become(Loop, Sync("sync", FALSE))
  /\ UNCHANGED linked

\* The timer is set, then the hook processed, if its streamer is still tracked.
TakeNotification(t) ==
  LET h == Head(queue)
      j == [Idle EXCEPT !.s = h.s]
  IN /\ job[Loop].pc = "idle" /\ queue # <<>> /\ h.type # "revocation"
     /\ job[t] = Idle
     /\ queue' = Tail(queue)
     /\ job' = [job EXCEPT ![t] = [j EXCEPT !.pc = "set"],
                           ![Loop] = IF h.s \in tracked THEN [j EXCEPT !.pc = "fetch", !.got = h]
                                     ELSE Idle]
     /\ UNCHANGED linked

\* It expires: updateStreamStatus asks for the streamer, or a sync for all.
Fire(t) ==
  LET s == job[t].s
  IN /\ job[t].pc = "set"
     /\ Become(t, IF job[t].sync THEN Sync("sync", FALSE)
                  ELSE IF s \in tracked THEN [job[t] EXCEPT !.pc = "fetch", !.got = Answer(s),
                                                            !.read = row[s]]
                  ELSE Idle)
     /\ UNCHANGED inputs

Aged(r) == IF r \in {NoRow, Untouched} THEN r ELSE [r EXCEPT !.hooked = FALSE]

\* A job's copies of the row of s.
AgedJob(j, s) ==
  [j EXCEPT !.read = IF j.s = s THEN Aged(j.read) ELSE j.read,
            !.latest = IF j.s = s THEN Aged(j.latest) ELSE j.latest,
            !.rows = IF j.rows = <<>> THEN <<>> ELSE [j.rows EXCEPT ![s] = Aged(j.rows[s])]]

\* Three minutes after the last hook about s: no answer in use is older.
HooksAge(s) ==
  LET Older(j) == s \in DOMAIN j.answers \/ (j.s = s /\ j.pc = "fetch")
  IN /\ Aged(row[s]) # row[s]
     /\ api[s] = twitch[s] /\ \A p \in Job : ~Older(job[p])
     /\ row' = [row EXCEPT ![s] = Aged(row[s])]
     /\ job' = [p \in Job |-> AgedJob(job[p], s)]
     /\ UNCHANGED <<world, inputs, past, disturbed>>
-----------------------------------------------------------------------------
(* Failures *)

Updating == {"fetch", "save", "update", "history", "upsert"}
Cut(j) == IF j.pc \in Updating THEN {StreamOf(j.read), j.latest.stream} ELSE {}

\* An update ends in an error: the next user follows, or nothing.
GiveUp(p) ==
  /\ \E j \in AfterHistory([job[p] EXCEPT !.wrap = FALSE, !.got = NotLive]) : Become(p, j)
  /\ Disturb(Cut(job[p]))
  /\ UNCHANGED <<world, inputs, tables>>

\* Two jobs insert the row of a streamer: it is there already for the second.
Collide(p) ==
  LET s == job[p].s
      Inserts(q) == job[q].s = s /\ job[q].pc \in {"fetch", "save"}
  IN /\ job[p].pc \in {"fetch", "save"} /\ RowOf(p, s) = NoRow
     /\ \E q \in Job \ {p} : Inserts(q) \/ (q \in RowLocks(p, s) /\ job[q].rows[s] # NoRow)
     /\ GiveUp(p)

\* Synchronisations that wait for each other's rows: PostgreSQL ends the wait of one.
WaitsFor(p) ==
  LET s == job[p].s
  IN CASE job[p].pc = "update" \/ (job[p].pc \in {"fetch", "save"} /\ RowOf(p, s) = NoRow) ->
            RowLocks(p, s)
       [] job[p].pc = "upsert" -> PastLocks(p, HistoryStream(p))
       [] OTHER -> {}

EndDeadlock(p) ==
  /\ \E jobs \in SUBSET Job : p \in jobs /\ \A q \in jobs : WaitsFor(q) \cap jobs # {}
  /\ GiveUp(p)

\* The process ends, and starts anew.
Restart ==
  /\ job' = Starting
  /\ queue' = <<>> /\ linked' = FALSE
  /\ Disturb(UNION {Cut(job[p]) : p \in {p \in Job : ~InTransaction(p)}})
  /\ UNCHANGED <<world, tables>>

\* A statement or a call of a job fails.  Without its first access token the monitor
\* ends.  Some subscriptions may have been made.  With no connection for its
\* transaction a synchronisation goes on to roll back nothing at all: it panics, which
\* the loop recovers and a timer does not.
Fail(p) ==
  LET pc == job[p].pc
  IN \/ /\ pc = "start"
        /\ Goto(p, "ended")
        /\ UNCHANGED <<world, inputs, tables, disturbed>>
     \/ /\ pc = "subscribe"
        /\ \E made \in SUBSET Missing(job[p]) : Resubscribe(job[p], made)
        /\ Become(p, Idle)
        /\ UNCHANGED <<twitch, api, started, inputs, tables, disturbed>>
     \/ /\ pc \in {"sync", "begin", "commit"}
        /\ Become(p, Idle)
        /\ UNCHANGED <<world, inputs, tables, disturbed>>
     \/ pc = "begin" /\ p # Loop /\ Restart
     \/ pc \in Updating /\ GiveUp(p)
-----------------------------------------------------------------------------
TwitchStep ==
  /\ \E s \in limit.streamers : GoLive(s) \/ GoOffline(s) \/ ApiCatchesUp(s)
  /\ UNCHANGED <<forms, inputs, tables, job, events, disturbed, limit>>

LoopStep ==
  /\ \/ FirstRun \/ Tick \/ TakeRevocation
     \/ \E t \in limit.timers : TakeLinks(t) \/ TakeNotification(t) \/ Fire(t)
  /\ UNCHANGED <<world, forms, tables, events, disturbed, limit>>

JobStep(p) ==
  /\ \/ ReadSubscriptions(p) \/ SyncSubscriptions(p) \/ BeginSync(p) \/ CommitSync(p)
     \/ FetchLatest(p) \/ FindLatest(p) \/ SaveLatest(p) \/ FetchHistory(p) \/ UpsertHistory(p)
     \/ Collide(p) \/ EndDeadlock(p)
  /\ UNCHANGED <<forms, events, limit>>

\* Three minutes, or five seconds, pass.
TimeStep ==
  /\ \/ (\E s \in Streamers : HooksAge(s)) /\ UNCHANGED forms
     \/ CommitLinks /\ UNCHANGED <<world, queue, tables, job, disturbed>>
  /\ UNCHANGED <<events, limit>>

EventStep ==
  /\ events < limit.events /\ events' = events + 1
  /\ \/ (Receive \/ \E s \in Streamers : Revoke(s)) /\ UNCHANGED <<forms, tables, job, disturbed>>
     \/ (\E s \in limit.streamers : LinksUpdated(s)) /\ UNCHANGED <<world, queue, tables, job, disturbed>>
     \/ (Restart \/ \E p \in Job : Fail(p)) /\ UNCHANGED forms
  /\ UNCHANGED limit

MonitorNext == TwitchStep \/ LoopStep \/ (\E p \in Job : JobStep(p)) \/ TimeStep \/ EventStep

MonitorFairness ==
  /\ \A p \in Job : SF_monitorVars(JobStep(p))
  /\ WF_monitorVars(FirstRun /\ LoopStep) /\ WF_monitorVars(Tick /\ LoopStep)
  /\ \A t \in Timers : WF_monitorVars(Fire(t) /\ LoopStep)
  /\ \A s \in Streamers : WF_monitorVars(ApiCatchesUp(s) /\ TwitchStep) /\ SF_monitorVars(HooksAge(s) /\ TimeStep)
  /\ WF_monitorVars(CommitLinks /\ TimeStep)

MonitorSpec == MonitorInit /\ [][MonitorNext]_monitorVars /\ MonitorFairness
-----------------------------------------------------------------------------
\* The stream is over, as Twitch knows.
Over(st) == ~(twitch[started[st]].live /\ twitch[started[st]].stream = st)

(***************************************************************************)
(* A history says that a stream ended only if it did: no answer that lags  *)
(* behind the hooks ends a stream, in whichever order hooks, timers and    *)
(* synchronisations come: that is what the three minutes of gotRESTUpdate  *)
(* are for (twitch.go:733).  The exception are streams an update of which  *)
(* was misled by a hook that is late, was cut off, or was overwritten by a *)
(* job that had read before it.                                            *)
(***************************************************************************)
EndedIsOver ==
  \A st \in DOMAIN started : past[st] = "ended" => Over(st) \/ st \in disturbed

ShownLive(s) == row[s] # NoRow /\ row[s].live

StatusRight ==
  /\ \A s \in tracked : ShownLive(s) = twitch[s].live
                        /\ (ShownLive(s) => row[s].stream = twitch[s].stream)
  /\ \A s \in Streamers \ tracked : ~ShownLive(s)
  /\ \A st \in DOMAIN started : past[st] = "open" /\ Over(st) => st \in disturbed

(***************************************************************************)
(* When nothing happens any more on Twitch the site shows who is live, for *)
(* those it tracks and no others, and every other stream as ended, though  *)
(* hooks were lost, late or repeated, jobs overwrote each other's rows,    *)
(* failed or crashed: the loop asks for everything every two hours.  A     *)
(* history that was disturbed may stay open, and a monitor that got no     *)
(* token when it started does nothing (twitch.go:113).                     *)
(***************************************************************************)
StatusSettles == <>[](StatusRight \/ job[Loop].pc = "ended")
=============================================================================
