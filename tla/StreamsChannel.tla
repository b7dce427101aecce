---------------------------- MODULE StreamsChannel ----------------------------
(***************************************************************************)
(* What a Discord channel shows of the streams.  Every job of the Twitch   *)
(* monitor ends in notifyDiscordOfLiveStream (src/src/twitch/twitch.go):   *)
(* it posts the histories of streams that ended, or edits their messages,  *)
(* and UpdateStreamers (src/src/discord/streams.go) replaces, edits or     *)
(* deletes the message that lists who is live.  The loop and the timers do *)
(* so at the same time, each reading first and writing later, and          *)
(* moderators delete messages.                                             *)
(*                                                                         *)
(* Only streams about programming are here: of the others, no message is   *)
(* ever sent.  Their statuses are changed by module TwitchMonitor's jobs,  *)
(* here at any time.  A message that lists streams shows whose they are;   *)
(* one about a past stream shows whether there is a video of it.           *)
(***************************************************************************)
EXTENDS Integers, Sequences, FiniteSets, SequencesExt

CONSTANTS
  Broadcasters,  \* the streamers
  Ticker,        \* the loop of the monitor, which never stops asking
  OtherJobs,     \* bound: its timers that are busy at a time
  MaxMessages,   \* bound: messages in the channel at a time
  Bounds         \* bound: whose statuses change, which jobs there are, and how many
                 \* streams, news and mishaps

VARIABLE bound   \* the one of Bounds that holds

PastStream == 1 .. bound.past    \* by started_at
Notifier == {Ticker} \cup OtherJobs

ASSUME ChannelAssumption ==
  /\ MaxMessages \in Nat
  /\ \A b \in Bounds : /\ b.broadcasters \subseteq Broadcasters /\ b.jobs \subseteq Notifier
                       /\ {b.past, b.news, b.mishaps} \subseteq Nat
  /\ Ticker \notin OtherJobs /\ IsFiniteSet(OtherJobs)

VARIABLES
  onAir,      \* whose row in twitch_latest_status is live
  history,    \* twitch_stream_history
  channel,    \* the messages of the channel, in order
  listed,     \* discord_livestream_message: a message and whom it lists
  task,       \* what each job is doing
  news,       \* history: changes of a status or a history, and jobs about them
  mishaps,    \* history: failures, crashes, messages deleted by hand
  lost,       \* history: streams an update of which was overwritten
  slips       \* history: times the tables lost track of a message

channelVars == <<onAir, history, channel, listed, task, news, mishaps, lost, slips, bound>>

NewHistory == [known |-> FALSE, ended |-> FALSE, needs |-> FALSE, vod |-> "none", msg |-> 0]
NotListed == [msg |-> 0, who |-> {}]
AtRest == [pc |-> "idle", st |-> 0, over |-> FALSE, read |-> NewHistory, batch |-> {},
           posted |-> {}, list |-> {}, old |-> NotListed, msg |-> 0]

ChannelInit ==
  /\ bound \in Bounds
  /\ onAir = {} /\ history = [st \in PastStream |-> NewHistory]
  /\ channel = <<>> /\ listed = NotListed
  /\ task = [p \in Notifier |-> AtRest]
  /\ news = 0 /\ mishaps = 0 /\ lost = {} /\ slips = 0

Messages == {channel[i].id : i \in DOMAIN channel}
Without(id) ==
  IF id \in Messages THEN RemoveAt(channel, CHOOSE i \in DOMAIN channel : channel[i].id = id)
  ELSE channel
Edited(m) == [i \in DOMAIN channel |-> IF channel[i].id = m.id THEN m ELSE channel[i]]
ListMessage(id, who) == [id |-> id, who |-> who, of |-> 0, vod |-> FALSE]
PastMessage(id, st, h) == [id |-> id, who |-> {}, of |-> st, vod |-> h.vod = "found"]

\* Discord gives a message an id that no other has: here, one that nobody remembers.
Remembered ==
  Messages \cup {listed.msg} \cup {history[st].msg : st \in PastStream}
    \cup UNION {{task[p].msg, task[p].old.msg} \cup {e.msg : e \in task[p].posted}
                  \cup {e.read.msg : e \in task[p].batch} : p \in Notifier}
NewId == CHOOSE id \in 1 .. Cardinality(Remembered) + 1 : id \notin Remembered

\* The job posts a message, and is j from then on.
Post(p, m, j) ==
  /\ Len(channel) < MaxMessages
  /\ channel' = Append(channel, m)
  /\ task' = [task EXCEPT ![p] = j]

Goes(p, pc) == task' = [task EXCEPT ![p].pc = pc]
Ends(p) == task' = [task EXCEPT ![p] = AtRest]
-----------------------------------------------------------------------------
(* The monitor's tables *)

\* saveLatestStreamStatus, or the DELETE of streamers no longer tracked.
ChangeStatus(s) ==
  /\ onAir' = IF s \in onAir THEN onAir \ {s} ELSE onAir \cup {s}
  /\ UNCHANGED <<history, task, lost>>

\* updateStreamHistory reads the history, which there may not be, and writes what it
\* has made of it; over: the status says so.
ReadHistory(p, st, over) ==
  /\ task[p] = AtRest
  /\ task' = [task EXCEPT ![p] = [AtRest EXCEPT !.pc = "upsert", !.st = st, !.over = over,
                                                !.read = history[st]]]
  /\ UNCHANGED <<onAir, history, lost>>

WriteHistory(p) ==
  LET st == task[p].st
      read == task[p].read
      ended == read.ended \/ task[p].over
      needs == read.needs \/ ~read.known \/ (ended /\ ~read.ended)
  IN /\ task[p].pc = "upsert"
     /\ history' = [history EXCEPT ![st].known = TRUE, ![st].ended = ended, ![st].needs = needs]
     /\ lost' = IF (history[st].ended /\ ~ended) \/ (history[st].needs /\ ~needs)
                THEN lost \cup {st} ELSE lost
     /\ task' = [task EXCEPT ![p] = [AtRest EXCEPT !.pc = "notify"]]
     /\ UNCHANGED <<onAir, channel, listed, slips>>

\* findHistoryVOD finds the video of a stream, perhaps again, or gives up after two
\* weeks, of which Discord learns nothing; verifyHistoryVODs finds that it is gone.
ChangeVOD(st) ==
  /\ history[st].known
  /\ LET Found(vod, needs) == history' = [history EXCEPT ![st].vod = vod, ![st].needs = needs]
     IN \/ history[st].vod # "gone" /\ Found("found", TRUE)
        \/ history[st].vod = "none" /\ Found("gone", history[st].needs)
        \/ history[st].vod = "found" /\ Found("gone", TRUE)
  /\ UNCHANGED <<onAir, task, lost>>

\* A job that changes no history; the loop has one every two hours.
Notify(p) ==
  /\ task[p] = AtRest
  /\ Goes(p, "notify")
  /\ UNCHANGED <<onAir, history, lost>>
-----------------------------------------------------------------------------
(* notifyDiscordOfLiveStream *)

First(entries) == CHOOSE e \in entries : \A f \in entries : e.st <= f.st

\* Where the job goes when it has posted its batch, or marked what it posted.
Posting(j) ==
  [j EXCEPT !.pc = IF j.batch # {} THEN "post" ELSE IF j.posted # {} THEN "mark" ELSE "streams"]

QueryHistories(p) ==
  LET needy == {[st |-> st, read |-> history[st], msg |-> history[st].msg] :
                  st \in {st \in PastStream : history[st].needs}}
      over == {e \in needy : e.read.ended}
  IN /\ task[p].pc = "notify"
     /\ task' = [task EXCEPT ![p] = Posting([@ EXCEPT !.batch = over, !.posted = needy \ over])]
     /\ UNCHANGED <<onAir, history, channel, listed, lost, slips>>

\* What a job has posted and not yet said so.
Unmarked(j) == {e \in j.posted : e.msg # e.read.msg}

\* The messages that a job alone knows of.
InHand(j) ==
  {e.msg : e \in Unmarked(j)} \cup IF j.pc = "store" /\ j.msg # j.old.msg THEN {j.msg} ELSE {}

\* Something of the history changed after e was read.
Outdated(e) ==
  \/ history[e.st].ended # e.read.ended
  \/ (history[e.st].vod = "found") # (e.read.vod = "found")
Loses(e) == lost' = IF Outdated(e) THEN lost \cup {e.st} ELSE lost

\* PostStreamHistory: a message that is gone cannot be edited, and ends the job.
PostHistory(p) ==
  LET e == First(task[p].batch)
      Next(msg) == Posting([task[p] EXCEPT !.batch = @ \ {e}, !.posted = @ \cup {[e EXCEPT !.msg = msg]}])
      Message(id) == PastMessage(id, e.st, e.read)
  IN /\ task[p].pc = "post"
     /\ \/ /\ e.msg = 0
           /\ Post(p, Message(NewId), Next(NewId))
           /\ UNCHANGED slips
        \/ /\ e.msg \in Messages
           /\ channel' = Edited(Message(e.msg))
           /\ task' = [task EXCEPT ![p] = Next(e.msg)]
           /\ UNCHANGED slips
        \/ /\ e.msg \notin Messages \cup {0}
           /\ Ends(p)
           /\ slips' = slips + Cardinality(InHand(task[p]))
           /\ UNCHANGED channel
     /\ Loses(e)
     /\ UNCHANGED <<onAir, history, listed>>

AllInHand == UNION {InHand(task[p]) : p \in Notifier}

MarkPosted(p) ==
  LET e == First(task[p].posted)
  IN /\ task[p].pc = "mark"
     /\ history' = [history EXCEPT ![e.st].needs = FALSE, ![e.st].msg = e.msg]
     /\ Loses(e)
     /\ slips' = IF history[e.st].msg \in {e.read.msg, e.msg} THEN slips ELSE slips + 1
     /\ task' = [task EXCEPT ![p] = Posting([task[p] EXCEPT !.posted = @ \ {e}])]
     /\ UNCHANGED <<onAir, channel, listed>>

QueryStreams(p) ==
  /\ task[p].pc = "streams"
  /\ task' = [task EXCEPT ![p].pc = "fetch", ![p].list = onAir]
  /\ UNCHANGED <<onAir, history, channel, listed, lost, slips>>
-----------------------------------------------------------------------------
(* UpdateStreamers *)

FetchListed(p) ==
  /\ task[p].pc = "fetch"
  /\ task' = [task EXCEPT ![p].pc = "look", ![p].old = listed]
  /\ UNCHANGED <<onAir, history, channel, listed, lost, slips>>

\* A message that is not the last one is edited too.
EditableAnywhere(old, list) == old.msg \in Messages /\ list \subseteq old.who

\* The message can be edited: it is there, lists everybody, and is the last one.
Editable(old, list) ==
  /\ old.msg \in Messages
  /\ list \subseteq old.who
  /\ Last(channel).id = old.msg

LookAtChannel(p) ==
  LET old == task[p].old
      list == task[p].list
  IN /\ task[p].pc = "look"
     /\ IF list = {}
        THEN IF old.msg = 0 THEN Ends(p) ELSE Goes(p, "delete")
        ELSE Goes(p, IF Editable(old, list) THEN "edit"
                     ELSE IF old.msg = 0 THEN "create" ELSE "replace")
     /\ UNCHANGED <<onAir, history, channel, listed, lost, slips>>

\* Nobody is live.  A message that is gone already is an error, and stays listed.
DeleteListed(p) ==
  /\ task[p].pc = "delete"
  /\ channel' = Without(task[p].old.msg)
  /\ IF task[p].old.msg \in Messages THEN Goes(p, "remove") ELSE Ends(p)
  /\ UNCHANGED <<onAir, history, listed, lost, slips>>

RemoveListed(p) ==
  /\ task[p].pc = "remove"
  /\ listed' = NotListed
  /\ slips' = IF listed.msg = task[p].old.msg THEN slips ELSE slips + 1
  /\ Ends(p)
  /\ UNCHANGED <<onAir, history, channel, lost>>

EditListed(p) ==
  LET id == task[p].old.msg
  IN /\ task[p].pc = "edit"
     /\ channel' = Edited(ListMessage(id, task[p].list))
     /\ IF id \in Messages THEN task' = [task EXCEPT ![p].pc = "store", ![p].msg = id] ELSE Ends(p)
     /\ UNCHANGED <<onAir, history, listed, lost, slips>>

\* The old message stays where it is.
ReplaceKeepingOld(p) ==
  /\ task[p].pc = "replace"
  /\ Goes(p, "create")
  /\ UNCHANGED <<onAir, history, channel, listed, lost, slips>>

\* A DELETE that fails is logged.
ReplaceListed(p) ==
  /\ task[p].pc = "replace"
  /\ channel' = Without(task[p].old.msg)
  /\ Goes(p, "create")
  /\ UNCHANGED <<onAir, history, listed, lost, slips>>

CreateListed(p) ==
  /\ task[p].pc = "create"
  /\ Post(p, ListMessage(NewId, task[p].list), [task[p] EXCEPT !.pc = "store", !.msg = NewId])
  /\ UNCHANGED <<onAir, history, listed, lost, slips>>

StoreListed(p) ==
  /\ task[p].pc = "store"
  /\ listed' = [msg |-> task[p].msg, who |-> task[p].list]
  /\ slips' = IF listed.msg \in {task[p].old.msg, task[p].msg} THEN slips ELSE slips + 1
  /\ Ends(p)
  /\ UNCHANGED <<onAir, history, channel, lost>>
-----------------------------------------------------------------------------
(* Mishaps *)

\* A moderator of the channel.
DeleteByHand(id) ==
  /\ id \in Messages
  /\ channel' = Without(id)
  /\ UNCHANGED <<task, slips>>

\* A statement or a call fails.  If it is the DELETE of a list message that is about
\* to be replaced, the job goes on.
FailNotify(p) ==
  /\ task[p].pc # "idle"
  /\ IF task[p].pc = "replace" THEN Goes(p, "create") ELSE Ends(p)
  /\ slips' = slips + IF task[p].pc = "replace" THEN 1 ELSE Cardinality(InHand(task[p]))
  /\ UNCHANGED channel

Crash ==
  /\ task' = [p \in Notifier |-> AtRest]
  /\ slips' = slips + Cardinality(AllInHand)
  /\ UNCHANGED channel
-----------------------------------------------------------------------------
NotifyStep(p) ==
  /\ \/ WriteHistory(p) \/ QueryHistories(p) \/ PostHistory(p) \/ MarkPosted(p)
     \/ QueryStreams(p) \/ FetchListed(p) \/ LookAtChannel(p) \/ DeleteListed(p)
     \/ RemoveListed(p) \/ EditListed(p) \/ ReplaceListed(p) \/ CreateListed(p) \/ StoreListed(p)
  /\ UNCHANGED <<news, mishaps, bound>>

TickNotify ==
  Ticker \in bound.jobs /\ Notify(Ticker) /\ UNCHANGED <<channel, listed, news, mishaps, slips, bound>>

News ==
  /\ news < bound.news /\ news' = news + 1
  /\ \/ \E s \in bound.broadcasters : ChangeStatus(s)
     \/ \E st \in PastStream : ChangeVOD(st)
     \/ \E p \in bound.jobs, st \in PastStream, over \in BOOLEAN : ReadHistory(p, st, over)
     \/ \E p \in bound.jobs \ {Ticker} : Notify(p)
  /\ UNCHANGED <<channel, listed, mishaps, slips, bound>>

Mishap ==
  /\ mishaps < bound.mishaps /\ mishaps' = mishaps + 1
  /\ Crash \/ (\E p \in Notifier : FailNotify(p)) \/ (\E id \in Messages : DeleteByHand(id))
  /\ UNCHANGED <<onAir, history, listed, news, lost, bound>>

ChannelNext == (\E p \in Notifier : NotifyStep(p)) \/ TickNotify \/ News \/ Mishap

ChannelFairness ==
  /\ \A p \in Notifier : WF_channelVars(NotifyStep(p))
  /\ WF_channelVars(TickNotify)

ChannelSpec == ChannelInit /\ [][ChannelNext]_channelVars /\ ChannelFairness
-----------------------------------------------------------------------------
\* The messages that the tables know of.
Recorded == {listed.msg} \cup {history[st].msg : st \in PastStream}

(***************************************************************************)
(* The channel has no messages that the site has forgotten, other than one *)
(* for each time a job died, or another one overwrote its message's id,    *)
(* between posting a message and saving the id, and those a job has in     *)
(* hand.  UpdateStreamers' comment promises one list that is replaced, and *)
(* the ids are saved after the fact (twitch.go:496, streams.go:150).       *)
(***************************************************************************)
ChannelBound == Cardinality(Messages \ Recorded) <= slips + Cardinality(AllInHand)

\* A history whose message was deleted: no job gets past it to the list of who is live.
Stuck ==
  \E st \in PastStream : /\ history[st].needs /\ history[st].ended
                        /\ history[st].msg \notin Messages \cup {0}

ListRight ==
  IF onAir = {} THEN listed.msg \notin Messages
  ELSE /\ listed.msg \in Messages /\ Last(channel).id = listed.msg
       /\ Last(channel).who = onAir

PostsRight ==
  \A st \in PastStream \ lost :
    history[st].ended =>
      /\ history[st].msg # 0
      /\ \A i \in DOMAIN channel :
           channel[i].id = history[st].msg => channel[i].vod = (history[st].vod = "found")

(***************************************************************************)
(* When no more news come, the last message of the channel lists who is    *)
(* live and nobody else (there is none when nobody is), and every stream   *)
(* that ended has been posted, with its video if there is one: whatever    *)
(* the jobs did at the same time, the loop's next round puts it right.     *)
(* The exceptions: an update of a history that a job overwrote with what   *)
(* it had read before, and a history whose message a moderator deleted,    *)
(* which stops every job before it comes to the list (twitch.go:485).      *)
(***************************************************************************)
ChannelSettles == <>[](Stuck \/ (ListRight /\ PostsRight))
=============================================================================
