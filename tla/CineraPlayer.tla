----------------------------- MODULE CineraPlayer -----------------------------
(***************************************************************************)
(* The player of an annotated episode: cinera_player_pre.js.  The video is *)
(* played by YouTube in a frame of its own, which takes commands and tells *)
(* of its state and time later; the page follows it with a marker, and     *)
(* jumps over the markers the filter skips.                                *)
(***************************************************************************)
EXTENDS CineraFilter

CONSTANTS
  Timestamp,   \* of each marker, in order
  HasRef,      \* the markers with a data-ref
  Duration,    \* of the video
  MaxQueue,    \* a bound on commands, and on events, under way
  PlayedOff    \* a bound on the items that are off while the video is followed

ASSUME PlayerAssumption ==
  /\ Duration \in Nat
  /\ DOMAIN Timestamp = Markers
  /\ Timestamp \in Seq(0 .. Duration - 1)
  /\ \A m, n \in Markers : m < n => Timestamp[m] < Timestamp[n]
  /\ HasRef \subseteq Markers

VARIABLES
  \* YouTube's frame
  video,        \* its state and time
  commands,     \* "play" and "pause", not yet taken
  seek,         \* where to seek, or NoTime
  events,       \* states not yet told
  reported,     \* the time the page was told last
  \* the page
  youtubePlayerReady, shouldPlay, playing, buffering, pauseAfterBuffer,
  currentTime,  \* NoTime before it is known
  currentMarker,\* 0 for none
  refsShown,    \* the marker whose references are current, 0 for none
  stored,       \* localStorage: the timestamp to resume at, or NoTime
  frames        \* the next call of doFrame is requested

frameVars == <<video, commands, seek, events, reported>>
playVars == <<shouldPlay, playing, buffering, pauseAfterBuffer>>
markVars == <<currentTime, currentMarker, refsShown, stored>>
playerVars == <<frameVars, youtubePlayerReady, playVars, markVars, frames, filterVars>>

NoTime == -1
NoMarker == 0
LastMarker == Len(Timestamp)

-----------------------------------------------------------------------------
\* The end of the last marker is null, which compares as 0, until the video is
\* known.
EndTime(m) ==
  IF m < LastMarker THEN Timestamp[m + 1]
  ELSE IF youtubePlayerReady THEN Duration ELSE 0

MarkerAt(t) ==
  LET in == {m \in Markers : Timestamp[m] <= t /\ t < EndTime(m)}
  IN IF in = {} THEN NoMarker ELSE CHOOSE m \in in : \A n \in in : m <= n

\* Only one marker is jumped over.
EnteredNext(m) == IF ~playing' \/ m \notin skip \/ m = LastMarker THEN m ELSE m + 1

\* The markers jumped over while playing, and the one that is entered then.
Jumps(m) == m \notin {NoMarker, currentMarker} /\ playing' /\ m \in skip

Entered(m) ==
  IF ~playing' \/ m \notin skip THEN m
  ELSE LET next == {n \in Markers : n > m /\ (n \notin skip \/ n = LastMarker)}
       IN IF next = {} THEN m ELSE CHOOSE n \in next : \A k \in next : n <= k

\* updateProgress enters no marker, and calls onRefChanged without an element.
Throws(t) == MarkerAt(t) = NoMarker /\ currentMarker \in HasRef

\* onRefChanged, with the marker that is entered: a marker with the class skip
\* leaves the references alone.
OnRefChanged(e) ==
  refsShown' = IF e \in skip THEN refsShown ELSE IF e \in HasRef THEN e ELSE NoMarker

\* The timestamp kept for the next visit when a marker is entered.
StoredAlways(m) == Timestamp[m]
Stored(m) == IF m = LastMarker THEN NoTime ELSE Timestamp[m]

\* updateProgress at time t; sought is where the caller seeks.
UpdateProgress(t, sought, kept) ==
  LET m == MarkerAt(t)
      e == Entered(m)
  IN /\ currentTime' = IF Jumps(m) THEN Timestamp[e] ELSE t
     /\ seek' = IF Jumps(m) THEN Timestamp[e] ELSE sought
     /\ IF m \in {NoMarker, currentMarker}
        THEN currentMarker' = m /\ stored' = kept /\ UNCHANGED refsShown
        ELSE currentMarker' = e /\ stored' = Stored(e) /\ OnRefChanged(e)

Play ==
  IF youtubePlayerReady
  THEN /\ commands' = IF playing THEN commands ELSE Append(commands, "play")
       /\ pauseAfterBuffer' = FALSE
       /\ UNCHANGED shouldPlay
  ELSE /\ shouldPlay' = TRUE
       /\ UNCHANGED <<commands, pauseAfterBuffer>>

Pause ==
  IF youtubePlayerReady
  THEN /\ commands' = IF playing THEN Append(commands, "pause") ELSE commands
       /\ pauseAfterBuffer' = (pauseAfterBuffer \/ (~playing /\ buffering))
       /\ UNCHANGED shouldPlay
  ELSE /\ shouldPlay' = FALSE
       /\ UNCHANGED <<commands, pauseAfterBuffer>>

CanCommand == Len(commands) < MaxQueue

PlayerInit ==
  /\ FilterInit
  /\ video = [state |-> "unstarted", time |-> 0]
  /\ commands = <<>> /\ seek = NoTime /\ events = <<>> /\ reported = 0
  /\ youtubePlayerReady = FALSE
  /\ shouldPlay = FALSE /\ playing = FALSE /\ buffering = FALSE
  /\ pauseAfterBuffer = FALSE
  /\ currentTime = NoTime
  /\ currentMarker = NoMarker /\ refsShown = NoMarker
  /\ stored = NoTime
  /\ frames = TRUE

-----------------------------------------------------------------------------
\* YouTube's frame: what the code relies on.
Becomes(new, time) ==
  /\ video' = [state |-> new, time |-> time]
  /\ events' = IF new = video.state THEN events ELSE Append(events, new)

VideoStep ==
  /\ youtubePlayerReady /\ Len(events) < MaxQueue
  /\ \/ /\ video.state = "playing" /\ video.time < Duration
        /\ \E s \in {"playing", "buffering"} : Becomes(s, video.time + 1)
     \/ /\ video.state = "playing" /\ video.time = Duration
        /\ Becomes("ended", video.time)
     \/ /\ video.state = "buffering" /\ Becomes("playing", video.time)
  /\ UNCHANGED <<commands, seek, reported, youtubePlayerReady, playVars, markVars, frames,
                 filterVars>>

TakeCommand ==
  /\ commands # <<>> /\ Len(events) < MaxQueue
  /\ commands' = Tail(commands)
  /\ IF Head(commands) = "pause"
     THEN Becomes(IF video.state \in {"playing", "buffering"} THEN "paused" ELSE video.state,
                  video.time)
     ELSE \E s \in IF video.state \in {"playing", "buffering"} THEN {video.state}
                   ELSE {"playing", "buffering"} :
            Becomes(s, IF video.state = "ended" THEN 0 ELSE video.time)
  /\ UNCHANGED <<seek, reported, youtubePlayerReady, playVars, markVars, frames, filterVars>>

\* A seek plays the video, unless it is paused.
TakeSeek ==
  /\ seek # NoTime /\ Len(events) < MaxQueue
  /\ seek' = NoTime
  /\ \E s \in IF video.state = "paused" THEN {"paused"} ELSE {"playing", "buffering"} :
       Becomes(s, seek)
  /\ UNCHANGED <<commands, reported, youtubePlayerReady, playVars, markVars, frames,
                 filterVars>>

\* The user works the controls in the frame.
UseFrame ==
  /\ youtubePlayerReady /\ Len(events) < MaxQueue
  /\ \/ video.state = "playing" /\ Becomes("paused", video.time)
     \/ video.state = "paused" /\ Becomes("playing", video.time)
     \/ video.state = "paused" /\ \E t \in 0 .. Duration : Becomes("paused", t)
  /\ UNCHANGED <<commands, seek, reported, youtubePlayerReady, playVars, markVars, frames,
                 filterVars>>

Report ==
  /\ reported # video.time
  /\ reported' = video.time
  /\ UNCHANGED <<video, commands, seek, events, youtubePlayerReady, playVars, markVars,
                 frames, filterVars>>

-----------------------------------------------------------------------------
OnYoutubePlayerReady ==
  /\ ~youtubePlayerReady
  /\ youtubePlayerReady' = TRUE
  /\ currentTime' = IF currentTime > Duration THEN Duration ELSE currentTime
  /\ seek' = IF currentTime > 0 THEN currentTime' ELSE seek
  /\ commands' = IF shouldPlay THEN Append(commands, "play") ELSE commands
  /\ UNCHANGED <<video, events, reported, playVars, currentMarker, refsShown, stored,
                 frames, filterVars>>

OnStateChange ==
  /\ events # <<>> /\ CanCommand
  /\ events' = Tail(events)
  /\ playing' = (Head(events) = "playing")
  /\ CASE Head(events) = "playing" ->
            /\ currentTime' = reported
            /\ buffering' = FALSE
            /\ commands' = IF pauseAfterBuffer THEN Append(commands, "pause") ELSE commands
            /\ UNCHANGED <<seek, currentMarker, refsShown, stored>>
       [] Head(events) \in {"paused", "buffering"} ->
            /\ UpdateProgress(reported, seek, stored)
            /\ buffering' = IF Throws(reported) THEN buffering ELSE Head(events) = "buffering"
            /\ UNCHANGED commands
       [] Head(events) = "ended" ->
            \* currentTime is null, which compares as 0.
            /\ UpdateProgress(0, seek, NoTime)
            /\ buffering' = (buffering /\ Throws(0))
            /\ UNCHANGED commands
  /\ UNCHANGED <<video, reported, youtubePlayerReady, shouldPlay, pauseAfterBuffer, frames,
                 filterVars>>

\* A call of doFrame that throws does not ask for the next one.
DoFrame ==
  /\ frames
  /\ \E t \in {IF playing THEN reported ELSE currentTime} :
       /\ playing' = playing
       /\ UpdateProgress(t, seek, stored)
       /\ frames' = ~Throws(t)
       /\ pauseAfterBuffer' = (pauseAfterBuffer /\ ~Jumps(MarkerAt(t)))
  /\ UNCHANGED <<video, commands, events, reported, youtubePlayerReady, shouldPlay,
                 buffering, filterVars>>

\* setTime and play: a click on a marker or a timecode, Enter.  When setTime
\* throws, play is not called.
GoTo(t) ==
  /\ CanCommand
  /\ playing' = playing
  /\ UpdateProgress(t, IF youtubePlayerReady THEN t ELSE seek, stored)
  /\ IF Throws(t) THEN UNCHANGED <<commands, shouldPlay, pauseAfterBuffer>> ELSE Play
  /\ UNCHANGED <<video, events, reported, youtubePlayerReady, buffering, frames, filterVars>>

\* In the current marker, a click goes to where the mouse is.
OnMarkerClick(m) ==
  \/ GoTo(Timestamp[m])
  \/ m = currentMarker /\ \E t \in Timestamp[m] .. EndTime(m) : GoTo(t)

MouseSkipToTimecode == \E t \in 0 .. Duration : GoTo(t)

JumpToNextMarker ==
  GoTo(Timestamp[IF currentMarker = LastMarker THEN LastMarker ELSE currentMarker + 1])

JumpToPrevMarker ==
  GoTo(Timestamp[IF currentMarker <= 1 THEN 1 ELSE currentMarker - 1])

\* A click on a reference, or the key Y.
PauseVideo ==
  /\ CanCommand
  /\ Pause
  /\ UNCHANGED <<video, seek, events, reported, youtubePlayerReady, playing, buffering,
                 markVars, frames, filterVars>>

\* The page is loaded again, at the hash or the timestamp stored.
ReloadPlayer(hash) ==
  /\ video' = [state |-> "unstarted", time |-> 0]
  /\ commands' = <<>> /\ seek' = NoTime /\ events' = <<>> /\ reported' = 0
  /\ youtubePlayerReady' = FALSE
  /\ shouldPlay' = FALSE /\ playing' = FALSE /\ buffering' = FALSE
  /\ pauseAfterBuffer' = FALSE
  /\ currentTime' = IF hash = NoTime THEN stored ELSE hash
  /\ currentMarker' = NoMarker /\ refsShown' = NoMarker
  /\ frames' = TRUE
  /\ UNCHANGED stored
  /\ filterState' = initState /\ offClasses' = [m \in Markers |-> Categories[m] \cap initState]
  /\ filterMode' = "exclusive" /\ skip' = {m \in Markers : offClasses'[m] # {}}
  /\ UNCHANGED initState

UseFilter ==
  /\ FilterNext
  /\ filterState' \in PlayedOff
  /\ UNCHANGED <<frameVars, youtubePlayerReady, playVars, markVars, frames>>

PlayerNext ==
  \/ VideoStep \/ TakeCommand \/ TakeSeek \/ UseFrame \/ Report
  \/ OnYoutubePlayerReady
  \/ OnStateChange
  \/ DoFrame
  \/ \E m \in Markers : OnMarkerClick(m)
  \/ MouseSkipToTimecode
  \/ JumpToNextMarker
  \/ JumpToPrevMarker
  \/ PauseVideo
  \/ \E hash \in {NoTime, Duration} : ReloadPlayer(hash)
  \/ UseFilter

PlayerSpec == PlayerInit /\ [][PlayerNext]_playerVars

-----------------------------------------------------------------------------
(***************************************************************************)
(* The page knows whether the video plays once it was told of every change,*)
(* whatever was commanded, sought and stalled meanwhile; the timestamp to  *)
(* resume at is the current marker's, if there is one, and never that of   *)
(* the last marker: a watched video starts anew.                           *)
(***************************************************************************)
PlayerFollowsVideo ==
  /\ events = <<>> => playing = (video.state = "playing")
  /\ stored # NoTime =>
       \E m \in Markers \ {LastMarker} :
         stored = Timestamp[m] /\ currentMarker \in {NoMarker, m}

(***************************************************************************)
(* A playing video enters a marker the filter skips only when it is the    *)
(* last one: every way into a marker (a frame, a click, a seek, an event)  *)
(* jumps over it, and over those after it that are skipped too.            *)
(***************************************************************************)
SkipsSkipped ==
  [][playing' /\ currentMarker' # currentMarker /\ currentMarker' \in skip'
       => currentMarker' = LastMarker]_playerVars
=============================================================================
