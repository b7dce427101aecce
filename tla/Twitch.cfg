SPECIFICATION TwitchSpec
CONSTANTS
  Streamers = {"a", "b"}
  Loop = "loop"
  Timers = {"t"}
  QueueSize = 1
  Limits <- SomeLimits
  NoStreamer = "nobody"
  NoRow = NoRow
  Untouched = Untouched
  Broadcasters = {"a", "b"}
  Ticker = "loop"
  OtherJobs = {"t"}
  MaxMessages = 8
  Bounds <- SomeBounds
INVARIANTS EndedIsOver ChannelBound
PROPERTIES StatusSettles ChannelSettles
CHECK_DEADLOCK FALSE
