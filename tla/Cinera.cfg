SPECIFICATION CineraSpec
CONSTANTS
  Topics <- TwoTopics
  Media <- OneMedium
  Categories <- ThreeMarkers
  InitiallyOff = {{}, {"talk"}}
  Timestamp <- Seconds
  HasRef = {2}
  Duration = 3
  MaxQueue = 1
  PlayedOff = {{}, {"talk"}, {"code", "talk"}}
  MaxControls = 3
  Quotes = 2
  References <- OneAndTwo
  Supports <- FirstSupported
  MenuBars = {{"quotes", "references"}, {"filter", "link"}, {"references", "link"}, {"credits", "quotes"}}
  IndexFiles <- ThreeIndexes
  Parent <- Parents
  Queries <- TwoQueries
  NoQuery = ""
  BadQueries = {"["}
  MaxItems = 2
  MaxTimers = 2
INVARIANTS FilterSound PlayerFollowsVideo FocusIsShown ViewSound SearchComplete
PROPERTIES SkipsSkipped
CHECK_DEADLOCK FALSE
