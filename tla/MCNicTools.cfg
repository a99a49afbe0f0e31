SPECIFICATION MCSpec
CONSTANTS
  Nodes = {"here", "there"}
  Home = "here"
  Agents = {"there"}
  Chans = {0, 1}
  Digits = 2
  Tick = 4
  NStamp = 2
  Tools = {"set", "zero", "get", "bad", "crap", "now", "at", "pps", "off", "all", "wait"}
  Line <- MCLine
  Scenes <- MCScenes
  Times <- MCTimes
  Now = {0, 1}
  MaxEvents = 2
  MaxFaults = 1
  Clients = {"c1", "c2"}
  Listener = "l"
  MaxFrames = 8
  MaxTroubles = 1
INVARIANTS PulsesAsAsked StampsAreRead ModesAsAsked ReportIsRight
PROPERTIES EventsAreActedOn CalmIsReported
CHECK_DEADLOCK FALSE
