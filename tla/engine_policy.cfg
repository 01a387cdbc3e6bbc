SPECIFICATION Spec
CONSTANTS
  e1 = e1  e2 = e2  e3 = e3
  d1 = d1  d2 = d2  d3 = d3
  a1 = a1  a2 = a2
  Events = {e1, e2}
  Deliveries = {d1, d2, d3}
  Areas = {a1}
  Episodes = {ep1, ep2}
  Startup = startup
  NoWorker = NoWorker  NoEpisode = NoEpisode  NoDelivery = NoDelivery  NoEvent = NoEvent
  EventOf <- TransitionEventOf
  AreaOf <- OneArea
  StateOf <- TransitionStateOf
  StreamOf <- OneStream
  TimestampOf <- InOrder
  Decisions = {"allowed", "excluded"}
  Windows = {1}
  Graces = {0, 2}
  MaxTime = 4
  MaxCrashes = 0
  MaxFailures = 0
  MaxGraceChanges = 1
PROPERTIES Implements
SYMMETRY EpisodeSymmetry
CHECK_DEADLOCK FALSE
