SPECIFICATION FairSpec
CONSTANTS
  e1 = e1  e2 = e2  e3 = e3
  d1 = d1  d2 = d2  d3 = d3
  a1 = a1  a2 = a2
  Events = {e1}
  Deliveries = {d1, d2}
  Areas = {a1, a2}
  Episodes = {ep1, ep2, ep3}
  Startup = startup
  NoWorker = NoWorker  NoEpisode = NoEpisode  NoDelivery = NoDelivery  NoEvent = NoEvent
  EventOf <- TwiceEventOf
  AreaOf <- MovedArea
  StateOf <- AllActive
  StreamOf <- OneStream
  TimestampOf <- InOrder
  Decisions = {"allowed"}
  Windows = {1}
  Graces = {1}
  MaxTime = 3
  MaxCrashes = 1
  MaxFailures = 1
  MaxGraceChanges = 0
INVARIANTS LeaseNeverOutlivesDeadline CorrelatesAtFirstIngress
PROPERTIES AssociationIsPermanent TimedOutEpisodesClose EveryDeliveryEnds
CHECK_DEADLOCK FALSE
