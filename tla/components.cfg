SPECIFICATION ComponentsSpec
CONSTANTS
  e1 = e1  d1 = d1
  Episodes = {e1}  Devices = {d1}
  MaxRecordings = 2  MaxTime = 1  MaxRevision = 1  MaxUnhandled = 1  MaxFaults = 1
  MaxCrashes = 1
  MaxSegments = 2  MaxParks = 1  LateFailures = FALSE
  MaxVersion = 3  MaxCancels = 1
  MaxTries = 1  MaxRetries = 2  MaxSnapshots = 1
  MaxEpisodes = 2  QueueSize = 1  MaxUpdates = 3  MaxRestarts = 1
  MaxFrames = 2  MaxFetches = 3  MaxReloads = 1
  MaxCaptures = 2  PipeSize = 3  Untimely = FALSE
  MaxAlarms = 1  MaxRequests = 2  EarlyAlarms = FALSE
  FrameQueueSize = 1  MaxMedia = 1  MaxPackets = 2  MaxWire = 1  MaxBursts = 2  MaxLinkFaults = 1
CHECK_DEADLOCK FALSE
INVARIANTS ComponentsInv CaptureFollowsLease BarrierPublishes RowsFollowFiles ReceiptTellsOutcome
  PublishedIsPlayable PluginsFollowInventory PictureBelongsToItsEvent PushesItsOwnPreview
  AnswersItsRequest LostAlarmShows DamageIsCounted
PROPERTIES RecorderImplements CaptureStopsAtLease BarrierReturns
  ExpiryCompletes SessionRecovers NotifiesItsPeriod CaptureEnds
