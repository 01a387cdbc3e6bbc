SPECIFICATION FairSpec
CONSTANTS
  ep1 = ep1  ep2 = ep2  e1 = e1  r1 = r1  v1 = v1
  Episodes = {ep1}
  Events = {e1}  Receipts = {}  Recordings = {v1}
  Loop = Loop  Startup = Startup  Request = Request
  NoTask = NoTask  NoEpisode = NoEpisode
  MaxTime = 0  MaxCrashes = 1  MaxFailures = 1  MaxRequests = 1
CHECK_DEADLOCK FALSE
INVARIANTS BundleInv ClosedBundleIsComplete JournalPrecedesClose
PROPERTY FinalizingCloses
