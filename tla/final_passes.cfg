SPECIFICATION Spec
CONSTANTS
  ep1 = ep1  ep2 = ep2  e1 = e1  r1 = r1  v1 = v1
  Episodes = {ep1, ep2}
  Events = {}  Receipts = {r1}  Recordings = {}
  Loop = Loop  Startup = Startup  Request = Request
  NoTask = NoTask  NoEpisode = NoEpisode
  MaxTime = 1  MaxCrashes = 0  MaxFailures = 1  MaxRequests = 0
CHECK_DEADLOCK FALSE
SYMMETRY Symmetry
INVARIANT OneFinalizerAtATime
PROPERTY ClosedIsFinal
