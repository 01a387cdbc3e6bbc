---------------------- MODULE RecordingEngineProperties ----------------------
EXTENDS RecordingEngine

(***************************************************************************)
(* The inductive invariant, part by part.                                  *)
(***************************************************************************)
Capturing == {"starting", "top", "spawn", "capture", "check", "retry", "recheck"}
Holding   == {"publishing", "committed"}
AtRest    == {"none", "ended", "dead"}

\* The maps are by key: what is mapped has a task that captures or died, what
\* is recoverable has none.
MapsInv ==
  \A k \in Keys, r \in Recordings :
    /\ recordings[k] = r => rec[r].key = k /\ rec[r].pc \in Capturing \union {"dead"}
    /\ recoverable[k] = r => rec[r].key = k /\ rec[r].pc \in AtRest /\ workspace[r] # "none"

\* What has a task or was published has a workspace, what was published its Evidence.
WorkspaceInv ==
  \A r \in Recordings :
    /\ workspace[r] = "none" => rec[r].pc = "none" /\ ~rec[r].published /\ ~evidence[r]
    /\ rec[r].published => evidence[r]
    /\ rec[r].pc = "committed" => evidence[r]
    /\ rec[r].stop => phase = "stopping"

\* A process that stops maps nothing, one that is down remembers nothing, and
\* it is up again after a crash.
DownInv ==
  /\ ~Running => \A k \in Keys : recordings[k] = None
  /\ phase = "down" =>
       /\ \A k \in Keys : recoverable[k] = None
       /\ \A e \in Episodes : leases[e] = NoLease
       /\ \A r \in Recordings : rec[r].pc = "none"
       /\ \A b \in Barriers : At(b, "idle")
  /\ phase \in {"down", "recovering", "resuming"} => crashes > 0

\* Only recordings of sealed Episodes are late, and have a workspace.
LateInv ==
  \A r \in Recordings : rec[r].late => state[EpisodeOf(r)] # "open" /\ workspace[r] # "none"

LeaseInv ==
  \A k \in Keys, r \in Recordings :
    recordings[k] = r /\ leases[k[1]] # NoLease => rec[r].deadline = leases[k[1]].until

\* A barrier lasts while its Episode is FINALIZING, and has workspaces of this Episode.
BarrierFits(b) ==
  /\ At(b, "idle") => barrier[b] = IdleBarrier
  /\ IF barrier[b].at \in Holding THEN barrier[b].current \in barrier[b].todo ELSE barrier[b].current = None
  /\ At(b, "committed") => evidence[barrier[b].current]
  /\ \A r \in barrier[b].todo \union barrier[b].owed : workspace[r] # "none"
  /\ b \in Episodes =>
       /\ barrier[b].at \notin {"idle", "closed"} => state[b] = "finalizing"
       /\ At(b, "closed") => state[b] = "closed"
       /\ At(b, "returned") => barrier[b].todo = {}
       /\ \A r \in barrier[b].todo \union barrier[b].owed : EpisodeOf(r) = b
  /\ b = Startup =>
       /\ barrier[b].at \in {"idle", "drain", "publishing", "committed"}
       /\ ~At(b, "idle") => phase = "resuming"
BarrierInv == \A b \in Barriers : BarrierFits(b)

\* The tasks of an open Episode are mapped until they end; only a plugin source ends by itself.
OpenInv ==
  Running => \A r \in Recordings : state[EpisodeOf(r)] = "open" =>
    /\ rec[r].pc \in Capturing \union {"dead"} => Mapped(r)
    /\ rec[r].pc \in Holding => DeviceOf(r) \in piped

\* A task that captures is mapped while no barrier is after its Episode; then
\* the barrier waits for it.  A process that stops has it end by itself.
Alone(r) == \A s \in Recordings : rec[s].key = rec[r].key /\ rec[s].pc \in Capturing => s = r
Attended(r) ==
  \/ At(EpisodeOf(r), "join") /\ r \in barrier[EpisodeOf(r)].todo
  \/ IF Running THEN At(EpisodeOf(r), "idle") /\ Mapped(r) /\ Alone(r) ELSE r \notin barrier[EpisodeOf(r)].todo
CaptureInv == \A r \in Recordings : rec[r].pc \in Capturing => rec[r].late \/ Attended(r)

\* What may be or become recoverable under its key: one workspace of a key,
\* unless a plugin source ended and left another behind a failure or a crash.
Excused(r) == DeviceOf(r) \in piped /\ failures + crashes > 0
LateFor(k) == \E x \in Recordings : rec[x].key = k /\ rec[x].late
Listed(r)  == r \in barrier[Startup].todo \ {barrier[Startup].current}
Contends(r) ==
  \/ Mapped(r)
  \/ recoverable[rec[r].key] = r
  \/ rec[r].pc \in Capturing \union {"dead"}
  \/ rec[r].pc \in Holding /\ DeviceOf(r) \notin piped
  \/ Listed(r)
UniqueInv ==
  \A r, s \in Recordings :
    rec[r].key = rec[s].key /\ Contends(r) /\ Contends(s) =>
      r = s \/ Excused(r) \/ LateFor(rec[r].key) \/ state[EpisodeOf(r)] = "closed"
ListedInv ==
  Running => \A r \in Recordings : state[EpisodeOf(r)] = "open" /\ Listed(r) =>
    Excused(r) \/ Mapped(r) \/ recoverable[rec[r].key] = r

\* Where a workspace is that finalize_episode took on: published, recoverable
\* until the barrier lists it, on the list, or in the hands of the startup loop.
Pursued(e, r) ==
  \/ evidence[r]
  \/ At(e, "join") /\ recoverable[rec[r].key] = r
  \/ At(e, "join") /\ r \in barrier[e].todo /\ rec[r].pc \in Capturing \union Holding \union {"dead"}
  \/ ~At(e, "join") /\ r \in barrier[e].todo
  \/ barrier[Startup].at \in Holding /\ barrier[Startup].current = r
OwedInv ==
  phase # "stopping" => \A e \in Episodes : \A r \in barrier[e].owed :
    Excused(r) \/ LateFor(rec[r].key) \/ Pursued(e, r)

RecorderInv ==
  /\ TypeOK /\ MapsInv /\ WorkspaceInv /\ DownInv /\ LateInv /\ LeaseInv /\ BarrierInv
  /\ OpenInv /\ CaptureInv /\ UniqueInv /\ ListedInv /\ OwedInv

-----------------------------------------------------------------------------
(***************************************************************************)
(* What the recorder promises about recordings.                            *)
(***************************************************************************)
Mode == CASE phase = "running" -> "serving" [] phase = "stopping" -> "stopping" [] OTHER -> "starting"

TaskOf(r) ==
  CASE rec[r].pc \in Capturing -> "capturing" [] rec[r].pc \in Holding -> "publishing" [] OTHER -> "none"

Saved(r) ==
  CASE workspace[r] = "open" -> IF evidence[r] THEN "evidence" ELSE "workspace"
    [] workspace[r] = "sealed" -> "sealed"
    [] OTHER -> "nothing"

Due == {k \in Keys : events[k] > 0} \union (resumed \intersect targets)

Lifecycle == INSTANCE RecordingLifecycle WITH
  mode    <- Mode,
  episode <- state,
  key     <- [r \in Recordings |-> rec[r].key],
  task    <- [r \in Recordings |-> TaskOf(r)],
  saved   <- [r \in Recordings |-> Saved(r)],
  due     <- Due,
  late    <- {r \in Recordings : rec[r].late}

\* A recording stays one workspace of one Episode and Device, has one task at a
\* time, and never loses its Evidence or its seal again; no Episode is CLOSED
\* while a capture runs that began before it was sealed.  The recorder keeps
\* that through its two maps, leases, barriers, Events handled late and a
\* restart (recording/engine.py, episode/engine/engine.py).
RecorderImplements == Lifecycle!Spec

\* No workspace is handed to a second capture task while its first one runs:
\* whatever parks, retains or recovers a workspace does so when its task ends
\* (_park_capture_lease_bundle, _finalize_from_retry_task, _stop_recordings).
OneTaskPerWorkspace ==
  [][\A r \in Recordings :
       rec'[r].pc = "starting" /\ rec[r].pc # "starting" => rec[r].pc \in {"none", "ended", "dead"}]_vars

\* While a grace setting lasts no lease of an Episode is shortened, and a lease of
\* an older setting never replaces one of a newer (_set_episode_capture_lease):
\* deadlines passed over, resumption and changes of the grace keep to that.
LeaseOnlyAdvances ==
  [][\A e \in Episodes : NoLease \notin {leases[e], leases'[e]} =>
       \/ leases'[e].revision > leases[e].revision
       \/ leases'[e].revision = leases[e].revision /\ leases'[e].until >= leases[e].until]_vars

\* Every running recording stops at the lease its Episode has now, also one
\* that was started, parked and continued between two extensions.
CaptureFollowsLease ==
  \A e \in Episodes : \A r \in Active(e) : leases[e] # NoLease => rec[r].deadline = leases[e].until

\* When finalize_episode returns without an error, what it took on has its
\* Evidence, through parked workspaces, tasks that died and retries of a
\* failed publication.  Two workspaces of one key are the exception, which
\* only a plugin source leaves that ended before a failure or a restart; so is
\* the recovery loop of startup, which takes workspaces out of the map before
\* it publishes them; and so is a key for which an Event was handled when its
\* Episode was sealed already: it continues the parked workspace, or begins
\* another, behind the barrier's back (_on_event, _start_recording).
BarrierPublishes ==
  \A e \in Episodes : At(e, "returned") /\ Running /\ At(Startup, "idle") =>
    \A r \in barrier[e].owed : evidence[r] \/ Excused(r) \/ LateFor(rec[r].key)

\* Capture ends at its lease, or the lease is extended: the child is told to
\* exit even if every notice and stop missed it while it was being started.
CaptureStopsAtLease ==
  \A r \in Recordings : []<>~(rec[r].pc = "capture" /\ Expired(r))

\* finalize_episode does not wait forever for the tasks it stopped: one that missed
\* its stop while its child was started ends at its lease.  A lease that ends with
\* the bounded clock is left out: the model has no time at which it has lapsed.
BarrierReturns ==
  \A e \in Episodes :
    []<>~(At(e, "join") /\ \A r \in barrier[e].todo : rec[r].deadline < MaxTime)

\* ARCHITECTURE.md: recording output in progress is finalized before an Episode
\* becomes closed, and a failure leaves it finalizing for a later retry.  Said
\* here of what began while the Episode was open.
NothingLeftBehind ==
  [][\A e \in Episodes : state[e] # "closed" /\ state'[e] = "closed" =>
       \A r \in Recordings : EpisodeOf(r) = e /\ workspace[r] # "none" /\ ~rec[r].late => evidence[r]]_vars
=============================================================================
