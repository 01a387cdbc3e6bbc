--------------------------- MODULE RecordingEngine ---------------------------
(***************************************************************************)
(* The recorder: one capture task per (Episode, Device), the maps of       *)
(* running and of recoverable recordings, capture leases, the barrier an   *)
(* Episode's finalization waits for, and recovery after a restart.         *)
(*                                                                         *)
(* The Episode engine is the environment: it extends leases, moves an      *)
(* Episode to FINALIZING and to CLOSED, and calls finalize_episode.  Every *)
(* action is the code a task runs from one await to the next.              *)
(***************************************************************************)
EXTENDS Integers, FiniteSets

CONSTANTS
  Episodes, Devices,
  MaxRecordings, MaxTime, MaxRevision, MaxUnhandled, MaxFaults   \* bounds

Startup == "startup"                \* names the barrier of resume_active_episodes

ASSUME RecorderAssumption ==
  /\ {MaxRecordings, MaxTime, MaxRevision, MaxUnhandled, MaxFaults} \subseteq Nat
  /\ Episodes # {} /\ Devices # {} /\ Startup \notin Episodes

Recordings == 1 .. MaxRecordings
Keys       == Episodes \X Devices
None       == 0                     \* no recording
NoTime     == -1
Time       == 0 .. MaxTime
Lease      == [revision : 0 .. MaxRevision, until : Time]
NoLease    == [revision |-> -1, until |-> NoTime]

VARIABLES
  now, failures, crashes,
  piped,               \* Devices whose video a plugin handler feeds through a pipe
  phase,               \* of the process; the recorder's _running is TRUE from recovery on
  state, horizon,      \* Episode rows: lifecycle state, deadline plus grace while open
  targets,             \* keys some active Event of the Episode asks to record
  revision,            \* engine memory: _capture_lease_revision
  events,              \* per key, event.canonicalized messages not handled yet
  resumed,             \* keys resume_active_episodes has not come to yet
  leases,              \* _episode_capture_leases
  recordings, recoverable,   \* the two maps, by key
  rec,                 \* what the recorder knows of each recording
  workspace, evidence, \* capture.json on disk, the Evidence row
  barrier              \* finalize_episode per Episode, and resume_active_episodes

world    == <<now, failures, crashes, phase, piped>>
rows     == <<state, horizon, targets>>
messages == <<revision, events, resumed>>
maps     == <<recordings, recoverable>>
disk     == <<workspace, evidence>>
vars     == <<world, rows, messages, leases, maps, rec, disk, barrier>>

Live       == {"starting", "top", "spawn", "capture", "check", "retry", "recheck", "publishing", "committed"}
Steps      == Live \union {"none", "ended", "dead"}
Barriers   == Episodes \union {Startup}

\* signalled: the child was told to exit; stop: stop_reason is application_shutdown;
\* late: its task began when the Episode was sealed already, kept for the properties.
Record == [key : Keys, pc : Steps, deadline : Time \union {NoTime},
           expired : BOOLEAN, stop : BOOLEAN, signalled : BOOLEAN, published : BOOLEAN,
           late : BOOLEAN]

\* owed: what finalize_episode took on when it was called, kept for the properties.
Barrier == [at : {"idle", "join", "drain", "publishing", "committed", "returned", "closed"},
            todo : SUBSET Recordings, owed : SUBSET Recordings, current : 0 .. MaxRecordings]
IdleBarrier == [at |-> "idle", todo |-> {}, owed |-> {}, current |-> None]

WorldOK ==
  /\ now \in Time /\ failures \in 0 .. MaxFaults /\ crashes \in 0 .. MaxFaults + 1
  /\ phase \in {"down", "recovering", "resuming", "running", "stopping"} /\ piped \subseteq Devices
RowsOK ==
  /\ state \in [Episodes -> {"open", "finalizing", "closed"}] /\ horizon \in [Episodes -> Time]
  /\ targets \subseteq Keys
MessagesOK ==
  /\ revision \in 0 .. MaxRevision /\ events \in [Keys -> 0 .. MaxUnhandled]
  /\ resumed \subseteq Keys
LeasesOK == leases \in [Episodes -> Lease \union {NoLease}]
TasksOK ==
  /\ rec \in [Recordings -> Record]
  /\ recordings \in [Keys -> 0 .. MaxRecordings] /\ recoverable \in [Keys -> 0 .. MaxRecordings]
DiskOK ==
  /\ workspace \in [Recordings -> {"none", "open", "sealed"}] /\ evidence \in [Recordings -> BOOLEAN]
BarriersOK == barrier \in [Barriers -> Barrier]

TypeOK == WorldOK /\ RowsOK /\ MessagesOK /\ LeasesOK /\ TasksOK /\ DiskOK /\ BarriersOK

Unused == [key |-> CHOOSE k \in Keys : TRUE, pc |-> "none", deadline |-> NoTime,
           expired |-> FALSE, stop |-> FALSE, signalled |-> FALSE, published |-> FALSE, late |-> FALSE]

Init ==
  /\ piped \in SUBSET Devices
  /\ now = 0 /\ failures = 0 /\ crashes = 0 /\ phase = "running"
  /\ state = [e \in Episodes |-> "open"] /\ horizon = [e \in Episodes |-> 0]
  /\ targets = {} /\ events = [k \in Keys |-> 0] /\ revision = 0 /\ resumed = {}
  /\ leases = [e \in Episodes |-> NoLease]
  /\ recordings = [k \in Keys |-> None] /\ recoverable = [k \in Keys |-> None]
  /\ rec = [r \in Recordings |-> Unused]
  /\ workspace = [r \in Recordings |-> "none"] /\ evidence = [r \in Recordings |-> FALSE]
  /\ barrier = [b \in Barriers |-> IdleBarrier]

EpisodeOf(r) == rec[r].key[1]
DeviceOf(r)  == rec[r].key[2]
Expired(r)   == rec[r].deadline # NoTime /\ now > rec[r].deadline
Running      == phase \in {"recovering", "resuming", "running"}
Stopping(r)  == rec[r].stop \/ ~Running
Mapped(r)    == recordings[rec[r].key] = r
Active(e)    == {recordings[k] : k \in {x \in Keys : x[1] = e}} \ {None}
Idle(e)      == {recoverable[k] : k \in {x \in Keys : x[1] = e /\ recordings[x] = None}} \ {None}
Parked(e)    == {recoverable[k] : k \in {x \in Keys : x[1] = e}} \ {None}

-----------------------------------------------------------------------------
(***************************************************************************)
(* Leases.                                                                 *)
(***************************************************************************)
\* A lower revision is ignored, within a revision a lease never shrinks.
Accepted(old, new) ==
  IF old = NoLease \/ new.revision > old.revision THEN new
  ELSE IF new.revision < old.revision THEN old
  ELSE [old EXCEPT !.until = IF new.until > @ THEN new.until ELSE @]

\* An extended lease takes back a stop that only the old lease asked for.
Extended(r, lease) ==
  [rec[r] EXCEPT !.deadline = lease.until,
                 !.expired = @ /\ ~(rec[r].deadline = NoTime \/ lease.until > rec[r].deadline)]

FaultyFollowers(e) == {}

Followers(e) == Active(e)

\* A deadline that has passed ends the lease at once.
EndOf(until) == IF until < now THEN now ELSE until

\* _set_episode_capture_lease, for the Episodes S at a time: the engine's publish
\* awaits the one subscriber of episode.updated, which sets the lease before any
\* await.  So leases arrive in the order and at the time they are published.
SetLeases(S, number, until) ==
  /\ leases' = [e \in Episodes |->
       IF e \in S THEN Accepted(leases[e], [revision |-> number, until |-> EndOf(until[e])])
       ELSE leases[e]]
  /\ rec' = [r \in Recordings |->
       IF EpisodeOf(r) \in S /\ r \in Followers(EpisodeOf(r))
       THEN Extended(r, leases'[EpisodeOf(r)]) ELSE rec[r]]

At(b, step) == barrier[b].at = step
Becomes(b, value) == barrier' = [barrier EXCEPT ![b] = value]
Moves(b, step) == barrier' = [barrier EXCEPT ![b].at = step]

\* The child of every recording in S is told to exit, if it was started.
Signalled(r) == rec[r].pc = "capture"

\* The engine remembers the deadline of an Episode until a pass takes its sealing up.
Announced(e) == state[e] = "open" \/ (state[e] = "finalizing" /\ At(e, "idle"))

FaultyOnLeaseExpired(e) ==
  LET due == {r \in Active(e) : rec[r].deadline = NoTime \/ Expired(r)} IN
  /\ Running /\ Announced(e) /\ leases[e] # NoLease /\ now >= leases[e].until /\ due # {}
  /\ rec' = [r \in Recordings |->
               IF r \in due THEN [rec[r] EXCEPT !.expired = TRUE, !.signalled = Signalled(r)] ELSE rec[r]]
  /\ recordings' = [k \in Keys |-> IF recordings[k] \in due THEN None ELSE recordings[k]]
  /\ recoverable' = [k \in Keys |-> IF recordings[k] \in due THEN recordings[k] ELSE recoverable[k]]
  /\ UNCHANGED <<world, rows, messages, leases, disk, barrier>>

\* episode.capture_lease_expired: the engine cannot reach its storage.  The
\* records stay mapped until their own tasks park them.
OnLeaseExpired(e) ==
  LET due == {r \in Active(e) : rec[r].deadline = NoTime \/ Expired(r)} IN
  /\ Running /\ Announced(e) /\ leases[e] # NoLease /\ now >= leases[e].until /\ due # {}
  /\ rec' = [r \in Recordings |->
               IF r \in due THEN [rec[r] EXCEPT !.expired = TRUE, !.signalled = Signalled(r)] ELSE rec[r]]
  /\ UNCHANGED <<world, rows, messages, leases, maps, disk, barrier>>

-----------------------------------------------------------------------------
(***************************************************************************)
(* Starting a recording: on an Event, or when capture is resumed.          *)
(***************************************************************************)
Fresh == {r \in Recordings : rec[r].pc = "none" /\ workspace[r] = "none"}

\* A recoverable workspace is continued, otherwise the next one is created.
Candidate(k) ==
  IF recoverable[k] # None THEN {recoverable[k]}
  ELSE {r \in Fresh : \A s \in Fresh : r <= s}

Started(k, r) ==
  [key |-> k, pc |-> "starting", expired |-> FALSE, stop |-> FALSE, signalled |-> FALSE,
   deadline |-> IF leases[k[1]] # NoLease THEN leases[k[1]].until ELSE rec[r].deadline,
   published |-> rec[r].published, late |-> state[k[1]] # "open"]

\* A barrier that waits for the old task of r may not wait for the new one:
\* _finish_stop reads rec.task when the handler and the child are gone.
Unawaited(e, r) == [barrier EXCEPT ![e].todo = IF At(e, "join") THEN @ \ {r} ELSE @]

\* _start_recording does not look at the state of the Episode.
Start(k, r) ==
  /\ recordings' = [recordings EXCEPT ![k] = r]
  /\ recoverable' = [recoverable EXCEPT ![k] = None]
  /\ rec' = [rec EXCEPT ![r] = Started(k, r)]
  /\ workspace' = [workspace EXCEPT ![r] = IF @ = "none" THEN "open" ELSE @]
  /\ barrier' \in {barrier, Unawaited(k[1], r)}
  /\ UNCHANGED evidence

Handled(k) == events' = [events EXCEPT ![k] = @ - 1]

\* event.canonicalized for one target: already recording, no usable source, or a
\* start.  The message is published when the engine has left its locks, so it may
\* be handled at any time after the lease, also when the Episode is sealed.
OnEvent(k) ==
  /\ Running /\ events[k] > 0 /\ Handled(k)
  /\ IF recordings[k] = None
     THEN \E r \in Candidate(k) : Start(k, r)
     ELSE UNCHANGED <<maps, rec, disk, barrier>>
  /\ UNCHANGED <<world, rows, revision, resumed, leases>>

NoSource(k) ==
  /\ Running /\ events[k] > 0 /\ Handled(k) /\ recordings[k] = None
  /\ UNCHANGED <<world, rows, revision, resumed, leases, maps, rec, disk, barrier>>

-----------------------------------------------------------------------------
(***************************************************************************)
(* The capture task (_record_episode).                                     *)
(***************************************************************************)
\* The task has no child then: none yet, or it is gone.
Goto(r, step) == rec' = [rec EXCEPT ![r].pc = step, ![r].signalled = FALSE]

\* The workspace stays on disk for the next start of the process.
Leave(r) == Goto(r, "ended") /\ UNCHANGED maps

\* Capture stopped at its lease: the workspace waits for the barrier, by key.
Park(r) ==
  /\ rec' = [rec EXCEPT ![r].pc = "ended", ![r].expired = TRUE, ![r].signalled = FALSE]
  /\ recoverable' = [recoverable EXCEPT ![rec[r].key] = r]
  /\ recordings' = [recordings EXCEPT ![rec[r].key] = None]

Publish(r) == Goto(r, IF rec[r].published THEN "ended" ELSE "publishing")

\* _finalize_from_retry_task with the reason the record carries.
Finalize(r) == IF rec[r].expired THEN Park(r) ELSE Publish(r) /\ UNCHANGED maps

Drop(r) == recordings' = [recordings EXCEPT ![rec[r].key] = None] /\ UNCHANGED recoverable

TaskFrame == UNCHANGED <<world, rows, messages, leases, disk, barrier>>

LoopTop(r) ==
  /\ rec[r].pc \in {"starting", "top"}
  /\ IF Stopping(r) THEN Leave(r)
     ELSE IF ~Mapped(r) THEN Finalize(r)
     ELSE IF Expired(r) THEN Park(r)
     ELSE Goto(r, "spawn") /\ UNCHANGED maps
  /\ TaskFrame

\* create_subprocess_exec has returned: only now can the child be signalled.
Spawned(r) ==
  /\ rec[r].pc = "spawn" /\ Goto(r, "capture")
  /\ UNCHANGED maps /\ TaskFrame

FaultySeesLease(r) == FALSE

SeesLease(r) == Expired(r)

\* The loop that watches the child stops it at the lease.
LeaseEnds(r) ==
  /\ rec[r].pc = "capture" /\ SeesLease(r) /\ ~rec[r].signalled
  /\ rec' = [rec EXCEPT ![r].expired = TRUE, ![r].signalled = TRUE]
  /\ UNCHANGED maps /\ TaskFrame

\* The child is gone or never came: told to exit, failed, stalled, its handler ended.
ChildExits(r) ==
  /\ rec[r].pc \in {"spawn", "capture"}
  /\ IF rec[r].expired THEN Park(r)
     ELSE IF Stopping(r) THEN Leave(r)
     ELSE IF ~Mapped(r) THEN Finalize(r)
     ELSE IF Expired(r) THEN Park(r)
     ELSE Goto(r, "check") /\ UNCHANGED maps
  /\ TaskFrame

\* get_episode returned.  A plugin source that ended, failed or gave nothing
\* is not retried; its key is free from here on.
Check(r) ==
  /\ rec[r].pc = "check"
  /\ IF Expired(r) THEN Park(r)
     ELSE \/ state[EpisodeOf(r)] # "open" /\ Drop(r) /\ Publish(r)
          \/ state[EpisodeOf(r)] = "open" /\ DeviceOf(r) \in piped /\ Drop(r) /\ Publish(r)
          \/ state[EpisodeOf(r)] = "open" /\ Goto(r, "retry") /\ UNCHANGED maps
  /\ TaskFrame

\* The backoff is over, or a stop woke the task.
Retry(r) ==
  /\ rec[r].pc = "retry"
  /\ IF Stopping(r) THEN Leave(r)
     ELSE IF ~Mapped(r) THEN Finalize(r)
     ELSE IF rec[r].expired \/ Expired(r) THEN Park(r)
     ELSE Goto(r, "recheck") /\ UNCHANGED maps
  /\ TaskFrame

Recheck(r) ==
  /\ rec[r].pc = "recheck"
  /\ IF Expired(r) THEN Park(r)
     ELSE IF state[EpisodeOf(r)] # "open" THEN Drop(r) /\ Publish(r)
     ELSE Goto(r, "top") /\ UNCHANGED maps
  /\ TaskFrame

\* get_episode raised: the task ends with the exception, its record stays mapped.
TaskDies(r) ==
  /\ rec[r].pc \in {"check", "recheck"} /\ failures + crashes < MaxFaults
  /\ failures' = failures + 1
  /\ Goto(r, "dead")
  /\ UNCHANGED <<now, crashes, phase, piped, rows, messages, leases, maps, disk, barrier>>

-----------------------------------------------------------------------------
(***************************************************************************)
(* Publication (_finalize_bundle): the sink, the marker, the journal.      *)
(***************************************************************************)
\* The sink links Evidence to an Episode that is not CLOSED.
Accepts(r) == state[EpisodeOf(r)] # "closed"

SinkAnswers(r) ==
  /\ rec[r].pc = "publishing" /\ Accepts(r)
  /\ evidence' = [evidence EXCEPT ![r] = TRUE]
  /\ Goto(r, "committed")
  /\ UNCHANGED <<world, rows, messages, leases, maps, workspace, barrier>>

Retained(r) ==
  /\ rec' = [rec EXCEPT ![r].pc = "ended"]
  /\ recoverable' = [recoverable EXCEPT ![rec[r].key] = r]
  /\ UNCHANGED <<recordings, disk>>

\* A closed Episode's Evidence is kept unassigned, which is an error here.
SinkRefuses(r) ==
  /\ rec[r].pc = "publishing" /\ ~Accepts(r)
  /\ Retained(r)
  /\ UNCHANGED <<world, rows, messages, leases, barrier>>

SinkFails(r) ==
  /\ rec[r].pc = "publishing" /\ failures + crashes < MaxFaults
  /\ failures' = failures + 1
  /\ Retained(r)
  /\ UNCHANGED <<now, crashes, phase, piped, rows, messages, leases, barrier>>

Sealed(r) == workspace' = [workspace EXCEPT ![r] = "sealed"] /\ UNCHANGED evidence

Complete(r) ==
  /\ rec[r].pc = "committed"
  /\ rec' = [rec EXCEPT ![r].pc = "ended", ![r].published = TRUE]
  /\ Sealed(r)
  /\ UNCHANGED <<world, rows, messages, leases, maps, barrier>>

\* The journal append fails: published, and yet kept as recoverable.
JournalFails(r) ==
  /\ rec[r].pc = "committed" /\ failures + crashes < MaxFaults
  /\ failures' = failures + 1
  /\ rec' = [rec EXCEPT ![r].pc = "ended", ![r].published = TRUE]
  /\ recoverable' = [recoverable EXCEPT ![rec[r].key] = r]
  /\ Sealed(r)
  /\ UNCHANGED <<now, crashes, phase, piped, rows, messages, leases, recordings, barrier>>

-----------------------------------------------------------------------------
(***************************************************************************)
(* The barrier (finalize_episode), called while the Episode is FINALIZING. *)
(***************************************************************************)
Serving == phase \in {"recovering", "resuming", "running", "stopping"}

\* Every mapped recording of the Episode is unmapped, woken and signalled.
StopAll(S, shutdown) ==
  /\ recordings' = [k \in Keys |-> IF recordings[k] \in S THEN None ELSE recordings[k]]
  /\ rec' = [r \in Recordings |->
               IF r \in S THEN [rec[r] EXCEPT !.stop = shutdown, !.signalled = Signalled(r)] ELSE rec[r]]

\* With nothing to stop, what is recoverable is looked at without an await between.
FinalizeEpisode(e) ==
  /\ At(e, "idle") /\ Serving /\ state[e] = "finalizing"
  /\ StopAll(Active(e), FALSE)
  /\ Becomes(e, [at   |-> IF Active(e) = {} THEN "drain" ELSE "join",
                 todo |-> IF Active(e) = {} THEN Parked(e) ELSE Active(e),
                 owed |-> Active(e) \union Idle(e), current |-> None])
  /\ UNCHANGED <<world, rows, messages, leases, recoverable, disk>>

FaultyCrashed(e) == {}

Crashed(e) == {r \in barrier[e].todo : rec[r].pc = "dead"}

\* All of their tasks have ended.  One that raised keeps its workspace
\* recoverable and the call fails, otherwise what is recoverable is next.
Join(e) ==
  /\ At(e, "join") /\ \A r \in barrier[e].todo : rec[r].pc \in {"ended", "dead"}
  /\ recoverable' = [k \in Keys |->
       IF \E r \in Crashed(e) : rec[r].key = k /\ ~rec[r].published
       THEN CHOOSE r \in Crashed(e) : rec[r].key = k ELSE recoverable[k]]
  /\ Becomes(e, IF Crashed(e) # {} THEN IdleBarrier
                ELSE [barrier[e] EXCEPT !.at = "drain", !.todo = Parked(e)])
  /\ UNCHANGED <<world, rows, messages, leases, recordings, rec, disk>>

\* After a workspace is published, whatever is recoverable under its key goes.
Forget(b, r) ==
  recoverable' = IF b = Startup THEN recoverable ELSE [recoverable EXCEPT ![rec[r].key] = None]

\* The startup loop takes the key out of the map before it publishes.
Take(b, r) ==
  recoverable' = IF b = Startup THEN [recoverable EXCEPT ![rec[r].key] = None] ELSE recoverable

Drain(b) ==
  /\ At(b, "drain") /\ Serving
  /\ \E r \in barrier[b].todo :
       IF rec[r].published
       THEN /\ recoverable' = [recoverable EXCEPT ![rec[r].key] = None]
            /\ barrier' = [barrier EXCEPT ![b].todo = @ \ {r}]
       ELSE /\ Take(b, r)
            /\ barrier' = [barrier EXCEPT ![b].at = "publishing", ![b].current = r]
  /\ UNCHANGED <<world, rows, messages, leases, recordings, rec, disk>>

BarrierSink(b) ==
  LET r == barrier[b].current IN
  /\ At(b, "publishing") /\ Accepts(r)
  /\ evidence' = [evidence EXCEPT ![r] = TRUE]
  /\ Moves(b, "committed")
  /\ UNCHANGED <<world, rows, messages, leases, maps, rec, workspace>>

BarrierComplete(b) ==
  LET r == barrier[b].current IN
  /\ At(b, "committed")
  /\ rec' = [rec EXCEPT ![r].published = TRUE]
  /\ Sealed(r) /\ Forget(b, r)
  /\ Becomes(b, [barrier[b] EXCEPT !.at = "drain", !.todo = @ \ {r}, !.current = None])
  /\ UNCHANGED <<world, rows, messages, leases, recordings>>

\* A failing sink or journal is the caller's: the Episode stays FINALIZING.
BarrierFails(e) ==
  /\ barrier[e].at \in {"publishing", "committed"} /\ failures + crashes < MaxFaults
  /\ failures' = failures + 1
  /\ IF At(e, "committed")
     THEN rec' = [rec EXCEPT ![barrier[e].current].published = TRUE] /\ Sealed(barrier[e].current)
     ELSE UNCHANGED <<rec, disk>>
  /\ Becomes(e, IdleBarrier)
  /\ UNCHANGED <<now, crashes, phase, piped, rows, messages, leases, maps>>

FinalizeReturns(e) ==
  /\ At(e, "drain") /\ barrier[e].todo = {}
  /\ Moves(e, "returned")
  /\ UNCHANGED <<world, rows, messages, leases, maps, rec, disk>>

-----------------------------------------------------------------------------
(***************************************************************************)
(* The Episode engine, as far as the recorder sees it.                     *)
(***************************************************************************)
\* An active Event joins the open Episode, under the lifecycle lock: its deadline
\* is committed and its lease is set.  Plugins are started before resume_active_episodes.
Joins(e, until, wanted) ==
  /\ until >= horizon[e]
  /\ horizon' = [horizon EXCEPT ![e] = until]
  /\ targets' = targets \union ({e} \X wanted)

\* Bounds: leases end within Time, at most MaxUnhandled Events of a key wait.
Event(e) ==
  /\ Running /\ state[e] = "open"
  /\ \E until \in Time, wanted \in (SUBSET Devices) \ {{}} :
       /\ \A d \in wanted : events[<<e, d>>] < MaxUnhandled
       /\ Joins(e, until, wanted)
       /\ SetLeases({e}, revision, [x \in Episodes |-> until])
       /\ events' = [k \in Keys |-> IF k \in {e} \X wanted THEN events[k] + 1 ELSE events[k]]
  /\ UNCHANGED <<world, state, revision, resumed, maps, disk, barrier>>

\* A later step of the association fails: nothing is published.
EventFails(e) ==
  /\ Running /\ state[e] = "open" /\ failures + crashes < MaxFaults
  /\ failures' = failures + 1
  /\ \E until \in Time, wanted \in (SUBSET Devices) \ {{}} : Joins(e, until, wanted)
  /\ UNCHANGED <<now, crashes, phase, piped, state, messages, leases, maps, rec, disk, barrier>>

\* The operator changes the settling grace: the lease of every Episode the engine
\* remembers moves, earlier or later.  The API is up when capture is resumed.
ChangeGrace ==
  /\ phase = "running" /\ revision < MaxRevision
  /\ revision' = revision + 1
  /\ \E until \in [Episodes -> Time],
        remembered \in SUBSET {e \in Episodes : Announced(e)} :
       /\ \A e \in Episodes : state[e] = "open" => e \in remembered
       /\ horizon' = [e \in Episodes |-> IF state[e] = "open" THEN until[e] ELSE horizon[e]]
       /\ SetLeases(remembered, revision + 1, until)
  /\ UNCHANGED <<world, state, targets, events, resumed, maps, disk, barrier>>

\* A timeout pass seals it, under the lifecycle lock: no association is half done,
\* but Events that joined may still be on their way to the recorder.
Expire(e) ==
  /\ Serving /\ state[e] = "open" /\ now >= horizon[e]
  /\ state' = [state EXCEPT ![e] = "finalizing"] /\ horizon' = [horizon EXCEPT ![e] = 0]
  /\ UNCHANGED <<world, targets, messages, leases, maps, rec, disk, barrier>>

Close(e) ==
  /\ At(e, "returned") /\ Serving
  /\ state' = [state EXCEPT ![e] = "closed"]
  /\ Moves(e, "closed")
  /\ UNCHANGED <<world, horizon, targets, messages, leases, maps, rec, disk>>

\* episode.updated with CLOSED: the lease goes, what still records is stopped.
OnClosed(e) ==
  /\ At(e, "closed") /\ Running
  /\ leases' = [leases EXCEPT ![e] = NoLease]
  /\ StopAll(Active(e), FALSE)
  /\ Becomes(e, IdleBarrier)
  /\ UNCHANGED <<world, rows, messages, recoverable, disk>>

-----------------------------------------------------------------------------
(***************************************************************************)
(* Shutdown, crash, recovery, resume.                                      *)
(***************************************************************************)
Shutdown ==
  /\ phase = "running" /\ failures + crashes < MaxFaults
  /\ phase' = "stopping"
  /\ StopAll(UNION {Active(e) : e \in Episodes}, TRUE)
  /\ UNCHANGED <<now, failures, crashes, piped, rows, messages, leases, recoverable, disk, barrier>>

\* The process ends: after a shutdown, by a crash, or because startup failed.
Die ==
  /\ phase' = "down"
  /\ crashes' = crashes + 1
  /\ revision' = 0 /\ events' = [k \in Keys |-> 0] /\ resumed' = {}
  /\ leases' = [e \in Episodes |-> NoLease]
  /\ recordings' = [k \in Keys |-> None] /\ recoverable' = [k \in Keys |-> None]
  /\ rec' = [r \in Recordings |-> [Unused EXCEPT !.key = rec[r].key]]
  /\ barrier' = [b \in Barriers |-> IdleBarrier]
  /\ UNCHANGED <<now, failures, piped, rows, disk>>

Crash == phase # "down" /\ failures + crashes < MaxFaults /\ Die

Unsealed(k) == {r \in Recordings : rec[r].key = k /\ workspace[r] = "open" /\ state[k[1]] # "closed"}

\* recover_interrupted_recordings: one workspace per key, the last one found.  One
\* whose Device is gone, or whose capture.json cannot be read, is not taken up.
Recover ==
  /\ phase = "down" /\ crashes <= MaxFaults
  /\ phase' = "recovering"
  /\ workspace' = [r \in Recordings |->
       IF workspace[r] = "open" /\ evidence[r] /\ state[EpisodeOf(r)] # "closed" THEN "sealed"
       ELSE workspace[r]]
  /\ recoverable' \in {f \in [Keys -> 0 .. MaxRecordings] :
       \A k \in Keys : LET found == {r \in Unsealed(k) : ~evidence[r]} IN
                       f[k] \in found \union {None}}
  /\ UNCHANGED <<now, failures, crashes, piped, rows, messages, leases, recordings, rec, evidence, barrier>>

\* resume_active_episodes, first half: leases from the rows, then capture for the
\* targets of the Episodes that were open and within their horizon when listed.
Resume ==
  /\ phase = "recovering"
  /\ phase' = "resuming"
  /\ resumed' = {k \in Keys : state[k[1]] = "open" /\ horizon[k[1]] >= now}
  /\ SetLeases({e \in Episodes : state[e] = "open"}, 0, horizon)
  /\ UNCHANGED <<now, failures, crashes, piped, rows, revision, events, maps, disk, barrier>>

ResumeTarget(k) ==
  /\ phase = "resuming" /\ At(Startup, "idle")
  /\ k \in resumed \intersect targets /\ resumed' = resumed \ {k}
  /\ recordings[k] = None
  /\ \E r \in Candidate(k) : Start(k, r)
  /\ UNCHANGED <<world, rows, revision, events, leases>>

\* What was not resumed, for want of a target or of a source, is published; the
\* first of the list is taken as the list is made.
ResumeRest ==
  LET rest == UNION {Parked(e) : e \in Episodes} IN
  /\ phase = "resuming" /\ At(Startup, "idle")
  /\ \/ rest = {} /\ Moves(Startup, "drain") /\ UNCHANGED recoverable
     \/ \E r \in rest :
          /\ recoverable' = [recoverable EXCEPT ![rec[r].key] = None]
          /\ Becomes(Startup, IF rec[r].published
                              THEN [IdleBarrier EXCEPT !.at = "drain", !.todo = rest \ {r}]
                              ELSE [IdleBarrier EXCEPT !.at = "publishing", !.todo = rest, !.current = r])
  /\ resumed' = {}
  /\ UNCHANGED <<world, rows, revision, events, leases, recordings, rec, disk>>

ResumeDone ==
  /\ phase = "resuming" /\ At(Startup, "drain") /\ barrier[Startup].todo = {}
  /\ phase' = "running"
  /\ Becomes(Startup, IdleBarrier)
  /\ UNCHANGED <<now, failures, crashes, piped, rows, messages, leases, maps, rec, disk>>

\* Publication is refused or fails while capture is resumed: the application does not start.
\* It may follow the last crash of the bound; the process is not started again then.
ResumeFails ==
  /\ barrier[Startup].at \in {"publishing", "committed"} /\ failures + crashes <= MaxFaults
  /\ Die

Tick ==
  /\ now < MaxTime
  /\ now' = now + 1
  /\ UNCHANGED <<failures, crashes, phase, piped, rows, messages, leases, maps, rec, disk, barrier>>

TaskStep(r) ==
  \/ LoopTop(r) \/ Spawned(r) \/ LeaseEnds(r) \/ Check(r) \/ Retry(r) \/ Recheck(r)
  \/ SinkAnswers(r) \/ SinkRefuses(r) \/ Complete(r)

BarrierStep(b) == Drain(b) \/ BarrierSink(b) \/ BarrierComplete(b)

EngineStep(e) == FinalizeEpisode(e) \/ Join(e) \/ FinalizeReturns(e) \/ Close(e) \/ OnClosed(e)

Next ==
  \/ \E r \in Recordings : TaskStep(r) \/ ChildExits(r) \/ TaskDies(r) \/ SinkFails(r) \/ JournalFails(r)
  \/ \E b \in Barriers : BarrierStep(b)
  \/ \E e \in Episodes : EngineStep(e) \/ BarrierFails(e) \/ OnLeaseExpired(e)
                         \/ Event(e) \/ EventFails(e) \/ Expire(e)
  \/ \E k \in Keys : OnEvent(k) \/ NoSource(k) \/ ResumeTarget(k)
  \/ ChangeGrace \/ Shutdown \/ Crash \/ Recover \/ Resume \/ ResumeRest \/ ResumeDone \/ ResumeFails
  \/ Tick

Spec == Init /\ [][Next]_vars

(***************************************************************************)
(* Started tasks and barriers run on, a child that was told to exit does   *)
(* (it is killed after a while), and the clock advances.                   *)
(***************************************************************************)
Fairness ==
  /\ \A r \in Recordings : WF_vars(TaskStep(r)) /\ WF_vars(rec[r].signalled /\ ChildExits(r))
  /\ \A e \in Episodes : WF_vars(EngineStep(e))
  /\ WF_vars(Tick)

FairSpec == Spec /\ Fairness
=============================================================================
