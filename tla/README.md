# TLA+ models of Episode

Episode turns deliveries from cameras and sensors into canonical Events, and
Events that belong together into Episodes: a recording with a beginning, an end,
and a portable bundle on disk that is complete when the Episode is closed. This
directory holds TLA+ modules of the part that decides when an Episode begins,
what belongs to it, how long it lasts and when it is finished, and of the
components around it: the recorder, the files, the ingestion boundary, the plugins
for two makers of cameras, snapshots and notifications. With them come the TLC
instances that check them, and TLAPS proofs of the properties that matter most.

    tlc -workers 2 -config engine_safety.cfg MCEpisodeEngine
    tlc -workers 2 -config components.cfg MCComponents
    tlapm EpisodeEngineProofs.tla
    tlapm ComponentsProofs.tla

Paths below are relative to `src/src/episode/`; `docs/` is `src/docs/`.

## 1. The system

### 1.1 Components

| component | code | state | operations | hard behaviour |
|---|---|---|---|---|
| Ingestion boundary | `ingestion/` | receipts, raw artifacts; handler registry | accept, accept_file, dispatch | durable before interpretation; handlers that time out |
| Capture profiles | `capture_profiles.py` | profiles, the active one; its lock | activate, update, delete, canonicalize_event | activation against a decision under way |
| **Episode engine** | `engine/engine.py` | leases (`_episode_deadlines`), `_finalizing_ids`, a lock per Area, the lifecycle lock | ingest_event, recovery, lifecycle pass, set_quiescent_grace, ingest_evidence, ingest_recording_evidence | every `await` is a commit another task, a crash or the clock may follow |
| **Repository** | `storage/repository.py`, `storage/events.py`, `storage/provenance.py` | SQLite rows of receipts, Events, Episodes, evidence | one commit per method | the queries read what another task is about to change |
| **Bundles** | `storage/projection.py`, `storage/bundles.py` | manifest.json and journal.ndjson per Episode, a lock per bundle | refresh, append_journal, rebuild | read page by page, then written as a whole |
| Event bus | `engine/bus.py` | handlers per message type | publish | handlers run inside the publisher's step |
| **Recording engine** | `recording/engine.py` | `_recordings`, `_recoverable`, capture leases with revisions, tasks, FFmpeg children | start, stop, park, retry, finalize_episode, recover | Events handled after their Episode is sealed, maps keyed by (Episode, Device), signals to a child that is still being created |
| **HLS bundles** | `recording/hls.py` | init file, segments, playlist, component manifest, capture.json | validate, preserve, prepare_finalize, publish | FFmpeg killed between two files, crashes between two steps |
| **Retention, Storage recovery** | `retention.py`, `storage/recovery.py` | policy, cleanup lock; file paths of artifacts and rows | run_once, reconcile_episode_paths | files go before rows; files moved before rows |
| **Notifications** | `notifications.py` | bounded queue, settings, worker | publish, reconfigure, test, stop | full queue, change of settings while sending |
| **Plugin manager** | `plugins/manager.py` | running plugins, statuses, pending reconciliations | start, reconcile, stop | timeouts of start and stop, cancelled requests |
| **Reolink plugin** | `plugins/reolink/` | one client per camera: connection, token, frame queues, pre-armed picture | monitor, login, retry, subscribe, preview, snapshot | two tasks share a client without a lock; streams without checksums |
| **Hikvision plugin** | `plugins/hikvision/sdk/` | a child process per Device and kind, pipes, futures by request id | start, stop, capture, snapshot, alarms | late messages, full queues, children that die |
| **Media, Snapshot action** | `media/`, `actions/snapshot.py` | sources per Device, rate limit | register, fetch, on event.canonicalized | the picture of another Event |
| Connectors, inventory | `connectors/`, `inventory/` | settings, Devices | deliveries in, edits of Devices | edits while deliveries are on their way |
| External plugins, ONVIF, API, UI, database | `plugins/external`, `plugins/onvif`, `api/`, `ui/`, `storage/database.py` | sessions | network and presentation | not modelled |

`__main__.py` starts them in this order: storage (which rebuilds the manifests of
unsealed Episodes), the Episode engine (which recovers Events, but leaves
FINALIZING Episodes alone), the recorder (which repairs interrupted recordings),
then `complete_finalizing_episodes`, then the rest; connectors are last.

### 1.2 How they interact

A connector hands a delivery to the ingestion boundary, which writes the artifact
and the receipt and publishes `event.received`. `EpisodeEngine.ingest_event` then

1. takes the lock of the Area the Device is in *now*;
2. creates or finds the canonical row and, in the same transaction, asks the
   active Capture profile for the participation decision;
3. links the receipt (its reception time is the Event's ingress time);
4. under the one lifecycle lock correlates: join or open an Episode, or attach as
   context, in up to five commits;
5. after both locks refreshes the manifest, then publishes `event.canonicalized`, on
   which recordings and snapshots start; its Episode may be sealed by then.

Three tasks run lifecycle passes (timeout loop, startup, a request that changes the
settling grace). A pass moves Episodes to QUIESCENT and FINALIZING under the
lifecycle lock, then, without it, calls the finalizer (the recorder's barrier) for
each FINALIZING Episode, writes the last manifest, appends the journal and commits
CLOSED.

### 1.3 What makes each component correct

- Engine: a sealed Episode is final; deadlines only grow and cover every driving
  Event; an Event belongs to one Episode for good; recovery after a crash or a
  failure carries out exactly what was missed, at the original time; actions start
  at most once; timed-out Episodes close; deliveries end.
- Bundles: nothing is missing from a closed bundle; the journal is ahead of the
  row; one pass at a time finalizes an Episode; no Episode is stranded FINALIZING.
- Recorder: a capture stops at the lease its Episode has now and not before; no
  workspace is written by two tasks; the barrier returns, and only when what it took
  on is published; what is published as playable can be played.
- Files: a row names the place where its file is, through moves and crashes, and again
  after the next startup where an association failed half way; what is past its age is
  expired, and its bytes are gone.
- Ingestion: the status of a receipt is what happened to the delivery and what the
  handler that claimed it says, whatever handlers come, go, fail or time out.
- Plugin manager: once no save is on its way, plugins run as the inventory of now
  configures them.
- Reolink: a lost session comes back, with its Event subscription; live video is
  whole and in order, or its damage is counted; a picture is that of its Event.
- Hikvision: a capture pushes only its own preview and ends with the child; an
  answer is that of its request; a lost alarm shows.
- Notifications: a request goes out at most once, and only in the period it was
  queued in.
- Capture profiles (planned): every decision is that of a profile active at some
  moment between canonicalization's begin and its commit.

The hazards of each, at the lines where they bite, are in `PROJECT.json`.

## 2. The modules

| module | what it is |
|---|---|
| `EpisodeLifecycle` | abstract specification: Episodes open, gain Events, extend, expire and close |
| `EpisodeEngine` | the engine and its repository commits, locks, recovery, crash and restart |
| `EpisodeEngineProperties` | the engine's invariants and properties, the refinement mapping |
| `EpisodeEngineProofs` | TLAPS proofs about `EpisodeEngine`: types, locks, finality and refinement; then what a correlation, a failure, a crash and recovery leave behind |
| `MCEpisodeEngine` | instances of the engine for TLC |
| `EpisodeFinalization` | from FINALIZING to CLOSED: passes, finalizer, manifests, journal |
| `EpisodeFinalizationProperties` | its invariants and properties |
| `EpisodeFinalizationProofs` | TLAPS proofs about `EpisodeFinalization` |
| `MCEpisodeFinalization` | its instances for TLC |
| `RecordingLifecycle` | abstract specification: a recording is captured, persisted and sealed, by one task at a time |
| `RecordingEngine` | the recorder: capture tasks, leases, parking, the barrier, recovery, shutdown |
| `RecordingEngineProperties` | its invariant and properties, the refinement mapping |
| `RecordingEngineProofs` | TLAPS proofs about `RecordingEngine` |
| `HlsBundle` | the files of one recording under FFmpeg, kills, crashes and publication |
| `EvidenceFiles` | rows, artifacts and files: association, retention sweep, reconciliation |
| `EvidenceFilesProofs` | its invariant, and TLAPS proofs |
| `Ingestion` | a delivery from its bytes to the status of its receipt |
| `IngestionProofs` | its invariant, and TLAPS proofs |
| `PluginManager` | Device rows, reloads, starts and stops of plugins |
| `PluginManagerProofs` | its invariant, and TLAPS proofs |
| `ReolinkSession` | connection, login, subscription, monitor and snapshot retries of one camera |
| `ReolinkPreview` | its native live video, from packets over frames to the recorder |
| `ReolinkPreviewProofs` | TLAPS proofs about `ReolinkPreview` |
| `Snapshots` | pre-armed pictures, the snapshot action and current views |
| `HikvisionVideo` | the SDK's video worker and its child |
| `HikvisionAlarms` | the SDK's alarm worker, its child and snapshot requests |
| `Notifications` | the Episode-started webhook |
| `MCComponents` | the eleven components above for TLC, in one run |
| `ComponentsProofs` | TLAPS proofs about the components side by side, and about those without a proof module |
| `MCRecordingEngine`, `MCEvidenceFiles`, `MCReolinkSession`, `MCHikvisionVideo` | one of them alone, for the runs of section 3.3 |

The inductive invariants of `HlsBundle`, `ReolinkPreview`, `Snapshots`, `HikvisionVideo`,
`HikvisionAlarms` and `Notifications` end those modules.

Operators named `Faulty...` are plausible bugs, each next to the definition it
would replace; no module uses them. They show that every checked property can fail.

### 2.1 EpisodeEngine and the code

One delivery is one run of `ingest_event`; `pc[d]` says which `await` it has
reached and `job[d]` holds its locals. One action is one commit together with what
the code does up to the next `await`; queries whose result no other task can change
before the next commit are part of that commit's action.

| step (`pc`) | actions | code |
|---|---|---|
| idle → accepted | `Receive` | receipt persisted, `_on_receipt_received` |
| accepted | `RejectDraft`, `EnterArea` | draft Device; lock of the Area |
| canonicalize | `CanonicalizeNew`, `CanonicalizeDuplicate`, `RejectConflict` | row and decision in one transaction, or the row of an earlier delivery |
| backfill, link | `Backfill`, `Link` | `event_recovery_ingress_time`, `link_ingestion_receipt` |
| recover | `Recover` | `_recover_unassigned_active_event` |
| lifecycle | `AbandonRecovery`, `JoinEpisode`, `OpenEpisode`, `AttachFiltered`, `AttachInactive`, `RecordNoOpenEpisode`, `RefuseAssociation` | first commit of `_correlate`, `_attach_without_capture` |
| first_event, activity, extend, wake, announce, attachment | `LinkFirstEvent`, `RecordActivity`, `ExtendMinimumEnd`, `Wake`, `Announce`, `RecordAttachment` | the commits that follow, in the code's order |
| leave, publish | `LeaveArea`, `Publish` | locks released, `event.canonicalized` |
| any | `Fail` | an exception out of a repository call |

`phase` is the startup of `__main__.py`: "down", "recovering" (startup recovery by
the worker `Startup`), "deferred" (the timeout loop runs, finalization waits for the
recorder), "running". `Crash` may fall between any two actions and forgets memory,
locks and tasks; rows stay.

The time of an Event is its reception; `now` is the wall clock of the pass. They
differ by the time a delivery waits, which is what several properties are about.

Abstractions, and why they are safe:

- An Episode's finalization is two actions here (`BeginFinalization`,
  `CompleteFinalization`); `EpisodeFinalization` has its detail.
- Rows written before minimum ends and participation windows were stored do not
  occur; Events without an Area are not correlated and are left out, as are direct
  calls that carry no receipt.
- A Capture profile is the set `Decisions` an Event may get; its window is in
  `Windows`.
- Messages are handled inside `Announce`, which the code publishes inside the
  lock; `episode.created` is counted in `announced`.
- `last_event_time` and the event count are derived and not read by any decision;
  the update of them in `_attach_without_capture` is left out.
- The request that changes the grace is two actions (`SetGrace`, `GracePass`), as
  the code stores the value and then waits for the lifecycle lock.
- A repository call that raises has either committed or not; both are the same as
  failing before it or before the next one, so one `Fail` covers both.
- `Backfilled` finds a receipt: the deliveries bring an artifact whose path in the
  Event row is that of its receipt while the Event is pending. For a row that lost it
  (moved, expired) `event_recovery_ingress_time` finds none and falls back to the time
  of the participation decision (repository.py:711-732).
- `RejectDraft` stays enabled while the lock of the Area is awaited, which widens when
  a draft may be refused.

### 2.2 EpisodeFinalization and the code

Passes (`Loop`, `Startup`, `Request`) each keep the list `job[p].todo` that
`transition_timed_out_episodes` returned to them. Tasks that add to a bundle
(`Events`, `Receipts`, `Recordings`) change rows and then refresh the manifest
through the same three actions as the passes: `ReadState` (lock of the bundle, the
state is read), `ReadItems` (the rows, later), `WriteManifest`.

ACTIVE and QUIESCENT are one state "open", and a deadline passes whenever a pass
runs: which one is `EpisodeEngine`'s concern. An Event is linked under the lifecycle
lock and only to an open Episode; a duplicate's receipt is linked in any state; a
recording is checked and linked in two steps under the lifecycle lock. A recording
may come at any time, also after the recorder's barrier returned: the barrier
is only returned from or raised from here, `RecordingEngine` has its detail. `Boot` rebuilds the manifests of unsealed
Episodes in one step, before any task runs.

### 2.3 The recorder and the code

One action of `RecordingEngine` is the code a task runs from one `await` to the
next. `rec[r].pc` follows `_record_episode`: "top" of the loop, "spawn"
while `create_subprocess_exec` is awaited, "capture" while FFmpeg runs, "check" and
"recheck" after it, "retry" while it sleeps, "publishing" and "committed" around the
sink, then "ended", or "dead" when an exception left it. `recordings` and
`recoverable` are the two maps, by key; `workspace` and `evidence` survive a crash.
`barrier[e]` is `finalize_episode` (and, for `Startup`, the loop at the end of
`resume_active_episodes`): it joins the stopped tasks, then drains the parked
workspaces one by one. Signals are not remembered by a child that does not exist yet:
`OnLeaseExpired` and the stops set only what the code sets, which is why the loop
must look again.

The Episode engine is its environment, reduced to what the recorder can see: leases with a
revision, `event.canonicalized`, FINALIZING, the call of the barrier, CLOSED. The recorder is the
one subscriber of `episode.updated` and sets a lease before its first await, so the bus, which
awaits its handlers, delivers leases in the order and at the time they are published: a lease is
part of the action that publishes it (`SetLeases` in `Event`, `ChangeGrace`, `Resume`). Only
`event.canonicalized` can be late. It is published after both locks are released and after the
manifest has been refreshed (engine.py:402-416), and neither `_on_event` nor `_start_recording`
asks for the state of the Episode; `Expire` does not wait for it, so `OnEvent` may begin or
continue a recording of an Episode that is FINALIZING or CLOSED. Such a recording is `late`, a
field the recorder does not have: the properties need it (3.4). Plugins are started before
captures are resumed, so Events may come while startup still does that. `piped` Devices are those
whose video a plugin pushes; their workspaces cannot be resumed after a failed publication.
A recording that is parked and continued while a barrier waits for its first task is awaited or
not, by whether `_finish_stop` has come to the task by then (`Unawaited`).

`RecordingLifecycle` is what remains when maps, leases, messages and barriers are hidden: a
recording's key, what a task does with it, what outlives the process, for which keys capture may
still begin (`due`), and which captures began late. `Mode`, `TaskOf`, `Saved` and `Due`
(RecordingEngineProperties) map the recorder to it: a task captures until it parks, dies or
publishes, which is "publishing" and "committed"; a workspace with an Evidence row but without its
seal is "evidence"; due are the unhandled Events and the targets still to be resumed.

`HlsBundle` goes into one workspace. FFmpeg is modelled by the options the code gives
it (external): it opens `init.mp4`, writes a temporary segment, renames it, and commits
a temporary playlist; it may be killed between any two. `Valid` translates the scan
of `validate_playlist` line by line over a playlist of tagged lines, and `Playable`,
which the property uses, is stated without it.

### 2.4 Files, ingestion, plugins, notifications

- `EvidenceFiles`: `assoc` is the one association under the lifecycle lock, `sweep` the
  one cleanup under its own lock; their steps are single commits or removals. A path
  is a place (inbox, bundle, gone). `Recovered` is `_recover_path`. An association of an
  Item in `Failing` may raise or be cancelled before each of its steps
  (`AssociationFails`). When it ends between the move and the commits that follow, the
  Item is `torn`: its file is in the bundle, its paths are not, and since its
  `episode_id` is set no association takes it up again. A cancelled task does not stop
  the thread that moves the file (`MoveLate`).
- `Ingestion`: `outcome[d][h]` is what `_invoke` returns for each handler, a state and,
  of a claim, an observation or none and the handler's own status: `IngressHandlerResult`
  lets a handler claim ACCEPTED, IGNORED, UNMATCHED or REJECTED with an Event, with
  Evidence or with neither, and `_interpret` takes that status over (service.py:205).
  `answer[d]` is the status `_interpret` is about to write. A delivery's end is "done",
  "refused" (the caller gets 503) or "stranded" (an FTP upload nobody takes up).
- `PluginManager`: a save commits a row and then queues on
  `Application._plugin_reload_lock`; a reload's steps are loading, stopping and
  starting one plugin at a time, and its request may be cancelled at each. Versions
  stand for the contents of a Device.
- `Notifications`: the settings lock of the service, the queue, and the delivery lock
  that the worker and test deliveries share. `period` counts the times notifications
  were disabled. A request that is cancelled inside `set_system_setting`, after the row is
  written and before memory is (notifications.py:468-472), is not modelled.

### 2.5 Cameras

- `ReolinkSession`: `pc` of the monitor and of a snapshot's `_run_with_retry`, over one
  client. A request that waits on a connection fails when its dispatcher ends.
- `ReolinkPreview`: a packet is three cells (header, payload, padding) sliced into
  frames of one or more cells; `Walk` is `BcMediaWalker`, which resynchronizes on a
  header. The camera is external: it finishes the packet it has begun when told to
  stop, and no payload contains what looks like a header.
- `Snapshots`: an event frame arms the slot; the action takes the picture by token and
  age or fetches one of its own; a current view may fetch meanwhile; a reload numbers
  tokens anew. `since` remembers for each capture which frames had arrived when it was
  asked for.
- `HikvisionVideo` and `HikvisionAlarms`: both ends of the pipes. The child's messages
  are in order; whoever reads, watches the exit, or stops the worker are tasks that
  interleave. `Untimely` lets a capture begin while the worker is stopped or be
  cancelled while its stop is confirmed; `EarlyAlarms` lets an alarm come before
  "ready". Both are FALSE in `components`; section 3.4 says what they do.
  `notification_rejected` and `callback_error` (runtime.py:296-297), which only change
  diagnostics, are left out.
- `Snapshots.Stop` fails captures at once. In the code a retry under way may log in once
  more before it fails; and `_on_event` and the first step of the capture task
  (actions/snapshot.py:75) are one action.

## 3. What is checked

Deadlock checking is off in every run: an instance ends when its deliveries, its
clock and its crashes are used up.

| run | instance | shows |
|---|---|---|
| `engine_safety` | 3 Events of one Device, allowed or filtered, 2 Episodes, 4 ticks | `EveryDriverContributes`, `LeaseMatchesDeadline`, `QuiescentHasElapsed`, `SealedIsFinal`, `DeadlineNeverShrinks` |
| `engine_recovery` | one Event delivered twice and another, 2 crashes, 3 ticks | `EngineInv` (the inductive invariant), `EveryEpisodeHasADriver`, `PendingIsInProgress`, `DispatchedAtMostOnce` |
| `engine_policy` | excluded, inactive and conflicting deliveries, grace 0 or 2 and changed once, 4 ticks | `Implements` (EpisodeLifecycle) |
| `engine_liveness` | one Event delivered twice in two Areas, 1 crash, 1 failure, 3 Episodes, 3 ticks, weak fairness | `TimedOutEpisodesClose`, `EveryDeliveryEnds`, `AssociationIsPermanent`, `LeaseNeverOutlivesDeadline`, `CorrelatesAtFirstIngress` |
| `final_passes` | 2 Episodes, loop and startup, a receipt, 1 failure, 1 tick | `OneFinalizerAtATime`, `ClosedIsFinal` |
| `final_complete` | 1 Episode, an Event, a recording, 3 passes, 1 crash, 1 failure, weak fairness | `BundleInv` (the inductive invariant), `ClosedBundleIsComplete`, `JournalPrecedesClose`, `FinalizingCloses` |
| `components` | each of eleven components by itself, with its faults, crashes and fairness | the table below |

| component | properties of `components` |
|---|---|
| all but `ReolinkSession` | `ComponentsInv` (their inductive invariants) |
| recorder | `RecorderImplements` (RecordingLifecycle), `CaptureFollowsLease`, `BarrierPublishes`, `CaptureStopsAtLease`, `BarrierReturns` |
| HLS bundle | `PublishedIsPlayable` |
| files | `RowsFollowFiles`, `ExpiryCompletes` |
| ingestion | `ReceiptTellsOutcome` |
| plugin manager | `PluginsFollowInventory` |
| Reolink | `SessionRecovers`, `DamageIsCounted`, `PictureBelongsToItsEvent` |
| Hikvision | `PushesItsOwnPreview`, `CaptureEnds`, `AnswersItsRequest`, `LostAlarmShows` |
| notifications | `NotifiesItsPeriod` |

The components share no variables. `MCComponents` chooses one (`active`) in the
initial state and lets only that one move, so that its states are the sum, not the
product, of theirs; the others keep their initial states, in which their
properties hold.

The inductive invariants begin with the types of the variables. Two properties of the
engine speak of undisturbed runs only, `EveryDriverContributes` and
`QuiescentHasElapsed` (no failure and no crash has happened), and section 3.3 says what a
crash does to the first.

### 3.1 Bounds

Engine. With window 1 and grace 1 an Event received at 0 has its deadline at 1, may be
joined until 2 and is sealed from 3 on: `MaxTime` 3 or 4 lets an Episode go through
its whole life, and lets a second Event come before the deadline, during
quiescence, at the very boundary and after it. Two Episodes suffice where at most
two can be opened; `engine_liveness` has three because a crash after two refused
shells opens a third. Two deliveries of one Event and a third delivery cover every
pair of a first delivery, a duplicate and a stranger. Two crashes cover a crash of
the recovery from a crash. In `EpisodeFinalization` two Episodes give a pass a list
it has not finished, and one tick tells two end times apart. Episodes are
interchangeable, so runs without liveness use symmetry over them.

Components. Two recordings of one key are a capture and its continuation or its
successor. Leases end at 0 and 1 in revisions 0 and 1: a lease is extended by an Event,
extended or shortened by a new grace, and set again by a restart, while the recording
under it starts, captures, parks and is continued. One lease ends within the clock and
one with it: `CaptureFollowsLease` compares deadlines in every state and needs no time
at which the later one has lapsed, and `CaptureStopsAtLease` and `BarrierReturns` speak of
the earlier. One unhandled Event of a key is one that is early, late, or a duplicate; a second
of the same key finds it recording. One fault and two crashes meet a recorder that
recovers; after the last crash of the bound the process is not started again. Startup sets
the leases of all Episodes at once, where the code sets each as it comes to it.
Both Items' associations may fail (`Failing`).
Two segments and one parking give `HlsBundle` a playlist that a second attempt
continues. Two Items are an Evidence and an Event's picture; one crash falls between
any two of their commits. One delivery and two handlers give every pair of outcomes;
deliveries do not share state beyond the router. Two Devices and two plugins, one of
which uses both, have reloads that concern each other. Two frames, three captures
and one reload are the fewest with which a picture of another Event, of another
token number, or of no Event could be taken. Two captures and three messages in a
pipe let a message of one capture be read during the next, with the queue full.
Two packets, one frame in a queue and two bursts let a packet continue over a gap,
over a lost connection and over the frames of an earlier burst. Retries of a login
are one instead of four and of a command two instead of three: a bound on repetition
changes when an actor gives up, not what it may find.

### 3.2 Fairness

Only weak fairness, and only of steps the code takes by itself: a started coroutine
goes on when its lock is free, the timeout loop turns, finalizers end, a stopped
process is started again, and time passes. Nothing obliges a delivery to arrive, a
request to be made, a crash or a failure to happen. An asyncio lock is granted in
order, which is stronger than what the properties need: a lock that keeps being
free is taken. A finalizer that hangs is outside the assumption of the engine's runs;
that the recorder's does not is `BarrierReturns`, for barriers whose tasks have a lease
that ends before the bounded clock does.

In `components`: the recorder's tasks, its barrier, the clock, and a child that was
told to exit (it is killed after a timeout); the retention sweep, which runs
every hour, and startup; the Reolink monitor and a snapshot under way, whose requests
have timeouts; the Hikvision supervisor's own tasks, and a child whose stdin is
closed. Ingestion, bundles, plugins, pictures, previews, alarms and notifications are
checked for safety only and have no fairness.

### 3.3 Where the documentation says more than the code does

Five runs find a counterexample to a sentence of the repository.

- `engine_split`: docs/ARCHITECTURE.md:82-84 says latency creates no artificial
  split. A lifecycle pass seals by the wall clock and does not know of deliveries
  already received that wait for a lock; such a delivery opens a second Episode.
- `recorder_left`: docs/ARCHITECTURE.md:77-81 says output in progress is finished
  before an Episode is CLOSED. `Application.stop` stops the recorder first, which
  takes its recordings out of the map without publishing them; a lifecycle pass that
  still runs finds nothing to finalize and closes the Episode, and recovery looks at
  unsealed Episodes only.
- `evidence_leak`: the retention sweep reads the paths of an Evidence row, the
  association moves the file meanwhile, the sweep ignores that the old path is gone
  and marks the row expired: the bytes stay in the bundle for good
  (docs/ARCHITECTURE.md:555-563).
- `reolink_silent`: plugins/reolink/client.py:1818-1819 calls reconnect and re-login
  self-healing for every other caller. Only the monitor subscribes to Events, and only
  when it is the one who logs in; after a snapshot's retry has logged in the camera
  is silent (device.py:249-250).
- `sdk_status`: docs/HIKVISION_SETUP.md:281-282 says "ready" means connected. A preview
  that does not stop in time ends the worker, which still reports RUNNING and is not
  started again.

The following were seen with other values of the constants, or while reading; no run
is kept for them.

- docs/ARCHITECTURE.md:64-65 says every active Event contributes a minimum deadline.
  The Event is linked before the deadline is extended, and recovery looks only for
  Events without an Episode: with `MaxCrashes = 1` in `engine_safety`,
  `EveryDriverContributes` is violated by a crash between the two.
- engine/engine.py:483-484 says a duplicate dispatches the *missed* action. When the
  Device moves, the deliveries of one Event hold the locks of different Areas, the
  duplicate recovers the Event while the first delivery is still correlating it, and
  both dispatch; or the first has opened an Episode, lost the Event to the duplicate,
  and leaves the Episode empty. With `AreaOf <- MovedArea` and `Areas = {a1, a2}` in
  `engine_recovery`, `DispatchedAtMostOnce` and `EveryEpisodeHasADriver` are violated.
- docs/ARCHITECTURE.md:481-482 says the last manifest is written before the Episode is
  closed. A duplicate's refresh (repository.py:498) that falls between the final
  manifest (engine.py:568) and the commit (engine.py:997) is the last one written and
  names the state "finalizing". The contents are complete (`ClosedBundleIsComplete`).
- storage/repository.py:1678-1679 says retrying finalization is harmless. It is for the
  row (`ClosedIsFinal`), but a pass whose list still names a closed Episode
  (engine.py:977) runs the finalizer again and rewrites its manifest with another end
  time.

One case is weaker than one would like and is stated as such: a recording that
arrives after the final manifest and whose own refresh fails, or is lost in a crash,
is missing from a closed bundle for good. `ClosedBundleIsComplete` exempts it, and
only it.

### 3.4 What the properties and assumptions of `components` leave out

- `LateFailures`: with TRUE, `PublishedIsPlayable` fails. When the sink fails after it
  has committed the row, or the journal after it, the workspace stays recoverable
  although its Evidence is persisted, and capture continues inside it
  (docs/OPERATIONS.md:306-308). Files that `preserve_temporary_components` has moved away
  are not counted as leftovers by `prepare_finalize` (docs/OPERATIONS.md:207-213); the
  model keeps that.
- `BarrierPublishes` excepts the loop that ends `resume_active_episodes`
  (recording/engine.py:415-420). It takes a workspace out of the map, publishes it, and
  only then goes on, while plugins deliver Events and Episodes expire: the task of a
  capture just resumed parks its workspace, the loop takes it, and the barrier that
  waited for the task finds nothing. Without `At(Startup, "idle")` TLC finds this
  with one Device and two ticks.
- `BarrierPublishes` also excepts a plugin source's Device after a failure or a crash:
  two workspaces under one key displace each other. That a crash is enough was
  found by the proof: with failures alone excepted, the case of the startup loop could not
  be closed, and TLC confirmed the behaviour it suggested (30 steps, two Devices, one
  crash, no failure). The loop (recording/engine.py:415-420) takes a key whose workspace a
  plugin source has begun again and published meanwhile; removing that key forgets a second
  workspace parked under it, and `finalize_episode` returns without its Evidence.
- Late captures. An Event handled when its Episode is FINALIZING continues the parked
  workspace of its key (recording/engine.py:578), which the list of the barrier under way
  (734-738) then misses, or begins one that no list has. `UniqueInv`, `OwedInv` and
  `BarrierPublishes` except a key with a late capture (`LateFor`); without that TLC finds
  the behaviour. One that begins or goes on in a CLOSED Episode is not awaited by
  anything: its lease is gone with `_episode_capture_leases`, and it ends by itself, by a
  lapsed deadline it still has, by a failure of its child, or with the process; its
  publication is refused. `CaptureInv`, `RecorderImplements` and `NothingLeftBehind` speak of
  captures that began while the Episode was open. Nothing in the repository
  promises more of the others.
- In the recorder `write_capture_state` does not fail when a workspace is continued
  (recording/engine.py:606-613); an exception there would lose the recording from both maps
  until the next start.
- `RowsFollowFiles` excepts torn Items: an association that raises or is cancelled between the
  move and the two path updates (storage/repository.py:1620-1635) leaves rows that name a
  place without a file. The next startup repairs them (`ReconcileRow`), unless the Episode
  is CLOSED by then, which startup does not look at: then they stay so for good. The exception
  is as narrow as that: without `torn`, TLC finds the stale rows of a running process.
- `ReceiptTellsOutcome` excepts a claim next to a handler that failed, which is ingested
  and answered REJECTED. Of a claim without an observation it says that the receipt has the
  handler's own status and that nothing was created; of one with an observation and a status
  of its own (UNMATCHED, IGNORED) that the receipt says the same, created or not as the Device
  allows.
- `Untimely`: with TRUE, `PushesItsOwnPreview` and `CaptureEnds` fail. A capture that is
  cancelled while it waits for "preview_stopped" leaves that notice, and packets, to
  the next one; one that begins while the worker is stopping is not told of the end.
- `EarlyAlarms`: with TRUE, `LostAlarmShows` fails. An alarm between `SetupAlarmChan` and
  "ready" may be lost, and "ready" clears the error.

Read in the code, and in the models as behaviour, but against no promise: a handler
removed while a delivery is dispatched raises `KeyError` (ingestion/router.py:102) and
nothing takes an ACCEPTED receipt up again after that or after a crash; FTP uploads
that end while the connector stops are never ingested (connectors/ftp.py:145-149); a
full notification queue drops the new item; a request in hand goes to the address it
was taken for.

## 4. What is proved

For every number of Areas, Events, deliveries, Episodes, Devices, plugins, tasks and
messages, every assignment of Events, Areas and states to deliveries, and every bound.
Each line is a theorem; the properties in it are those the runs check, unless it says
otherwise.

| theorem | statement |
|---|---|
| `EpisodeEngineProofs!Invariance`, `TypeCorrectness` | `Spec => []IndInv`, `Spec => []TypeOK` |
| `SealedEpisodesAreFinal` | `Spec => SealedIsFinal` |
| `AssociationsArePermanent` | `Spec => AssociationIsPermanent` |
| `DeadlinesNeverShrink` | `Spec => DeadlineNeverShrinks` |
| `EngineImplementsLifecycle` | `Spec => Implements` |
| `CorrelationInvariance`, `EngineInvariance` | `Spec => []CorrelationInv`, `Spec => []EngineInv` |
| `StationaryInvariance` | `Stationary`: `Spec => []StationaryInv` |
| `LeasesEndInTime` | `Spec => []LeaseNeverOutlivesDeadline` |
| `CorrelationsAreOnTime` | `Spec => []CorrelatesAtFirstIngress` |
| `QuiescenceIsEarned` | `Spec => []QuiescentHasElapsed` |
| `DriversContribute` | `Spec => []EveryDriverContributes` |
| `RecoveryIsComplete` | `Spec => []PendingIsInProgress` |
| `LeasesMatch`, `ActionsStartOnce`, `EpisodesHaveDrivers` | `Stationary`: `Spec => []LeaseMatchesDeadline`, `[]DispatchedAtMostOnce`, `[]EveryEpisodeHasADriver` |
| `EpisodeFinalizationProofs!Invariance`, `BundleInvariance` | `Spec => []IndInv`, `Spec => []BundleInv` |
| `FinalizersExclude` | `Spec => []OneFinalizerAtATime` |
| `JournalIsAhead` | `Spec => []JournalPrecedesClose` |
| `ClosedEpisodesAreFinal` | `Spec => ClosedIsFinal` |
| `ClosedBundlesAreComplete` | `Spec => []ClosedBundleIsComplete` |
| `RecordingEngineProofs!RecorderInvariance` | `Spec => []RecorderInv` |
| `FollowsLease` | `Spec => []CaptureFollowsLease` |
| `PublishesWhatItOwes` | `Spec => []BarrierPublishes` |
| `TasksTakeTurns`, `LeasesAdvance` | `Spec => OneTaskPerWorkspace`, `Spec => LeaseOnlyAdvances` (no run checks these two) |
| `RecorderImplementsLifecycle` | `Spec => RecorderImplements` |
| `IngestionProofs!Invariance`, `ReceiptsTellOutcomes` | `Spec => []IndInv`, `Spec => []ReceiptTellsOutcome` |
| `EvidenceFilesProofs!Invariance`, `RowsFollow` | `Named`: `Spec => []IndInv`, `Spec => []RowsFollowFiles` |
| `PluginManagerProofs!Invariance`, `PluginsFollow` | `Named`: `Spec => []IndInv`, `Spec => []PluginsFollowInventory` |
| `ReolinkPreviewProofs!FeedInvariance`, `DamageCounted` | `Sized`: `Spec => []FeedInv`, `Spec => []DamageIsCounted` |
| `ComponentsProofs!FilesFollow`, `ReceiptsTell`, `PluginsFollow`, `DamageCounts` | the four above, for `ComponentsSpec` |
| `PicturesBelong` | `ComponentsSpec => []PictureBelongsToItsEvent` |
| `SnapshotsAnswer` | `ComponentsSpec => []AnswersItsRequest` |
| `NotifiesPeriods` | `ComponentsSpec => NotifiesItsPeriod` |
| `LostAlarmsShow` | `~EarlyAlarms`: `ComponentsSpec => []LostAlarmShows` |
| `PublishedPlay` | `~LateFailures`: `ComponentsSpec => []PublishedIsPlayable` |
| `PushesOwnPreview` | `~Untimely`: `ComponentsSpec => []PushesItsOwnPreview` |
| `ComponentsInvariance` | `~Untimely`: `ComponentsSpec => []ComponentsInv` |

Every safety property of a passing run is in this table.

Assumptions: the sets of identities are disjoint from their "none" values, the
constant functions have their types, bounds and settings are naturals
(`IdentityAssumption`, `DeliveryAssumption`, `SettingAssumption`, `TaskAssumption`,
`BoundAssumption`, `RecorderAssumption`); TLC evaluates them in every run. `Named` says
the same of the files and the plugin manager, and `Sized` that the queues of the live video
have a natural length; these modules are instances in `MCComponents`, and
`ComponentsProofs` discharges the hypotheses there. The other hypotheses are about behaviour, and
each is needed: 3.3 and 3.4 say what TLC finds without it.

**Engine, locks.** `SealedIsFinal` is not inductive: whether `ExtendMinimumEnd` touches a
sealed Episode depends on what happened since the Episode was read as open.
`LockInv` carries that over: a task is past the lifecycle lock exactly when it holds
it, and the Episode it is writing to is open. The only step that seals is a pass,
and a pass needs the lock free. `TaskInv` and `ReceiptInv` add that a task under way
knows its Event and that linked receipts have a time, without which types are lost
in `Recover` and `OpenEpisode`. Each action has a lemma with one step per conjunct;
the three action properties and the refinement go through the actions that write
the rows, and all others leave the mapped variables alone.

**Engine, correlation.** `CorrelationInv` is a chain, each part inductive given `IndInv` and
the parts before it. `PhaseInv`: deliveries run only in a running engine. `OriginInv`: a row
names the delivery that created it, and a task in mode "new" is that delivery.
`IngressInv`: whoever correlates an Event finds its first receipt linked, so the time it
uses lies between the Event's first ingress and its first delivery. `LeaseInv`: a task about to
announce has persisted what it announces. `QuiescenceInv`: an Episode joined in
quiescence is quiescent under the lock only until its task wakes it. `DriverInv`: an Event is
covered, or its task has yet to extend. `PendingInv`: a pending Event has a
delivery of its own that will correlate it, which is why recovery after a crash is complete.

`StationaryInv` holds while all deliveries of one Event share an Area (`Stationary`), since
only then does one lock order its tasks: `AreaInv` and `AssociationInv` (nobody else works on
the Event in hand), `MemoryInv` (a lease is the deadline on disk unless its task writes),
`DispatchInv` (at most one task will start an Event's actions, and none after they
started), `ShellInv` (an Episode without an Event is one whose task is about to link it,
or one that recovery, which takes pending Events in the order they came, finds by Area,
start and horizon before it takes another). With a Device that moves, TLC finds the properties
violated.

**Finalization.** `OneFinalizerAtATime` speaks of passes in the middle of an
Episode; `ClaimInv` strengthens it to every pass that has claimed one and has not
yet given it up, whose Episode is then in `_finalizing_ids` and no other pass's.
`SealInv` extends the journal's lead to the passes about to commit, and `TaskInv`
says where a manifest refresh may return to. A closed bundle is complete because of what
a snapshot under way has read. Only the holder of the bundle's lock is in a refresh, so what it
is about to write contains what is there (`RefreshInv`): manifests only grow. What a task linked
is in its own snapshot, in the manifest, or owed (`LinkInv`). An Episode in a pass's
hands is sealed, gets no more Events, and its last refresh has them all (`OrderInv`).

**Recorder.** `RecorderInv` relates two maps by key, the tasks, the disk and the barriers.
It holds with Events handled at any time, also in FINALIZING and CLOSED Episodes. `LateInv` and the
lemmas about it (`LateOutcome`, `LateForStays`, `StartsLate`) say that only recordings of sealed
Episodes are late and that a key with a late one keeps it, which is what the
exceptions of the other parts rest on.
`MapsInv` and `OpenInv`: a mapped recording has a task that captures or has died, and
a capturing task of an open Episode is mapped. `LeaseInv` makes `CaptureFollowsLease`
inductive: each mapped recording has the lease's deadline, also while it is being
spawned. `UniqueInv`: of what may be or become recoverable under a key there is one, so no
workspace displaces another; the exception (`Excused`) is a plugin source's Device after a failure
or a crash. `OwedInv`: what a barrier took on is published, recoverable until the barrier lists
it, on its list, or in the hands of the startup loop (`ListedInv`). The actions are
sorted into a few kinds (`StepKinds`), and the outcome of each kind is described once:
a lemma per part of the invariant then goes through the kinds.

`RecorderImplementsLifecycle` goes through the same kinds: each step of the recorder is an action
of `RecordingLifecycle` or unseen by it (`TaskRefines`, `StartRefines`, `BarrierRefines`,
`EngineRefines`, `ProcessRefines`). That two tasks never capture under one key, or one workspace,
follows from the maps. That an Episode closes with no capture left that began while it was open needs `CaptureInv`: such a
task is mapped, or the barrier of its Episode still waits for it, until the recorder is being
stopped. The same part, and that a workspace not yet begun has no Evidence (`WorkspaceInv`), keep a
barrier from publishing what is still captured. `Begin` needs its key to be due: a start comes from
an Event or from resumption (`Asks`, `MappedRequests`, `QuietRequests`), which were asked for while the
Episode was open. Three weaknesses of the abstract specification
are the code's: the loop that ends `resume_active_episodes` may publish a workspace that an
Event has just continued, a barrier one that an Event has continued late, and during shutdown an
Episode may close while it is captured (`recorder_left`, section 3.3).

**Ingestion.** The handlers' answers are any of `Settled`: every status with every observation or
none. `ReceiptTellsOutcome` speaks of deliveries that are done, but what it
says is decided in `_interpret`, and the Device and the handlers change until the
status is written. `Journey` carries it: a delivery before `ingest` has created
nothing, one at `ingest` is still interpretable and its pending status is the one its
claims call for, and one at `status` has a pending status that tells the truth. A step
of a delivery leaves every other delivery's part alone (`OneDelivery`), so each action
has to be looked at for its own delivery only.

**Files.** An Item is in the inbox until it is moved; then row and artifact follow, or somebody is
to finish the move (`Placed`): the association under way, the reconciliation under way, or the
next startup, which finds it because an association's Episode stays unsealed until it is
done (`AssocInv`). An Item that nobody will finish before then is in `torn`, and is there only
with its file moved, removed by the sweep, or in the hands of the thread that moves it.

**Plugins.** A row that a snapshot does not have belongs to a save that waits, is about to be
looked at, or was cancelled (`BehindInv`); a plugin no reload has in hand runs with its
snapshot, or is known not to run (`RunningInv`).

**Live video.** Every cell has a place (`Place`) in what the camera sends. What `DamageIsCounted`
says is inductive only together with where the capture goes on: the frames under way follow each
other without a gap up to where the camera goes on (`Joined`, `Reaches`), except that a rejection
may stand between them, at which a capture ends; and while nothing was dropped, the same holds for
the capture's queue and the frames behind it (`Ahead`). Frames of an earlier burst are in that
sequence: the packet they finish was begun before the capture, so the walker, whose buffer starts
empty, passes over its cells. The walker keeps at most two cells, the beginning of one packet, and
the capture goes on at the next place (`ReadInv`); so a frame continues that packet, begins the next one,
or belongs to one whose beginning was missed: the walk sees at most three cells of one packet
(`WalkOfPacket`) and is computed case by case, without an induction. Units queued or delivered are whole, in order, and before whatever is still
to come (`Precedes`), also after the capture has lost its connection, when nothing is.

**The others.** `ComponentsProofs` shows of each component that a behaviour of `ComponentsSpec`
is, seen by the component's variables, one of the component, which stutters while another is
active (`FilesSteps` ... `VideoSteps`); so a component's theorems apply, and its
invariants hold side by side (`ComponentsInvariance`).

- `PictureInv`: captures are numbered; the picture in the slot, the one being fetched and
  those kept are different captures (`UsedOnce`, `SlotInv`), and what carries the token of the
  frame in hand was asked for after that frame, also after tokens start anew (`TokenBinds`).
- `AlarmInv`: while no alarm has come before "ready", no "ready" is still in the pipe once an
  alarm has been read, so nothing clears the error of a lost one (`ReadyInv`).
- `VideoInv`: packets, items and previews are of the newest capture (`OwnInv`); while the worker
  serves, "stop" is the last command and "preview_stopped" the last message of a preview, so the
  capture whose notice was read has nothing left in the child, the pipes or the reader, and only
  then is the lock free (`TurnInv`). In every other way a capture can end, no other begins.
- `NotifyInv`: what is queued or in hand is of the present period unless notifications are being
  disabled (`PeriodInv`), and in the order of its Episodes, none of them sent (`OrderInv`).
- `WorkspaceInv`: a playlist has the shape that FFmpeg's appends and closings give it
  (`Listing`), what is judged valid in that shape can be played (`JudgedInv`), and nobody writes
  to it after (`PhaseInv`); the last two need `~LateFailures`.

Where the invariant of a component is in its proof module, the run `components` checks it there
too, through `ComponentsInv`; the engine's and finalization's are checked by
`engine_recovery` and `final_complete`.

Only model-checked:

- the liveness properties, which are out of the prover's reach: `TimedOutEpisodesClose`,
  `EveryDeliveryEnds`, `FinalizingCloses`, `CaptureStopsAtLease`, `BarrierReturns`,
  `ExpiryCompletes`, `SessionRecovers`, `CaptureEnds`;
- what the scan of `validate_playlist` computes, which is a fold too: the proof of
  `PublishedPlay` uses the shape of FFmpeg's lists and that every line of a valid one resolves.

## 5. Plan

In this order:

1. Proofs: safety of `ReolinkSession` (a property of its own beside `SessionRecovers`).
2. `RecordingEngine` as the finalizer of `EpisodeFinalization`: the composition settles
   whether a recording can be later than the final manifest.
3. `CaptureProfiles`: activation and decisions in their transactions.
4. `Ingestion` composed with the delivery's beginning in `EpisodeEngine`.
5. Timelapses, ONVIF's pull-point loop, Hikvision's ISAPI runtime.

The violation runs stay as long as the sentence they quote does.

## 6. Not modelled

- ONVIF, the ISAPI runtime of Hikvision, and the protocol handling of connectors:
  each is a loop of one task over the network; what they hand on is in `Ingestion`.
- The API and the UI: they call the components above and keep no state that these
  depend on.
- External plugins: foreign code; only discovery and validation are here.
- Capture profiles beyond the decision: their editing is a set of single commits.
- Contents: encodings, encryption, checksums of documents, Event parsing, search.
- The legacy MP4 recovery of the recorder, stream probing and diagnostics.
- All writers share one SQLite connection, so the commit of one coroutine also
  commits what another has executed so far. The modelled writers of Episode rows
  hold the lifecycle lock; for the others a commit is atomic here.
- Time is discrete and the wall clock never goes back.
- A timed-out picture of a Reolink camera whose frames arrive during the next
  capture, and a truncated JPEG that is padded (client.py:2049-2054): the camera's
  frames carry the message id of their request, which `Snapshots` takes for granted.
