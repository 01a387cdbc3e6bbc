---------------------------- MODULE MCComponents ----------------------------
(***************************************************************************)
(* The components around the engine, for TLC.  They share no state: each   *)
(* behaviour is one of the component it starts with, and the others keep   *)
(* their initial state.  The recorder is extended, the others are          *)
(* instances; variables of the same name are told apart by a prefix.       *)
(***************************************************************************)
EXTENDS RecordingEngineProperties, TLC

CONSTANTS e1, d1,
  MaxCrashes, MaxSegments, MaxParks, LateFailures, MaxVersion, MaxCancels,
  MaxTries, MaxRetries, MaxSnapshots, MaxEpisodes, QueueSize, MaxUpdates, MaxRestarts,
  MaxFrames, MaxFetches, MaxReloads, MaxCaptures, PipeSize, Untimely,
  MaxAlarms, MaxRequests, EarlyAlarms,
  FrameQueueSize, MaxMedia, MaxPackets, MaxWire, MaxBursts, MaxLinkFaults

ASSUME FeedAssumption == FrameQueueSize \in Nat

VARIABLES
  active,
  process, crashCount, life, stored, owner, receiptLinked, rowPath, artifactPath, file, old, expired,
  assoc, torn, sweep, toReconcile,                                               \* EvidenceFiles
  registered, device, listening, stage, outcome, receipt, answer, ingested,
  ingestCrashes,                                                                 \* Ingestion
  hlsPhase, ffmpeg, initFile, segment, playlist, playlistTmp, incompleteDir, marker, manifest,
  finalization, hlsEvidence, hlsCrashes, parks,                                  \* HlsBundle
  pluginRows, waiting, holder, step, loaded, changed, toStop, toStart, cancelled, pluginRegistered,
  started, running, pluginState, snapshots, pending, dropped, versions, cancels, \* PluginManager
  link, token, session, subscribed, pc, goal, tries, retries, probeKnown, media, faults,
  requests,                                                                      \* ReolinkSession
  row, memory, settings, webhookStarted, webhookSubscribed, update, target, queue, worker, item,
  taken, test, episodes, period, sent, webhookUpdates, restarts,                 \* Notifications
  frames, frame, pictureToken, nextToken, task, content, stale, fetch, since, pictureRegistered,
  capture, retryAfter, pictureEvidence, reloads,                                 \* Snapshots
  child, preview, announced, commands, eof, videoMessages, reader, unput, watch, startup, status,
  videoRegistered, stopping, stopper, videoCapture, at, videoQueue, attached, videoStarted, stopped,
  pushed, captures, videoFaults,                                                 \* HikvisionVideo
  alarmChild, alarmCommands, alarmMessages, alarms, alarmReader, alarmWatch, alarmStartup,
  alarmStatus, alarmStopping, alarmStopper, request, alarmAnswer, lost,
  alarmFaults,                                                                   \* HikvisionAlarms
  streaming, packets, unsent, opening, orders, wire, lock, previewStage, previewQueue, inbox,
  droppedFrames, buffer, framed, units, consumer, delivered, bursts, linkFaults  \* ReolinkPreview

fileVariables == <<process, crashCount, life, stored, owner, receiptLinked, rowPath,
  artifactPath, file, old, expired, assoc, torn, sweep, toReconcile>>
ingestVariables == <<registered, device, listening, stage, outcome, receipt, answer, ingested,
  ingestCrashes>>
hlsVariables == <<hlsPhase, ffmpeg, initFile, segment, playlist, playlistTmp, incompleteDir,
  marker, manifest, finalization, hlsEvidence, hlsCrashes, parks>>
pluginVariables == <<pluginRows, waiting, holder, step, loaded, changed, toStop, toStart,
  cancelled, pluginRegistered, started, running, pluginState, snapshots, pending, dropped,
  versions, cancels>>
sessionVariables == <<link, token, session, subscribed, pc, goal, tries, retries, probeKnown,
  media, faults, requests>>
webhookVariables == <<row, memory, settings, webhookStarted, webhookSubscribed, update, target,
  queue, worker, item, taken, test, episodes, period, sent, webhookUpdates, restarts>>
pictureVariables == <<frames, frame, pictureToken, nextToken, task, content, stale, fetch,
  since, pictureRegistered, capture, retryAfter, pictureEvidence, reloads>>
videoVariables == <<child, preview, announced, commands, eof, videoMessages, reader, unput,
  watch, startup, status, videoRegistered, stopping, stopper, videoCapture, at, videoQueue,
  attached, videoStarted, stopped, pushed, captures, videoFaults>>
alarmVariables == <<alarmChild, alarmCommands, alarmMessages, alarms, alarmReader, alarmWatch,
  alarmStartup, alarmStatus, alarmStopping, alarmStopper, request, alarmAnswer, lost,
  alarmFaults>>
feedVariables == <<streaming, packets, unsent, opening, orders, wire, lock, previewStage,
  previewQueue, inbox, droppedFrames, buffer, framed, units, consumer, delivered, bursts,
  linkFaults>>

Files   == INSTANCE EvidenceFilesProofs WITH
             Items <- {"i1", "i2"}, Pictures <- {"i2"}, Failing <- {"i1", "i2"}, Episodes <- {"ep1"}
Ingest  == INSTANCE IngestionProofs WITH
             Deliveries <- {"delivery"}, Handlers <- {"h1", "h2"}, crashes <- ingestCrashes
Hls     == INSTANCE HlsBundle WITH
             phase <- hlsPhase, evidence <- hlsEvidence, crashes <- hlsCrashes
Plugins == {"p", "q"}
Uses    == [plugin \in Plugins |-> IF plugin = "p" THEN {"front", "back"} ELSE {"back"}]
Manager == INSTANCE PluginManagerProofs WITH
             Devices <- {"front", "back"},
             rows <- pluginRows, registered <- pluginRegistered, state <- pluginState
Reolink == INSTANCE ReolinkSession
Webhook == INSTANCE Notifications WITH
             Urls <- {"url"}, started <- webhookStarted, subscribed <- webhookSubscribed,
             updates <- webhookUpdates
Pictures == INSTANCE Snapshots WITH
             token <- pictureToken, registered <- pictureRegistered, evidence <- pictureEvidence
Video   == INSTANCE HikvisionVideo WITH
             messages <- videoMessages, registered <- videoRegistered, capture <- videoCapture,
             queue <- videoQueue, started <- videoStarted, faults <- videoFaults
Alarms  == INSTANCE HikvisionAlarms WITH
             child <- alarmChild, commands <- alarmCommands, messages <- alarmMessages,
             reader <- alarmReader, watch <- alarmWatch, startup <- alarmStartup,
             status <- alarmStatus, stopping <- alarmStopping, stopper <- alarmStopper,
             answer <- alarmAnswer, faults <- alarmFaults
Feed    == INSTANCE ReolinkPreviewProofs WITH
             stage <- previewStage, registered <- previewQueue

componentVars ==
  <<active, vars, fileVariables, ingestVariables, hlsVariables, pluginVariables,
    sessionVariables, webhookVariables, pictureVariables, videoVariables,
    alarmVariables, feedVariables>>

Components == {"recorder", "files", "ingestion", "hls", "plugins", "reolink", "webhook", "pictures",
               "video", "alarms", "feed"}

ComponentsInit ==
  /\ active \in Components
  /\ Init /\ Files!Init /\ Ingest!Init /\ Hls!Init /\ Manager!Init /\ Reolink!Init /\ Webhook!Init
  /\ Pictures!Init /\ Video!Init /\ Alarms!Init /\ Feed!Init
  /\ active # "recorder" => piped = {}

Keeps ==
  /\ active' = active
  /\ IF active = "recorder" THEN TRUE ELSE UNCHANGED vars
  /\ IF active = "files" THEN TRUE ELSE UNCHANGED fileVariables
  /\ IF active = "ingestion" THEN TRUE ELSE UNCHANGED ingestVariables
  /\ IF active = "hls" THEN TRUE ELSE UNCHANGED hlsVariables
  /\ IF active = "plugins" THEN TRUE ELSE UNCHANGED pluginVariables
  /\ IF active = "reolink" THEN TRUE ELSE UNCHANGED sessionVariables
  /\ IF active = "webhook" THEN TRUE ELSE UNCHANGED webhookVariables
  /\ IF active = "pictures" THEN TRUE ELSE UNCHANGED pictureVariables
  /\ IF active = "video" THEN TRUE ELSE UNCHANGED videoVariables
  /\ IF active = "alarms" THEN TRUE ELSE UNCHANGED alarmVariables
  /\ IF active = "feed" THEN TRUE ELSE UNCHANGED feedVariables

RecorderStep == active = "recorder" /\ Next /\ Keeps
FilesStep    == active = "files" /\ Files!Next /\ Keeps
IngestStep   == active = "ingestion" /\ Ingest!Next /\ Keeps
HlsStep      == active = "hls" /\ Hls!Next /\ Keeps
ManagerStep  == active = "plugins" /\ Manager!Next /\ Keeps
ReolinkStep  == active = "reolink" /\ Reolink!Next /\ Keeps
WebhookStep  == active = "webhook" /\ Webhook!Next /\ Keeps
PicturesStep == active = "pictures" /\ Pictures!Next /\ Keeps
VideoStep    == active = "video" /\ Video!Next /\ Keeps
AlarmsStep   == active = "alarms" /\ Alarms!Next /\ Keeps
FeedStep     == active = "feed" /\ Feed!Next /\ Keeps

ComponentsNext ==
  \/ RecorderStep \/ FilesStep \/ IngestStep \/ HlsStep \/ ManagerStep
  \/ ReolinkStep \/ WebhookStep \/ PicturesStep \/ VideoStep \/ AlarmsStep
  \/ FeedStep

Fair(component, Step) == active = component /\ Step

\* The fairness of each component's own specification.
ComponentsFairness ==
  /\ \A r \in Recordings :
       /\ WF_vars(Fair("recorder", TaskStep(r)))
       /\ WF_vars(Fair("recorder", rec[r].signalled /\ ChildExits(r)))
  /\ \A e \in Episodes : WF_vars(Fair("recorder", EngineStep(e)))
  /\ WF_vars(Fair("recorder", Tick))
  /\ WF_fileVariables(Fair("files", Files!SweepStep)) /\ WF_fileVariables(Fair("files", Files!Startup))
  /\ WF_sessionVariables(Fair("reolink", Reolink!MonitorStep))
  /\ WF_sessionVariables(Fair("reolink", Reolink!ClientStep("snapshot")))
  /\ WF_videoVariables(Fair("video", Video!Push))
  /\ WF_videoVariables(Fair("video", Video!PreviewStopped))
  /\ WF_videoVariables(Fair("video", Video!StopTimesOut))
  /\ WF_videoVariables(Fair("video", Video!WatchExit))
  /\ WF_videoVariables(Fair("video", eof /\ Video!Exit))
  /\ WF_videoVariables(Fair("video", \E who \in Video!Stoppers : Video!StopEnds(who)))

ComponentsSpec == ComponentsInit /\ [][ComponentsNext]_componentVars /\ ComponentsFairness

-----------------------------------------------------------------------------
(***************************************************************************)
(* The components' properties, stated in their modules.                    *)
(***************************************************************************)
\* EvidenceFiles: rows and artifacts name the place where the file is.
RowsFollowFiles == Files!RowsFollowFiles
\* EvidenceFiles: what has reached its age is expired.
ExpiryCompletes == Files!ExpiryCompletes
\* Ingestion: an answered receipt says what happened to its delivery.
ReceiptTellsOutcome == Ingest!ReceiptTellsOutcome
\* HlsBundle: a bundle published as a playable recording can be played.
PublishedIsPlayable == Hls!PublishedIsPlayable
\* PluginManager: plugins run as the inventory of now configures them.
PluginsFollowInventory == Manager!PluginsFollowInventory
\* ReolinkSession: a lost session comes back.
SessionRecovers == active = "reolink" => Reolink!SessionRecovers
\* Notifications: a notification belongs to the period in which it is sent.
NotifiesItsPeriod == Webhook!NotifiesItsPeriod
\* Snapshots: an Event's picture was asked for after it, for it.
PictureBelongsToItsEvent == Pictures!PictureBelongsToItsEvent
\* HikvisionVideo: a capture pushes the packets of its own preview.
PushesItsOwnPreview == Video!PushesItsOwnPreview
\* HikvisionVideo: a capture ends with the child.
CaptureEnds == active = "video" => Video!CaptureEnds
\* HikvisionAlarms: a snapshot answers the request it was taken for.
AnswersItsRequest == Alarms!AnswersItsRequest
\* HikvisionAlarms: a lost alarm shows in the worker's status.
LostAlarmShows == Alarms!LostAlarmShows
\* ReolinkPreview: the recorder gets whole pictures in order, or counts dropped frames.
DamageIsCounted == Feed!DamageIsCounted
-----------------------------------------------------------------------------
\* What the proofs show of each component but ReolinkSession: the inductive invariants of
\* ten, each stated and explained in its own module.
ComponentsInv ==
  /\ RecorderInv /\ Files!IndInv /\ Ingest!IndInv /\ Hls!WorkspaceInv /\ Manager!IndInv
  /\ Webhook!NotifyInv /\ Pictures!PictureInv /\ Video!VideoInv /\ Alarms!AlarmInv
  /\ Feed!FeedInv
=============================================================================
