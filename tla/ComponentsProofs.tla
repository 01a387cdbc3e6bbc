-------------------------- MODULE ComponentsProofs --------------------------
(***************************************************************************)
(* What holds of the components around the engine, side by side.  Each     *)
(* behaviour of ComponentsSpec is, seen by the variables of one of them, a *)
(* behaviour of that component, which stutters when another one is active: *)
(* so the theorems of a component's own module apply, and for the others   *)
(* an inductive invariant of the component is one of ComponentsSpec.       *)
(***************************************************************************)
EXTENDS MCComponents, RecordingEngineProofs, SequenceTheorems

\* Every component starts in its initial state, its variables renamed.
LEMMA ComponentsStart ==
  ComponentsInit =>
    /\ Init /\ Files!Init /\ Ingest!Init /\ Manager!Init
    /\ Pictures!Init /\ Alarms!Init /\ Webhook!Init /\ Hls!Init /\ Video!Init /\ Feed!Init
BY DEF ComponentsInit

\* A step of ComponentsNext is one of RecordingEngine, or keeps all its variables.
LEMMA RecorderSteps == [ComponentsNext]_componentVars => [Next]_vars
<1>1. componentVars' = componentVars => UNCHANGED vars
  BY DEF componentVars
<1>2. Keeps /\ active # "recorder" => UNCHANGED vars
  BY DEF Keeps
<1>. QED
  BY <1>1, <1>2
  DEF ComponentsNext, RecorderStep, FilesStep, IngestStep, HlsStep, ManagerStep, ReolinkStep,
      WebhookStep, PicturesStep, VideoStep, AlarmsStep, FeedStep

\* A step of ComponentsNext is one of EvidenceFiles, or keeps all its variables.
LEMMA FilesSteps == [ComponentsNext]_componentVars => [Files!Next]_(Files!fileVars)
<1>1. componentVars' = componentVars => UNCHANGED Files!fileVars
  BY DEF componentVars, fileVariables, Files!fileVars, Files!machine, Files!rows, Files!places, Files!ages
<1>2. Keeps /\ active # "files" => UNCHANGED Files!fileVars
  BY DEF Keeps, fileVariables, Files!fileVars, Files!machine, Files!rows, Files!places, Files!ages
<1>. QED
  BY <1>1, <1>2
  DEF ComponentsNext, RecorderStep, FilesStep, IngestStep, HlsStep, ManagerStep, ReolinkStep,
      WebhookStep, PicturesStep, VideoStep, AlarmsStep, FeedStep

\* A step of ComponentsNext is one of Ingestion, or keeps all its variables.
LEMMA IngestSteps == [ComponentsNext]_componentVars => [Ingest!Next]_(Ingest!ingestVars)
<1>1. componentVars' = componentVars => UNCHANGED Ingest!ingestVars
  BY DEF componentVars, ingestVariables, Ingest!ingestVars
<1>2. Keeps /\ active # "ingestion" => UNCHANGED Ingest!ingestVars
  BY DEF Keeps, ingestVariables, Ingest!ingestVars
<1>. QED
  BY <1>1, <1>2
  DEF ComponentsNext, RecorderStep, FilesStep, IngestStep, HlsStep, ManagerStep, ReolinkStep,
      WebhookStep, PicturesStep, VideoStep, AlarmsStep, FeedStep

\* A step of ComponentsNext is one of PluginManager, or keeps all its variables.
LEMMA ManagerSteps == [ComponentsNext]_componentVars => [Manager!Next]_(Manager!pluginVars)
<1>1. componentVars' = componentVars => UNCHANGED Manager!pluginVars
  BY DEF componentVars, pluginVariables, Manager!pluginVars, Manager!inventory, Manager!reload,
         Manager!managed
<1>2. Keeps /\ active # "plugins" => UNCHANGED Manager!pluginVars
  BY DEF Keeps, pluginVariables, Manager!pluginVars, Manager!inventory, Manager!reload, Manager!managed
<1>. QED
  BY <1>1, <1>2
  DEF ComponentsNext, RecorderStep, FilesStep, IngestStep, HlsStep, ManagerStep, ReolinkStep,
      WebhookStep, PicturesStep, VideoStep, AlarmsStep, FeedStep

\* A step of ComponentsNext is one of Snapshots, or keeps all its variables.
LEMMA PictureSteps == [ComponentsNext]_componentVars => [Pictures!Next]_(Pictures!snapshotVars)
<1>1. componentVars' = componentVars => UNCHANGED Pictures!snapshotVars
  BY DEF componentVars, pictureVariables, Pictures!snapshotVars, Pictures!device, Pictures!slot, Pictures!action
<1>2. Keeps /\ active # "pictures" => UNCHANGED Pictures!snapshotVars
  BY DEF Keeps, pictureVariables, Pictures!snapshotVars, Pictures!device, Pictures!slot, Pictures!action
<1>. QED
  BY <1>1, <1>2
  DEF ComponentsNext, RecorderStep, FilesStep, IngestStep, HlsStep, ManagerStep, ReolinkStep,
      WebhookStep, PicturesStep, VideoStep, AlarmsStep, FeedStep

\* A step of ComponentsNext is one of HikvisionAlarms, or keeps all its variables.
LEMMA AlarmSteps == [ComponentsNext]_componentVars => [Alarms!Next]_(Alarms!alarmVars)
<1>1. componentVars' = componentVars => UNCHANGED Alarms!alarmVars
  BY DEF componentVars, alarmVariables, Alarms!alarmVars, Alarms!child_, Alarms!worker, Alarms!snapshots
<1>2. Keeps /\ active # "alarms" => UNCHANGED Alarms!alarmVars
  BY DEF Keeps, alarmVariables, Alarms!alarmVars, Alarms!child_, Alarms!worker, Alarms!snapshots
<1>. QED
  BY <1>1, <1>2
  DEF ComponentsNext, RecorderStep, FilesStep, IngestStep, HlsStep, ManagerStep, ReolinkStep,
      WebhookStep, PicturesStep, VideoStep, AlarmsStep, FeedStep

\* A step of ComponentsNext is one of Notifications, or keeps all its variables.
LEMMA WebhookSteps == [ComponentsNext]_componentVars => [Webhook!Next]_(Webhook!webhookVars)
<1>1. componentVars' = componentVars => UNCHANGED Webhook!webhookVars
  BY DEF componentVars, webhookVariables, Webhook!webhookVars
<1>2. Keeps /\ active # "webhook" => UNCHANGED Webhook!webhookVars
  BY DEF Keeps, webhookVariables, Webhook!webhookVars
<1>. QED
  BY <1>1, <1>2
  DEF ComponentsNext, RecorderStep, FilesStep, IngestStep, HlsStep, ManagerStep, ReolinkStep,
      WebhookStep, PicturesStep, VideoStep, AlarmsStep, FeedStep

\* A step of ComponentsNext is one of HlsBundle, or keeps all its variables.
LEMMA HlsSteps == [ComponentsNext]_componentVars => [Hls!Next]_(Hls!hlsVars)
<1>1. componentVars' = componentVars => UNCHANGED Hls!hlsVars
  BY DEF componentVars, hlsVariables, Hls!hlsVars, Hls!hlsFiles
<1>2. Keeps /\ active # "hls" => UNCHANGED Hls!hlsVars
  BY DEF Keeps, hlsVariables, Hls!hlsVars, Hls!hlsFiles
<1>. QED
  BY <1>1, <1>2
  DEF ComponentsNext, RecorderStep, FilesStep, IngestStep, HlsStep, ManagerStep, ReolinkStep,
      WebhookStep, PicturesStep, VideoStep, AlarmsStep, FeedStep

\* A step of ComponentsNext is one of HikvisionVideo, or keeps all its variables.
LEMMA VideoSteps == [ComponentsNext]_componentVars => [Video!Next]_(Video!videoVars)
<1>1. componentVars' = componentVars => UNCHANGED Video!videoVars
  BY DEF componentVars, videoVariables, Video!videoVars, Video!process, Video!supervisor, Video!handler
<1>2. Keeps /\ active # "video" => UNCHANGED Video!videoVars
  BY DEF Keeps, videoVariables, Video!videoVars, Video!process, Video!supervisor, Video!handler
<1>. QED
  BY <1>1, <1>2
  DEF ComponentsNext, RecorderStep, FilesStep, IngestStep, HlsStep, ManagerStep, ReolinkStep,
      WebhookStep, PicturesStep, VideoStep, AlarmsStep, FeedStep

\* A step of ComponentsNext is one of ReolinkPreview, or keeps all its variables.
LEMMA FeedSteps == [ComponentsNext]_componentVars => [Feed!Next]_(Feed!previewVars)
<1>1. componentVars' = componentVars => UNCHANGED Feed!previewVars
  BY DEF componentVars, feedVariables, Feed!previewVars, Feed!cameraVars, Feed!readerVars, Feed!outputVars
<1>2. Keeps /\ active # "feed" => UNCHANGED Feed!previewVars
  BY DEF Keeps, feedVariables, Feed!previewVars, Feed!cameraVars, Feed!readerVars, Feed!outputVars
<1>. QED
  BY <1>1, <1>2
  DEF ComponentsNext, RecorderStep, FilesStep, IngestStep, HlsStep, ManagerStep, ReolinkStep,
      WebhookStep, PicturesStep, VideoStep, AlarmsStep, FeedStep

-----------------------------------------------------------------------------
(***************************************************************************)
(* Snapshots: PictureInv, action by action.                                *)
(***************************************************************************)
\* A capture that begins is the newest one, and everything else is as it was.
LEMMA PictureBegins ==
  ASSUME Pictures!TypeOK, Pictures!UsedOnce, NEW f \in Pictures!Fetchers, NEW seen \in Nat,
         fetch[f] = Pictures!NoFetch, since' = Append(since, seen),
         fetch' = [fetch EXCEPT ![f] = [id |-> Len(since'), at |-> "waiting"]]
  PROVE  /\ since' \in Seq(Nat) /\ Len(since') = Len(since) + 1 /\ Len(since) \in Nat
         /\ since'[Len(since) + 1] = seen /\ \A k \in 1..Len(since) : since'[k] = since[k]
         /\ fetch' \in [Pictures!Fetchers -> Pictures!FetchOK]
         /\ fetch'[f].id = Len(since) + 1 /\ fetch'[f] # Pictures!NoFetch
         /\ \A g \in Pictures!Fetchers \ {f} : fetch'[g] = fetch[g] /\ fetch[g].id \in 0..Len(since)
         /\ \A g \in Pictures!Fetchers : fetch'[g] # Pictures!NoFetch => fetch'[g].id \in 1..(Len(since) + 1)
         /\ \A g \in Pictures!Fetchers : \A h \in Pictures!Fetchers :
              g # h /\ fetch'[g] # Pictures!NoFetch => fetch'[g].id # fetch'[h].id
<1>1. /\ since' \in Seq(Nat) /\ Len(since') = Len(since) + 1 /\ Len(since) \in Nat
      /\ since'[Len(since) + 1] = seen /\ \A k \in 1..Len(since) : since'[k] = since[k]
  BY DEF Pictures!TypeOK
<1>2. /\ fetch'[f] = [id |-> Len(since) + 1, at |-> "waiting"]
      /\ \A g \in Pictures!Fetchers \ {f} : fetch'[g] = fetch[g]
      /\ fetch' \in [Pictures!Fetchers -> Pictures!FetchOK]
  BY <1>1 DEF Pictures!TypeOK, Pictures!FetchOK
<1>3. fetch'[f].id = Len(since) + 1 /\ fetch'[f] # Pictures!NoFetch
  BY <1>1, <1>2 DEF Pictures!NoFetch
<1>4. \A g \in Pictures!Fetchers : fetch[g].id \in 0..Len(since)
  BY <1>1 DEF Pictures!UsedOnce, Pictures!NoFetch
<1>5. \A g \in Pictures!Fetchers : fetch'[g] # Pictures!NoFetch => fetch'[g].id \in 1..(Len(since) + 1)
  BY <1>1, <1>2, <1>3 DEF Pictures!UsedOnce
<1>6. \A g \in Pictures!Fetchers : \A h \in Pictures!Fetchers :
        g # h /\ fetch'[g] # Pictures!NoFetch => fetch'[g].id # fetch'[h].id
  BY <1>1, <1>2, <1>3, <1>4 DEF Pictures!UsedOnce
<1>. QED  BY <1>1, <1>2, <1>3, <1>4, <1>5, <1>6

\* The kept pictures and the slot's are of earlier captures than one that begins.
LEMMA PictureKeeps ==
  ASSUME Pictures!PictureInv, NEW f \in Pictures!Fetchers, NEW seen \in Nat,
         fetch[f] = Pictures!NoFetch, since' = Append(since, seen),
         fetch' = [fetch EXCEPT ![f] = [id |-> Len(since'), at |-> "waiting"]],
         content' = content \/ content' = Pictures!Nothing, pictureEvidence' = pictureEvidence
  PROVE  Pictures!UsedOnce' /\ Pictures!PictureBelongsToItsEvent'
<1>. USE PictureBegins DEF Pictures!PictureInv
<1>1. \A e \in pictureEvidence : e.fetch \in 1..Len(since) /\ e.fetch # content'.fetch
  BY DEF Pictures!UsedOnce, Pictures!Nothing, Pictures!TypeOK
<1>2. content' # Pictures!Nothing => content'.fetch \in 1..Len(since)
  BY DEF Pictures!UsedOnce
<1>3. Pictures!UsedOnce'
  <2>1. Len(since') = Len(since) + 1 /\ Len(since) \in Nat
    OBVIOUS
  <2>2. \A g \in Pictures!Fetchers : fetch'[g] = Pictures!NoFetch \/ fetch'[g].id \in 1..Len(since')
    BY <2>1
  <2>3. ASSUME content' # Pictures!Nothing, NEW g \in Pictures!Fetchers
        PROVE  fetch'[g].id # content'.fetch
    <3>1. content' = content /\ fetch[g].id # content.fetch /\ content.fetch \in 1..Len(since)
      BY <2>3 DEF Pictures!UsedOnce
    <3>. QED  BY <2>1, <3>1
  <2>4. ASSUME NEW e \in pictureEvidence, NEW g \in Pictures!Fetchers
        PROVE  fetch'[g].id # e.fetch
    BY <1>1, <2>1 DEF Pictures!UsedOnce
  <2>5. content' # Pictures!Nothing => content'.fetch \in 1..Len(since')
    BY <1>2, <2>1
  <2>6. \A e \in pictureEvidence : e.fetch \in 1..Len(since') /\ e.fetch # content'.fetch
    BY <1>1, <2>1
  <2>7. \A g \in Pictures!Fetchers : \A h \in Pictures!Fetchers :
          g # h /\ fetch'[g] # Pictures!NoFetch => fetch'[g].id # fetch'[h].id
    OBVIOUS
  <2>. QED  BY <2>2, <2>3, <2>4, <2>5, <2>6, <2>7 DEF Pictures!UsedOnce
<1>4. Pictures!PictureBelongsToItsEvent'
  BY <1>1 DEF Pictures!PictureBelongsToItsEvent
<1>. QED  BY <1>3, <1>4

\* An event frame arms the slot, or leaves it.
LEMMA PictureFrame ==
  ASSUME Pictures!PictureInv, Pictures!Frame
  PROVE  Pictures!PictureInv'
<1>a. /\ pictureRegistered /\ frame = 0 /\ frame' = frames + 1 /\ frames' = frames + 1 /\ frames \in Nat
      /\ UNCHANGED <<pictureRegistered, capture, retryAfter, pictureEvidence>>
  BY DEF Pictures!Frame, Pictures!action, Pictures!PictureInv, Pictures!TypeOK
<1>1. CASE UNCHANGED <<nextToken, task, content, stale, fetch, since>> /\ pictureToken' = Pictures!NoToken
  BY <1>a, <1>1
  DEF Pictures!PictureInv, Pictures!TypeOK, Pictures!UsedOnce, Pictures!SlotInv, Pictures!TokenBinds,
      Pictures!CaptureInv, Pictures!PictureBelongsToItsEvent, Pictures!NoToken
<1>2. CASE /\ task = Pictures!NoToken /\ Pictures!Begins("slot", frames')
           /\ pictureToken' = nextToken /\ task' = nextToken /\ nextToken' = nextToken + 1
           /\ content' = Pictures!Nothing /\ stale' = FALSE
  <2>. USE DEF Pictures!PictureInv
  <2>1. /\ fetch["slot"] = Pictures!NoFetch /\ since' = Append(since, frames')
        /\ fetch' = [fetch EXCEPT !["slot"] = [id |-> Len(since'), at |-> "waiting"]]
    BY <1>2 DEF Pictures!Begins
  <2>2. "slot" \in Pictures!Fetchers /\ "event" \in Pictures!Fetchers /\ frames' \in Nat
    BY <1>a DEF Pictures!Fetchers
  <2>3. Pictures!UsedOnce' /\ Pictures!PictureBelongsToItsEvent'
    BY <1>a, <1>2, <2>1, <2>2, PictureKeeps
  <2>a. /\ since' \in Seq(Nat) /\ fetch' \in [Pictures!Fetchers -> Pictures!FetchOK]
        /\ fetch'["slot"] # Pictures!NoFetch
    BY <2>1, <2>2, PictureBegins
  <2>b. /\ nextToken \in Nat \ {0} /\ task' = nextToken /\ nextToken' = nextToken + 1
        /\ pictureToken' = nextToken /\ content' = [token |-> 0, fetch |-> 0]
    BY <1>2 DEF Pictures!TypeOK, Pictures!Nothing, Pictures!NoToken
  <2>c. /\ content' \in [token : Nat, fetch : Nat] /\ nextToken' \in Nat \ {0} /\ task' \in Nat
        /\ pictureToken' \in Nat /\ frame' \in Nat /\ frames' \in Nat /\ frame' <= frames'
    BY <1>a, <2>b
  <2>4. Pictures!TypeOK'
    BY <1>a, <1>2, <2>a, <2>c DEF Pictures!TypeOK
  <2>5. Pictures!SlotInv'
    BY <1>a, <2>a, <2>b DEF Pictures!SlotInv, Pictures!Nothing, Pictures!NoToken
  <2>6. Pictures!TokenBinds'
    BY <1>a, <1>2, <2>1, <2>2, PictureBegins DEF Pictures!TokenBinds, Pictures!TypeOK, Pictures!Nothing, Pictures!NoToken
  <2>7. Pictures!CaptureInv'
    BY <1>a, <1>2, <2>1, <2>2, PictureBegins DEF Pictures!CaptureInv, Pictures!UsedOnce
  <2>. QED  BY <2>3, <2>4, <2>5, <2>6, <2>7
<1>. QED  BY <1>1, <1>2 DEF Pictures!Frame, Pictures!slot
\* A fetch that waited captures.
LEMMA PictureCapture ==
  ASSUME Pictures!PictureInv, NEW f \in Pictures!Fetchers, Pictures!Capture(f)
  PROVE  Pictures!PictureInv'
<1>. USE DEF Pictures!PictureInv
<1>a. /\ fetch[f].at = "waiting" /\ fetch' = [fetch EXCEPT ![f].at = "capturing"]
      /\ UNCHANGED <<Pictures!device, Pictures!slot, since, Pictures!action>>
  BY DEF Pictures!Capture
<1>b. /\ fetch' \in [Pictures!Fetchers -> Pictures!FetchOK]
      /\ \A g \in Pictures!Fetchers :
           fetch'[g].id = fetch[g].id /\ (fetch'[g] = Pictures!NoFetch <=> fetch[g] = Pictures!NoFetch)
  BY <1>a DEF Pictures!TypeOK, Pictures!FetchOK, Pictures!NoFetch
<1>c. "slot" \in Pictures!Fetchers /\ "event" \in Pictures!Fetchers
  BY DEF Pictures!Fetchers
<1>1. Pictures!TypeOK'
  BY <1>a, <1>b DEF Pictures!TypeOK, Pictures!device, Pictures!slot, Pictures!action
<1>2. Pictures!UsedOnce'
  BY <1>a, <1>b DEF Pictures!UsedOnce, Pictures!device, Pictures!slot, Pictures!action
<1>3. Pictures!SlotInv' /\ Pictures!TokenBinds' /\ Pictures!CaptureInv'
  BY <1>a, <1>b, <1>c
  DEF Pictures!SlotInv, Pictures!TokenBinds, Pictures!CaptureInv, Pictures!device, Pictures!slot, Pictures!action
<1>4. Pictures!PictureBelongsToItsEvent'
  BY <1>a DEF Pictures!PictureBelongsToItsEvent, Pictures!action
<1>. QED  BY <1>1, <1>2, <1>3, <1>4

\* What is over leaves its fetcher free: the others' captures stay apart.
LEMMA PictureEnds ==
  ASSUME Pictures!TypeOK, Pictures!UsedOnce, NEW f \in Pictures!Fetchers,
         fetch' = [fetch EXCEPT ![f] = Pictures!NoFetch]
  PROVE  /\ fetch' \in [Pictures!Fetchers -> Pictures!FetchOK] /\ fetch'[f] = Pictures!NoFetch
         /\ fetch'[f].id = 0 /\ \A g \in Pictures!Fetchers \ {f} : fetch'[g] = fetch[g]
         /\ \A g \in Pictures!Fetchers : fetch'[g] = Pictures!NoFetch \/ fetch'[g].id \in 1..Len(since)
         /\ \A g \in Pictures!Fetchers : \A h \in Pictures!Fetchers :
              g # h /\ fetch'[g] # Pictures!NoFetch => fetch'[g].id # fetch'[h].id
<1>1. fetch'[f] = Pictures!NoFetch /\ \A g \in Pictures!Fetchers \ {f} : fetch'[g] = fetch[g]
  BY DEF Pictures!TypeOK
<1>2. fetch' \in [Pictures!Fetchers -> Pictures!FetchOK] /\ fetch'[f].id = 0
  BY <1>1 DEF Pictures!TypeOK, Pictures!FetchOK, Pictures!NoFetch
<1>3. \A g \in Pictures!Fetchers : fetch'[g] = Pictures!NoFetch \/ fetch'[g].id \in 1..Len(since)
  BY <1>1 DEF Pictures!UsedOnce
<1>4. ASSUME NEW g \in Pictures!Fetchers, NEW h \in Pictures!Fetchers, g # h, fetch'[g] # Pictures!NoFetch
      PROVE  fetch'[g].id # fetch'[h].id
  <2>1. g # f /\ fetch'[g] = fetch[g] /\ fetch[g].id \in 1..Len(since)
    BY <1>1, <1>4 DEF Pictures!UsedOnce
  <2>. QED  BY <1>1, <1>2, <1>4, <2>1 DEF Pictures!UsedOnce
<1>. QED  BY <1>1, <1>2, <1>3, <1>4

\* The slot's fetch returns a picture in time, or none.
LEMMA PictureArmed ==
  ASSUME Pictures!PictureInv, Pictures!Armed
  PROVE  Pictures!PictureInv'
<1>. USE DEF Pictures!PictureInv
<1>a. /\ fetch["slot"].at = "capturing" /\ task' = Pictures!NoToken
      /\ content' = content \/ content' = [token |-> task, fetch |-> fetch["slot"].id]
      /\ fetch' = [fetch EXCEPT !["slot"] = Pictures!NoFetch]
      /\ UNCHANGED <<Pictures!device, nextToken, stale, since, Pictures!action>>
  BY DEF Pictures!Armed, Pictures!Ended
<1>b. "slot" \in Pictures!Fetchers /\ "event" \in Pictures!Fetchers
  BY DEF Pictures!Fetchers
<1>c. fetch["slot"] # Pictures!NoFetch /\ fetch["slot"].id \in 1..Len(since) /\ task # Pictures!NoToken
  BY <1>a, <1>b DEF Pictures!NoFetch, Pictures!UsedOnce, Pictures!SlotInv
<1>d. /\ fetch' \in [Pictures!Fetchers -> Pictures!FetchOK] /\ fetch'["slot"] = Pictures!NoFetch
      /\ fetch'["slot"].id = 0 /\ \A g \in Pictures!Fetchers \ {"slot"} : fetch'[g] = fetch[g]
      /\ \A g \in Pictures!Fetchers : fetch'[g] = Pictures!NoFetch \/ fetch'[g].id \in 1..Len(since)
      /\ \A g \in Pictures!Fetchers : \A h \in Pictures!Fetchers :
           g # h /\ fetch'[g] # Pictures!NoFetch => fetch'[g].id # fetch'[h].id
  BY <1>a, <1>b, PictureEnds
<1>1. Pictures!TypeOK'
  <2>1. content' \in [token : Nat, fetch : Nat] /\ task' \in Nat
    BY <1>a, <1>b DEF Pictures!TypeOK, Pictures!FetchOK, Pictures!NoToken
  <2>. QED  BY <1>a, <1>d, <2>1 DEF Pictures!TypeOK, Pictures!device, Pictures!action
<1>2. Pictures!UsedOnce'
  <2>1. ASSUME content' # Pictures!Nothing, NEW g \in Pictures!Fetchers
        PROVE  content'.fetch \in 1..Len(since) /\ fetch'[g].id # content'.fetch
    <3>1. CASE content' = content
      BY <1>d, <2>1, <3>1 DEF Pictures!UsedOnce
    <3>2. CASE content' = [token |-> task, fetch |-> fetch["slot"].id]
      BY <1>b, <1>c, <1>d, <3>2 DEF Pictures!UsedOnce
    <3>. QED  BY <1>a, <3>1, <3>2
  <2>2. ASSUME NEW e \in pictureEvidence, NEW g \in Pictures!Fetchers
        PROVE  e.fetch \in 1..Len(since) /\ e.fetch # content'.fetch /\ fetch'[g].id # e.fetch
    BY <1>a, <1>b, <1>d DEF Pictures!UsedOnce
  <2>. QED  BY <1>a, <1>b, <1>d, <2>1, <2>2 DEF Pictures!UsedOnce, Pictures!action
<1>3. Pictures!SlotInv'
  BY <1>a, <1>c, <1>d DEF Pictures!SlotInv, Pictures!TypeOK, Pictures!device, Pictures!Nothing, Pictures!NoToken
<1>4. Pictures!TokenBinds'
  BY <1>a, <1>c, <1>d DEF Pictures!TokenBinds, Pictures!device, Pictures!NoToken
<1>5. Pictures!CaptureInv' /\ Pictures!PictureBelongsToItsEvent'
  BY <1>a, <1>b, <1>d DEF Pictures!CaptureInv, Pictures!PictureBelongsToItsEvent, Pictures!action
<1>. QED  BY <1>1, <1>2, <1>3, <1>4, <1>5

\* Time passes for the slot or for the suppression of captures; a delivery takes no picture.
LEMMA PictureIdle ==
  ASSUME Pictures!PictureInv, Pictures!Age \/ Pictures!CoolDown \/ Pictures!Pass
  PROVE  Pictures!PictureInv'
<1>a. /\ frame' \in {0, frame} /\ stale' \in BOOLEAN /\ retryAfter' \in BOOLEAN
      /\ UNCHANGED <<frames, pictureToken, pictureRegistered, nextToken, task, content, fetch, since,
                     capture, pictureEvidence>>
  BY DEF Pictures!Age, Pictures!CoolDown, Pictures!Pass, Pictures!device, Pictures!slot, Pictures!action,
         Pictures!PictureInv, Pictures!TypeOK
<1>1. Pictures!TypeOK'
  BY <1>a DEF Pictures!PictureInv, Pictures!TypeOK
<1>. QED
  BY <1>a, <1>1
  DEF Pictures!PictureInv, Pictures!UsedOnce, Pictures!SlotInv, Pictures!TokenBinds, Pictures!CaptureInv,
      Pictures!PictureBelongsToItsEvent

\* The action takes the slot's picture for its Event, or asks for one.
LEMMA PicturePhotograph ==
  ASSUME Pictures!PictureInv, Pictures!Photograph
  PROVE  Pictures!PictureInv'
<1>. USE DEF Pictures!PictureInv
<1>a. /\ frame # 0 /\ pictureRegistered /\ capture = 0 /\ capture' = frame /\ frame' = 0
      /\ UNCHANGED <<frames, pictureToken, pictureRegistered, nextToken, task, stale, retryAfter,
                     pictureEvidence>>
  BY DEF Pictures!Photograph
<1>b. "slot" \in Pictures!Fetchers /\ "event" \in Pictures!Fetchers
  BY DEF Pictures!Fetchers
<1>c. fetch["event"] = Pictures!NoFetch
  BY <1>a DEF Pictures!CaptureInv
<1>1. CASE /\ Pictures!Serves /\ since' = since /\ content' = Pictures!Nothing
           /\ fetch' = [fetch EXCEPT !["event"] = [id |-> content.fetch, at |-> "served"]]
  <2>1. /\ content # Pictures!Nothing /\ pictureToken # Pictures!NoToken /\ pictureToken = content.token
        /\ content.fetch \in 1..Len(since)
    BY <1>1 DEF Pictures!Serves, Pictures!UsedOnce
  <2>2. /\ fetch'["event"] = [id |-> content.fetch, at |-> "served"]
        /\ \A g \in Pictures!Fetchers \ {"event"} : fetch'[g] = fetch[g]
        /\ fetch' \in [Pictures!Fetchers -> Pictures!FetchOK]
    BY <1>b, <1>1, <2>1 DEF Pictures!TypeOK, Pictures!FetchOK
  <2>3. fetch'["event"] # Pictures!NoFetch /\ fetch'["event"].id = content.fetch
    BY <2>2 DEF Pictures!NoFetch
  <2>4. content'.fetch = 0 /\ content'.token = 0 /\ content' \in [token : Nat, fetch : Nat]
    BY <1>1 DEF Pictures!Nothing, Pictures!NoToken
  <2>5. Pictures!TypeOK'
    BY <1>a, <1>1, <2>2, <2>4 DEF Pictures!TypeOK
  <2>6. Pictures!UsedOnce'
    <3>1. \A g \in Pictures!Fetchers : fetch'[g] = Pictures!NoFetch \/ fetch'[g].id \in 1..Len(since)
      BY <2>1, <2>2, <2>3 DEF Pictures!UsedOnce
    <3>2. ASSUME NEW g \in Pictures!Fetchers, NEW h \in Pictures!Fetchers, g # h, fetch'[g] # Pictures!NoFetch
          PROVE  fetch'[g].id # fetch'[h].id
      BY <2>1, <2>2, <2>3, <3>2 DEF Pictures!UsedOnce
    <3>3. ASSUME NEW e \in pictureEvidence, NEW g \in Pictures!Fetchers
          PROVE  e.fetch \in 1..Len(since) /\ e.fetch # content'.fetch /\ fetch'[g].id # e.fetch
      BY <2>2, <2>3, <2>4 DEF Pictures!UsedOnce
    <3>4. since' = since /\ content' = Pictures!Nothing /\ pictureEvidence' = pictureEvidence
      BY <1>a, <1>1
    <3>5. \A e \in pictureEvidence : e.fetch \in 1..Len(since) /\ e.fetch # content'.fetch
      BY <1>b, <3>3
    <3>. QED  BY <3>1, <3>2, <3>3, <3>4, <3>5 DEF Pictures!UsedOnce
  <2>7. Pictures!SlotInv'
    BY <1>a, <1>b, <1>1, <2>2, <2>4 DEF Pictures!SlotInv, Pictures!TypeOK, Pictures!NoToken
  <2>8. Pictures!TokenBinds'
    BY <1>a DEF Pictures!TokenBinds
  <2>9. Pictures!CaptureInv'
    BY <1>a, <1>1, <2>1, <2>3 DEF Pictures!CaptureInv, Pictures!TokenBinds
  <2>10. Pictures!PictureBelongsToItsEvent'
    BY <1>a, <1>1 DEF Pictures!PictureBelongsToItsEvent
  <2>. QED  BY <2>5, <2>6, <2>7, <2>8, <2>9, <2>10
<1>2. CASE Pictures!Begins("event", frames) /\ content' \in {content, Pictures!Nothing}
  <2>1. /\ since' = Append(since, frames) /\ frames \in Nat
        /\ fetch' = [fetch EXCEPT !["event"] = [id |-> Len(since'), at |-> "waiting"]]
    BY <1>2 DEF Pictures!Begins, Pictures!TypeOK
  <2>2. Pictures!UsedOnce' /\ Pictures!PictureBelongsToItsEvent'
    BY <1>a, <1>b, <1>c, <1>2, <2>1, PictureKeeps
  <2>3. /\ since' \in Seq(Nat) /\ fetch' \in [Pictures!Fetchers -> Pictures!FetchOK]
        /\ fetch'["event"] # Pictures!NoFetch /\ fetch'["slot"] = fetch["slot"]
        /\ since'[fetch'["event"].id] = frames
    BY <1>b, <1>c, <2>1, PictureBegins
  <2>4. Pictures!TypeOK'
    <3>1. content' \in [token : Nat, fetch : Nat]
      BY <1>2 DEF Pictures!TypeOK, Pictures!Nothing, Pictures!NoToken
    <3>. QED  BY <1>a, <2>3, <3>1 DEF Pictures!TypeOK
  <2>5. Pictures!SlotInv'
    <3>1. content' = content \/ (content' = Pictures!Nothing /\ content'.token = 0)
      BY <1>2 DEF Pictures!Nothing, Pictures!NoToken
    <3>. QED  BY <1>a, <2>3, <3>1 DEF Pictures!SlotInv, Pictures!TypeOK, Pictures!NoToken
  <2>6. Pictures!TokenBinds' /\ Pictures!CaptureInv'
    BY <1>a, <2>1, <2>3 DEF Pictures!TokenBinds, Pictures!CaptureInv, Pictures!TypeOK
  <2>. QED  BY <2>2, <2>4, <2>5, <2>6
<1>. QED  BY <1>1, <1>2 DEF Pictures!Photograph

\* The picture is kept for the Event, or the Event gets none.
LEMMA PictureCaptured ==
  ASSUME Pictures!PictureInv, Pictures!Captured
  PROVE  Pictures!PictureInv'
<1>. USE DEF Pictures!PictureInv
<1>a. /\ fetch["event"].at \in {"capturing", "served"} /\ capture' = 0 /\ retryAfter' \in BOOLEAN
      /\ \/ pictureEvidence' = pictureEvidence
         \/ pictureEvidence' = pictureEvidence \union {[frame |-> capture, fetch |-> fetch["event"].id]}
      /\ fetch' = [fetch EXCEPT !["event"] = Pictures!NoFetch]
      /\ UNCHANGED <<frames, frame, pictureToken, pictureRegistered, nextToken, task, content, stale, since>>
  BY DEF Pictures!Captured, Pictures!Ended, Pictures!device, Pictures!slot, Pictures!TypeOK
<1>b. "slot" \in Pictures!Fetchers /\ "event" \in Pictures!Fetchers
  BY DEF Pictures!Fetchers
<1>c. fetch["event"] # Pictures!NoFetch /\ fetch["event"].id \in 1..Len(since) /\ capture # 0
  BY <1>a, <1>b DEF Pictures!NoFetch, Pictures!UsedOnce, Pictures!CaptureInv
<1>d. /\ fetch' \in [Pictures!Fetchers -> Pictures!FetchOK] /\ fetch'["event"] = Pictures!NoFetch
      /\ fetch'["event"].id = 0 /\ \A g \in Pictures!Fetchers \ {"event"} : fetch'[g] = fetch[g]
      /\ \A g \in Pictures!Fetchers : fetch'[g] = Pictures!NoFetch \/ fetch'[g].id \in 1..Len(since)
      /\ \A g \in Pictures!Fetchers : \A h \in Pictures!Fetchers :
           g # h /\ fetch'[g] # Pictures!NoFetch => fetch'[g].id # fetch'[h].id
  BY <1>a, <1>b, PictureEnds
<1>e. DEFINE new == [frame |-> capture, fetch |-> fetch["event"].id]
<1>f. new.frame = capture /\ new.fetch = fetch["event"].id /\ new \in [frame : Nat, fetch : Nat]
  BY <1>b DEF Pictures!TypeOK, Pictures!FetchOK
<1>g. \A e \in pictureEvidence' : e \in pictureEvidence \/ e = new
  BY <1>a
<1>. HIDE DEF new
<1>1. Pictures!TypeOK'
  <2>1. pictureEvidence' \subseteq [frame : Nat, fetch : Nat]
    BY <1>f, <1>g DEF Pictures!TypeOK
  <2>2. capture' \in Nat
    BY <1>a
  <2>. QED  BY <1>a, <1>d, <2>1, <2>2 DEF Pictures!TypeOK
<1>2. Pictures!UsedOnce'
  <2>1. ASSUME content' # Pictures!Nothing, NEW g \in Pictures!Fetchers
        PROVE  content'.fetch \in 1..Len(since) /\ fetch'[g].id # content'.fetch
    BY <1>a, <1>d, <2>1 DEF Pictures!UsedOnce
  <2>2. ASSUME NEW e \in pictureEvidence', NEW g \in Pictures!Fetchers
        PROVE  e.fetch \in 1..Len(since) /\ e.fetch # content'.fetch /\ fetch'[g].id # e.fetch
    <3>1. CASE e \in pictureEvidence
      BY <1>a, <1>b, <1>d, <3>1 DEF Pictures!UsedOnce
    <3>2. CASE e = new
      <4>1. e.fetch = fetch["event"].id /\ e.fetch \in 1..Len(since)
        BY <1>c, <1>f, <3>2
      <4>2. e.fetch # content.fetch
        BY <1>b, <4>1 DEF Pictures!UsedOnce, Pictures!Nothing
      <4>3. fetch'[g].id # e.fetch
        BY <1>b, <1>c, <1>d, <4>1 DEF Pictures!UsedOnce
      <4>. QED  BY <1>a, <4>1, <4>2, <4>3
    <3>. QED  BY <1>g, <3>1, <3>2
  <2>. QED  BY <1>a, <1>b, <1>d, <2>1, <2>2 DEF Pictures!UsedOnce
<1>3. Pictures!SlotInv' /\ Pictures!TokenBinds' /\ Pictures!CaptureInv'
  BY <1>a, <1>b, <1>d DEF Pictures!SlotInv, Pictures!TokenBinds, Pictures!CaptureInv
<1>4. Pictures!PictureBelongsToItsEvent'
  <2>1. \A e \in pictureEvidence : e.fetch # new.fetch
    BY <1>b, <1>f DEF Pictures!UsedOnce
  <2>2. since[new.fetch] >= new.frame
    BY <1>c, <1>f DEF Pictures!CaptureInv
  <2>3. ASSUME NEW e \in pictureEvidence'
        PROVE  since[e.fetch] >= e.frame /\ \A other \in pictureEvidence' : other.fetch = e.fetch => other = e
    BY <1>g, <2>1, <2>2 DEF Pictures!PictureBelongsToItsEvent
  <2>. QED  BY <1>a, <2>3 DEF Pictures!PictureBelongsToItsEvent
<1>. QED  BY <1>1, <1>2, <1>3, <1>4

\* A current view asks for a picture.
LEMMA PictureView ==
  ASSUME Pictures!PictureInv, Pictures!View
  PROVE  Pictures!PictureInv'
<1>. USE DEF Pictures!PictureInv
<1>a. /\ fetch["view"] = Pictures!NoFetch /\ since' = Append(since, frames) /\ frames \in Nat
      /\ fetch' = [fetch EXCEPT !["view"] = [id |-> Len(since'), at |-> "waiting"]]
      /\ UNCHANGED <<Pictures!device, Pictures!slot, Pictures!action>>
  BY DEF Pictures!View, Pictures!Begins, Pictures!TypeOK
<1>b. "slot" \in Pictures!Fetchers /\ "event" \in Pictures!Fetchers /\ "view" \in Pictures!Fetchers
  BY DEF Pictures!Fetchers
<1>1. Pictures!UsedOnce' /\ Pictures!PictureBelongsToItsEvent'
  BY <1>a, <1>b, PictureKeeps DEF Pictures!slot, Pictures!action
<1>2. /\ since' \in Seq(Nat) /\ fetch' \in [Pictures!Fetchers -> Pictures!FetchOK]
      /\ fetch'["event"] = fetch["event"] /\ fetch'["slot"] = fetch["slot"]
      /\ \A k \in 1..Len(since) : since'[k] = since[k]
  BY <1>a, <1>b, PictureBegins
<1>3. Pictures!TypeOK'
  BY <1>a, <1>2 DEF Pictures!TypeOK, Pictures!device, Pictures!slot, Pictures!action
<1>4. Pictures!SlotInv'
  BY <1>a, <1>2 DEF Pictures!SlotInv, Pictures!device, Pictures!slot
<1>5. Pictures!TokenBinds'
  <2>1. task # Pictures!NoToken => since'[fetch["slot"].id] = since[fetch["slot"].id]
    BY <1>b, <1>2 DEF Pictures!SlotInv, Pictures!UsedOnce
  <2>2. content.token # Pictures!NoToken => since'[content.fetch] = since[content.fetch]
    BY <1>2 DEF Pictures!UsedOnce, Pictures!Nothing
  <2>. QED  BY <1>a, <1>2, <2>1, <2>2 DEF Pictures!TokenBinds, Pictures!device, Pictures!slot
<1>6. Pictures!CaptureInv'
  <2>1. capture # 0 => since'[fetch["event"].id] = since[fetch["event"].id]
    BY <1>b, <1>2 DEF Pictures!CaptureInv, Pictures!UsedOnce
  <2>. QED  BY <1>a, <1>2, <2>1 DEF Pictures!CaptureInv, Pictures!action
<1>. QED  BY <1>1, <1>3, <1>4, <1>5, <1>6

\* It has it.
LEMMA PictureViewed ==
  ASSUME Pictures!PictureInv, Pictures!Viewed
  PROVE  Pictures!PictureInv'
<1>. USE DEF Pictures!PictureInv
<1>a. /\ fetch' = [fetch EXCEPT !["view"] = Pictures!NoFetch]
      /\ UNCHANGED <<Pictures!device, Pictures!slot, since, Pictures!action>>
  BY DEF Pictures!Viewed, Pictures!Ended
<1>b. "slot" \in Pictures!Fetchers /\ "event" \in Pictures!Fetchers /\ "view" \in Pictures!Fetchers
  BY DEF Pictures!Fetchers
<1>c. /\ fetch' \in [Pictures!Fetchers -> Pictures!FetchOK] /\ fetch'["view"].id = 0
      /\ \A g \in Pictures!Fetchers \ {"view"} : fetch'[g] = fetch[g]
      /\ \A g \in Pictures!Fetchers : fetch'[g] = Pictures!NoFetch \/ fetch'[g].id \in 1..Len(since)
      /\ \A g \in Pictures!Fetchers : \A h \in Pictures!Fetchers :
           g # h /\ fetch'[g] # Pictures!NoFetch => fetch'[g].id # fetch'[h].id
  BY <1>a, <1>b, PictureEnds
<1>1. Pictures!TypeOK'
  BY <1>a, <1>c DEF Pictures!TypeOK, Pictures!device, Pictures!slot, Pictures!action
<1>2. Pictures!UsedOnce'
  <2>1. \A g \in Pictures!Fetchers : fetch'[g].id \in {0, fetch[g].id}
    BY <1>b, <1>c
  <2>. QED  BY <1>a, <1>c, <2>1 DEF Pictures!UsedOnce, Pictures!slot, Pictures!action
<1>3. Pictures!SlotInv' /\ Pictures!TokenBinds' /\ Pictures!CaptureInv'
  BY <1>a, <1>b, <1>c
  DEF Pictures!SlotInv, Pictures!TokenBinds, Pictures!CaptureInv, Pictures!device, Pictures!slot, Pictures!action
<1>4. Pictures!PictureBelongsToItsEvent'
  BY <1>a DEF Pictures!PictureBelongsToItsEvent, Pictures!action
<1>. QED  BY <1>1, <1>2, <1>3, <1>4

\* The Device stops: the slot is emptied, and only a picture already served is still kept.
LEMMA PictureStop ==
  ASSUME Pictures!PictureInv, Pictures!Stop
  PROVE  Pictures!PictureInv'
<1>. USE DEF Pictures!PictureInv
<1>a. /\ pictureRegistered' = FALSE /\ task' = 0 /\ content' = Pictures!Nothing /\ frame' = 0
      /\ fetch' = [f \in Pictures!Fetchers |-> IF f = "event" /\ fetch[f].at = "served" THEN fetch[f]
                                               ELSE Pictures!NoFetch]
      /\ IF fetch["event"].at \in {"waiting", "capturing"} THEN capture' = 0 /\ retryAfter' = TRUE
                                                           ELSE UNCHANGED <<capture, retryAfter>>
      /\ UNCHANGED <<frames, pictureToken, nextToken, stale, since, pictureEvidence>>
  BY DEF Pictures!Stop, Pictures!NoToken
<1>b. "slot" \in Pictures!Fetchers /\ "event" \in Pictures!Fetchers
  BY DEF Pictures!Fetchers
<1>c. /\ \A g \in Pictures!Fetchers : fetch'[g] = Pictures!NoFetch \/ (g = "event" /\ fetch'[g] = fetch[g])
      /\ fetch'["slot"] = Pictures!NoFetch
      /\ fetch'["event"] = IF fetch["event"].at = "served" THEN fetch["event"] ELSE Pictures!NoFetch
  BY <1>a, <1>b
<1>d. Pictures!NoFetch \in Pictures!FetchOK /\ Pictures!NoFetch.id = 0
  BY DEF Pictures!NoFetch, Pictures!FetchOK
<1>e. content'.token = 0 /\ content'.fetch = 0 /\ content' \in [token : Nat, fetch : Nat]
  BY <1>a DEF Pictures!Nothing, Pictures!NoToken
<1>1. Pictures!TypeOK'
  <2>1. fetch' \in [Pictures!Fetchers -> Pictures!FetchOK]
    BY <1>a, <1>d DEF Pictures!TypeOK
  <2>a. capture' \in Nat
    BY <1>a DEF Pictures!TypeOK
  <2>b. retryAfter' \in BOOLEAN
    BY <1>a DEF Pictures!TypeOK
  <2>2. capture' \in Nat /\ retryAfter' \in BOOLEAN
    BY <2>a, <2>b
  <2>3. frame' \in Nat /\ frame' <= frames' /\ task' \in Nat
    BY <1>a DEF Pictures!TypeOK
  <2>. QED  BY <1>a, <1>e, <2>1, <2>2, <2>3 DEF Pictures!TypeOK
<1>2. Pictures!UsedOnce'
  <2>1. \A g \in Pictures!Fetchers : fetch'[g] = Pictures!NoFetch \/ fetch'[g].id \in 1..Len(since)
    BY <1>c DEF Pictures!UsedOnce
  <2>2. ASSUME NEW g \in Pictures!Fetchers, NEW h \in Pictures!Fetchers, g # h, fetch'[g] # Pictures!NoFetch
        PROVE  fetch'[g].id # fetch'[h].id
    <3>1. g = "event" /\ fetch'[g].id \in 1..Len(since) /\ fetch'[h].id = 0
      BY <1>c, <1>d, <2>1, <2>2
    <3>. QED  BY <3>1
  <2>3. ASSUME NEW e \in pictureEvidence, NEW g \in Pictures!Fetchers
        PROVE  e.fetch \in 1..Len(since) /\ e.fetch # content'.fetch /\ fetch'[g].id # e.fetch
    <3>1. e.fetch \in 1..Len(since) /\ fetch[g].id # e.fetch
      BY DEF Pictures!UsedOnce
    <3>. QED  BY <1>c, <1>d, <1>e, <3>1
  <2>4. since' = since /\ content' = Pictures!Nothing /\ pictureEvidence' = pictureEvidence
    BY <1>a
  <2>5. \A e \in pictureEvidence : e.fetch \in 1..Len(since) /\ e.fetch # content'.fetch
    BY <1>b, <2>3
  <2>. QED  BY <2>1, <2>2, <2>3, <2>4, <2>5 DEF Pictures!UsedOnce
<1>3. Pictures!SlotInv'
  BY <1>a, <1>c, <1>e DEF Pictures!SlotInv, Pictures!TypeOK, Pictures!NoToken
<1>4. Pictures!TokenBinds'
  BY <1>a DEF Pictures!TokenBinds
<1>5. Pictures!CaptureInv'
  <2>1. fetch["event"].at \in {"none", "waiting", "capturing", "served"}
    BY <1>b DEF Pictures!TypeOK, Pictures!FetchOK
  <2>2. CASE fetch["event"].at \in {"waiting", "capturing"}
    BY <1>a, <1>c, <2>2 DEF Pictures!CaptureInv
  <2>3. CASE fetch["event"].at = "served"
    BY <1>a, <1>c, <2>3 DEF Pictures!CaptureInv
  <2>4. CASE fetch["event"].at = "none"
    BY <1>a, <1>c, <2>4 DEF Pictures!CaptureInv
  <2>. QED  BY <2>1, <2>2, <2>3, <2>4
<1>6. Pictures!PictureBelongsToItsEvent'
  BY <1>a DEF Pictures!PictureBelongsToItsEvent
<1>. QED  BY <1>1, <1>2, <1>3, <1>4, <1>5, <1>6

\* It starts again, and numbers its tokens from the start.
LEMMA PictureStart ==
  ASSUME Pictures!PictureInv, Pictures!Start
  PROVE  Pictures!PictureInv'
<1>. USE DEF Pictures!PictureInv
<1>a. /\ ~pictureRegistered /\ pictureRegistered' = TRUE /\ nextToken' = 1 /\ stale' = FALSE
      /\ UNCHANGED <<frames, frame, pictureToken, task, content, fetch, since, capture, retryAfter,
                     pictureEvidence>>
  BY DEF Pictures!Start, Pictures!action
<1>b. frame = 0 /\ task = 0 /\ content = Pictures!Nothing /\ content.token = 0
  BY <1>a DEF Pictures!SlotInv, Pictures!NoToken, Pictures!Nothing
<1>1. Pictures!TypeOK'
  <2>1. nextToken' \in Nat \ {0}
    BY <1>a
  <2>2. stale' \in BOOLEAN
    BY <1>a
  <2>3. pictureRegistered' \in BOOLEAN
    BY <1>a
  <2>. QED  BY <1>a, <2>1, <2>2, <2>3 DEF Pictures!TypeOK
<1>2. Pictures!UsedOnce' /\ Pictures!CaptureInv' /\ Pictures!PictureBelongsToItsEvent'
  BY <1>a DEF Pictures!UsedOnce, Pictures!CaptureInv, Pictures!PictureBelongsToItsEvent
<1>3. Pictures!SlotInv' /\ Pictures!TokenBinds'
  BY <1>a, <1>b DEF Pictures!SlotInv, Pictures!TokenBinds
<1>. QED  BY <1>1, <1>2, <1>3

\* Nothing has been photographed yet.
LEMMA PictureInit == Pictures!Init => Pictures!PictureInv
<1>. SUFFICES ASSUME Pictures!Init PROVE Pictures!PictureInv
  OBVIOUS
<1>1. /\ Pictures!NoFetch \in Pictures!FetchOK /\ Pictures!NoFetch.at = "none"
      /\ Pictures!Nothing \in [token : Nat, fetch : Nat] /\ Pictures!Nothing.token = 0
  BY DEF Pictures!NoFetch, Pictures!FetchOK, Pictures!Nothing, Pictures!NoToken
<1>2. \A f \in Pictures!Fetchers : fetch[f] = Pictures!NoFetch
  BY DEF Pictures!Init
<1>3. "slot" \in Pictures!Fetchers /\ "event" \in Pictures!Fetchers
  BY DEF Pictures!Fetchers
<1>a. fetch \in [Pictures!Fetchers -> Pictures!FetchOK] /\ since \in Seq(Nat) /\ pictureEvidence = {}
  BY <1>1 DEF Pictures!Init
<1>b. stale \in BOOLEAN /\ pictureRegistered \in BOOLEAN /\ retryAfter \in BOOLEAN
  BY DEF Pictures!Init
<1>c. /\ frames = 0 /\ frame = 0 /\ pictureToken = 0 /\ nextToken = 1 /\ task = 0 /\ capture = 0
      /\ content = Pictures!Nothing
  BY DEF Pictures!Init, Pictures!NoToken
<1>4. Pictures!TypeOK
  BY <1>1, <1>a, <1>b, <1>c DEF Pictures!TypeOK
<1>5. Pictures!UsedOnce
  BY <1>2 DEF Pictures!Init, Pictures!UsedOnce
<1>6. Pictures!SlotInv /\ Pictures!TokenBinds
  BY <1>1, <1>2, <1>3 DEF Pictures!Init, Pictures!SlotInv, Pictures!TokenBinds, Pictures!NoToken
<1>7. Pictures!CaptureInv /\ Pictures!PictureBelongsToItsEvent
  BY <1>1, <1>2, <1>3 DEF Pictures!Init, Pictures!CaptureInv, Pictures!PictureBelongsToItsEvent
<1>. QED  BY <1>4, <1>5, <1>6, <1>7 DEF Pictures!PictureInv

\* Every step preserves what holds of pictures.
LEMMA PictureNext == Pictures!PictureInv /\ [Pictures!Next]_(Pictures!snapshotVars) => Pictures!PictureInv'
<1>1. Pictures!PictureInv /\ UNCHANGED Pictures!snapshotVars => Pictures!PictureInv'
  <2>. SUFFICES ASSUME Pictures!PictureInv, UNCHANGED Pictures!snapshotVars PROVE Pictures!PictureInv'
    OBVIOUS
  <2>. USE DEF Pictures!PictureInv, Pictures!snapshotVars, Pictures!device, Pictures!slot, Pictures!action
  <2>1. Pictures!TypeOK'
    BY DEF Pictures!TypeOK
  <2>2. Pictures!UsedOnce' /\ Pictures!SlotInv'
    BY DEF Pictures!UsedOnce, Pictures!SlotInv
  <2>3. Pictures!TokenBinds' /\ Pictures!CaptureInv' /\ Pictures!PictureBelongsToItsEvent'
    BY DEF Pictures!TokenBinds, Pictures!CaptureInv, Pictures!PictureBelongsToItsEvent
  <2>. QED  BY <2>1, <2>2, <2>3
<1>. QED
  BY <1>1, PictureCapture, PictureFrame, PictureArmed, PictureIdle, PicturePhotograph, PictureCaptured,
     PictureView, PictureViewed, PictureStop, PictureStart
  DEF Pictures!Next

-----------------------------------------------------------------------------
(***************************************************************************)
(* Pipes: what is written to them and read from them.                      *)
(***************************************************************************)
\* What is appended to a pipe comes after everything in it.
LEMMA AppendAt ==
  ASSUME NEW S, NEW s \in Seq(S), NEW x \in S
  PROVE  /\ Append(s, x) \in Seq(S) /\ Len(s) \in Nat /\ Len(Append(s, x)) = Len(s) + 1
         /\ DOMAIN s = 1..Len(s) /\ DOMAIN Append(s, x) = 1..(Len(s) + 1)
         /\ \A k \in 1..Len(s) : Append(s, x)[k] = s[k]
         /\ Append(s, x)[Len(s) + 1] = x
OBVIOUS

\* What is read from a pipe moves the rest up by one.
LEMMA TailAt ==
  ASSUME NEW S, NEW s \in Seq(S), s # <<>>
  PROVE  /\ Tail(s) \in Seq(S) /\ Len(s) \in Nat \ {0} /\ Len(Tail(s)) = Len(s) - 1
         /\ DOMAIN s = 1..Len(s) /\ DOMAIN Tail(s) = 1..(Len(s) - 1)
         /\ Head(s) \in S /\ Head(s) = s[1]
         /\ \A k \in 1..(Len(s) - 1) : Tail(s)[k] = s[k + 1] /\ k + 1 \in 1..Len(s)
OBVIOUS

-----------------------------------------------------------------------------
(***************************************************************************)
(* HikvisionAlarms: AlarmInv, action by action.                            *)
(***************************************************************************)
\* A message written after the others: "ready" may follow no alarm.
LEMMA AlarmWrites ==
  ASSUME Alarms!TypeOK, Alarms!ReadyInv,
         NEW m \in [type : {"ready", "error", "alarm", "snapshot", "snapshot_error"}, id : Nat],
         alarmMessages' = Append(alarmMessages, m),
         m.type = "ready" => alarmChild = "subscribed",
         m.type = "alarm" => alarmChild' \notin {"starting", "subscribed"},
         m.type = "ready" => alarmChild' \notin {"starting", "subscribed"},
         alarmChild' \in {"starting", "subscribed"} => alarmChild \in {"starting", "subscribed"},
         alarmChild' # "none", alarmChild \notin {"none", "exited"},
         alarmStartup' = alarmStartup, alarmReader' = alarmReader, lost' = lost
  PROVE  Alarms!ReadyInv'
<1>. DEFINE MessageOK == [type : {"ready", "error", "alarm", "snapshot", "snapshot_error"}, id : Nat]
<1>1. alarmMessages \in Seq(MessageOK)
  BY DEF Alarms!TypeOK
<1>2. /\ DOMAIN alarmMessages = 1..Len(alarmMessages) /\ Len(alarmMessages) \in Nat
      /\ DOMAIN alarmMessages' = 1..(Len(alarmMessages) + 1)
      /\ \A k \in 1..Len(alarmMessages) : alarmMessages'[k] = alarmMessages[k]
      /\ alarmMessages'[Len(alarmMessages) + 1] = m
  BY <1>1, AppendAt
<1>3. \A type : Alarms!Wrote(type)' <=> Alarms!Wrote(type) \/ m.type = type
  BY <1>2 DEF Alarms!Wrote
<1>4. alarmStartup # "none"
  BY DEF Alarms!ReadyInv
<1>5. m.type = "ready" => ~Alarms!Wrote("ready") /\ ~Alarms!Wrote("alarm")
  BY DEF Alarms!ReadyInv
<1>6. ASSUME NEW k \in DOMAIN alarmMessages', alarmMessages'[k].type = "ready",
             NEW j \in DOMAIN alarmMessages', j # k
      PROVE  alarmMessages'[j].type # "ready" /\ (j < k => alarmMessages'[j].type # "alarm")
  <2>1. CASE k = Len(alarmMessages) + 1
    <3>1. j \in DOMAIN alarmMessages /\ alarmMessages'[j] = alarmMessages[j] /\ m.type = "ready"
      BY <1>2, <1>6, <2>1
    <3>. QED  BY <1>5, <3>1 DEF Alarms!Wrote
  <2>2. CASE k # Len(alarmMessages) + 1
    <3>1. k \in DOMAIN alarmMessages /\ alarmMessages[k].type = "ready" /\ Alarms!Wrote("ready")
      BY <1>2, <1>6, <2>2 DEF Alarms!Wrote
    <3>2. CASE j \in DOMAIN alarmMessages
      BY <1>2, <1>6, <3>1, <3>2 DEF Alarms!ReadyInv
    <3>3. CASE j \notin DOMAIN alarmMessages
      BY <1>2, <1>5, <1>6, <3>1, <3>3
    <3>. QED  BY <3>2, <3>3
  <2>. QED  BY <2>1, <2>2
<1>7. Alarms!Wrote("ready")' => alarmChild' \notin {"starting", "subscribed"}
  BY <1>3 DEF Alarms!ReadyInv
<1>8. Alarms!Wrote("alarm")' => alarmChild' \notin {"starting", "subscribed"}
  BY <1>3 DEF Alarms!ReadyInv
<1>9. alarmReader = "preserving" \/ lost > 0 => Alarms!NoReady'
  BY <1>3 DEF Alarms!ReadyInv, Alarms!NoReady
<1>. QED  BY <1>4, <1>6, <1>7, <1>8, <1>9 DEF Alarms!ReadyInv

\* What the child does keeps it.
LEMMA AlarmChildInv ==
  ASSUME Alarms!AlarmInv,
         Alarms!Subscribe \/ Alarms!Ready \/ Alarms!Alarm \/ Alarms!TakePicture \/ Alarms!Exit
  PROVE  Alarms!AlarmInv'
<1>. USE DEF Alarms!AlarmInv
<1>. DEFINE MessageOK == [type : {"ready", "error", "alarm", "snapshot", "snapshot_error"}, id : Nat]
<1>a. /\ UNCHANGED <<alarmReader, Alarms!worker, Alarms!snapshots, lost>>
      /\ alarmCommands' \in Seq(Alarms!Requests) /\ alarms' \in Nat
  <2>1. CASE Alarms!TakePicture
    BY <2>1 DEF Alarms!TakePicture, Alarms!TypeOK
  <2>2. CASE Alarms!Exit
    BY <2>2 DEF Alarms!Exit, Alarms!TypeOK
  <2>. QED  BY <2>1, <2>2 DEF Alarms!Subscribe, Alarms!Ready, Alarms!Alarm, Alarms!TypeOK
<1>b. \/ /\ alarmMessages' = alarmMessages
         /\ \/ alarmChild = "starting" /\ alarmChild' = "subscribed"
            \/ alarmChild \in {"starting", "subscribed", "up"} /\ alarmChild' = "exited"
      \/ /\ alarmChild \in {"starting", "subscribed", "up"}
         /\ \E m \in MessageOK :
              /\ alarmMessages' = Append(alarmMessages, m)
              /\ \/ m.type = "error" /\ alarmChild' = "exited"
                 \/ m.type = "ready" /\ alarmChild = "subscribed" /\ alarmChild' = "up"
                 \/ /\ m.type = "alarm" /\ (alarmChild = "up" \/ EarlyAlarms)
                    /\ alarmChild' = alarmChild
                 \/ m.type \in {"snapshot", "snapshot_error"} /\ alarmChild = "up" /\ alarmChild' = "up"
  <2>1. CASE Alarms!Subscribe
    <3>1. [type |-> "error", id |-> 0] \in MessageOK
      OBVIOUS
    <3>. QED  BY <2>1, <3>1 DEF Alarms!Subscribe, Alarms!Writes, Alarms!Message
  <2>2. CASE Alarms!Ready
    <3>1. [type |-> "ready", id |-> 0] \in MessageOK
      OBVIOUS
    <3>. QED  BY <2>2, <3>1 DEF Alarms!Ready, Alarms!Writes, Alarms!Message
  <2>3. CASE Alarms!Alarm
    <3>1. [type |-> "alarm", id |-> alarms'] \in MessageOK
      BY <1>a
    <3>. QED  BY <2>3, <3>1 DEF Alarms!Alarm, Alarms!Writes, Alarms!Message
  <2>4. CASE Alarms!TakePicture
    <3>a. Head(alarmCommands) \in Alarms!Requests
      BY <2>4, TailAt DEF Alarms!TakePicture, Alarms!TypeOK
    <3>1. Head(alarmCommands) \in Nat
      BY <3>a DEF Alarms!Requests
    <3>2. \A type \in {"snapshot", "snapshot_error"} : [type |-> type, id |-> Head(alarmCommands)] \in MessageOK
      BY <3>1
    <3>. QED  BY <2>4, <3>2 DEF Alarms!TakePicture, Alarms!Writes, Alarms!Message
  <2>5. CASE Alarms!Exit
    BY <2>5 DEF Alarms!Exit, Alarms!Alive
  <2>. QED  BY <2>1, <2>2, <2>3, <2>4, <2>5
<1>1. Alarms!TypeOK'
  <2>1. alarmMessages' \in Seq(MessageOK)
    <3>1. alarmMessages \in Seq(MessageOK)
      BY DEF Alarms!TypeOK
    <3>2. \A m \in MessageOK : Append(alarmMessages, m) \in Seq(MessageOK)
      BY <3>1, AppendAt
    <3>. QED  BY <1>b, <3>1, <3>2
  <2>2. alarmChild' \in {"none", "starting", "subscribed", "up", "exited"}
    BY <1>b
  <2>. QED  BY <1>a, <2>1, <2>2 DEF Alarms!TypeOK, Alarms!worker, Alarms!snapshots
<1>2. Alarms!AnswersItsRequest'
  BY <1>a DEF Alarms!AnswersItsRequest, Alarms!snapshots
<1>3. ~EarlyAlarms => Alarms!ReadyInv'
  <2>1. CASE alarmMessages' = alarmMessages
    <3>1. \A type : Alarms!Wrote(type)' <=> Alarms!Wrote(type)
      BY <2>1 DEF Alarms!Wrote
    <3>2. ~EarlyAlarms => alarmStartup # "none"
      BY <1>b DEF Alarms!ReadyInv
    <3>3. alarmChild' \in {"starting", "subscribed"} => alarmChild \in {"starting", "subscribed"}
      BY <1>b
    <3>. QED  BY <1>a, <2>1, <3>1, <3>2, <3>3 DEF Alarms!ReadyInv, Alarms!NoReady, Alarms!worker
  <2>2. CASE alarmMessages' # alarmMessages
    <3>1. PICK m \in MessageOK :
            /\ alarmMessages' = Append(alarmMessages, m)
            /\ \/ m.type = "error" /\ alarmChild' = "exited"
               \/ m.type = "ready" /\ alarmChild = "subscribed" /\ alarmChild' = "up"
               \/ m.type = "alarm" /\ (alarmChild = "up" \/ EarlyAlarms) /\ alarmChild' = alarmChild
               \/ m.type \in {"snapshot", "snapshot_error"} /\ alarmChild = "up" /\ alarmChild' = "up"
      BY <1>b, <2>2
    <3>2. alarmChild \in {"starting", "subscribed", "up"}
      BY <1>b, <2>2
    <3>. QED  BY <1>a, <3>1, <3>2, AlarmWrites DEF Alarms!worker
  <2>. QED  BY <2>1, <2>2
<1>4. ~EarlyAlarms => Alarms!LostAlarmShows'
  BY <1>a DEF Alarms!LostAlarmShows, Alarms!worker
<1>. QED  BY <1>1, <1>2, <1>3, <1>4
\* A request that is not the one answered keeps its answer; one that fails is its own.
LEMMA AlarmAnswers ==
  ASSUME Alarms!TypeOK, Alarms!AnswersItsRequest,
         alarmAnswer' = [r \in Alarms!Requests |-> IF r \in Alarms!Open THEN Alarms!Failed(r) ELSE alarmAnswer[r]]
  PROVE  /\ alarmAnswer' \in [Alarms!Requests -> [of : Nat, ok : BOOLEAN]]
         /\ Alarms!AnswersItsRequest'
<1>1. \A r \in Alarms!Requests : r \in Nat
  BY DEF Alarms!Requests
<1>2. \A r \in Alarms!Requests : Alarms!Failed(r) \in [of : Nat, ok : BOOLEAN] /\ Alarms!Failed(r).of = r
  BY <1>1 DEF Alarms!Failed
<1>3. alarmAnswer' \in [Alarms!Requests -> [of : Nat, ok : BOOLEAN]]
  BY <1>2 DEF Alarms!TypeOK
<1>4. Alarms!AnswersItsRequest'
  BY <1>2 DEF Alarms!AnswersItsRequest
<1>. QED  BY <1>3, <1>4

\* What a step says of the child's messages and of the alarms it does not touch.
LEMMA AlarmKeeps ==
  ASSUME Alarms!AlarmInv,
         UNCHANGED <<alarmChild, alarmMessages, alarmReader, lost>>,
         alarmStartup' = alarmStartup \/ alarmStartup' = "resolved",
         alarmStatus' = alarmStatus \/ alarmStatus' = "failed",
         alarmCommands' \in Seq(Alarms!Requests), alarms' \in Nat,
         alarmAnswer' \in [Alarms!Requests -> [of : Nat, ok : BOOLEAN]], Alarms!AnswersItsRequest'
  PROVE  Alarms!AlarmInv'
<1>. USE DEF Alarms!AlarmInv
<1>1. Alarms!TypeOK'
  BY DEF Alarms!TypeOK
<1>2. \A type : Alarms!Wrote(type)' <=> Alarms!Wrote(type)
  BY DEF Alarms!Wrote
<1>3. ~EarlyAlarms => Alarms!ReadyInv'
  BY <1>2 DEF Alarms!ReadyInv, Alarms!NoReady
<1>4. ~EarlyAlarms => Alarms!LostAlarmShows'
  BY DEF Alarms!LostAlarmShows
<1>. QED  BY <1>1, <1>3, <1>4

\* The worker starts.
LEMMA AlarmStartInv ==
  ASSUME Alarms!AlarmInv, Alarms!Start
  PROVE  Alarms!AlarmInv'
<1>. USE DEF Alarms!AlarmInv
<1>a. /\ alarmStartup = "none" /\ UNCHANGED <<alarmCommands, alarms, alarmMessages, lost>>
      /\ \/ /\ alarmChild' = "starting" /\ alarmReader' = "reading" /\ alarmStartup' = "pending"
            /\ UNCHANGED <<alarmStatus, alarmAnswer>>
         \/ /\ Alarms!SetFailed /\ UNCHANGED <<alarmChild, alarmReader>>
  BY DEF Alarms!Start
<1>1. CASE Alarms!SetFailed /\ UNCHANGED <<alarmChild, alarmReader>>
  <2>1. /\ alarmStatus' = "failed" /\ alarmStartup' = "resolved"
        /\ alarmAnswer' = [r \in Alarms!Requests |-> IF r \in Alarms!Open THEN Alarms!Failed(r) ELSE alarmAnswer[r]]
    BY <1>1 DEF Alarms!SetFailed, Alarms!FailRequests
  <2>2. alarmCommands' \in Seq(Alarms!Requests) /\ alarms' \in Nat
    BY <1>a DEF Alarms!TypeOK
  <2>. QED  BY <1>a, <1>1, <2>1, <2>2, AlarmAnswers, AlarmKeeps
<1>2. CASE /\ alarmChild' = "starting" /\ alarmReader' = "reading" /\ alarmStartup' = "pending"
           /\ UNCHANGED <<alarmStatus, alarmAnswer>>
  <2>1. Alarms!TypeOK' /\ Alarms!AnswersItsRequest'
    BY <1>a, <1>2 DEF Alarms!TypeOK, Alarms!AnswersItsRequest
  <2>2. ~EarlyAlarms => alarmMessages' = <<>> /\ ~(lost' > 0)
    BY <1>a DEF Alarms!ReadyInv, Alarms!NoReady
  <2>. QED  BY <1>2, <2>1, <2>2 DEF Alarms!ReadyInv, Alarms!Wrote, Alarms!LostAlarmShows
<1>. QED  BY <1>a, <1>1, <1>2

\* It stops, fails, or is asked for a picture.
LEMMA AlarmWorkerInv ==
  ASSUME Alarms!AlarmInv,
         \/ Alarms!StartupTimesOut \/ Alarms!StopPlugin \/ Alarms!WatchExit
         \/ \E r \in Alarms!Requests : Alarms!FindBrokenPipe(r)
  PROVE  Alarms!AlarmInv'
<1>. USE DEF Alarms!AlarmInv
<1>1. UNCHANGED <<alarmChild, alarmCommands, alarms, alarmMessages, alarmReader, lost>>
  BY DEF Alarms!StartupTimesOut, Alarms!StopPlugin, Alarms!WatchExit, Alarms!FindBrokenPipe, Alarms!child_
<1>2. \/ Alarms!SetFailed
      \/ UNCHANGED <<alarmStatus, alarmStartup, alarmAnswer>>
  BY DEF Alarms!StartupTimesOut, Alarms!StopPlugin, Alarms!WatchExit, Alarms!FindBrokenPipe, Alarms!snapshots
<1>3. CASE Alarms!SetFailed
  <2>1. /\ alarmStatus' = "failed" /\ alarmStartup' = "resolved"
        /\ alarmAnswer' = [r \in Alarms!Requests |-> IF r \in Alarms!Open THEN Alarms!Failed(r) ELSE alarmAnswer[r]]
    BY <1>3 DEF Alarms!SetFailed, Alarms!FailRequests
  <2>2. alarmCommands' \in Seq(Alarms!Requests) /\ alarms' \in Nat
    BY <1>1 DEF Alarms!TypeOK
  <2>. QED  BY <1>1, <2>1, <2>2, AlarmAnswers, AlarmKeeps
<1>4. CASE UNCHANGED <<alarmStatus, alarmStartup, alarmAnswer>>
  <2>1. alarmCommands' \in Seq(Alarms!Requests) /\ alarms' \in Nat
    BY <1>1 DEF Alarms!TypeOK
  <2>2. alarmAnswer' \in [Alarms!Requests -> [of : Nat, ok : BOOLEAN]] /\ Alarms!AnswersItsRequest'
    BY <1>4 DEF Alarms!TypeOK, Alarms!AnswersItsRequest
  <2>. QED  BY <1>1, <1>4, <2>1, <2>2, AlarmKeeps
<1>. QED  BY <1>2, <1>3, <1>4

\* A request is made, or has waited long enough.
LEMMA AlarmRequestInv ==
  ASSUME Alarms!AlarmInv, NEW r \in Alarms!Requests, Alarms!Ask(r) \/ Alarms!Return(r)
  PROVE  Alarms!AlarmInv'
<1>. USE DEF Alarms!AlarmInv
<1>1. UNCHANGED <<alarmChild, alarms, alarmMessages, alarmReader, Alarms!worker, lost>>
  BY DEF Alarms!Ask, Alarms!Return, Alarms!child_
<1>2. alarmCommands' \in Seq(Alarms!Requests) /\ alarms' \in Nat
  <2>1. alarmCommands' = alarmCommands \/ alarmCommands' = Append(alarmCommands, r)
    BY DEF Alarms!Ask, Alarms!Return, Alarms!child_
  <2>2. alarmCommands \in Seq(Alarms!Requests) /\ alarms' \in Nat
    BY <1>1 DEF Alarms!TypeOK
  <2>3. Append(alarmCommands, r) \in Seq(Alarms!Requests)
    BY <2>2, AppendAt
  <2>. QED  BY <2>1, <2>2, <2>3
<1>3. alarmAnswer' = alarmAnswer \/ alarmAnswer' = [alarmAnswer EXCEPT ![r] = Alarms!Failed(r)]
  BY DEF Alarms!Ask, Alarms!Return
<1>4. r \in Nat /\ Alarms!Failed(r) \in [of : Nat, ok : BOOLEAN] /\ Alarms!Failed(r).of = r
  <2>1. r \in Nat
    BY DEF Alarms!Requests
  <2>. QED  BY <2>1 DEF Alarms!Failed
<1>5. alarmAnswer' \in [Alarms!Requests -> [of : Nat, ok : BOOLEAN]]
  BY <1>3, <1>4 DEF Alarms!TypeOK
<1>6. Alarms!AnswersItsRequest'
  BY <1>3, <1>4 DEF Alarms!AnswersItsRequest, Alarms!TypeOK
<1>. QED  BY <1>1, <1>2, <1>5, <1>6, AlarmKeeps DEF Alarms!worker

\* A stop ends: nothing more is read.
LEMMA AlarmStopInv ==
  ASSUME Alarms!AlarmInv, NEW who \in Alarms!Stoppers, Alarms!StopEnds(who)
  PROVE  Alarms!AlarmInv'
<1>. USE DEF Alarms!AlarmInv
<1>1. /\ alarmChild' = "none" /\ alarmMessages' = <<>> /\ alarmReader' = "none" /\ alarmStartup' = "resolved"
      /\ alarmStatus' \in {"stopped", alarmStatus} /\ UNCHANGED <<alarmCommands, alarms, lost>>
      /\ alarmAnswer' = [r \in Alarms!Requests |-> IF r \in Alarms!Open THEN Alarms!Failed(r) ELSE alarmAnswer[r]]
  BY DEF Alarms!StopEnds, Alarms!FailRequests
<1>2. Alarms!TypeOK' /\ Alarms!AnswersItsRequest'
  BY <1>1, AlarmAnswers DEF Alarms!TypeOK
<1>3. ~EarlyAlarms => Alarms!ReadyInv'
  BY <1>1 DEF Alarms!ReadyInv, Alarms!NoReady, Alarms!Wrote
<1>4. ~EarlyAlarms => Alarms!LostAlarmShows'
  BY <1>1 DEF Alarms!LostAlarmShows
<1>. QED  BY <1>2, <1>3, <1>4

\* An alarm is preserved, or lost and the worker has failed.
LEMMA AlarmPreserveInv ==
  ASSUME Alarms!AlarmInv, Alarms!Preserve
  PROVE  Alarms!AlarmInv'
<1>. USE DEF Alarms!AlarmInv
<1>1. /\ alarmReader = "preserving" /\ alarmReader' = "reading"
      /\ UNCHANGED <<alarmChild, alarmCommands, alarms, alarmMessages>>
      /\ \/ UNCHANGED <<alarmStatus, alarmStartup, alarmAnswer, lost>>
         \/ /\ lost' = lost + 1 /\ alarmStatus' = "failed" /\ alarmStartup' = "resolved"
            /\ alarmAnswer' = [r \in Alarms!Requests |-> IF r \in Alarms!Open THEN Alarms!Failed(r) ELSE alarmAnswer[r]]
  BY DEF Alarms!Preserve, Alarms!SetFailed, Alarms!FailRequests, Alarms!child_
<1>2. alarmAnswer' \in [Alarms!Requests -> [of : Nat, ok : BOOLEAN]] /\ Alarms!AnswersItsRequest'
  <2>1. CASE alarmAnswer' = alarmAnswer
    BY <2>1 DEF Alarms!TypeOK, Alarms!AnswersItsRequest
  <2>. QED  BY <1>1, <2>1, AlarmAnswers
<1>3. Alarms!TypeOK'
  BY <1>1, <1>2 DEF Alarms!TypeOK
<1>4. ~EarlyAlarms => Alarms!NoReady /\ Alarms!NoReady'
  BY <1>1 DEF Alarms!ReadyInv, Alarms!NoReady, Alarms!Wrote
<1>5. ~EarlyAlarms => Alarms!ReadyInv'
  BY <1>1, <1>4 DEF Alarms!ReadyInv, Alarms!NoReady, Alarms!Wrote
<1>6. ~EarlyAlarms => Alarms!LostAlarmShows'
  BY <1>1 DEF Alarms!LostAlarmShows
<1>. QED  BY <1>2, <1>3, <1>5, <1>6

\* A message is read.
LEMMA AlarmReadInv ==
  ASSUME Alarms!AlarmInv, Alarms!Read
  PROVE  Alarms!AlarmInv'
<1>. USE DEF Alarms!AlarmInv
<1>. DEFINE MessageOK == [type : {"ready", "error", "alarm", "snapshot", "snapshot_error"}, id : Nat]
            m == Head(alarmMessages)
<1>1. /\ alarmReader = "reading" /\ alarmMessages # <<>> /\ alarmMessages' = Tail(alarmMessages)
      /\ Alarms!Handle(m) /\ UNCHANGED <<alarmChild, alarmCommands, alarms, lost>>
  BY DEF Alarms!Read, Alarms!child_
<1>2. alarmMessages \in Seq(MessageOK)
  BY DEF Alarms!TypeOK
<1>3. /\ alarmMessages' \in Seq(MessageOK) /\ m \in MessageOK /\ m = alarmMessages[1]
      /\ Len(alarmMessages) \in Nat \ {0} /\ DOMAIN alarmMessages = 1..Len(alarmMessages)
      /\ DOMAIN alarmMessages' = 1..(Len(alarmMessages) - 1)
      /\ \A k \in 1..(Len(alarmMessages) - 1) :
           alarmMessages'[k] = alarmMessages[k + 1] /\ k + 1 \in 1..Len(alarmMessages)
  BY <1>1, <1>2, TailAt
<1>. HIDE DEF m
<1>4. \A type : Alarms!Wrote(type)' => Alarms!Wrote(type)
  BY <1>3 DEF Alarms!Wrote
<1>5. ASSUME ~EarlyAlarms, m.type \in {"ready", "alarm"}
      PROVE  Alarms!Wrote(m.type) /\ ~Alarms!Wrote("ready")'
  <2>1. 1 \in DOMAIN alarmMessages /\ Alarms!Wrote(m.type)
    BY <1>3 DEF Alarms!Wrote
  <2>2. ASSUME NEW k \in DOMAIN alarmMessages', alarmMessages'[k].type = "ready"
        PROVE  FALSE
    <3>1. /\ k + 1 \in DOMAIN alarmMessages /\ alarmMessages[k + 1].type = "ready" /\ k + 1 # 1 /\ 1 < k + 1
      BY <1>3, <2>2
    <3>2. alarmMessages[1].type \notin {"ready", "alarm"}
      BY <1>5, <2>1, <3>1 DEF Alarms!ReadyInv
    <3>. QED  BY <1>3, <1>5, <3>2
  <2>. QED  BY <2>1, <2>2 DEF Alarms!Wrote
<1>6. \/ /\ m.type = "ready" /\ alarmStatus' = "running" /\ alarmStartup' = "resolved"
         /\ UNCHANGED <<alarmReader, alarmAnswer>>
      \/ /\ m.type = "error" /\ alarmStatus' = "failed" /\ alarmStartup' = "resolved" /\ UNCHANGED alarmReader
         /\ alarmAnswer' = [r \in Alarms!Requests |-> IF r \in Alarms!Open THEN Alarms!Failed(r) ELSE alarmAnswer[r]]
      \/ /\ m.type = "alarm" /\ alarmReader' = "preserving"
         /\ UNCHANGED <<alarmStatus, alarmStartup, alarmAnswer>>
      \/ /\ UNCHANGED <<alarmReader, alarmStatus, alarmStartup>>
         /\ alarmAnswer' = [r \in Alarms!Requests |-> IF Alarms!Answers(r, m)
                              THEN [of |-> m.id, ok |-> m.type = "snapshot"] ELSE alarmAnswer[r]]
  BY <1>1 DEF Alarms!Handle, Alarms!SetFailed, Alarms!FailRequests
<1>7. alarmAnswer' \in [Alarms!Requests -> [of : Nat, ok : BOOLEAN]] /\ Alarms!AnswersItsRequest'
  <2>1. CASE alarmAnswer' = alarmAnswer
    BY <2>1 DEF Alarms!TypeOK, Alarms!AnswersItsRequest
  <2>2. CASE alarmAnswer' = [r \in Alarms!Requests |-> IF Alarms!Answers(r, m)
                              THEN [of |-> m.id, ok |-> m.type = "snapshot"] ELSE alarmAnswer[r]]
    <3>1. [of |-> m.id, ok |-> m.type = "snapshot"] \in [of : Nat, ok : BOOLEAN]
      BY <1>3
    <3>2. \A r \in Alarms!Requests : Alarms!Answers(r, m) => m.id = r
      BY DEF Alarms!Answers
    <3>. QED  BY <2>2, <3>1, <3>2 DEF Alarms!TypeOK, Alarms!AnswersItsRequest
  <2>. QED  BY <1>6, <2>1, <2>2, AlarmAnswers
<1>8. Alarms!TypeOK'
  BY <1>1, <1>3, <1>6, <1>7 DEF Alarms!TypeOK
<1>9. ASSUME ~EarlyAlarms
      PROVE  Alarms!ReadyInv' /\ Alarms!LostAlarmShows'
  <2>1. alarmStartup' # "none"
    BY <1>1, <1>6, <1>9 DEF Alarms!ReadyInv
  <2>2. \A k \in DOMAIN alarmMessages' : alarmMessages'[k].type = "ready" =>
          \A j \in DOMAIN alarmMessages' : j # k =>
            alarmMessages'[j].type # "ready" /\ (j < k => alarmMessages'[j].type # "alarm")
    <3>1. ASSUME NEW k \in DOMAIN alarmMessages', alarmMessages'[k].type = "ready",
                 NEW j \in DOMAIN alarmMessages', j # k
          PROVE  alarmMessages'[j].type # "ready" /\ (j < k => alarmMessages'[j].type # "alarm")
      <4>1. /\ k + 1 \in DOMAIN alarmMessages /\ alarmMessages[k + 1].type = "ready"
            /\ j + 1 \in DOMAIN alarmMessages /\ j + 1 # k + 1 /\ (j < k => j + 1 < k + 1)
        BY <1>3, <3>1
      <4>2. /\ alarmMessages[j + 1].type # "ready"
            /\ j + 1 < k + 1 => alarmMessages[j + 1].type # "alarm"
        BY <1>9, <4>1 DEF Alarms!ReadyInv
      <4>. QED  BY <1>3, <4>1, <4>2
    <3>. QED  BY <3>1
  <2>3. Alarms!Wrote("ready") \/ Alarms!Wrote("alarm") => alarmChild \notin {"starting", "subscribed"}
    BY <1>9 DEF Alarms!ReadyInv
  <2>4. m.type = "ready" => ~(lost > 0) /\ alarmReader # "preserving"
    BY <1>1, <1>5, <1>9 DEF Alarms!ReadyInv, Alarms!NoReady
  <2>5. m.type = "alarm" => Alarms!NoReady'
    BY <1>1, <1>5, <1>9, <2>1, <2>3 DEF Alarms!NoReady
  <2>6. lost > 0 => Alarms!NoReady'
    BY <1>1, <1>4, <1>9, <2>1 DEF Alarms!ReadyInv, Alarms!NoReady
  <2>7. alarmReader' = "preserving" => m.type = "alarm"
    BY <1>1, <1>6
  <2>8. Alarms!ReadyInv'
    BY <1>1, <1>4, <2>1, <2>2, <2>3, <2>5, <2>6, <2>7 DEF Alarms!ReadyInv
  <2>9. Alarms!LostAlarmShows'
    BY <1>1, <1>6, <1>9, <2>4 DEF Alarms!LostAlarmShows
  <2>. QED  BY <2>8, <2>9
<1>. QED  BY <1>7, <1>8, <1>9

\* No worker runs, and nothing has been asked.
LEMMA AlarmInit == Alarms!Init => Alarms!AlarmInv
<1>. SUFFICES ASSUME Alarms!Init PROVE Alarms!AlarmInv
  OBVIOUS
<1>1. Alarms!Pending \in [of : Nat, ok : BOOLEAN] /\ Alarms!Pending.of = 0
  BY DEF Alarms!Pending
<1>2. DOMAIN alarmMessages = {} /\ alarmMessages = <<>> /\ alarmChild = "none" /\ alarmReader = "none" /\ lost = 0
  BY DEF Alarms!Init
<1>3. Alarms!TypeOK
  BY <1>1 DEF Alarms!Init, Alarms!TypeOK
<1>4. Alarms!AnswersItsRequest
  BY <1>1 DEF Alarms!Init, Alarms!AnswersItsRequest
<1>5. Alarms!ReadyInv
  BY <1>2 DEF Alarms!ReadyInv, Alarms!Wrote
<1>6. Alarms!LostAlarmShows
  BY <1>2 DEF Alarms!LostAlarmShows
<1>. QED  BY <1>3, <1>4, <1>5, <1>6 DEF Alarms!AlarmInv

\* Every step preserves what holds of the worker.
LEMMA AlarmNext == Alarms!AlarmInv /\ [Alarms!Next]_(Alarms!alarmVars) => Alarms!AlarmInv'
<1>1. Alarms!AlarmInv /\ UNCHANGED Alarms!alarmVars => Alarms!AlarmInv'
  <2>. SUFFICES ASSUME Alarms!AlarmInv, UNCHANGED Alarms!alarmVars PROVE Alarms!AlarmInv'
    OBVIOUS
  <2>. USE DEF Alarms!AlarmInv, Alarms!alarmVars, Alarms!child_, Alarms!worker, Alarms!snapshots
  <2>1. Alarms!TypeOK'
    BY DEF Alarms!TypeOK
  <2>2. Alarms!AnswersItsRequest' /\ (Alarms!LostAlarmShows => Alarms!LostAlarmShows')
    BY DEF Alarms!AnswersItsRequest, Alarms!LostAlarmShows
  <2>3. Alarms!ReadyInv => Alarms!ReadyInv'
    BY DEF Alarms!ReadyInv, Alarms!Wrote, Alarms!NoReady
  <2>. QED  BY <2>1, <2>2, <2>3
<1>. QED
  BY <1>1, AlarmChildInv, AlarmStartInv, AlarmWorkerInv, AlarmRequestInv, AlarmStopInv, AlarmPreserveInv,
     AlarmReadInv
  DEF Alarms!Next

-----------------------------------------------------------------------------
(***************************************************************************)
(* HikvisionVideo: VideoInv, action by action.                             *)
(***************************************************************************)
\* The worker starts, stops or loses its child, and no message is written or read: no pipe
\* gets anything new, and nobody is blocked who was not.
LEMMA VideoKeeps ==
  ASSUME Video!VideoInv,
         UNCHANGED <<videoMessages, videoCapture, at, attached, stopped, pushed, captures>>,
         Video!Serving' => Video!Serving, eof' => stopping',
         startup' = "none" => child' = "none" /\ reader' = "none" /\ at' = "idle",
         preview' \in {0, preview}, commands' \in {<<>>, commands}, videoQueue' \in Seq(Video!Ours),
         unput' \in {0, unput}, reader' # "blocked" => unput' = 0, reader' = "blocked" => reader = "blocked"
  PROVE  Video!VideoInv'
<1>. USE DEF Video!VideoInv
<1>1. Video!Ours' = Video!Ours /\ 0 \in Video!Ours
  BY DEF Video!Ours, Video!Ends
<1>2. commands' \in Seq([type : Video!CommandTypes, id : Video!Ours])
  <2>1. commands \in Seq([type : Video!CommandTypes, id : Video!Ours])
    BY DEF Video!OwnInv
  <2>2. <<>> \in Seq([type : Video!CommandTypes, id : Video!Ours])
    OBVIOUS
  <2>. QED  BY <2>1, <2>2
<1>3. Video!OwnInv'
  BY <1>1, <1>2 DEF Video!OwnInv, Video!MessageTypes, Video!CommandTypes, Video!Ends
<1>4. /\ Video!Over => Video!Over'
      /\ Video!UnderWay => Video!UnderWay'
      /\ Video!Ending => Video!Ending'
  BY DEF Video!Over, Video!UnderWay, Video!Ending, Video!OfPreview
<1>5. Video!TurnInv'
  BY <1>4 DEF Video!TurnInv
<1>. QED  BY <1>3, <1>5

\* The child writes a message that is no preview's end, a packet while it is open.
LEMMA VideoWrites ==
  ASSUME Video!VideoInv, NEW m \in [type : Video!MessageTypes, id : Nat],
         videoMessages' = Append(videoMessages, m), m.type # "preview_stopped",
         m.type = "video" => m.id = captures /\ preview # 0,
         UNCHANGED <<preview, commands, eof, reader, unput, startup, stopping, videoCapture, at,
                     videoQueue, attached, stopped, pushed, captures>>,
         child' # "none" /\ child # "none", Video!Serving' => Video!Serving
  PROVE  Video!VideoInv'
<1>. USE DEF Video!VideoInv
<1>1. videoMessages \in Seq([type : Video!MessageTypes, id : Nat])
  BY DEF Video!OwnInv
<1>2. /\ DOMAIN videoMessages = 1..Len(videoMessages) /\ Len(videoMessages) \in Nat
      /\ DOMAIN videoMessages' = 1..(Len(videoMessages) + 1)
      /\ \A k \in 1..Len(videoMessages) : videoMessages'[k] = videoMessages[k]
      /\ videoMessages'[Len(videoMessages) + 1] = m
      /\ videoMessages' \in Seq([type : Video!MessageTypes, id : Nat])
  BY <1>1, AppendAt
<1>3. \A k \in DOMAIN videoMessages' :
        (k \in DOMAIN videoMessages /\ videoMessages'[k] = videoMessages[k]) \/ videoMessages'[k] = m
  BY <1>2
<1>4. Video!Ours' = Video!Ours
  BY DEF Video!Ours
<1>5. \A k \in DOMAIN videoMessages' : videoMessages'[k].type = "video" => videoMessages'[k].id = captures
  BY <1>3 DEF Video!OwnInv
<1>6. Video!OwnInv'
  BY <1>2, <1>4, <1>5 DEF Video!OwnInv, Video!MessageTypes, Video!CommandTypes
<1>7. Video!Over => Video!Over'
  BY <1>3 DEF Video!Over, Video!OfPreview
<1>8. Video!UnderWay => Video!UnderWay'
  BY <1>3 DEF Video!UnderWay
<1>9. ASSUME Video!Ending
      PROVE  Video!Ending'
  <2>1. ASSUME NEW k \in DOMAIN videoMessages', videoMessages'[k].type = "preview_stopped"
        PROVE  /\ preview' = 0 /\ commands' = <<>>
               /\ \A j \in DOMAIN videoMessages' : j > k => videoMessages'[j].type \notin Video!OfPreview
    <3>1. k \in DOMAIN videoMessages /\ videoMessages[k].type = "preview_stopped"
      BY <1>3, <2>1
    <3>2. /\ preview = 0 /\ commands = <<>>
          /\ \A j \in DOMAIN videoMessages : j > k => videoMessages[j].type \notin Video!OfPreview
      BY <1>9, <3>1 DEF Video!Ending
    <3>. QED  BY <1>3, <3>2 DEF Video!OfPreview
  <2>. QED  BY <1>7, <1>9, <2>1 DEF Video!Ending
<1>10. Video!TurnInv'
  BY <1>7, <1>8, <1>9 DEF Video!TurnInv
<1>. QED  BY <1>6, <1>10

\* The child logs in, announces its preview, or hands on a packet.
LEMMA VideoChildInv ==
  ASSUME Video!VideoInv, Video!Login \/ Video!Announce \/ Video!Packet
  PROVE  Video!VideoInv'
<1>1. UNCHANGED <<preview, commands, eof, reader, unput, startup, stopping, videoCapture, at,
                  videoQueue, attached, stopped, pushed, captures>>
  BY DEF Video!Login, Video!Announce, Video!Packet, Video!process, Video!supervisor, Video!handler
<1>2. /\ child' # "none" /\ child # "none" /\ Video!Alive
      /\ stopping' = stopping /\ startup' = startup
  BY DEF Video!Login, Video!Announce, Video!Packet, Video!process, Video!supervisor, Video!Alive
<1>3. Video!Serving' => Video!Serving
  BY <1>2 DEF Video!Serving
<1>4. PICK m \in [type : Video!MessageTypes, id : Nat] :
        /\ videoMessages' = Append(videoMessages, m) /\ m.type # "preview_stopped"
        /\ m.type = "video" => m.id = captures /\ preview # 0
  <2>1. \A type \in Video!MessageTypes : \A id \in Nat :
          /\ Video!Message(type, id) \in [type : Video!MessageTypes, id : Nat]
          /\ Video!Message(type, id).type = type /\ Video!Message(type, id).id = id
    BY DEF Video!Message
  <2>2. CASE Video!Login
    <3>1. \/ videoMessages' = Append(videoMessages, Video!Message("ready", 0))
          \/ videoMessages' = Append(videoMessages, Video!Message("login_error", 0))
      BY <2>2 DEF Video!Login, Video!Writes
    <3>2. "ready" \in Video!MessageTypes /\ "login_error" \in Video!MessageTypes
      BY DEF Video!MessageTypes
    <3>. QED  BY <2>1, <3>1, <3>2
  <2>3. CASE Video!Announce
    <3>1. videoMessages' = Append(videoMessages, Video!Message("preview_started", 0))
      BY <2>3 DEF Video!Announce, Video!Writes
    <3>2. "preview_started" \in Video!MessageTypes
      BY DEF Video!MessageTypes
    <3>. QED  BY <2>1, <3>1, <3>2
  <2>4. CASE Video!Packet
    <3>1. \/ videoMessages' = Append(videoMessages, Video!Message("video", preview))
          \/ videoMessages' = Append(videoMessages, Video!Message("stream_error", 0))
      BY <2>4 DEF Video!Packet, Video!Writes
    <3>2. "video" \in Video!MessageTypes /\ "stream_error" \in Video!MessageTypes
      BY DEF Video!MessageTypes
    <3>3. preview # 0 /\ preview = captures /\ preview \in Nat
      BY <2>4 DEF Video!Packet, Video!VideoInv, Video!OwnInv, Video!Ours, Video!Ends
    <3>. QED  BY <2>1, <3>1, <3>2, <3>3
  <2>. QED  BY <2>2, <2>3, <2>4
<1>. QED  BY <1>1, <1>2, <1>3, <1>4, VideoWrites

\* A command taken off the child's stdin leaves those behind it.
LEMMA VideoTakes ==
  ASSUME Video!OwnInv, commands # <<>>, commands' = Tail(commands), captures' = captures
  PROVE  /\ Video!Ours' = Video!Ours
         /\ commands' \in Seq([type : Video!CommandTypes, id : Video!Ours])'
         /\ Head(commands) \in [type : Video!CommandTypes, id : Video!Ours]
         /\ Head(commands) = commands[1] /\ 1 \in DOMAIN commands
         /\ \A k \in DOMAIN commands' : k + 1 \in DOMAIN commands /\ commands'[k] = commands[k + 1]
         /\ Len(commands) \in Nat /\ Len(commands') = Len(commands) - 1
         /\ Len(commands) = 1 => commands' = <<>>
         /\ DOMAIN commands = 1..Len(commands) /\ DOMAIN commands' = 1..(Len(commands) - 1)
<1>1. Video!Ours' = Video!Ours
  BY DEF Video!Ours
<1>2. commands \in Seq([type : Video!CommandTypes, id : Video!Ours])
  BY DEF Video!OwnInv
<1>3. /\ Tail(commands) \in Seq([type : Video!CommandTypes, id : Video!Ours])
      /\ Len(commands) \in Nat \ {0} /\ Len(Tail(commands)) = Len(commands) - 1
      /\ DOMAIN commands = 1..Len(commands) /\ DOMAIN Tail(commands) = 1..(Len(commands) - 1)
      /\ Head(commands) \in [type : Video!CommandTypes, id : Video!Ours] /\ Head(commands) = commands[1]
      /\ \A k \in 1..(Len(commands) - 1) : Tail(commands)[k] = commands[k + 1] /\ k + 1 \in 1..Len(commands)
  BY <1>2, TailAt
<1>4. Len(commands) = 1 => Tail(commands) = <<>>
  BY <1>2
<1>5. Seq([type : Video!CommandTypes, id : Video!Ours])' = Seq([type : Video!CommandTypes, id : Video!Ours])
  BY <1>1 DEF Video!CommandTypes
<1>. QED  BY <1>1, <1>3, <1>4, <1>5

\* The child obeys a command, or ignores one that asks for what is.
LEMMA VideoObeyInv ==
  ASSUME Video!VideoInv, Video!Obey
  PROVE  Video!VideoInv'
<1>. USE DEF Video!VideoInv
<1>1. /\ child = "up" /\ child' = "up" /\ commands # <<>> /\ commands' = Tail(commands)
      /\ UNCHANGED <<eof, reader, unput, startup, stopping, videoCapture, at, videoQueue, attached,
                     stopped, pushed, captures>>
  BY DEF Video!Obey, Video!supervisor, Video!handler
<1>2. /\ Video!Ours' = Video!Ours
      /\ commands' \in Seq([type : Video!CommandTypes, id : Video!Ours])'
      /\ Head(commands) \in [type : Video!CommandTypes, id : Video!Ours]
      /\ Head(commands) = commands[1] /\ 1 \in DOMAIN commands
      /\ \A k \in DOMAIN commands' : k + 1 \in DOMAIN commands /\ commands'[k] = commands[k + 1]
      /\ Len(commands) \in Nat /\ Len(commands') = Len(commands) - 1
      /\ Len(commands) = 1 => commands' = <<>>
      /\ DOMAIN commands = 1..Len(commands) /\ DOMAIN commands' = 1..(Len(commands) - 1)
  BY <1>1, VideoTakes
<1>3. Video!Serving' <=> Video!Serving
  BY <1>1 DEF Video!Serving, Video!Alive
<1>4. ~Video!Over
  BY <1>1 DEF Video!Over
<1>5. ASSUME \A k \in DOMAIN commands : commands[k].type = "stop" => k = Len(commands)
      PROVE  \A k \in DOMAIN commands' : commands'[k].type = "stop" => k = Len(commands')
  BY <1>2, <1>5
<1>6. CASE UNCHANGED videoMessages /\ preview' \in Video!Ours
  <2>1. Video!OwnInv'
    BY <1>1, <1>2, <1>6 DEF Video!OwnInv, Video!MessageTypes
  <2>2. Video!UnderWay => Video!UnderWay'
    BY <1>1, <1>2, <1>6 DEF Video!UnderWay
  <2>3. ASSUME Video!Ending
        PROVE  Video!Ending'
    <3>1. \A k \in DOMAIN videoMessages : videoMessages[k].type # "preview_stopped"
      BY <1>1, <2>3 DEF Video!Ending
    <3>2. stopped # "set"
      BY <1>4, <2>3 DEF Video!Ending
    <3>. QED  BY <1>1, <1>5, <1>6, <2>3, <3>1, <3>2 DEF Video!Ending
  <2>. QED  BY <1>1, <1>3, <1>4, <2>1, <2>2, <2>3 DEF Video!TurnInv
<1>7. ASSUME NEW m \in [type : Video!MessageTypes, id : Nat],
             videoMessages' = Append(videoMessages, m), m.type # "video",
             preview' \in {0, preview},
             m.type = "preview_stopped" => preview' = 0 /\ Head(commands).type = "stop"
      PROVE  Video!VideoInv'
  <2>1. videoMessages \in Seq([type : Video!MessageTypes, id : Nat])
    BY DEF Video!OwnInv
  <2>2. /\ DOMAIN videoMessages = 1..Len(videoMessages) /\ Len(videoMessages) \in Nat
        /\ DOMAIN videoMessages' = 1..(Len(videoMessages) + 1)
        /\ \A k \in 1..Len(videoMessages) : videoMessages'[k] = videoMessages[k]
        /\ videoMessages'[Len(videoMessages) + 1] = m
        /\ videoMessages' \in Seq([type : Video!MessageTypes, id : Nat])
    BY <1>7, <2>1, AppendAt
  <2>3. \A k \in DOMAIN videoMessages' :
          \/ k \in DOMAIN videoMessages /\ videoMessages'[k] = videoMessages[k]
          \/ k = Len(videoMessages) + 1 /\ videoMessages'[k] = m
    BY <2>2
  <2>4. \A k \in DOMAIN videoMessages' : videoMessages'[k].type = "video" => videoMessages'[k].id = captures
    BY <1>7, <2>3 DEF Video!OwnInv
  <2>5. Video!OwnInv'
    <3>1. preview' \in Video!Ours
      BY <1>7 DEF Video!OwnInv, Video!Ours, Video!Ends
    <3>. QED  BY <1>1, <1>2, <2>2, <2>4, <3>1 DEF Video!OwnInv
  <2>6. Video!UnderWay => Video!UnderWay'
    <3>1. Video!UnderWay => m.type # "preview_stopped"
      BY <1>2, <1>7 DEF Video!UnderWay
    <3>. QED  BY <1>1, <1>2, <2>3, <3>1 DEF Video!UnderWay
  <2>7. ASSUME Video!Ending
        PROVE  Video!Ending'
    <3>1. \A k \in DOMAIN videoMessages : videoMessages[k].type # "preview_stopped"
      BY <1>1, <2>7 DEF Video!Ending
    <3>2. stopped # "set"
      BY <1>4, <2>7 DEF Video!Ending
    <3>3. ASSUME NEW k \in DOMAIN videoMessages', videoMessages'[k].type = "preview_stopped"
          PROVE  /\ preview' = 0 /\ commands' = <<>>
                 /\ \A j \in DOMAIN videoMessages' : j > k => videoMessages'[j].type \notin Video!OfPreview
      <4>1. k = Len(videoMessages) + 1 /\ m.type = "preview_stopped"
        BY <2>3, <3>1, <3>3
      <4>2. \A j \in DOMAIN videoMessages' : ~(j > k)
        BY <2>2, <4>1
      <4>3. commands[1].type = "stop" /\ 1 = Len(commands)
        BY <1>2, <1>7, <2>7, <4>1 DEF Video!Ending
      <4>. QED  BY <1>2, <1>7, <4>1, <4>2, <4>3
    <3>. QED  BY <1>1, <1>5, <2>7, <3>2, <3>3 DEF Video!Ending
  <2>. QED  BY <1>1, <1>3, <1>4, <2>5, <2>6, <2>7 DEF Video!TurnInv
<1>8. CASE Head(commands).type = "start" /\ preview = 0
  <2>1. \/ preview' = Head(commands).id /\ UNCHANGED videoMessages
        \/ preview' = preview /\ videoMessages' = Append(videoMessages, Video!Message("preview_error", 0))
    BY <1>8 DEF Video!Obey, Video!Writes
  <2>2. /\ Video!Message("preview_error", 0) \in [type : Video!MessageTypes, id : Nat]
        /\ Video!Message("preview_error", 0).type = "preview_error"
    BY DEF Video!Message, Video!MessageTypes
  <2>3. Head(commands).id \in Video!Ours
    BY <1>2
  <2>. QED  BY <1>6, <1>7, <2>1, <2>2, <2>3
<1>9. CASE Head(commands).type = "stop" /\ preview # 0
  <2>1. preview' = 0 /\ videoMessages' = Append(videoMessages, Video!Message("preview_stopped", 0))
    BY <1>9 DEF Video!Obey, Video!Writes
  <2>2. /\ Video!Message("preview_stopped", 0) \in [type : Video!MessageTypes, id : Nat]
        /\ Video!Message("preview_stopped", 0).type = "preview_stopped"
    BY DEF Video!Message, Video!MessageTypes
  <2>. QED  BY <1>7, <1>9, <2>1, <2>2
<1>10. CASE Head(commands).type = "start" <=> preview # 0
  <2>1. UNCHANGED <<preview, videoMessages>>
    BY <1>10 DEF Video!Obey
  <2>. QED  BY <1>6, <2>1 DEF Video!OwnInv
<1>. QED  BY <1>2, <1>8, <1>9, <1>10 DEF Video!CommandTypes

\* The worker is started, asked to stop, or finds that its child has exited; the child exits.
LEMMA VideoWorkerInv ==
  ASSUME Video!VideoInv,
         \/ Video!Exit \/ Video!Start \/ Video!StartupTimesOut \/ Video!StopPlugin \/ Video!WatchExit
         \/ Video!Unblock
  PROVE  Video!VideoInv'
<1>. USE DEF Video!VideoInv
<1>1. UNCHANGED <<videoMessages, videoCapture, at, attached, stopped, pushed, captures>>
  BY DEF Video!Exit, Video!Start, Video!StartupTimesOut, Video!StopPlugin, Video!WatchExit,
         Video!Unblock, Video!StopBegins, Video!handler, Video!process, Video!supervisor
<1>2. eof' => stopping'
  BY DEF Video!Exit, Video!Start, Video!StartupTimesOut, Video!StopPlugin, Video!WatchExit,
         Video!Unblock, Video!StopBegins, Video!handler, Video!process, Video!supervisor, Video!OwnInv
<1>3. Video!Serving' => Video!Serving
  BY DEF Video!Exit, Video!Start, Video!StartupTimesOut, Video!StopPlugin, Video!WatchExit,
         Video!Unblock, Video!StopBegins, Video!handler, Video!process, Video!supervisor,
         Video!Serving, Video!Alive, Video!SetFailed
<1>4. startup' = "none" => child' = "none" /\ reader' = "none" /\ at' = "idle"
  BY DEF Video!Exit, Video!Start, Video!StartupTimesOut, Video!StopPlugin, Video!WatchExit,
         Video!Unblock, Video!StopBegins, Video!handler, Video!process, Video!supervisor,
         Video!OwnInv, Video!Alive, Video!SetFailed
<1>5. preview' \in {0, preview} /\ commands' \in {<<>>, commands}
  BY DEF Video!Exit, Video!Start, Video!StartupTimesOut, Video!StopPlugin, Video!WatchExit,
         Video!Unblock, Video!StopBegins, Video!handler, Video!process, Video!supervisor
<1>6. /\ unput' \in {0, unput}
      /\ reader' # "blocked" => unput' = 0
      /\ reader' = "blocked" => reader = "blocked"
  BY DEF Video!Exit, Video!Start, Video!StartupTimesOut, Video!StopPlugin, Video!WatchExit,
         Video!Unblock, Video!StopBegins, Video!handler, Video!process, Video!supervisor,
         Video!OwnInv, Video!Ends
<1>7. videoQueue' \in Seq(Video!Ours)
  <2>1. videoQueue \in Seq(Video!Ours) /\ unput \in Video!Ours /\ 0 \in Video!Ours
    BY DEF Video!OwnInv, Video!Ours, Video!Ends
  <2>2. <<0>> \in Seq(Video!Ours) /\ Append(videoQueue, unput) \in Seq(Video!Ours)
    BY <2>1
  <2>3. videoQueue' \in {videoQueue, <<0>>, Append(videoQueue, unput)}
    BY DEF Video!Exit, Video!Start, Video!StartupTimesOut, Video!StopPlugin, Video!WatchExit,
           Video!Unblock, Video!StopBegins, Video!EnqueueTerminal, Video!Ends
  <2>. QED  BY <2>1, <2>2, <2>3
<1>8. videoQueue' \in Seq(Video!Ours) /\ commands' \in {<<>>, commands} /\ preview' \in {0, preview}
  BY <1>5, <1>7
<1>. QED  BY <1>1, <1>2, <1>3, <1>4, <1>6, <1>8, VideoKeeps

\* A stop ends: nothing more is read, and no capture begins any more.
LEMMA VideoStopInv ==
  ASSUME Video!VideoInv, NEW who \in Video!Stoppers, Video!StopEnds(who)
  PROVE  Video!VideoInv'
<1>. USE DEF Video!VideoInv
<1>1. /\ child' = "none" /\ videoMessages' = <<>> /\ reader' = "none" /\ unput' = 0
      /\ startup' = "resolved" /\ UNCHANGED <<preview, commands, eof, stopping, pushed, captures, videoQueue>>
      /\ (at' = "idle" /\ videoCapture' = 0) \/ UNCHANGED <<at, videoCapture>>
  BY DEF Video!StopEnds, Video!Ends
<1>2. Video!Ours' = Video!Ours /\ 0 \in Video!Ours
  BY <1>1 DEF Video!Ours, Video!Ends
<1>3. Video!OwnInv'
  BY <1>1, <1>2 DEF Video!OwnInv, Video!Ends, Video!CommandTypes
<1>4. ~Video!Serving'
  BY <1>1 DEF Video!Serving, Video!Alive
<1>. QED  BY <1>3, <1>4 DEF Video!TurnInv

\* The reader takes a message: the preview's last one is the last of its capture.
LEMMA VideoReadInv ==
  ASSUME Video!VideoInv, Video!Read
  PROVE  Video!VideoInv'
<1>. USE DEF Video!VideoInv
<1>. DEFINE m == Head(videoMessages)
<1>1. /\ reader = "reading" /\ videoMessages # <<>> /\ videoMessages' = Tail(videoMessages)
      /\ Video!Handle(m)
      /\ UNCHANGED <<child, preview, commands, eof, stopping, videoCapture, at, pushed, captures, attached>>
  BY DEF Video!Read, Video!process
<1>2. videoMessages \in Seq([type : Video!MessageTypes, id : Nat])
  BY DEF Video!OwnInv
<1>3. /\ videoMessages' \in Seq([type : Video!MessageTypes, id : Nat])
      /\ m \in [type : Video!MessageTypes, id : Nat] /\ m = videoMessages[1]
      /\ Len(videoMessages) \in Nat \ {0} /\ DOMAIN videoMessages = 1..Len(videoMessages)
      /\ DOMAIN videoMessages' = 1..(Len(videoMessages) - 1)
      /\ \A k \in 1..(Len(videoMessages) - 1) :
           videoMessages'[k] = videoMessages[k + 1] /\ k + 1 \in 1..Len(videoMessages)
  BY <1>1, <1>2, TailAt
<1>. HIDE DEF m
<1>4. /\ \A k \in DOMAIN videoMessages' :
           k + 1 \in DOMAIN videoMessages /\ videoMessages'[k] = videoMessages[k + 1] /\ k + 1 > 1
      /\ \A j, k \in DOMAIN videoMessages' : j > k => j + 1 > k + 1
      /\ 1 \in DOMAIN videoMessages
  BY <1>3
<1>5. /\ \/ m.type \notin Video!OfPreview /\ UNCHANGED <<reader, unput, stopped>>
            /\ videoQueue' \in {videoQueue, <<0>>}
         \/ m.type = "video" /\ Video!Puts(m.id) /\ UNCHANGED stopped
         \/ m.type = "preview_stopped" /\ Video!Puts(0) /\ stopped' \in {stopped, "set"}
      /\ startup' = startup \/ startup' = "resolved"
  BY <1>1 DEF Video!Handle, Video!HandleReady, Video!HandleError, Video!SetFailed, Video!Resolved,
              Video!EnqueueTerminal, Video!Ends, Video!OfPreview
<1>6. Video!Ours' = Video!Ours /\ 0 \in Video!Ours /\ (m.type = "video" => m.id \in Video!Ours)
  BY <1>1, <1>3, <1>4 DEF Video!OwnInv, Video!Ours, Video!Ends
<1>7. /\ videoQueue' \in Seq(Video!Ours) /\ unput' \in Video!Ours
      /\ reader' # "blocked" => unput' = 0
      /\ ~attached => reader' = "reading"
  <2>1. videoQueue \in Seq(Video!Ours) /\ unput \in Video!Ours /\ unput = 0
    BY <1>1 DEF Video!OwnInv, Video!Ends
  <2>2. <<0>> \in Seq(Video!Ours)
    BY <1>6
  <2>3. ASSUME NEW x \in Video!Ours, Video!Puts(x)
        PROVE  /\ videoQueue' \in Seq(Video!Ours) /\ unput' \in Video!Ours
               /\ reader' # "blocked" => unput' = 0
               /\ ~attached => reader' = "reading"
    <3>1. Append(videoQueue, x) \in Seq(Video!Ours)
      BY <2>1
    <3>. QED  BY <1>1, <2>1, <2>3, <3>1 DEF Video!Puts
  <2>. QED  BY <1>1, <1>5, <1>6, <2>1, <2>2, <2>3
<1>8. \A k \in DOMAIN videoMessages' : videoMessages'[k].type = "video" => videoMessages'[k].id = captures
  BY <1>4 DEF Video!OwnInv
<1>9. startup # "none" /\ startup' # "none"
  BY <1>1, <1>5 DEF Video!OwnInv
<1>10. Video!OwnInv'
  BY <1>1, <1>3, <1>6, <1>7, <1>8, <1>9 DEF Video!OwnInv, Video!MessageTypes, Video!CommandTypes, Video!Ends
<1>11. Video!Serving' => Video!Serving
  BY <1>1, <1>9 DEF Video!Serving, Video!Alive
<1>12. ASSUME Video!Over
       PROVE  Video!Over' /\ stopped' = stopped
  <2>1. m.type \notin Video!OfPreview
    BY <1>3, <1>4, <1>12 DEF Video!Over
  <2>2. UNCHANGED <<reader, stopped>>
    BY <1>5, <2>1 DEF Video!OfPreview
  <2>. QED  BY <1>1, <1>4, <1>12, <2>2 DEF Video!Over, Video!OfPreview
<1>13. ASSUME Video!UnderWay
       PROVE  Video!UnderWay'
  <2>1. m.type # "preview_stopped"
    BY <1>3, <1>4, <1>13 DEF Video!UnderWay
  <2>2. stopped' = stopped
    BY <1>5, <2>1
  <2>. QED  BY <1>1, <1>4, <1>13, <2>2 DEF Video!UnderWay
<1>14. ASSUME Video!Ending
       PROVE  Video!Ending'
  <2>1. ASSUME NEW k \in DOMAIN videoMessages', videoMessages'[k].type = "preview_stopped"
        PROVE  /\ preview' = 0 /\ commands' = <<>>
               /\ \A j \in DOMAIN videoMessages' : j > k => videoMessages'[j].type \notin Video!OfPreview
    <3>1. k + 1 \in DOMAIN videoMessages /\ videoMessages[k + 1].type = "preview_stopped"
      BY <1>4, <2>1
    <3>2. /\ preview = 0 /\ commands = <<>>
          /\ \A j \in DOMAIN videoMessages : j > k + 1 => videoMessages[j].type \notin Video!OfPreview
      BY <1>14, <3>1 DEF Video!Ending
    <3>. QED  BY <1>1, <1>4, <3>2 DEF Video!OfPreview
  <2>2. CASE m.type = "preview_stopped"
    <3>1. /\ preview = 0 /\ commands = <<>>
          /\ \A j \in DOMAIN videoMessages : j > 1 => videoMessages[j].type \notin Video!OfPreview
      BY <1>3, <1>4, <1>14, <2>2 DEF Video!Ending
    <3>2. reader' = "reading"
      BY <1>7, <1>14 DEF Video!Ending
    <3>3. Video!Over'
      BY <1>1, <1>4, <3>1, <3>2 DEF Video!Over, Video!OfPreview
    <3>. QED  BY <1>1, <1>14, <2>1, <3>3 DEF Video!Ending
  <2>3. CASE m.type # "preview_stopped"
    <3>1. stopped' = stopped
      BY <1>5, <2>3
    <3>. QED  BY <1>1, <1>12, <1>14, <2>1, <3>1 DEF Video!Ending
  <2>. QED  BY <2>2, <2>3
<1>15. Video!TurnInv'
  BY <1>1, <1>11, <1>12, <1>13, <1>14 DEF Video!TurnInv
<1>. QED  BY <1>10, <1>15

\* A capture begins: the one before it has left nothing behind.
LEMMA VideoBeginInv ==
  ASSUME Video!VideoInv, ~Untimely, Video!Begin
  PROVE  Video!VideoInv'
<1>. USE DEF Video!VideoInv
<1>1. /\ videoCapture = 0 /\ Video!Alive /\ ~stopping
      /\ captures' = captures + 1 /\ videoCapture' = captures' /\ at' = "starting"
      /\ videoQueue' = <<>> /\ stopped' = "pending" /\ pushed' = 0
      /\ commands' = IF eof THEN commands ELSE Append(commands, [type |-> "start", id |-> captures'])
      /\ UNCHANGED <<child, preview, eof, videoMessages, reader, unput, startup, stopping>>
  BY DEF Video!Begin, Video!Sends, Video!Message, Video!process, Video!supervisor
<1>2. /\ captures \in Nat /\ captures' \in Nat /\ captures' # 0
      /\ Video!Ours' = {0, captures'} /\ at = "idle" /\ ~eof
  BY <1>1 DEF Video!OwnInv, Video!Ours, Video!Ends
<1>3. Video!Over
  BY <1>1, <1>2 DEF Video!TurnInv, Video!Serving
<1>4. commands' = <<[type |-> "start", id |-> captures']>>
  BY <1>1, <1>2, <1>3 DEF Video!Over
<1>5. /\ commands' \in Seq([type : Video!CommandTypes, id : Video!Ours'])
      /\ \A k \in DOMAIN commands' : commands'[k].type # "stop"
  <2>1. [type |-> "start", id |-> captures'] \in [type : Video!CommandTypes, id : Video!Ours']
    BY <1>2 DEF Video!CommandTypes
  <2>. QED  BY <1>4, <2>1
<1>6. \A k \in DOMAIN videoMessages : videoMessages[k].type \notin {"video", "preview_stopped"}
  BY <1>3 DEF Video!Over, Video!OfPreview
<1>7. preview = 0 /\ unput = 0 /\ startup # "none"
  BY <1>1, <1>3 DEF Video!Over, Video!OwnInv, Video!Ends, Video!Alive
<1>8. Video!OwnInv'
  BY <1>1, <1>2, <1>5, <1>6, <1>7 DEF Video!OwnInv, Video!MessageTypes, Video!CommandTypes, Video!Ends
<1>9. Video!UnderWay'
  BY <1>1, <1>5, <1>6 DEF Video!UnderWay
<1>. QED  BY <1>1, <1>8, <1>9 DEF Video!TurnInv

\* It leaves: "stop" goes down the pipe behind everything else, or no other capture will begin.
LEMMA VideoLeaves ==
  ASSUME Video!VideoInv, at \in {"starting", "streaming"}, Video!Leaves,
         videoQueue' \in Seq(Video!Ours),
         UNCHANGED <<Video!process, videoMessages, reader, unput, Video!supervisor, stopped, pushed, captures>>
  PROVE  Video!VideoInv'
<1>. USE DEF Video!VideoInv
<1>1. /\ ~attached'
      /\ \/ /\ stopping \/ ~Video!Alive
            /\ at' = "idle" /\ videoCapture' = 0 /\ commands' = commands
         \/ /\ at' = "stopping" /\ videoCapture' = videoCapture
            /\ commands' = IF eof THEN commands ELSE Append(commands, [type |-> "stop", id |-> 0])
      /\ UNCHANGED <<child, preview, eof, startup, stopping>>
  BY DEF Video!Leaves, Video!Released, Video!Sends, Video!Message, Video!process, Video!supervisor
<1>2. Video!Ours' = Video!Ours /\ 0 \in Video!Ours /\ startup # "none"
  BY DEF Video!Ours, Video!Ends, Video!OwnInv
<1>3. commands \in Seq([type : Video!CommandTypes, id : Video!Ours])
  BY DEF Video!OwnInv
<1>4. [type |-> "stop", id |-> 0] \in [type : Video!CommandTypes, id : Video!Ours]
  BY <1>2 DEF Video!CommandTypes
<1>5. /\ Append(commands, [type |-> "stop", id |-> 0]) \in Seq([type : Video!CommandTypes, id : Video!Ours])
      /\ DOMAIN commands = 1..Len(commands) /\ Len(commands) \in Nat
      /\ Len(Append(commands, [type |-> "stop", id |-> 0])) = Len(commands) + 1
      /\ DOMAIN Append(commands, [type |-> "stop", id |-> 0]) = 1..(Len(commands) + 1)
      /\ \A k \in 1..Len(commands) : Append(commands, [type |-> "stop", id |-> 0])[k] = commands[k]
  BY <1>3, <1>4, AppendAt
<1>6. commands' \in Seq([type : Video!CommandTypes, id : Video!Ours])
  BY <1>1, <1>3, <1>5
<1>7. Video!OwnInv'
  BY <1>1, <1>2, <1>6 DEF Video!OwnInv, Video!MessageTypes, Video!CommandTypes
<1>8. ASSUME Video!Serving'
      PROVE  at' = "stopping" /\ Video!Ending'
  <2>1. Video!Serving /\ ~stopping /\ Video!Alive
    BY <1>1, <1>2, <1>8 DEF Video!Serving, Video!Alive
  <2>2. Video!UnderWay
    BY <2>1 DEF Video!TurnInv
  <2>3. at' = "stopping" /\ commands' = Append(commands, [type |-> "stop", id |-> 0])
    BY <1>1, <2>1 DEF Video!OwnInv
  <2>4. \A k \in DOMAIN commands' : commands'[k].type = "stop" => k = Len(commands')
    BY <1>5, <2>2, <2>3 DEF Video!UnderWay
  <2>. QED  BY <1>1, <2>2, <2>3, <2>4 DEF Video!UnderWay, Video!Ending
<1>. QED  BY <1>7, <1>8 DEF Video!TurnInv

\* A capture starts, pushes what is in its queue, or leaves.
LEMMA VideoCaptureInv ==
  ASSUME Video!VideoInv, Video!Started \/ Video!Push \/ Video!GiveUp
  PROVE  Video!VideoInv'
<1>. USE DEF Video!VideoInv
<1>1. CASE Video!Started
  <2>1. /\ at = "starting" /\ at' = "streaming"
        /\ UNCHANGED <<child, preview, eof, commands, videoMessages, reader, unput, startup, stopping,
                       videoCapture, stopped, pushed, captures, videoQueue, attached>>
    BY <1>1 DEF Video!Started, Video!process, Video!supervisor
  <2>2. Video!Ours' = Video!Ours
    BY <2>1 DEF Video!Ours
  <2>3. Video!OwnInv'
    BY <2>1, <2>2 DEF Video!OwnInv, Video!MessageTypes, Video!CommandTypes
  <2>4. Video!UnderWay => Video!UnderWay'
    BY <2>1 DEF Video!UnderWay
  <2>5. Video!Serving' => Video!Serving
    BY <2>1 DEF Video!Serving, Video!Alive
  <2>. QED  BY <2>1, <2>3, <2>4, <2>5 DEF Video!TurnInv
<1>2. CASE Video!Push
  <2>1. /\ at = "streaming" /\ videoQueue # <<>> /\ videoQueue' = Tail(videoQueue)
        /\ UNCHANGED <<Video!process, videoMessages, reader, unput, Video!supervisor, stopped, captures>>
    BY <1>2 DEF Video!Push
  <2>2. Tail(videoQueue) \in Seq(Video!Ours) /\ Head(videoQueue) \in Video!Ours
    <3>1. videoQueue \in Seq(Video!Ours)
      BY DEF Video!OwnInv
    <3>. QED  BY <2>1, <3>1, TailAt
  <2>3. CASE Video!Leaves /\ pushed' = pushed
    BY <2>1, <2>2, <2>3, VideoLeaves
  <2>4. CASE pushed' = Head(videoQueue) /\ UNCHANGED <<at, videoCapture, commands, attached>>
    <3>1. /\ UNCHANGED <<child, preview, eof, startup, stopping>> /\ Video!Ours' = Video!Ours
          /\ pushed' \in Video!Ours /\ videoQueue' \in Seq(Video!Ours)
      BY <2>1, <2>2, <2>4 DEF Video!process, Video!supervisor, Video!Ours
    <3>2. Video!OwnInv'
      BY <2>1, <2>4, <3>1 DEF Video!OwnInv, Video!MessageTypes, Video!CommandTypes
    <3>3. Video!UnderWay => Video!UnderWay'
      BY <2>1, <2>4 DEF Video!UnderWay
    <3>4. Video!Serving' => Video!Serving
      BY <3>1 DEF Video!Serving, Video!Alive
    <3>. QED  BY <2>1, <2>4, <3>2, <3>3, <3>4 DEF Video!TurnInv
  <2>. QED  BY <1>2, <2>3, <2>4 DEF Video!Push
<1>3. CASE Video!GiveUp
  <2>1. /\ at \in {"starting", "streaming"} /\ Video!Leaves /\ videoQueue' = videoQueue
        /\ UNCHANGED <<Video!process, videoMessages, reader, unput, Video!supervisor, stopped, pushed, captures>>
    BY <1>3 DEF Video!GiveUp
  <2>2. videoQueue' \in Seq(Video!Ours)
    BY <2>1 DEF Video!OwnInv
  <2>. QED  BY <2>1, <2>2, VideoLeaves
<1>. QED  BY <1>1, <1>2, <1>3

\* Its preview has stopped, or never does and the worker is stopped.
LEMMA VideoEndInv ==
  ASSUME Video!VideoInv, ~Untimely, Video!PreviewStopped \/ Video!StopTimesOut
  PROVE  Video!VideoInv'
<1>. USE DEF Video!VideoInv
<1>1. /\ at = "stopping" /\ UNCHANGED <<child, preview, commands, videoMessages, reader, unput, startup,
                                        stopped, pushed, captures, attached>>
      /\ \/ /\ stopped = "set" /\ at' = "idle" /\ videoCapture' = 0
            /\ UNCHANGED <<eof, stopping, videoQueue>>
         \/ /\ at' = "killing" /\ stopping' /\ videoCapture' = videoCapture
            /\ videoQueue' \in {videoQueue, <<0>>}
  BY DEF Video!PreviewStopped, Video!StopTimesOut, Video!Released, Video!StopBegins,
         Video!EnqueueTerminal, Video!Ends, Video!process, Video!supervisor
<1>2. Video!Ours' = Video!Ours /\ 0 \in Video!Ours /\ <<0>> \in Seq(Video!Ours)
  BY <1>1 DEF Video!Ours, Video!Ends
<1>3. Video!OwnInv'
  <2>1. /\ captures' \in Nat /\ videoCapture' \in Video!Ours' /\ preview' \in Video!Ours'
        /\ unput' \in Video!Ours' /\ pushed' \in Video!Ours' /\ startup' # "none"
        /\ at' \in {"idle", "killing"} /\ (videoCapture' = 0 <=> at' = "idle")
        /\ reader' # "blocked" => unput' = 0
    BY <1>1, <1>2 DEF Video!OwnInv, Video!Ends
  <2>2. /\ videoQueue' \in Seq(Video!Ours') /\ commands' \in Seq([type : Video!CommandTypes, id : Video!Ours'])
    BY <1>1, <1>2 DEF Video!OwnInv
  <2>3. /\ videoMessages' \in Seq([type : Video!MessageTypes, id : Nat])
        /\ \A k \in DOMAIN videoMessages' : videoMessages'[k].type = "video" => videoMessages'[k].id = captures'
    BY <1>1 DEF Video!OwnInv
  <2>4. eof' => stopping'
    BY <1>1 DEF Video!OwnInv
  <2>. QED  BY <2>1, <2>2, <2>3, <2>4 DEF Video!OwnInv, Video!MessageTypes, Video!CommandTypes, Video!Ends
<1>4. CASE stopping'
  BY <1>3, <1>4 DEF Video!TurnInv, Video!Serving
<1>5. CASE stopped = "set" /\ at' = "idle" /\ UNCHANGED stopping
  <2>1. Video!Serving' => Video!Serving
    BY <1>1, <1>5 DEF Video!Serving, Video!Alive
  <2>2. Video!Serving => Video!Over
    BY <1>1, <1>5 DEF Video!TurnInv, Video!Ending
  <2>3. Video!Over => Video!Over'
    BY <1>1 DEF Video!Over, Video!OfPreview
  <2>. QED  BY <1>3, <1>5, <2>1, <2>2, <2>3 DEF Video!TurnInv
<1>. QED  BY <1>1, <1>4, <1>5

\* No worker runs, and nothing has been captured.
LEMMA VideoInit == Video!Init => Video!VideoInv
<1>. SUFFICES ASSUME Video!Init PROVE Video!VideoInv
  OBVIOUS
<1>1. DOMAIN videoMessages = {} /\ DOMAIN commands = {}
  BY DEF Video!Init
<1>2. Video!OwnInv
  BY <1>1 DEF Video!Init, Video!OwnInv, Video!Ours, Video!Ends
<1>3. Video!Over /\ at = "idle"
  BY <1>1 DEF Video!Init, Video!Over
<1>. QED  BY <1>2, <1>3 DEF Video!VideoInv, Video!TurnInv

\* Every step preserves what holds of captures, provided that none begins or ends untimely.
LEMMA VideoNext ==
  ASSUME ~Untimely
  PROVE  Video!VideoInv /\ [Video!Next]_(Video!videoVars) => Video!VideoInv'
<1>1. Video!VideoInv /\ UNCHANGED Video!videoVars => Video!VideoInv'
  <2>. SUFFICES ASSUME Video!VideoInv, UNCHANGED Video!videoVars PROVE Video!VideoInv'
    OBVIOUS
  <2>1. UNCHANGED <<child, preview, eof, commands, videoMessages, reader, unput, startup, stopping,
                    videoCapture, at, videoQueue, attached, stopped, pushed, captures>>
    BY DEF Video!videoVars, Video!process, Video!supervisor, Video!handler
  <2>2. /\ Video!Serving' => Video!Serving
        /\ eof' => stopping'
        /\ startup' = "none" => child' = "none" /\ reader' = "none" /\ at' = "idle"
        /\ reader' # "blocked" => unput' = 0
        /\ videoQueue' \in Seq(Video!Ours)
    BY <2>1 DEF Video!Serving, Video!Alive, Video!VideoInv, Video!OwnInv, Video!Ends
  <2>. QED  BY <2>1, <2>2, VideoKeeps
<1>. QED
  BY <1>1, VideoChildInv, VideoObeyInv, VideoWorkerInv, VideoStopInv, VideoReadInv, VideoBeginInv,
     VideoCaptureInv, VideoEndInv
  DEF Video!Next

-----------------------------------------------------------------------------
(***************************************************************************)
(* Notifications: NotifyInv, action by action.                             *)
(***************************************************************************)
\* Settings change, or the worker is done with an item: nothing more waits to be sent.
LEMMA NotifyKeeps ==
  ASSUME Webhook!NotifyInv,
         UNCHANGED <<queue, item, episodes, sent>>,
         webhookSubscribed' \in BOOLEAN, target'.enabled \in BOOLEAN, row'.enabled \in BOOLEAN,
         update' \in {"none", "starting", "saving", "applying", "disabling", "stopped"},
         \/ worker' = worker
         \/ worker = "none" /\ worker' = "idle"
         \/ worker \in {"reading", "waiting", "posting"} /\ worker' = "idle"
         \/ worker = "reading" /\ worker' = "waiting",
         \/ update' = "disabling" /\ ~webhookSubscribed' /\ period' \in Nat
         \/ /\ update # "disabling" /\ period' = period
            /\ worker' # "none" => webhookSubscribed'
            /\ update' # "disabling"
  PROVE  Webhook!NotifyInv'
<1>. USE DEF Webhook!NotifyInv
<1>1. Webhook!TypeOK'
  BY DEF Webhook!TypeOK, Webhook!ItemOK
<1>2. Webhook!InHand' => Webhook!InHand
  BY DEF Webhook!InHand
<1>3. Webhook!PeriodInv'
  BY <1>2 DEF Webhook!PeriodInv, Webhook!InHand
<1>4. Webhook!OrderInv'
  BY <1>2 DEF Webhook!OrderInv, Webhook!InHand
<1>. QED  BY <1>1, <1>3, <1>4

\* The queue is emptied, and the worker ends.
LEMMA NotifyEmpties ==
  ASSUME Webhook!NotifyInv,
         UNCHANGED <<item, episodes, sent>>, queue' = <<>>, worker' = "none", period' \in Nat,
         webhookSubscribed' \in BOOLEAN, target'.enabled \in BOOLEAN, row'.enabled \in BOOLEAN,
         update' \in {"none", "starting", "stopped"}
  PROVE  Webhook!NotifyInv'
<1>. USE DEF Webhook!NotifyInv
<1>1. Webhook!TypeOK'
  BY DEF Webhook!TypeOK, Webhook!ItemOK
<1>3. Webhook!PeriodInv'
  BY DEF Webhook!PeriodInv, Webhook!InHand
<1>4. Webhook!OrderInv'
  BY DEF Webhook!OrderInv, Webhook!InHand
<1>. QED  BY <1>1, <1>3, <1>4

\* The service: its start, its settings and its stop.
LEMMA NotifyServiceInv ==
  ASSUME Webhook!NotifyInv,
         \/ Webhook!Start \/ Webhook!Update \/ Webhook!Save \/ Webhook!Apply \/ Webhook!Disable
         \/ Webhook!Stop \/ Webhook!Restart \/ Webhook!Crash
  PROVE  Webhook!NotifyInv'
<1>. USE DEF Webhook!delivery, Webhook!bounds, Webhook!service
<1>a. /\ webhookSubscribed \in BOOLEAN /\ target.enabled \in BOOLEAN /\ row.enabled \in BOOLEAN /\ period \in Nat
      /\ update \in {"none", "starting", "saving", "applying", "disabling", "stopped"}
      /\ update # "disabling" /\ worker # "none" => webhookSubscribed
      /\ update = "disabling" => ~webhookSubscribed
  BY DEF Webhook!NotifyInv, Webhook!TypeOK, Webhook!PeriodInv
<1>1. CASE Webhook!Start
  BY <1>a, <1>1, NotifyKeeps DEF Webhook!Start
<1>2. CASE Webhook!Update
  <2>1. target'.enabled \in BOOLEAN
    BY <1>2 DEF Webhook!Update, Webhook!Settings
  <2>. QED  BY <1>a, <1>2, <2>1, NotifyKeeps DEF Webhook!Update
<1>3. CASE Webhook!Save
  BY <1>a, <1>3, NotifyKeeps DEF Webhook!Save
<1>4. CASE Webhook!Apply
  <2>1. CASE target.enabled
    BY <1>a, <1>4, <2>1, NotifyKeeps DEF Webhook!Apply
  <2>2. CASE ~target.enabled
    BY <1>a, <1>4, <2>2, NotifyKeeps DEF Webhook!Apply
  <2>. QED  BY <2>1, <2>2
<1>5. CASE Webhook!Disable
  BY <1>a, <1>5, NotifyEmpties DEF Webhook!Disable
<1>6. CASE Webhook!Stop
  <2>1. /\ UNCHANGED <<row, target, queue, worker, item, episodes, sent>>
        /\ webhookSubscribed' = FALSE /\ update' = "disabling" /\ period' = period + 1
    BY <1>6 DEF Webhook!Stop
  <2>2. webhookSubscribed' \in BOOLEAN /\ ~webhookSubscribed'
    BY <2>1
  <2>3. period' \in Nat
    BY <1>a, <2>1
  <2>4. target'.enabled \in BOOLEAN /\ row'.enabled \in BOOLEAN
    BY <1>a, <2>1
  <2>. QED  BY <2>1, <2>2, <2>3, <2>4, NotifyKeeps
<1>7. CASE Webhook!Restart \/ Webhook!Crash
  <2>1. /\ UNCHANGED <<row, target, item, episodes, sent>> /\ queue' = <<>> /\ worker' = "none"
        /\ webhookSubscribed' = FALSE /\ update' = "starting" /\ (period' = period \/ period' = period + 1)
    BY <1>7 DEF Webhook!Restart, Webhook!Crash, Webhook!Ended
  <2>2. webhookSubscribed' \in BOOLEAN
    BY <2>1
  <2>3. period' \in Nat
    BY <1>a, <2>1
  <2>4. target'.enabled \in BOOLEAN /\ row'.enabled \in BOOLEAN
    BY <1>a, <2>1
  <2>. QED  BY <2>1, <2>2, <2>3, <2>4, NotifyEmpties
<1>. QED  BY <1>1, <1>2, <1>3, <1>4, <1>5, <1>6, <1>7

\* The worker's steps that send nothing, and test deliveries.
LEMMA NotifyWorkerInv ==
  ASSUME Webhook!NotifyInv, Webhook!Read \/ Webhook!Answered \/ Webhook!Test \/ Webhook!TestStep
  PROVE  Webhook!NotifyInv'
<1>. USE DEF Webhook!delivery, Webhook!bounds, Webhook!service
<1>a. /\ webhookSubscribed \in BOOLEAN /\ target.enabled \in BOOLEAN /\ row.enabled \in BOOLEAN /\ period \in Nat
      /\ update \in {"none", "starting", "saving", "applying", "disabling", "stopped"}
      /\ update # "disabling" /\ worker # "none" => webhookSubscribed
      /\ update = "disabling" => ~webhookSubscribed
  BY DEF Webhook!NotifyInv, Webhook!TypeOK, Webhook!PeriodInv
<1>1. CASE Webhook!Read
  BY <1>a, <1>1, NotifyKeeps DEF Webhook!Read
<1>2. CASE Webhook!Answered
  BY <1>a, <1>2, NotifyKeeps DEF Webhook!Answered
<1>3. CASE Webhook!Test \/ Webhook!TestStep
  <2>1. UNCHANGED <<row, target, update, webhookSubscribed, queue, worker, item, episodes, period, sent>>
    BY <1>3 DEF Webhook!Test, Webhook!TestStep
  <2>. QED  BY <1>a, <2>1, NotifyKeeps
<1>. QED  BY <1>1, <1>2, <1>3

\* A new Episode comes last.
LEMMA NotifyCreatedInv ==
  ASSUME Webhook!NotifyInv, Webhook!EpisodeCreated
  PROVE  Webhook!NotifyInv'
<1>. USE DEF Webhook!NotifyInv
<1>a. /\ episodes' = episodes + 1 /\ episodes \in Nat /\ period \in Nat /\ queue \in Seq(Webhook!ItemOK)
      /\ UNCHANGED <<row, target, update, webhookSubscribed, worker, item, period, sent>>
  BY DEF Webhook!EpisodeCreated, Webhook!service, Webhook!delivery, Webhook!TypeOK
<1>1. CASE queue' = queue
  <2>1. Webhook!TypeOK'
    BY <1>a, <1>1 DEF Webhook!TypeOK
  <2>2. Webhook!PeriodInv'
    BY <1>a, <1>1 DEF Webhook!PeriodInv, Webhook!InHand
  <2>3. Webhook!OrderInv'
    <3>1. \A n \in Nat : n <= episodes => n <= episodes'
      BY <1>a
    <3>a. \A k \in DOMAIN queue : queue[k] \in Webhook!ItemOK
      BY <1>a
    <3>2. \A k \in DOMAIN queue : queue[k].episode \in Nat
      BY <3>a DEF Webhook!ItemOK
    <3>3. item.episode \in Nat /\ sent \subseteq Nat
      BY DEF Webhook!TypeOK, Webhook!ItemOK
    <3>. QED  BY <1>a, <1>1, <3>1, <3>2, <3>3 DEF Webhook!OrderInv, Webhook!InHand
  <2>. QED  BY <2>1, <2>2, <2>3
<1>2. CASE webhookSubscribed /\ queue' = Append(queue, [episode |-> episodes', period |-> period])
  <2>. DEFINE new == [episode |-> episodes + 1, period |-> period]
  <2>1. new \in Webhook!ItemOK /\ new.episode = episodes + 1 /\ new.period = period
    BY <1>a DEF Webhook!ItemOK
  <2>2. queue' = Append(queue, new)
    BY <1>a, <1>2
  <2>. HIDE DEF new
  <2>3. /\ queue' \in Seq(Webhook!ItemOK) /\ Len(queue) \in Nat /\ DOMAIN queue = 1..Len(queue)
        /\ DOMAIN queue' = 1..(Len(queue) + 1) /\ queue'[Len(queue) + 1] = new
        /\ \A k \in 1..Len(queue) : queue'[k] = queue[k]
    BY <1>a, <2>1, <2>2, AppendAt
  <2>4. \A k \in DOMAIN queue' : (k \in DOMAIN queue /\ queue'[k] = queue[k]) \/ (k = Len(queue) + 1 /\ queue'[k] = new)
    BY <2>3
  <2>5. update # "disabling"
    BY <1>2 DEF Webhook!PeriodInv
  <2>a. \A k \in DOMAIN queue : queue[k] \in Webhook!ItemOK
    BY <1>a
  <2>6. \A k \in DOMAIN queue : queue[k].episode \in Nat
    BY <2>a DEF Webhook!ItemOK
  <2>7. item.episode \in Nat /\ sent \subseteq Nat
    BY DEF Webhook!TypeOK, Webhook!ItemOK
  <2>8. Webhook!TypeOK'
    BY <1>a, <2>3 DEF Webhook!TypeOK
  <2>9. Webhook!PeriodInv'
    BY <1>a, <1>2, <2>1, <2>4, <2>5 DEF Webhook!PeriodInv, Webhook!InHand
  <2>10. Webhook!OrderInv'
    <3>1. \A n \in Nat : n <= episodes => n <= episodes' /\ n < new.episode /\ n # new.episode
      BY <1>a, <2>1
    <3>2. \A k \in DOMAIN queue' : queue'[k].episode <= episodes' /\ queue'[k].episode \notin sent
      BY <1>a, <2>1, <2>4, <2>6, <2>7, <3>1 DEF Webhook!OrderInv
    <3>3. ASSUME NEW k \in DOMAIN queue', NEW j \in DOMAIN queue', j < k
          PROVE  queue'[j].episode < queue'[k].episode
      <4>1. j \in DOMAIN queue /\ queue'[j] = queue[j]
        BY <2>3, <2>4, <3>3
      <4>2. queue[j].episode <= episodes
        BY <4>1 DEF Webhook!OrderInv
      <4>. QED  BY <2>4, <2>6, <3>1, <3>3, <4>1, <4>2 DEF Webhook!OrderInv
    <3>4. \A e \in sent : e <= episodes'
      BY <2>7, <3>1 DEF Webhook!OrderInv
    <3>5. Webhook!InHand => item.episode <= episodes' /\ \A k \in DOMAIN queue' : item.episode < queue'[k].episode
      BY <2>4, <2>7, <3>1 DEF Webhook!OrderInv
    <3>. QED  BY <1>a, <3>2, <3>3, <3>4, <3>5 DEF Webhook!OrderInv, Webhook!InHand
  <2>. QED  BY <2>8, <2>9, <2>10
<1>. QED  BY <1>1, <1>2 DEF Webhook!EpisodeCreated

\* The worker takes the next notification.
LEMMA NotifyTakeInv ==
  ASSUME Webhook!NotifyInv, Webhook!Take
  PROVE  Webhook!NotifyInv'
<1>. USE DEF Webhook!NotifyInv
<1>a. /\ worker = "idle" /\ update # "disabling" /\ queue # <<>> /\ queue' = Tail(queue) /\ item' = Head(queue)
      /\ worker' \in {"reading", "idle"} /\ queue \in Seq(Webhook!ItemOK)
      /\ UNCHANGED <<row, target, update, webhookSubscribed, period, episodes, sent>>
  BY DEF Webhook!Take, Webhook!service, Webhook!TypeOK
<1>b. /\ queue' \in Seq(Webhook!ItemOK) /\ Len(queue) \in Nat \ {0} /\ DOMAIN queue = 1..Len(queue)
      /\ DOMAIN queue' = 1..(Len(queue) - 1) /\ item' \in Webhook!ItemOK /\ item' = queue[1]
      /\ \A k \in 1..(Len(queue) - 1) : queue'[k] = queue[k + 1] /\ k + 1 \in 1..Len(queue)
  BY <1>a, TailAt
<1>c. 1 \in DOMAIN queue /\ \A k \in DOMAIN queue' : k + 1 \in DOMAIN queue /\ queue'[k] = queue[k + 1] /\ 1 < k + 1
  BY <1>b
<1>1. Webhook!TypeOK'
  BY <1>a, <1>b DEF Webhook!TypeOK
<1>2. Webhook!PeriodInv'
  BY <1>a, <1>b, <1>c DEF Webhook!PeriodInv
<1>3. Webhook!OrderInv'
  <2>1. \A k \in DOMAIN queue' : queue'[k].episode <= episodes /\ queue'[k].episode \notin sent
    BY <1>c DEF Webhook!OrderInv
  <2>2. ASSUME NEW k \in DOMAIN queue', NEW j \in DOMAIN queue', j < k
        PROVE  queue'[j].episode < queue'[k].episode
    <3>1. j + 1 < k + 1
      BY <1>b, <2>2
    <3>. QED  BY <1>c, <3>1 DEF Webhook!OrderInv
  <2>3. item'.episode <= episodes /\ item'.episode \notin sent /\ \A k \in DOMAIN queue' : item'.episode < queue'[k].episode
    BY <1>b, <1>c DEF Webhook!OrderInv
  <2>. QED  BY <1>a, <2>1, <2>2, <2>3 DEF Webhook!OrderInv
<1>. QED  BY <1>1, <1>2, <1>3

\* The worker sends one, or gives it up.
LEMMA NotifySendInv ==
  ASSUME Webhook!NotifyInv, Webhook!Send
  PROVE  Webhook!NotifyInv'
<1>. USE DEF Webhook!NotifyInv
<1>a. /\ worker = "waiting" /\ update # "disabling"
      /\ \/ worker' = "posting" /\ sent' = sent \union {item.episode}
         \/ worker' = "idle" /\ sent' = sent
      /\ UNCHANGED <<row, target, update, webhookSubscribed, period, episodes, queue, item>>
  BY DEF Webhook!Send, Webhook!service
<1>b. Webhook!InHand /\ item.episode \in Nat
  BY <1>a DEF Webhook!InHand, Webhook!TypeOK, Webhook!ItemOK
<1>c. \A k \in DOMAIN queue : queue[k].episode # item.episode
  <2>1. ASSUME NEW k \in DOMAIN queue
        PROVE  queue[k].episode # item.episode
    <3>1. item.episode < queue[k].episode
      BY <1>b DEF Webhook!OrderInv
    <3>. QED  BY <1>b, <3>1
  <2>. QED  BY <2>1
<1>1. Webhook!TypeOK'
  BY <1>a, <1>b DEF Webhook!TypeOK
<1>2. Webhook!PeriodInv'
  BY <1>a, <1>b DEF Webhook!PeriodInv
<1>3. Webhook!OrderInv'
  BY <1>a, <1>b, <1>c DEF Webhook!OrderInv
<1>. QED  BY <1>1, <1>2, <1>3

\* What is sent belongs to the period.
LEMMA NotifyStep ==
  ASSUME Webhook!NotifyInv, Webhook!Next, worker' = "posting", worker # "posting"
  PROVE  webhookSubscribed /\ item.period = period /\ item.episode \notin sent
<1>1. Webhook!Send
  BY DEF Webhook!Next, Webhook!Start, Webhook!Update, Webhook!Save, Webhook!Apply, Webhook!Disable, Webhook!Stop,
     Webhook!Restart, Webhook!Crash, Webhook!Ended, Webhook!EpisodeCreated, Webhook!Take, Webhook!Read,
     Webhook!Answered, Webhook!Test, Webhook!TestStep, Webhook!delivery
<1>2. worker = "waiting" /\ update # "disabling"
  BY <1>1 DEF Webhook!Send
<1>. QED  BY <1>2 DEF Webhook!NotifyInv, Webhook!PeriodInv, Webhook!OrderInv, Webhook!InHand

\* Nothing has been created or sent.
LEMMA NotifyInit == Webhook!Init => Webhook!NotifyInv
<1>. SUFFICES ASSUME Webhook!Init PROVE Webhook!NotifyInv
  OBVIOUS
<1>1. Webhook!Disabled.enabled = FALSE /\ Webhook!NoItem \in Webhook!ItemOK
  BY DEF Webhook!Disabled, Webhook!NoItem, Webhook!ItemOK
<1>a. queue \in Seq(Webhook!ItemOK) /\ item \in Webhook!ItemOK /\ episodes \in Nat /\ period \in Nat /\ sent = {}
  BY <1>1 DEF Webhook!Init
<1>b. webhookSubscribed \in BOOLEAN /\ target.enabled \in BOOLEAN /\ row.enabled \in BOOLEAN
  BY <1>1 DEF Webhook!Init
<1>2. Webhook!TypeOK
  BY <1>a, <1>b DEF Webhook!Init, Webhook!TypeOK
<1>3. Webhook!PeriodInv
  BY DEF Webhook!Init, Webhook!PeriodInv, Webhook!InHand
<1>4. Webhook!OrderInv
  BY DEF Webhook!Init, Webhook!OrderInv, Webhook!InHand
<1>. QED  BY <1>2, <1>3, <1>4 DEF Webhook!NotifyInv

\* Every step preserves what holds of notifications.
LEMMA NotifyNext == Webhook!NotifyInv /\ [Webhook!Next]_(Webhook!webhookVars) => Webhook!NotifyInv'
<1>1. Webhook!NotifyInv /\ UNCHANGED Webhook!webhookVars => Webhook!NotifyInv'
  <2>. SUFFICES ASSUME Webhook!NotifyInv, UNCHANGED Webhook!webhookVars PROVE Webhook!NotifyInv'
    OBVIOUS
  <2>. USE DEF Webhook!NotifyInv, Webhook!webhookVars
  <2>1. Webhook!TypeOK'
    BY DEF Webhook!TypeOK
  <2>2. Webhook!PeriodInv' /\ Webhook!OrderInv'
    BY DEF Webhook!PeriodInv, Webhook!OrderInv, Webhook!InHand
  <2>. QED  BY <2>1, <2>2
<1>. QED
  BY <1>1, NotifyServiceInv, NotifyWorkerInv, NotifyCreatedInv, NotifyTakeInv, NotifySendInv
  DEF Webhook!Next

-----------------------------------------------------------------------------
(***************************************************************************)
(* HlsBundle: the shape of FFmpeg's lists, WorkspaceInv action by action.  *)
(***************************************************************************)
HasEnd(lines) == \E k \in DOMAIN lines : lines[k] = Hls!Endlist

\* The lines of a playlist are told apart by their tags.
LEMMA LineTags ==
  /\ Hls!Header # Hls!Endlist /\ Hls!Map # Hls!Endlist /\ Hls!Inf # Hls!Endlist
  /\ Hls!Inf.tag = "#EXTINF" /\ Hls!Endlist.tag = "#EXT-X-ENDLIST" /\ Hls!Map.tag = "#EXT-X-MAP"
  /\ Hls!Header.tag = "#EXTM3U" /\ \A i : Hls!Segment(i).tag = "segment"
BY DEF Hls!Header, Hls!Map, Hls!Inf, Hls!Endlist, Hls!Line, Hls!Segment

\* A sequence is one over what it holds.
LEMMA LinesOf ==
  ASSUME NEW T, NEW s \in Seq(T)
  PROVE  s \in Seq({s[k] : k \in DOMAIN s})
BY DOMAIN s = 1..Len(s) /\ Len(s) \in Nat

\* What precedes a line of a list stays in its shape without the line.
LEMMA Between ==
  ASSUME NEW n \in Nat, NEW k \in 3..n
  PROVE  /\ k \in Nat /\ k \in 1..n /\ (k < n => k + 1 \in 1..n /\ k + 1 # k)
         /\ (k > 3 => k - 1 \in 1..n) /\ k < n + 1 /\ k < n + 2 /\ (k # n => k \in 1..(n - 1) /\ k < n)
         /\ (k < n /\ k + 1 # n => k < n - 1 /\ k + 1 \in 1..(n - 1))
         /\ (k # n /\ k > 3 => k - 1 \in 1..(n - 1))
OBVIOUS

\* So does all that precedes the last one.
LEMMA Before ==
  ASSUME NEW n \in Nat, NEW k \in 3..(n - 1)
  PROVE  k \in 3..n /\ k # n /\ k \in 1..(n - 1)
OBVIOUS

\* The next list continues the one that is there, without its end.
LEMMA HlsOpen ==
  ASSUME NEW T, NEW s \in Seq(T), Hls!Shaped(s)
  PROVE  /\ Hls!Open(s) \in Seq(T) /\ Hls!Shaped(Hls!Open(s)) /\ ~HasEnd(Hls!Open(s))
<1>. DEFINE n == Len(s)
<1>1. n \in Nat /\ n >= 4 /\ DOMAIN s = 1..n /\ n = Len(s)
  BY DEF Hls!Shaped
<1>a. /\ s[1] = Hls!Header /\ s[2] = Hls!Map /\ s[3] = Hls!Inf /\ s[4].tag = "segment"
      /\ \A k \in 3..n : Hls!LineAt(s, k)
  BY DEF Hls!Shaped
<1>. HIDE DEF n
<1>2. Hls!Last(s) = s[n] /\ Hls!Front(s) = SubSeq(s, 1, n - 1)
  BY <1>1 DEF Hls!Last, Hls!Front
<1>3. CASE s[n] = Hls!Endlist
  <2>1. Hls!Open(s) = SubSeq(s, 1, n - 1)
    BY <1>2, <1>3 DEF Hls!Open
  <2>. DEFINE o == SubSeq(s, 1, n - 1)
  <2>2. /\ o \in Seq(T) /\ Len(o) = n - 1 /\ DOMAIN o = 1..(n - 1)
        /\ \A k \in 1..(n - 1) : o[k] = s[k]
    BY <1>1
  <2>. HIDE DEF o
  <2>3. n > 4
    <3>1. s[4] # Hls!Endlist
      BY <1>a, LineTags
    <3>2. n # 4
      BY <1>3, <3>1
    <3>. QED  BY <1>1, <3>2
  <2>4. ASSUME NEW k \in 3..(n - 1)
        PROVE  Hls!LineAt(o, k) /\ o[k] # Hls!Endlist
    <3>1. k \in 3..n /\ k # n /\ k \in 1..(n - 1)
      BY ONLY <1>1, k \in 3..(n - 1), Before
    <3>2. Hls!LineAt(s, k) /\ o[k] = s[k]
      BY <1>a, <2>2, <3>1
    <3>3. CASE s[k] = Hls!Inf /\ k < n /\ s[k + 1].tag = "segment"
      <4>1. k + 1 # n
        BY <1>3, <3>3, LineTags
      <4>2. k + 1 \in 1..(n - 1) /\ k < n - 1
        BY ONLY <1>1, <3>1, <3>3, <4>1, Between
      <4>3. o[k + 1] = s[k + 1]
        BY <2>2, <4>2
      <4>. QED  BY <2>2, <3>2, <3>3, <4>2, <4>3, LineTags DEF Hls!LineAt
    <3>4. CASE s[k].tag = "segment" /\ k > 3 /\ s[k - 1] = Hls!Inf
      <4>1. k - 1 \in 1..(n - 1)
        BY ONLY <1>1, <3>1, <3>4, Between
      <4>2. o[k - 1] = s[k - 1]
        BY <2>2, <4>1
      <4>. QED  BY <3>2, <3>4, <4>2, LineTags DEF Hls!LineAt
    <3>. QED  BY <1>1, <3>1, <3>2, <3>3, <3>4 DEF Hls!LineAt
  <2>5. o[1] = Hls!Header /\ o[2] = Hls!Map /\ o[3] = Hls!Inf /\ o[4].tag = "segment" /\ Len(o) >= 4
    <3>1. 1 \in 1..(n - 1) /\ 2 \in 1..(n - 1) /\ 3 \in 1..(n - 1) /\ 4 \in 1..(n - 1) /\ n - 1 >= 4
      BY <1>1, <2>3
    <3>2. o[1] = s[1] /\ o[2] = s[2] /\ o[3] = s[3] /\ o[4] = s[4]
      BY <2>2, <3>1
    <3>. QED  BY <1>a, <2>2, <3>1, <3>2
  <2>6. Hls!Shaped(o)
    BY <2>2, <2>4, <2>5 DEF Hls!Shaped
  <2>7. ~HasEnd(o)
    <3>1. \A k \in DOMAIN o : k = 1 \/ k = 2 \/ k \in 3..(n - 1)
      BY <1>1, <2>2
    <3>2. o[1] # Hls!Endlist /\ o[2] # Hls!Endlist
      BY <2>5, LineTags
    <3>. QED  BY <2>4, <3>1, <3>2 DEF HasEnd
  <2>. QED  BY <2>1, <2>2, <2>6, <2>7 DEF o
<1>4. CASE s[n] # Hls!Endlist
  <2>1. Hls!Open(s) = s
    BY <1>2, <1>4 DEF Hls!Open
  <2>2. \A k \in DOMAIN s : s[k] # Hls!Endlist
    <3>1. \A k \in DOMAIN s : k = 1 \/ k = 2 \/ k \in 3..n
      BY <1>1
    <3>2. s[1] # Hls!Endlist /\ s[2] # Hls!Endlist
      BY <1>a, LineTags
    <3>3. \A k \in 3..n : s[k] # Hls!Endlist
      BY <1>1, <1>4, <1>a, LineTags DEF Hls!LineAt
    <3>. QED  BY <3>1, <3>2, <3>3
  <2>. QED  BY <2>1, <2>2 DEF HasEnd
<1>. QED  BY <1>3, <1>4

\* A segment is listed after its duration.
LEMMA HlsLists ==
  ASSUME NEW T, NEW s \in Seq(T), Hls!Shaped(s), ~HasEnd(s), NEW i
  PROVE  /\ s \o <<Hls!Inf, Hls!Segment(i)>> \in Seq(T \union {Hls!Inf, Hls!Segment(i)})
         /\ Hls!Shaped(s \o <<Hls!Inf, Hls!Segment(i)>>)
<1>. DEFINE n == Len(s)
            U == T \union {Hls!Inf, Hls!Segment(i)}
            o == s \o <<Hls!Inf, Hls!Segment(i)>>
<1>1. n \in Nat /\ n >= 4 /\ DOMAIN s = 1..n /\ s \in Seq(U) /\ n = Len(s)
  BY DEF Hls!Shaped
<1>a. /\ s[1] = Hls!Header /\ s[2] = Hls!Map /\ s[3] = Hls!Inf /\ s[4].tag = "segment"
      /\ \A k \in 3..n : Hls!LineAt(s, k)
  BY DEF Hls!Shaped
<1>. HIDE DEF n
<1>2. <<Hls!Inf, Hls!Segment(i)>> \in Seq(U)
  OBVIOUS
<1>3. /\ o \in Seq(U) /\ Len(o) = n + 2 /\ \A k \in 1..n : o[k] = s[k]
      /\ o[n + 1] = Hls!Inf /\ o[n + 2] = Hls!Segment(i)
  BY <1>1, <1>2
<1>. HIDE DEF o
<1>b. Hls!Segment(i).tag = "segment"
  BY LineTags
<1>4. ASSUME NEW k \in 3..(n + 2)
      PROVE  Hls!LineAt(o, k)
  <2>1. CASE k = n + 1
    <3>1. k + 1 = n + 2 /\ k < n + 2
      BY ONLY <1>1, <2>1
    <3>. QED  BY <1>3, <1>b, <2>1, <3>1 DEF Hls!LineAt
  <2>2. CASE k = n + 2
    <3>1. k - 1 = n + 1 /\ k > 3
      BY ONLY <1>1, <2>2
    <3>. QED  BY <1>3, <1>b, <2>2, <3>1 DEF Hls!LineAt
  <2>3. CASE k \in 3..n
    <3>1. /\ k \in 1..n /\ (k < n => k + 1 \in 1..n) /\ (k > 3 => k - 1 \in 1..n) /\ k < n + 2
      BY ONLY <1>1, <2>3, Between
    <3>2. s[k] # Hls!Endlist
      BY <1>1, <3>1 DEF HasEnd
    <3>3. Hls!LineAt(s, k) /\ o[k] = s[k]
      BY <1>3, <1>a, <2>3, <3>1
    <3>. QED  BY <1>1, <1>3, <3>1, <3>2, <3>3 DEF Hls!LineAt
  <2>4. k = n + 1 \/ k = n + 2 \/ k \in 3..n
    BY ONLY <1>1, k \in 3..(n + 2)
  <2>. QED  BY <2>1, <2>2, <2>3, <2>4
<1>5. Hls!Shaped(o)
  <2>1. n + 2 >= 4 /\ 1 \in 1..n /\ 2 \in 1..n /\ 3 \in 1..n /\ 4 \in 1..n
    BY ONLY <1>1
  <2>2. o[1] = s[1] /\ o[2] = s[2] /\ o[3] = s[3] /\ o[4] = s[4]
    BY <1>3, <2>1
  <2>. QED  BY <1>3, <1>4, <1>a, <2>1, <2>2 DEF Hls!Shaped
<1>. QED  BY <1>3, <1>5 DEF o

\* The end is written after everything.
LEMMA HlsEnds ==
  ASSUME NEW T, NEW s \in Seq(T), Hls!Shaped(s), ~HasEnd(s)
  PROVE  /\ Append(s, Hls!Endlist) \in Seq(T \union {Hls!Endlist})
         /\ Hls!Shaped(Append(s, Hls!Endlist)) /\ HasEnd(Append(s, Hls!Endlist))
<1>. DEFINE n == Len(s)
            o == Append(s, Hls!Endlist)
<1>1. n \in Nat /\ n >= 4 /\ DOMAIN s = 1..n /\ n = Len(s)
  BY DEF Hls!Shaped
<1>a. /\ s[1] = Hls!Header /\ s[2] = Hls!Map /\ s[3] = Hls!Inf /\ s[4].tag = "segment"
      /\ \A k \in 3..n : Hls!LineAt(s, k)
  BY DEF Hls!Shaped
<1>. HIDE DEF n
<1>2. /\ o \in Seq(T \union {Hls!Endlist}) /\ Len(o) = n + 1 /\ DOMAIN o = 1..(n + 1)
      /\ (\A k \in 1..n : o[k] = s[k]) /\ o[n + 1] = Hls!Endlist
  BY <1>1
<1>. HIDE DEF o
<1>4. ASSUME NEW k \in 3..(n + 1)
      PROVE  Hls!LineAt(o, k)
  <2>1. CASE k = n + 1
    BY <1>2, <2>1 DEF Hls!LineAt
  <2>3. CASE k \in 3..n
    <3>1. /\ k \in 1..n /\ (k < n => k + 1 \in 1..n) /\ (k > 3 => k - 1 \in 1..n) /\ k < n + 1
      BY ONLY <1>1, <2>3, Between
    <3>2. s[k] # Hls!Endlist
      BY <1>1, <3>1 DEF HasEnd
    <3>3. Hls!LineAt(s, k) /\ o[k] = s[k]
      BY <1>2, <1>a, <2>3, <3>1
    <3>. QED  BY <1>1, <1>2, <3>1, <3>2, <3>3 DEF Hls!LineAt
  <2>4. k = n + 1 \/ k \in 3..n
    BY ONLY <1>1, k \in 3..(n + 1)
  <2>. QED  BY <2>1, <2>3, <2>4
<1>5. Hls!Shaped(o)
  <2>1. n + 1 >= 4 /\ 1 \in 1..n /\ 2 \in 1..n /\ 3 \in 1..n /\ 4 \in 1..n
    BY ONLY <1>1
  <2>2. o[1] = s[1] /\ o[2] = s[2] /\ o[3] = s[3] /\ o[4] = s[4]
    BY <1>2, <2>1
  <2>. QED  BY <1>2, <1>4, <1>a, <2>1, <2>2 DEF Hls!Shaped
<1>6. HasEnd(o)
  <2>1. n + 1 \in 1..(n + 1)
    BY ONLY <1>1
  <2>. QED  BY <1>2, <2>1 DEF HasEnd
<1>. QED  BY <1>2, <1>5, <1>6 DEF o

\* What a manifest names.
LEMMA HlsManifests ==
  ASSUME NEW b \in BOOLEAN
  PROVE  /\ [state |-> "interrupted", entrypoint |-> b] \in [state : Hls!ManifestStates, entrypoint : BOOLEAN]
         /\ [state |-> "complete", entrypoint |-> b] \in [state : Hls!ManifestStates, entrypoint : BOOLEAN]
         /\ [state |-> "incomplete", entrypoint |-> b] \in [state : Hls!ManifestStates, entrypoint : BOOLEAN]
BY DEF Hls!ManifestStates

\* What a finalization finds.
LEMMA HlsFindings ==
  ASSUME NEW b \in BOOLEAN, NEW c \in BOOLEAN
  PROVE  [valid |-> b, leftovers |-> c] \in [valid : BOOLEAN, leftovers : BOOLEAN]
OBVIOUS

\* The first list is FFmpeg's first lines and a segment after its duration.
LEMMA HlsFirst ==
  ASSUME NEW U, NEW top \in Seq(U), NEW bottom \in Seq(U), Len(top) = 2, Len(bottom) = 2
  PROVE  /\ top \o bottom \in Seq(U) /\ Len(top \o bottom) = 4
         /\ (top \o bottom)[1] = top[1] /\ (top \o bottom)[2] = top[2]
         /\ (top \o bottom)[3] = bottom[1] /\ (top \o bottom)[4] = bottom[2]
<1>1. top \o bottom \in Seq(U) /\ Len(top \o bottom) = Len(top) + Len(bottom)
  BY ConcatProperties
<1>2. \A k \in 1..Len(top) : (top \o bottom)[k] = top[k]
  BY ConcatProperties
<1>3. ASSUME NEW k \in 1..Len(bottom)
      PROVE  (top \o bottom)[Len(top) + k] = bottom[k]
  <2>1. \A i \in 1..(Len(top) + Len(bottom)) :
          (top \o bottom)[i] = IF i <= Len(top) THEN top[i] ELSE bottom[i - Len(top)]
    BY ConcatProperties
  <2>2. Len(top) \in Nat /\ Len(bottom) \in Nat
    OBVIOUS
  <2>3. /\ Len(top) + k \in 1..(Len(top) + Len(bottom))
        /\ ~(Len(top) + k <= Len(top)) /\ (Len(top) + k) - Len(top) = k
    BY ONLY <2>2, k \in 1..Len(bottom)
  <2>. QED  BY ONLY <2>1, <2>3
<1>4. 1 \in 1..2 /\ 2 \in 1..2 /\ 2 + 1 = 3 /\ 2 + 2 = 4
  OBVIOUS
<1>. QED  BY <1>1, <1>2, <1>3, <1>4

\* A list of FFmpeg's shape, with its end and all its files, can be played.
LEMMA HlsPlays ==
  ASSUME NEW T, playlist' \in Seq(T), Hls!Shaped(playlist'), HasEnd(playlist'), initFile' = "written",
         \A k \in DOMAIN playlist' :
           playlist'[k].tag = "segment" => segment'[playlist'[k].index] = "written"
  PROVE  Hls!Playable'
<1>. DEFINE s == playlist'
            n == Len(s)
<1>1. n \in Nat /\ n >= 4 /\ DOMAIN s = 1..n /\ n = Len(s)
  BY DEF Hls!Shaped
<1>2. /\ s[1] = Hls!Header /\ s[2] = Hls!Map /\ s[3] = Hls!Inf /\ s[4].tag = "segment"
      /\ \A k \in 3..n : Hls!LineAt(s, k)
  BY DEF Hls!Shaped
<1>3. \A tag : Hls!At(tag)' = {k \in DOMAIN s : s[k].tag = tag}
  BY DEF Hls!At
<1>4. \A k \in DOMAIN s : s[k].tag = "segment" => segment'[s[k].index] = "written"
  OBVIOUS
<1>5. HasEnd(s)
  OBVIOUS
<1>6. Hls!Playable' <=>
        /\ Hls!At("#EXT-X-MAP")' # {} /\ Hls!At("segment")' # {}
        /\ \A k \in Hls!At("#EXTINF")' : k + 1 \in Hls!At("segment")' /\ \E j \in Hls!At("#EXT-X-MAP")' : j < k
        /\ \A k \in Hls!At("segment")' : k - 1 \in Hls!At("#EXTINF")'
        /\ initFile' = "written" /\ \A k \in Hls!At("segment")' : segment'[s[k].index] = "written"
        /\ Hls!At("#EXT-X-ENDLIST")' # {}
  BY DEF Hls!Playable
<1>. HIDE DEF s, n
<1>7. 1 \in 1..n /\ 2 \in 1..n /\ 4 \in 1..n /\ \A k \in 1..n : k = 1 \/ k = 2 \/ k \in 3..n
  BY ONLY <1>1
<1>8. 2 \in Hls!At("#EXT-X-MAP")' /\ 4 \in Hls!At("segment")'
  BY <1>1, <1>2, <1>3, <1>7, LineTags
<1>9. Hls!At("#EXT-X-ENDLIST")' # {}
  BY <1>1, <1>3, <1>5, LineTags DEF HasEnd
<1>10. ASSUME NEW k \in Hls!At("#EXTINF")'
       PROVE  k + 1 \in Hls!At("segment")' /\ 2 < k
  <2>1. k \in 1..n /\ s[k].tag = "#EXTINF"
    BY <1>1, <1>3
  <2>2. k \in 3..n
    BY <1>2, <1>7, <2>1, LineTags
  <2>3. s[k] = Hls!Inf /\ k < n /\ s[k + 1].tag = "segment"
    BY <1>1, <1>2, <2>1, <2>2, LineTags DEF Hls!LineAt
  <2>4. k + 1 \in 1..n /\ 2 < k
    BY ONLY <1>1, <2>2, <2>3, Between
  <2>. QED  BY <1>1, <1>3, <2>3, <2>4
<1>11. ASSUME NEW k \in Hls!At("segment")'
       PROVE  k - 1 \in Hls!At("#EXTINF")'
  <2>1. k \in 1..n /\ s[k].tag = "segment"
    BY <1>1, <1>3
  <2>2. k \in 3..n
    BY <1>2, <1>7, <2>1, LineTags
  <2>3. k > 3 /\ s[k - 1] = Hls!Inf
    BY <1>1, <1>2, <2>1, <2>2, LineTags DEF Hls!LineAt
  <2>4. k - 1 \in 1..n
    BY ONLY <1>1, <2>2, <2>3, Between
  <2>. QED  BY <1>1, <1>3, <2>3, <2>4, LineTags
<1>12. \A k \in Hls!At("segment")' : segment'[s[k].index] = "written"
  BY <1>3, <1>4
<1>. QED  BY <1>6, <1>8, <1>9, <1>10, <1>11, <1>12

\* FFmpeg lists what it has written, and ends its list when it is told to stop.
LEMMA HlsPlaylist ==
  ASSUME Hls!TypeOK, Hls!Listing, Hls!FFmpegStep
  PROVE  playlist' \in Seq({playlist'[k] : k \in DOMAIN playlist'}) /\ Hls!Listing'
<1>. DEFINE T == {playlist[k] : k \in DOMAIN playlist}
<1>0. playlist \in Seq(T) /\ (playlist # <<>> => Hls!Shaped(playlist))
  BY DEF Hls!TypeOK, Hls!Listing
<1>. HIDE DEF T
<1>1. CASE playlist' = playlist
  BY <1>1 DEF Hls!TypeOK, Hls!Listing
<1>2. CASE playlist' = Hls!Listed
  <2>1. CASE playlist = <<>>
    <3>. DEFINE x == Hls!Segment(Hls!Max(Hls!Present))
                top == <<Hls!Header, Hls!Map>>
                bottom == <<Hls!Inf, x>>
                U == {Hls!Header, Hls!Map, Hls!Inf, x}
                l == top \o bottom
    <3>1. playlist' = l
      BY <1>2, <2>1 DEF Hls!Listed
    <3>a. /\ top \in Seq(U) /\ Len(top) = 2 /\ top[1] = Hls!Header /\ top[2] = Hls!Map
          /\ bottom \in Seq(U) /\ Len(bottom) = 2 /\ bottom[1] = Hls!Inf /\ bottom[2] = x
      OBVIOUS
    <3>b. x.tag = "segment"
      BY LineTags
    <3>. HIDE DEF x, top, bottom, U
    <3>2. l \in Seq(U) /\ Len(l) = 4
      BY <3>a, HlsFirst
    <3>c. l[1] = top[1] /\ l[2] = top[2] /\ l[3] = bottom[1] /\ l[4] = bottom[2]
      BY <3>a, HlsFirst
    <3>3. l[1] = Hls!Header /\ l[2] = Hls!Map /\ l[3] = Hls!Inf /\ l[4].tag = "segment"
      BY <3>a, <3>b, <3>c
    <3>. HIDE DEF l
    <3>4. \A k \in 3..4 : Hls!LineAt(l, k)
      <4>1. Hls!LineAt(l, 3)
        BY <3>2, <3>3 DEF Hls!LineAt
      <4>2. Hls!LineAt(l, 4)
        BY <3>2, <3>3 DEF Hls!LineAt
      <4>. QED  BY <4>1, <4>2
    <3>5. Hls!Shaped(l)
      BY <3>2, <3>3, <3>4 DEF Hls!Shaped
    <3>6. l \in Seq({l[k] : k \in DOMAIN l})
      BY <3>2, LinesOf
    <3>. QED  BY <3>1, <3>5, <3>6 DEF Hls!Listing
  <2>2. CASE playlist # <<>>
    <3>1. /\ Hls!Open(playlist) \in Seq(T) /\ Hls!Shaped(Hls!Open(playlist)) /\ ~HasEnd(Hls!Open(playlist))
      BY <1>0, <2>2, HlsOpen
    <3>. DEFINE i == Hls!Max(Hls!Present)
    <3>2. playlist' = Hls!Open(playlist) \o <<Hls!Inf, Hls!Segment(i)>>
      BY <1>2, <2>2 DEF Hls!Listed
    <3>. HIDE DEF i
    <3>3. playlist' \in Seq(T \union {Hls!Inf, Hls!Segment(i)}) /\ Hls!Shaped(playlist')
      BY <3>1, <3>2, HlsLists
    <3>. QED  BY <3>3, LinesOf DEF Hls!Listing
  <2>. QED  BY <2>1, <2>2
<1>3. CASE playlist # <<>> /\ playlist' = Append(Hls!Open(playlist), Hls!Endlist)
  <2>1. /\ Hls!Open(playlist) \in Seq(T) /\ Hls!Shaped(Hls!Open(playlist)) /\ ~HasEnd(Hls!Open(playlist))
    BY <1>0, <1>3, HlsOpen
  <2>2. playlist' \in Seq(T \union {Hls!Endlist}) /\ Hls!Shaped(playlist')
    BY <1>3, <2>1, HlsEnds
  <2>. QED  BY <2>2, LinesOf DEF Hls!Listing
<1>. QED
  BY <1>1, <1>2, <1>3
  DEF Hls!FFmpegStep, Hls!StartFFmpeg, Hls!WriteInit, Hls!BeginSegment, Hls!FinishSegment,
      Hls!BeginPlaylist, Hls!CommitPlaylist, Hls!FFmpegStops, Hls!FFmpegDies, Hls!hlsFiles

\* FFmpeg writes in a workspace that nobody finalizes.
LEMMA HlsFFmpegInv ==
  ASSUME Hls!WorkspaceInv, Hls!FFmpegStep
  PROVE  Hls!WorkspaceInv'
<1>. USE DEF Hls!WorkspaceInv
<1>1. /\ UNCHANGED <<hlsPhase, finalization, manifest, hlsEvidence, marker>>
      /\ ffmpeg # "none" \/ hlsPhase = "capturing"
  BY DEF Hls!FFmpegStep, Hls!StartFFmpeg, Hls!WriteInit, Hls!BeginSegment, Hls!FinishSegment,
         Hls!BeginPlaylist, Hls!CommitPlaylist, Hls!FFmpegStops, Hls!FFmpegDies, Hls!hlsFiles
<1>2. playlist' \in Seq({playlist'[k] : k \in DOMAIN playlist'}) /\ Hls!Listing'
  BY HlsPlaylist
<1>3. Hls!TypeOK'
  BY <1>1, <1>2 DEF Hls!TypeOK
<1>4. ASSUME ~LateFailures
      PROVE  Hls!PhaseInv' /\ Hls!JudgedInv' /\ Hls!PublishedIsPlayable'
  <2>1. hlsPhase = "capturing" /\ hlsEvidence = Hls!NoEvidence
    BY <1>1, <1>4 DEF Hls!PhaseInv
  <2>2. hlsPhase' = "capturing" /\ hlsEvidence' = Hls!NoEvidence /\ ~hlsEvidence'.playable
    BY <1>1, <2>1 DEF Hls!NoEvidence
  <2>. QED  BY <1>1, <1>4, <2>1, <2>2 DEF Hls!PhaseInv, Hls!JudgedInv, Hls!PublishedIsPlayable
<1>. QED  BY <1>2, <1>3, <1>4

\* A list that is kept is the list it was.
LEMMA HlsListKept ==
  ASSUME Hls!TypeOK, Hls!Listing, playlist' = playlist
  PROVE  playlist' \in Seq({playlist'[k] : k \in DOMAIN playlist'}) /\ Hls!Listing'
BY DEF Hls!TypeOK, Hls!Listing

\* A bundle whose files are kept plays as it did.
LEMMA HlsPlayKept ==
  ASSUME UNCHANGED <<playlist, initFile, segment>>
  PROVE  Hls!Playable' <=> Hls!Playable
BY DEF Hls!Playable, Hls!At

\* A workspace is parked, resumed, or taken for its finalization; FFmpeg does not run.
LEMMA HlsParkInv ==
  ASSUME Hls!WorkspaceInv, Hls!Park \/ Hls!Resume \/ Hls!Preserve
  PROVE  Hls!WorkspaceInv'
<1>. USE DEF Hls!WorkspaceInv
<1>1. /\ hlsPhase \in {"capturing", "parked"} /\ hlsPhase' \in {"capturing", "parked", "preserved"}
      /\ UNCHANGED <<playlist, ffmpeg, hlsEvidence, marker>>
      /\ hlsPhase = "parked" \/ ffmpeg = "none"
  BY DEF Hls!Park, Hls!Resume, Hls!Preserve, Hls!hlsFiles
<1>2. manifest' \in [state : Hls!ManifestStates, entrypoint : BOOLEAN]
  <2>1. manifest' = manifest \/ manifest' = [state |-> "interrupted", entrypoint |-> playlist # <<>>]
    BY DEF Hls!Park, Hls!Resume, Hls!Preserve
  <2>2. [state |-> "interrupted", entrypoint |-> playlist # <<>>] \in [state : Hls!ManifestStates, entrypoint : BOOLEAN]
    BY (playlist # <<>>) \in BOOLEAN, HlsManifests, Zenon
  <2>. QED  BY <2>1, <2>2 DEF Hls!TypeOK
<1>3. finalization' \in [valid : BOOLEAN, leftovers : BOOLEAN]
  <2>1. finalization' = finalization \/ finalization' = [valid |-> FALSE, leftovers |-> Hls!Temporaries > 0]
    BY DEF Hls!Park, Hls!Resume, Hls!Preserve
  <2>2. [valid |-> FALSE, leftovers |-> Hls!Temporaries > 0] \in [valid : BOOLEAN, leftovers : BOOLEAN]
    BY (Hls!Temporaries > 0) \in BOOLEAN, HlsFindings, Zenon
  <2>. QED  BY <2>1, <2>2 DEF Hls!TypeOK
<1>4. Hls!TypeOK' /\ Hls!Listing'
  BY <1>1, <1>2, <1>3, HlsListKept DEF Hls!TypeOK, Hls!Phases
<1>5. ASSUME ~LateFailures
      PROVE  Hls!PhaseInv' /\ Hls!JudgedInv' /\ Hls!PublishedIsPlayable'
  <2>1. hlsEvidence = Hls!NoEvidence /\ ffmpeg = "none" /\ marker
    BY <1>1, <1>5 DEF Hls!PhaseInv, Hls!TypeOK
  <2>2. hlsEvidence' = Hls!NoEvidence /\ ~hlsEvidence'.playable
    BY <1>1, <2>1 DEF Hls!NoEvidence
  <2>. QED  BY <1>1, <2>1, <2>2 DEF Hls!PhaseInv, Hls!JudgedInv, Hls!PublishedIsPlayable
<1>. QED  BY <1>4, <1>5

\* What is judged valid can be played, once its end is written.
LEMMA HlsValidateInv ==
  ASSUME Hls!WorkspaceInv, Hls!ValidateAndEnd
  PROVE  Hls!WorkspaceInv'
<1>. USE DEF Hls!WorkspaceInv
<1>1. /\ hlsPhase = "preserved" /\ hlsPhase' = "validated"
      /\ UNCHANGED <<ffmpeg, initFile, segment, marker, manifest, hlsEvidence>>
  BY DEF Hls!ValidateAndEnd
<1>2. CASE playlist' = playlist /\ finalization' \in [valid : {FALSE}, leftovers : BOOLEAN]
  <2>1. finalization' \in [valid : BOOLEAN, leftovers : BOOLEAN] /\ ~finalization'.valid
    BY <1>2
  <2>2. Hls!TypeOK' /\ Hls!Listing'
    BY <1>1, <1>2, <2>1, HlsListKept DEF Hls!TypeOK, Hls!Phases
  <2>3. ASSUME ~LateFailures
        PROVE  Hls!PhaseInv' /\ Hls!JudgedInv' /\ Hls!PublishedIsPlayable'
    <3>1. hlsEvidence' = Hls!NoEvidence /\ ~hlsEvidence'.playable
      BY <1>1, <2>3 DEF Hls!PhaseInv, Hls!NoEvidence
    <3>. QED  BY <1>1, <2>1, <2>3, <3>1 DEF Hls!PhaseInv, Hls!JudgedInv, Hls!PublishedIsPlayable
  <2>. QED  BY <2>2, <2>3
<1>3. CASE /\ Hls!Valid /\ finalization' = [finalization EXCEPT !.valid = TRUE]
           /\ playlist' = IF Hls!HasEndlist THEN playlist ELSE Append(playlist, Hls!Endlist)
  <2>. DEFINE T == {playlist[k] : k \in DOMAIN playlist}
  <2>0. playlist \in Seq(T) /\ Hls!Shaped(playlist)
    BY <1>3 DEF Hls!TypeOK, Hls!Listing, Hls!Valid
  <2>. HIDE DEF T
  <2>1. /\ playlist' \in Seq(T \union {Hls!Endlist}) /\ Hls!Shaped(playlist') /\ HasEnd(playlist')
        /\ \A k \in DOMAIN playlist' :
             (k \in DOMAIN playlist /\ playlist'[k] = playlist[k]) \/ playlist'[k] = Hls!Endlist
    <3>1. CASE Hls!HasEndlist
      <4>1. playlist' = playlist /\ HasEnd(playlist)
        BY <1>3, <3>1 DEF Hls!HasEndlist, HasEnd
      <4>2. Seq(T) \subseteq Seq(T \union {Hls!Endlist})
        OBVIOUS
      <4>. QED  BY <2>0, <4>1, <4>2
    <3>2. CASE ~Hls!HasEndlist
      <4>1. playlist' = Append(playlist, Hls!Endlist) /\ ~HasEnd(playlist)
        BY <1>3, <3>2 DEF Hls!HasEndlist, HasEnd
      <4>2. /\ Append(playlist, Hls!Endlist) \in Seq(T \union {Hls!Endlist})
            /\ Hls!Shaped(Append(playlist, Hls!Endlist)) /\ HasEnd(Append(playlist, Hls!Endlist))
        BY <2>0, <4>1, HlsEnds
      <4>3. \A k \in DOMAIN Append(playlist, Hls!Endlist) :
              \/ k \in DOMAIN playlist /\ Append(playlist, Hls!Endlist)[k] = playlist[k]
              \/ Append(playlist, Hls!Endlist)[k] = Hls!Endlist
        BY <2>0
      <4>. QED  BY <4>1, <4>2, <4>3
    <3>. QED  BY <3>1, <3>2
  <2>2. finalization' \in [valid : BOOLEAN, leftovers : BOOLEAN]
    BY <1>3 DEF Hls!TypeOK
  <2>3. Hls!TypeOK' /\ Hls!Listing'
    BY <1>1, <2>1, <2>2, LinesOf DEF Hls!TypeOK, Hls!Phases, Hls!Listing
  <2>4. \A k \in DOMAIN playlist : Hls!Resolves(playlist[k])
    BY <1>3 DEF Hls!Valid
  <2>5. initFile = "written"
    <3>1. 2 \in DOMAIN playlist /\ playlist[2] = Hls!Map
      BY <2>0 DEF Hls!Shaped
    <3>. QED  BY <2>4, <3>1, LineTags DEF Hls!Resolves
  <2>6. \A k \in DOMAIN playlist' :
          playlist'[k].tag = "segment" => segment'[playlist'[k].index] = "written"
    BY <1>1, <2>1, <2>4, LineTags DEF Hls!Resolves
  <2>7. Hls!Playable'
    BY <1>1, <2>1, <2>5, <2>6, HlsPlays
  <2>8. ASSUME ~LateFailures
        PROVE  Hls!PhaseInv' /\ Hls!JudgedInv' /\ Hls!PublishedIsPlayable'
    BY <1>1, <2>7, <2>8 DEF Hls!PhaseInv, Hls!JudgedInv, Hls!PublishedIsPlayable
  <2>. QED  BY <2>3, <2>8
<1>4. \/ finalization' = [finalization EXCEPT !.valid = FALSE] /\ playlist' = playlist
      \/ finalization' = [valid |-> FALSE, leftovers |-> TRUE] /\ playlist' = playlist
      \/ /\ Hls!Valid /\ finalization' = [finalization EXCEPT !.valid = TRUE]
         /\ playlist' = IF Hls!HasEndlist THEN playlist ELSE Append(playlist, Hls!Endlist)
  BY DEF Hls!ValidateAndEnd
<1>5. [finalization EXCEPT !.valid = FALSE] \in [valid : {FALSE}, leftovers : BOOLEAN]
  BY DEF Hls!TypeOK
<1>6. [valid |-> FALSE, leftovers |-> TRUE] \in [valid : {FALSE}, leftovers : BOOLEAN]
  OBVIOUS
<1>. QED  BY <1>2, <1>3, <1>4, <1>5, <1>6

\* The manifest names the playlist exactly when it was judged valid, and the row copies it.
LEMMA HlsPublishInv ==
  ASSUME Hls!WorkspaceInv, Hls!WriteManifest \/ Hls!Publish \/ Hls!CompletePublication
  PROVE  Hls!WorkspaceInv'
<1>. USE DEF Hls!WorkspaceInv
<1>1. UNCHANGED <<playlist, initFile, segment, ffmpeg, finalization>>
  BY DEF Hls!WriteManifest, Hls!Publish, Hls!CompletePublication, Hls!hlsFiles
<1>2. Hls!Playable' <=> Hls!Playable
  BY <1>1, HlsPlayKept
<1>3. CASE Hls!WriteManifest
  <2>1. /\ hlsPhase = "validated" /\ hlsPhase' = "prepared" /\ UNCHANGED <<marker, hlsEvidence>>
    BY <1>3 DEF Hls!WriteManifest
  <2>a. /\ \/ manifest' = [state |-> "complete", entrypoint |-> finalization.valid]
           \/ manifest' = [state |-> "incomplete", entrypoint |-> finalization.valid]
        /\ finalization.valid \in BOOLEAN
    BY <1>3 DEF Hls!WriteManifest, Hls!TypeOK
  <2>b. manifest'.entrypoint = finalization.valid /\ manifest' \in [state : Hls!ManifestStates, entrypoint : BOOLEAN]
    <3>1. manifest'.entrypoint = finalization.valid
      BY <2>a
    <3>. QED  BY <2>a, <3>1, HlsManifests
  <2>2. Hls!TypeOK' /\ Hls!Listing'
    BY <1>1, <2>1, <2>b, HlsListKept DEF Hls!TypeOK, Hls!Phases
  <2>3. ASSUME ~LateFailures
        PROVE  Hls!PhaseInv' /\ Hls!JudgedInv' /\ Hls!PublishedIsPlayable'
    BY <1>1, <1>2, <2>1, <2>b, <2>3 DEF Hls!PhaseInv, Hls!JudgedInv, Hls!PublishedIsPlayable
  <2>. QED  BY <2>2, <2>3
<1>4. CASE Hls!Publish
  <2>1. /\ hlsPhase = "prepared" /\ hlsPhase' = "linked" /\ UNCHANGED <<marker, manifest>>
        /\ hlsEvidence' = Hls!Row
    BY <1>4 DEF Hls!Publish
  <2>2. hlsEvidence' \in [type : {"none", "recording", "incomplete_recording"}, playable : BOOLEAN]
    BY <2>1 DEF Hls!Row, Hls!TypeOK
  <2>3. Hls!TypeOK' /\ Hls!Listing'
    BY <1>1, <2>1, <2>2, HlsListKept DEF Hls!TypeOK, Hls!Phases
  <2>4. ASSUME ~LateFailures
        PROVE  Hls!PhaseInv' /\ Hls!JudgedInv' /\ Hls!PublishedIsPlayable'
    <3>1. hlsEvidence = Hls!NoEvidence
      BY <2>1, <2>4 DEF Hls!PhaseInv
    <3>2. hlsEvidence'.playable = finalization.valid /\ hlsEvidence' # Hls!NoEvidence
      BY <2>1, <2>4, <3>1 DEF Hls!JudgedInv, Hls!Row, Hls!NoEvidence
    <3>3. Hls!PublishedIsPlayable'
      BY <1>2, <2>1, <2>4, <3>2 DEF Hls!JudgedInv, Hls!PublishedIsPlayable
    <3>. QED  BY <1>1, <2>1, <2>4, <3>2, <3>3 DEF Hls!PhaseInv, Hls!JudgedInv
  <2>. QED  BY <2>3, <2>4
<1>5. CASE Hls!CompletePublication
  <2>1. /\ hlsPhase = "linked" /\ hlsPhase' = "published" /\ marker' = FALSE /\ UNCHANGED <<manifest, hlsEvidence>>
    BY <1>5 DEF Hls!CompletePublication
  <2>2. Hls!TypeOK' /\ Hls!Listing'
    BY <1>1, <2>1, HlsListKept DEF Hls!TypeOK, Hls!Phases
  <2>3. ASSUME ~LateFailures
        PROVE  Hls!PhaseInv' /\ Hls!JudgedInv' /\ Hls!PublishedIsPlayable'
    BY <1>1, <1>2, <2>1, <2>3 DEF Hls!PhaseInv, Hls!JudgedInv, Hls!PublishedIsPlayable
  <2>. QED  BY <2>2, <2>3
<1>. QED  BY <1>3, <1>4, <1>5

\* The sink fails, the process crashes, and the next one finds the workspace.
LEMMA HlsFailInv ==
  ASSUME Hls!WorkspaceInv, Hls!PublishFails \/ Hls!Crash \/ Hls!Recover
  PROVE  Hls!WorkspaceInv'
<1>. USE DEF Hls!WorkspaceInv
<1>1. UNCHANGED <<playlist, initFile, finalization>> /\ ffmpeg' \in {"none", ffmpeg}
  BY DEF Hls!PublishFails, Hls!Crash, Hls!Recover, Hls!hlsFiles
<1>2. CASE Hls!PublishFails
  <2>1. /\ hlsPhase = "prepared" /\ hlsPhase' = "parked" /\ UNCHANGED <<marker, manifest, segment>>
        /\ hlsEvidence' = hlsEvidence \/ (LateFailures /\ hlsEvidence' = Hls!Row)
    BY <1>2 DEF Hls!PublishFails, Hls!hlsFiles
  <2>2. hlsEvidence' \in [type : {"none", "recording", "incomplete_recording"}, playable : BOOLEAN]
    BY <2>1 DEF Hls!Row, Hls!TypeOK
  <2>3. Hls!TypeOK' /\ Hls!Listing'
    BY <1>1, <2>1, <2>2, HlsListKept DEF Hls!TypeOK, Hls!Phases
  <2>4. ASSUME ~LateFailures
        PROVE  Hls!PhaseInv' /\ Hls!JudgedInv' /\ Hls!PublishedIsPlayable'
    <3>1. hlsEvidence' = Hls!NoEvidence /\ ~hlsEvidence'.playable
      BY <2>1, <2>4 DEF Hls!PhaseInv, Hls!NoEvidence
    <3>. QED  BY <1>1, <2>1, <2>4, <3>1 DEF Hls!PhaseInv, Hls!JudgedInv, Hls!PublishedIsPlayable
  <2>. QED  BY <2>3, <2>4
<1>3. CASE Hls!Crash
  <2>1. hlsPhase' = "down" /\ ffmpeg' = "none" /\ UNCHANGED <<marker, manifest, segment, hlsEvidence>>
    BY <1>3 DEF Hls!Crash, Hls!hlsFiles
  <2>2. Hls!TypeOK' /\ Hls!Listing'
    BY <1>1, <2>1, HlsListKept DEF Hls!TypeOK, Hls!Phases
  <2>3. Hls!Playable' <=> Hls!Playable
    BY <1>1, <2>1, HlsPlayKept
  <2>4. ASSUME ~LateFailures
        PROVE  Hls!PhaseInv' /\ Hls!JudgedInv' /\ Hls!PublishedIsPlayable'
    BY <2>1, <2>3, <2>4 DEF Hls!PhaseInv, Hls!JudgedInv, Hls!PublishedIsPlayable
  <2>. QED  BY <2>2, <2>4
<1>4. CASE Hls!Recover
  <2>1. /\ hlsPhase = "down" /\ hlsPhase' \in {"parked", "published"} /\ UNCHANGED <<ffmpeg, hlsEvidence>>
    BY <1>4 DEF Hls!Recover
  <2>a. marker' \in BOOLEAN
    BY <1>4 DEF Hls!Recover, Hls!TypeOK
  <2>b. manifest' \in [state : Hls!ManifestStates, entrypoint : BOOLEAN]
    <3>1. manifest' = manifest \/ manifest' = [state |-> "interrupted", entrypoint |-> playlist # <<>>]
      BY <1>4 DEF Hls!Recover
    <3>2. [state |-> "interrupted", entrypoint |-> playlist # <<>>] \in [state : Hls!ManifestStates, entrypoint : BOOLEAN]
      BY (playlist # <<>>) \in BOOLEAN, HlsManifests, Zenon
    <3>. QED  BY <3>1, <3>2 DEF Hls!TypeOK
  <2>2. Hls!TypeOK' /\ Hls!Listing'
    BY <1>1, <2>1, <2>a, <2>b, HlsListKept DEF Hls!TypeOK, Hls!Phases
  <2>3. ASSUME ~LateFailures
        PROVE  Hls!PhaseInv' /\ Hls!JudgedInv' /\ Hls!PublishedIsPlayable'
    <3>1. CASE ~marker \/ Hls!PublishedAlready
      <4>1. hlsPhase' = "published" /\ UNCHANGED segment /\ hlsEvidence # Hls!NoEvidence
        BY <1>4, <2>3, <3>1 DEF Hls!Recover, Hls!PublishedAlready, Hls!PhaseInv
      <4>2. Hls!Playable' <=> Hls!Playable
        BY <1>1, <4>1, HlsPlayKept
      <4>. QED  BY <2>1, <2>3, <4>1, <4>2 DEF Hls!PhaseInv, Hls!JudgedInv, Hls!PublishedIsPlayable
    <3>2. CASE marker /\ ~Hls!PublishedAlready
      <4>1. hlsPhase' = "parked" /\ marker' = marker /\ hlsEvidence = Hls!NoEvidence
        BY <1>4, <3>2 DEF Hls!Recover, Hls!PublishedAlready
      <4>2. ~hlsEvidence'.playable
        BY <2>1, <4>1 DEF Hls!NoEvidence
      <4>. QED  BY <2>1, <2>3, <3>2, <4>1, <4>2 DEF Hls!PhaseInv, Hls!JudgedInv, Hls!PublishedIsPlayable
    <3>. QED  BY <3>1, <3>2 DEF Hls!TypeOK
  <2>. QED  BY <2>2, <2>3
<1>. QED  BY <1>2, <1>3, <1>4

\* The workspace is created.
LEMMA HlsInit == Hls!Init => Hls!WorkspaceInv
<1>. SUFFICES ASSUME Hls!Init PROVE Hls!WorkspaceInv
  OBVIOUS
<1>1. playlist = <<>> /\ hlsPhase = "capturing" /\ hlsEvidence = Hls!NoEvidence /\ marker = TRUE /\ ffmpeg = "none"
  BY DEF Hls!Init
<1>2. playlist \in Seq({playlist[k] : k \in DOMAIN playlist})
  BY <1>1
<1>3. Hls!Undecided \in [valid : BOOLEAN, leftovers : BOOLEAN] /\ Hls!NoEvidence.playable = FALSE
  BY DEF Hls!Undecided, Hls!NoEvidence
<1>4. Hls!NoEvidence \in [type : {"none", "recording", "incomplete_recording"}, playable : BOOLEAN]
  BY DEF Hls!NoEvidence
<1>5. manifest \in [state : Hls!ManifestStates, entrypoint : BOOLEAN]
  BY DEF Hls!Init, Hls!ManifestStates
<1>6. Hls!TypeOK
  BY <1>1, <1>2, <1>3, <1>4, <1>5 DEF Hls!Init, Hls!TypeOK, Hls!Phases
<1>. QED
  BY <1>1, <1>3, <1>6
  DEF Hls!WorkspaceInv, Hls!Listing, Hls!PhaseInv, Hls!JudgedInv, Hls!PublishedIsPlayable

\* Every step preserves what holds of a workspace.
LEMMA HlsNext == Hls!WorkspaceInv /\ [Hls!Next]_(Hls!hlsVars) => Hls!WorkspaceInv'
<1>1. Hls!WorkspaceInv /\ UNCHANGED Hls!hlsVars => Hls!WorkspaceInv'
  <2>. SUFFICES ASSUME Hls!WorkspaceInv, UNCHANGED Hls!hlsVars PROVE Hls!WorkspaceInv'
    OBVIOUS
  <2>. USE DEF Hls!WorkspaceInv, Hls!hlsVars, Hls!hlsFiles
  <2>1. Hls!TypeOK' /\ Hls!Listing'
    BY HlsListKept DEF Hls!TypeOK
  <2>2. Hls!Playable' <=> Hls!Playable
    BY HlsPlayKept
  <2>. QED  BY <2>1, <2>2 DEF Hls!PhaseInv, Hls!JudgedInv, Hls!PublishedIsPlayable
<1>. QED
  BY <1>1, HlsFFmpegInv, HlsParkInv, HlsValidateInv, HlsPublishInv, HlsFailInv
  DEF Hls!Next, Hls!Finalization

-----------------------------------------------------------------------------
(***************************************************************************)
(* Rows and artifacts name the place where the file is, also for items     *)
(* that the retention sweep, an attachment and a crash handle at a time.   *)
(***************************************************************************)
THEOREM FilesFollow == ComponentsSpec => []RowsFollowFiles
<1>1. ComponentsSpec => Files!Spec
  BY ComponentsStart, FilesSteps, PTL DEF ComponentsSpec, Files!Spec
<1>2. Files!Named
  BY DEF Files!Named, Files!Nobody
<1>3. Files!Spec => []Files!RowsFollowFiles
  BY <1>2, Files!RowsFollow
<1>. QED  BY <1>1, <1>3, PTL DEF RowsFollowFiles

(***************************************************************************)
(* An answered receipt says what happened to its delivery, whichever       *)
(* handlers fail and whenever a crash falls.                               *)
(***************************************************************************)
THEOREM ReceiptsTell == ComponentsSpec => []ReceiptTellsOutcome
<1>1. ComponentsSpec => Ingest!Spec
  BY ComponentsStart, IngestSteps, PTL DEF ComponentsSpec, Ingest!Spec
<1>2. Ingest!Spec => []Ingest!ReceiptTellsOutcome
  BY Ingest!ReceiptsTellOutcomes
<1>. QED  BY <1>1, <1>2, PTL DEF ReceiptTellsOutcome

(***************************************************************************)
(* Plugins run as the inventory of now configures them, once no save is on *)
(* its way, whichever saves overlapped and whichever reload was cancelled. *)
(***************************************************************************)
THEOREM PluginsFollow == ComponentsSpec => []PluginsFollowInventory
<1>1. ComponentsSpec => Manager!Spec
  BY ComponentsStart, ManagerSteps, PTL DEF ComponentsSpec, Manager!Spec
<1>2. Manager!Named
  BY DEF Manager!Named, Uses, Plugins
<1>3. Manager!Spec => []Manager!PluginsFollowInventory
  BY <1>2, Manager!PluginsFollow
<1>. QED  BY <1>1, <1>3, PTL DEF PluginsFollowInventory

(***************************************************************************)
(* The picture kept for an Event was asked for once its frame had arrived, *)
(* and belongs to no other Event, whichever fetches overlap and also when a *)
(* reload of the Device starts its tokens again.                           *)
(***************************************************************************)
THEOREM PicturesBelong == ComponentsSpec => []PictureBelongsToItsEvent
<1>1. ComponentsInit => Pictures!PictureInv
  BY ComponentsStart, PictureInit
<1>2. Pictures!PictureInv /\ [ComponentsNext]_componentVars => Pictures!PictureInv'
  BY PictureSteps, PictureNext
<1>3. Pictures!PictureInv => PictureBelongsToItsEvent
  BY DEF Pictures!PictureInv, PictureBelongsToItsEvent
<1>. QED  BY <1>1, <1>2, <1>3, PTL DEF ComponentsSpec

(***************************************************************************)
(* A snapshot answers the request it was taken for, however late it comes, *)
(* whatever fails and whoever stops the worker.                            *)
(***************************************************************************)
THEOREM SnapshotsAnswer == ComponentsSpec => []AnswersItsRequest
<1>1. ComponentsInit => Alarms!AlarmInv
  BY ComponentsStart, AlarmInit
<1>2. Alarms!AlarmInv /\ [ComponentsNext]_componentVars => Alarms!AlarmInv'
  BY AlarmSteps, AlarmNext
<1>3. Alarms!AlarmInv => AnswersItsRequest
  BY DEF Alarms!AlarmInv, AnswersItsRequest
<1>. QED  BY <1>1, <1>2, <1>3, PTL DEF ComponentsSpec

(***************************************************************************)
(* An alarm that was read and not preserved shows in the worker's status,  *)
(* provided that the subscription brings none before "ready" is written    *)
(* (with EarlyAlarms, reading that "ready" hides the loss).                *)
(***************************************************************************)
THEOREM LostAlarmsShow == ~EarlyAlarms => (ComponentsSpec => []LostAlarmShows)
<1>. SUFFICES ASSUME ~EarlyAlarms PROVE ComponentsSpec => []LostAlarmShows
  OBVIOUS
<1>1. ComponentsInit => Alarms!AlarmInv
  BY ComponentsStart, AlarmInit
<1>2. Alarms!AlarmInv /\ [ComponentsNext]_componentVars => Alarms!AlarmInv'
  BY AlarmSteps, AlarmNext
<1>3. Alarms!AlarmInv => LostAlarmShows
  BY DEF Alarms!AlarmInv, LostAlarmShows
<1>. QED  BY <1>1, <1>2, <1>3, PTL DEF ComponentsSpec

(***************************************************************************)
(* A notification is sent once, while notifications are on, and in the     *)
(* period in which its Episode was created, however requests, the bus and  *)
(* the worker interleave and wherever a restart falls.                     *)
(***************************************************************************)
THEOREM NotifiesPeriods == ComponentsSpec => NotifiesItsPeriod
<1>. DEFINE Kept == worker' = "posting" /\ worker # "posting" =>
                      webhookSubscribed /\ item.period = period /\ item.episode \notin sent
<1>1. ComponentsInit => Webhook!NotifyInv
  BY ComponentsStart, NotifyInit
<1>2. Webhook!NotifyInv /\ [ComponentsNext]_componentVars => Webhook!NotifyInv'
  BY WebhookSteps, NotifyNext
<1>3. Webhook!NotifyInv /\ [ComponentsNext]_componentVars => [Kept]_(Webhook!webhookVars)
  BY WebhookSteps, NotifyStep
<1>4. ComponentsSpec => [][Kept]_(Webhook!webhookVars)
  BY <1>1, <1>2, <1>3, PTL DEF ComponentsSpec
<1>. QED  BY <1>4, PTL DEF NotifiesItsPeriod, Webhook!NotifiesItsPeriod

(***************************************************************************)
(* A bundle published as a playable recording can be played to its end,    *)
(* whatever FFmpeg left behind and wherever a crash fell, provided the     *)
(* sink does not fail after it has committed the row (with LateFailures, a *)
(* resumed workspace is written on behind its published row).              *)
(***************************************************************************)
THEOREM PublishedPlay == ~LateFailures => (ComponentsSpec => []PublishedIsPlayable)
<1>. SUFFICES ASSUME ~LateFailures PROVE ComponentsSpec => []PublishedIsPlayable
  OBVIOUS
<1>1. ComponentsInit => Hls!WorkspaceInv
  BY ComponentsStart, HlsInit
<1>2. Hls!WorkspaceInv /\ [ComponentsNext]_componentVars => Hls!WorkspaceInv'
  BY HlsSteps, HlsNext
<1>3. Hls!WorkspaceInv => PublishedIsPlayable
  BY DEF Hls!WorkspaceInv, PublishedIsPlayable
<1>. QED  BY <1>1, <1>2, <1>3, PTL DEF ComponentsSpec

(***************************************************************************)
(* A capture pushes to the recorder only packets of its own preview,       *)
(* provided that none begins while the worker is stopped or is cancelled   *)
(* while it waits for "preview_stopped" (with Untimely, the packets and    *)
(* the notice of one capture are read during the next).                    *)
(***************************************************************************)
THEOREM PushesOwnPreview == ~Untimely => (ComponentsSpec => []PushesItsOwnPreview)
<1>. SUFFICES ASSUME ~Untimely PROVE ComponentsSpec => []PushesItsOwnPreview
  OBVIOUS
<1>1. ComponentsInit => Video!VideoInv
  BY ComponentsStart, VideoInit
<1>2. Video!VideoInv /\ [ComponentsNext]_componentVars => Video!VideoInv'
  BY VideoSteps, VideoNext
<1>3. Video!VideoInv => PushesItsOwnPreview
  BY DEF Video!VideoInv, Video!OwnInv, Video!Ours, Video!Ends, PushesItsOwnPreview,
         Video!PushesItsOwnPreview
<1>. QED  BY <1>1, <1>2, <1>3, PTL DEF ComponentsSpec

(***************************************************************************)
(* The recorder gets a Reolink camera's pictures as they were sent and in  *)
(* their order, or the capture counts dropped frames, for every length of  *)
(* the queues and every number of packets, bursts and lost connections.    *)
(***************************************************************************)
THEOREM DamageCounts == ComponentsSpec => []DamageIsCounted
<1>1. ComponentsSpec => Feed!Spec
  BY ComponentsStart, FeedSteps, PTL DEF ComponentsSpec, Feed!Spec
<1>2. Feed!Spec => []Feed!DamageIsCounted
  BY Feed!DamageCounted, FeedAssumption DEF Feed!Sized
<1>. QED  BY <1>1, <1>2, PTL DEF DamageIsCounted

(***************************************************************************)
(* The inductive invariants of ten components hold side by side, provided  *)
(* that no Hikvision capture begins or ends untimely.                      *)
(***************************************************************************)
THEOREM ComponentsInvariance == ~Untimely => (ComponentsSpec => []ComponentsInv)
<1>. SUFFICES ASSUME ~Untimely PROVE ComponentsSpec => []ComponentsInv
  OBVIOUS
<1>1. ComponentsSpec => []RecorderInv
  <2>1. ComponentsSpec => Spec
    BY ComponentsStart, RecorderSteps, PTL DEF ComponentsSpec, Spec
  <2>. QED  BY <2>1, RecorderInvariance, PTL
<1>2. ComponentsSpec => []Files!IndInv
  <2>1. ComponentsSpec => Files!Spec
    BY ComponentsStart, FilesSteps, PTL DEF ComponentsSpec, Files!Spec
  <2>2. Files!Spec => []Files!IndInv
    BY Files!Invariance DEF Files!Named, Files!Nobody
  <2>. QED  BY <2>1, <2>2, PTL
<1>3. ComponentsSpec => []Ingest!IndInv
  <2>1. ComponentsSpec => Ingest!Spec
    BY ComponentsStart, IngestSteps, PTL DEF ComponentsSpec, Ingest!Spec
  <2>. QED  BY <2>1, Ingest!Invariance, PTL
<1>4. ComponentsSpec => []Manager!IndInv
  <2>1. ComponentsSpec => Manager!Spec
    BY ComponentsStart, ManagerSteps, PTL DEF ComponentsSpec, Manager!Spec
  <2>2. Manager!Spec => []Manager!IndInv
    BY Manager!Invariance DEF Manager!Named, Uses, Plugins
  <2>. QED  BY <2>1, <2>2, PTL
<1>5. ComponentsSpec => []Hls!WorkspaceInv
  BY ComponentsStart, HlsSteps, HlsInit, HlsNext, PTL DEF ComponentsSpec
<1>6. ComponentsSpec => []Webhook!NotifyInv
  BY ComponentsStart, WebhookSteps, NotifyInit, NotifyNext, PTL DEF ComponentsSpec
<1>7. ComponentsSpec => []Pictures!PictureInv
  BY ComponentsStart, PictureSteps, PictureInit, PictureNext, PTL DEF ComponentsSpec
<1>8. ComponentsSpec => []Video!VideoInv
  BY ComponentsStart, VideoSteps, VideoInit, VideoNext, PTL DEF ComponentsSpec
<1>9. ComponentsSpec => []Alarms!AlarmInv
  BY ComponentsStart, AlarmSteps, AlarmInit, AlarmNext, PTL DEF ComponentsSpec
<1>10. ComponentsSpec => []Feed!FeedInv
  <2>1. ComponentsSpec => Feed!Spec
    BY ComponentsStart, FeedSteps, PTL DEF ComponentsSpec, Feed!Spec
  <2>2. Feed!Spec => []Feed!FeedInv
    BY Feed!FeedInvariance, FeedAssumption DEF Feed!Sized
  <2>. QED  BY <2>1, <2>2, PTL
<1>. QED
  BY <1>1, <1>2, <1>3, <1>4, <1>5, <1>6, <1>7, <1>8, <1>9, <1>10, PTL DEF ComponentsInv

=============================================================================
