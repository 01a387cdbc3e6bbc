------------------------------ MODULE Snapshots ------------------------------
(***************************************************************************)
(* Pictures for Events of one Reolink Device.  An event frame arms a fetch *)
(* before its delivery is processed; the snapshot action later takes that  *)
(* picture by its token, or makes a fetch of its own.  Current views fetch *)
(* from the same client, which captures one picture at a time.             *)
(***************************************************************************)
EXTENDS Naturals, Sequences

CONSTANTS
  MaxFrames,   \* bounds the event frames
  MaxFetches,  \* bounds the captures
  MaxReloads   \* bounds the reloads of the plugin

VARIABLES
  frames,      \* frames received so far
  frame,       \* the one whose delivery is processed, with its token; 0 when none is
  token,
  nextToken,   \* of the SnapshotSlot
  task,        \* the token of its fetch in flight, or NoToken
  content,     \* the picture it holds: its token and its fetch
  stale,       \* the deadline of task and content has passed
  fetch,       \* per fetcher: its capture and how far it is
  since,       \* the captures begun so far, by the frames received at that time
  registered,  \* the Device's media source is registered
  capture,     \* of the SnapshotEngine: the Event it photographs, 0 when none
  retryAfter,  \* a failure suppresses the next captures
  evidence,    \* pictures kept for Events
  reloads

slot    == <<nextToken, task, content, stale>>
device  == <<frames, frame, token, registered>>
action  == <<capture, retryAfter, evidence>>
snapshotVars == <<device, slot, fetch, since, action, reloads>>

Fetchers == {"slot", "event", "view"}
NoToken  == 0
NoFetch  == [id |-> 0, at |-> "none"]
Nothing  == [token |-> NoToken, fetch |-> 0]

Init ==
  /\ frames = 0 /\ frame = 0 /\ token = NoToken /\ registered = TRUE
  /\ nextToken = 1 /\ task = NoToken /\ content = Nothing /\ stale = FALSE
  /\ fetch = [f \in Fetchers |-> NoFetch] /\ since = <<>>
  /\ capture = 0 /\ retryAfter = FALSE /\ evidence = {} /\ reloads = 0

-----------------------------------------------------------------------------
\* get_snapshot: a capture waits for the client's snapshot lock.
Begins(f, at) ==
  /\ fetch[f] = NoFetch /\ Len(since) < MaxFetches
  /\ since' = Append(since, at)
  /\ fetch' = [fetch EXCEPT ![f] = [id |-> Len(since'), at |-> "waiting"]]

Locked == \E f \in Fetchers : fetch[f].at = "capturing"

Capture(f) ==
  /\ fetch[f].at = "waiting" /\ ~Locked
  /\ fetch' = [fetch EXCEPT ![f].at = "capturing"]
  /\ UNCHANGED <<device, slot, since, action, reloads>>

Ended(f) == fetch' = [fetch EXCEPT ![f] = NoFetch]

-----------------------------------------------------------------------------
\* _process_event_frame: SnapshotSlot.arm unless a fetch is in flight or the
\* interval has not passed, then the delivery.
Frame ==
  /\ registered /\ frame = 0 /\ frames < MaxFrames
  /\ frames' = frames + 1 /\ frame' = frames'
  /\ \/ /\ task = NoToken
        /\ Begins("slot", frames')
        /\ token' = nextToken /\ task' = nextToken /\ nextToken' = nextToken + 1
        /\ content' = Nothing /\ stale' = FALSE
     \/ token' = NoToken /\ UNCHANGED <<slot, fetch, since>>
  /\ UNCHANGED <<registered, action, reloads>>

\* SnapshotSlot._run, with what the capture returned.
Armed ==
  /\ fetch["slot"].at = "capturing"
  /\ task' = NoToken
  /\ \/ ~stale /\ content' = [token |-> task, fetch |-> fetch["slot"].id]
     \/ UNCHANGED content
  /\ Ended("slot")
  /\ UNCHANGED <<device, nextToken, stale, since, action, reloads>>

Age ==
  /\ ~stale /\ (task # NoToken \/ content # Nothing)
  /\ stale' = TRUE
  /\ UNCHANGED <<device, nextToken, task, content, fetch, since, action, reloads>>

FaultyServes == content # Nothing /\ ~stale

\* SnapshotSlot.consume.
Serves == content # Nothing /\ token # NoToken /\ token = content.token /\ ~stale

\* The delivery yields an Event to photograph: SnapshotEngine._on_event and the
\* first step of _capture, through MediaRegistry and _snapshot_fetcher.
Photograph ==
  /\ frame # 0 /\ registered /\ capture = 0 /\ ~retryAfter
  /\ capture' = frame /\ frame' = 0
  /\ IF Serves
     THEN /\ fetch' = [fetch EXCEPT !["event"] = [id |-> content.fetch, at |-> "served"]]
          /\ content' = Nothing
          /\ UNCHANGED since
     ELSE /\ Begins("event", frames)
          /\ content' = IF content # Nothing /\ token = content.token THEN Nothing ELSE content
  /\ UNCHANGED <<frames, token, registered, nextToken, task, stale, retryAfter, evidence, reloads>>

\* It yields none, an excluded or repeated one, or one that is suppressed.
Pass ==
  /\ frame # 0 /\ frame' = 0
  /\ UNCHANGED <<frames, token, registered, slot, fetch, since, action, reloads>>

\* The rest of _capture: the file is saved and the Evidence published, or nothing is.
Captured ==
  /\ fetch["event"].at \in {"capturing", "served"}
  /\ \/ evidence' = evidence \union {[frame |-> capture, fetch |-> fetch["event"].id]}
        /\ UNCHANGED retryAfter
     \/ retryAfter' = TRUE /\ UNCHANGED evidence
  /\ capture' = 0 /\ Ended("event")
  /\ UNCHANGED <<device, slot, since, reloads>>

CoolDown ==
  /\ retryAfter /\ retryAfter' = FALSE
  /\ UNCHANGED <<device, slot, fetch, since, capture, evidence, reloads>>

-----------------------------------------------------------------------------
\* CurrentViewService.fetch, under its lock per Device, when the cache is not fresh.
View ==
  /\ registered /\ fetch["view"] = NoFetch
  /\ Begins("view", frames)
  /\ UNCHANGED <<device, slot, action, reloads>>

Viewed ==
  /\ fetch["view"].at = "capturing"
  /\ Ended("view")
  /\ UNCHANGED <<device, slot, since, action, reloads>>

-----------------------------------------------------------------------------
\* Device stop: the slot and the event task are cancelled, captures fail.
Stop ==
  /\ registered /\ reloads < MaxReloads
  /\ registered' = FALSE /\ reloads' = reloads + 1
  /\ task' = NoToken /\ content' = Nothing /\ frame' = 0
  /\ fetch' = [f \in Fetchers |->
                 IF f = "event" /\ fetch[f].at = "served" THEN fetch[f] ELSE NoFetch]
  /\ IF fetch["event"].at \in {"waiting", "capturing"}
     THEN capture' = 0 /\ retryAfter' = TRUE
     ELSE UNCHANGED <<capture, retryAfter>>
  /\ UNCHANGED <<frames, token, nextToken, stale, since, evidence>>

\* A new connection object numbers its tokens from the start again.
Start ==
  /\ ~registered /\ registered' = TRUE
  /\ nextToken' = 1 /\ stale' = FALSE
  /\ UNCHANGED <<frames, frame, token, task, content, fetch, since, action, reloads>>

Next ==
  \/ \E f \in Fetchers : Capture(f)
  \/ Frame \/ Armed \/ Age \/ Photograph \/ Pass \/ Captured \/ CoolDown \/ View \/ Viewed
  \/ Stop \/ Start

Spec == Init /\ [][Next]_snapshotVars

-----------------------------------------------------------------------------
\* "The token binds the result to the observation that armed it; a later Event
\* cannot consume another Event's JPEG" (SnapshotSlot.arm): the picture kept for
\* an Event was asked for once its frame had arrived, and belongs to no other
\* Event, whichever fetches overlap, whichever Events take no picture, and also
\* when a reload of the Device starts its tokens again.
PictureBelongsToItsEvent ==
  \A e \in evidence :
    /\ since[e.fetch] >= e.frame
    /\ \A other \in evidence : other.fetch = e.fetch => other = e
-----------------------------------------------------------------------------
(***************************************************************************)
(* The inductive invariant behind it, in parts.                            *)
(***************************************************************************)
FetchOK  == [id : Nat, at : {"none", "waiting", "capturing", "served"}]

TypeOK ==
  /\ frames \in Nat /\ frame \in Nat /\ frame <= frames /\ token \in Nat
  /\ nextToken \in Nat \ {0} /\ task \in Nat /\ content \in [token : Nat, fetch : Nat]
  /\ stale \in BOOLEAN /\ registered \in BOOLEAN /\ retryAfter \in BOOLEAN
  /\ fetch \in [Fetchers -> FetchOK] /\ since \in Seq(Nat) /\ capture \in Nat
  /\ evidence \subseteq [frame : Nat, fetch : Nat]

\* A capture is used once: by a fetcher, by the slot's content, or by a kept picture.
UsedOnce ==
  /\ \A f \in Fetchers : fetch[f] = NoFetch \/ fetch[f].id \in 1..Len(since)
  /\ \A f \in Fetchers : \A g \in Fetchers :
       f # g /\ fetch[f] # NoFetch => fetch[f].id # fetch[g].id
  /\ content # Nothing =>
       content.fetch \in 1..Len(since) /\ \A f \in Fetchers : fetch[f].id # content.fetch
  /\ \A e \in evidence :
       /\ e.fetch \in 1..Len(since) /\ e.fetch # content.fetch
       /\ \A f \in Fetchers : fetch[f].id # e.fetch

\* The slot's fetch and content have tokens given out since the Device was started.
SlotInv ==
  /\ task # NoToken <=> fetch["slot"] # NoFetch
  /\ task < nextToken /\ content.token < nextToken
  /\ content.token = NoToken => content = Nothing
  /\ content # Nothing => task # content.token
  /\ ~registered => frame = 0 /\ task = NoToken /\ content = Nothing

\* What carries the token of the frame in hand was asked for after that frame.
TokenBinds ==
  frame # 0 /\ token # NoToken =>
    /\ token < nextToken
    /\ task = token => since[fetch["slot"].id] >= frame
    /\ content.token = token => since[content.fetch] >= frame

\* The Event being photographed waits for a picture asked for after it.
CaptureInv ==
  /\ fetch["event"].at = "none" => capture = 0
  /\ capture # 0 <=> fetch["event"] # NoFetch
  /\ capture # 0 => since[fetch["event"].id] >= capture

PictureInv == TypeOK /\ UsedOnce /\ SlotInv /\ TokenBinds /\ CaptureInv /\ PictureBelongsToItsEvent
=============================================================================
