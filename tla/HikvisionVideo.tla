--------------------------- MODULE HikvisionVideo ---------------------------
(***************************************************************************)
(* Live video of one Hikvision Device.  HikvisionSDKVideoWorker supervises *)
(* a child process that holds the HCNetSDK login: commands go down its     *)
(* stdin, messages come up its stdout, one capture at a time opens a       *)
(* preview.  A packet and a preview carry the capture they were opened for.*)
(***************************************************************************)
EXTENDS Naturals, Sequences

CONSTANTS
  MaxCaptures, \* bounds the captures
  QueueSize,   \* VIDEO_QUEUE_PACKETS
  PipeSize,    \* bounds the messages the child has written and nobody read
  MaxFaults,   \* bounds invalid packets, crashes of the child, missed deadlines
  Untimely     \* whether a capture may begin while the worker is stopped, or be cancelled while
               \* it waits for preview_stopped

VARIABLES
  child,      \* "none", "starting", "up", "exited"
  preview,    \* of the child: the capture it is open for, 0 when there is none
  announced,  \* preview_started has been written
  commands,   \* on the child's stdin
  eof,        \* its stdin is closed
  messages,   \* on its stdout
  reader,     \* _read_messages: "none", "reading", "blocked" in put
  unput,      \* the item it is blocked with
  watch,      \* _watch_exit is waiting
  startup,    \* of start(): "none", "pending", "resolved"
  status, registered, stopping,
  stopper,    \* who is inside stop()
  capture,    \* the one that holds the lock, 0 when none does
  at,         \* how far it is
  queue, attached, \* its queue, and whether it is _video_queue
  started, stopped,\* its futures
  pushed,     \* the preview of the packet pushed last
  captures, faults

process    == <<child, preview, announced, eof>>
supervisor == <<watch, startup, status, registered, stopping, stopper>>
handler    == <<capture, at, started, stopped, pushed, captures>>
videoVars  == <<process, commands, messages, reader, unput, supervisor, handler, queue, attached,
                faults>>

Ends      == 0                       \* None, and any Exception, end a capture
Message(type, id) == [type |-> type, id |-> id]
Alive     == child \in {"starting", "up"}
Stoppers  == {"start", "capture", "plugin"}

Init ==
  /\ child = "none" /\ preview = 0 /\ announced = FALSE /\ eof = FALSE
  /\ commands = <<>> /\ messages = <<>> /\ reader = "none" /\ unput = Ends
  /\ watch = FALSE /\ startup = "none" /\ status = "starting"
  /\ registered = FALSE /\ stopping = FALSE /\ stopper = {}
  /\ capture = 0 /\ at = "idle" /\ started = "none" /\ stopped = "none"
  /\ pushed = 0 /\ captures = 0
  /\ queue = <<>> /\ attached = FALSE /\ faults = 0

Fault == faults < MaxFaults /\ faults' = faults + 1

-----------------------------------------------------------------------------
(***************************************************************************)
(* The child (video_worker).                                               *)
(***************************************************************************)
Writes(message) == Len(messages) < PipeSize /\ messages' = Append(messages, message)

Login ==
  /\ child = "starting"
  /\ \/ child' = "up" /\ Writes(Message("ready", 0)) /\ UNCHANGED faults
     \/ child' = "exited" /\ Writes(Message("login_error", 0)) /\ Fault
  /\ UNCHANGED <<preview, announced, eof, commands, reader, unput, supervisor, handler, queue, attached>>

\* A start while a preview is open and a stop while none is are ignored.
Obey ==
  /\ child = "up" /\ commands # <<>> /\ (preview # 0 => announced)
  /\ commands' = Tail(commands)
  /\ LET command == Head(commands) IN
     \/ /\ command.type = "start" /\ preview = 0
        /\ \/ preview' = command.id /\ announced' = FALSE /\ UNCHANGED <<messages, faults>>
           \/ Writes(Message("preview_error", 0)) /\ UNCHANGED <<preview, announced, faults>>
     \/ /\ command.type = "stop" /\ preview # 0
        /\ preview' = 0 /\ announced' = FALSE
        /\ Writes(Message("preview_stopped", 0)) /\ UNCHANGED faults
     \/ /\ command.type = "start" <=> preview # 0
        /\ UNCHANGED <<preview, announced, messages, faults>>
  /\ UNCHANGED <<child, eof, reader, unput, supervisor, handler, queue, attached>>

Announce ==
  /\ child = "up" /\ preview # 0 /\ ~announced
  /\ announced' = TRUE /\ Writes(Message("preview_started", 0))
  /\ UNCHANGED <<child, preview, eof, commands, reader, unput, supervisor, handler, queue, attached, faults>>

\* on_packet runs on a thread of the SDK from the moment its callback is set.
Packet ==
  /\ child = "up" /\ preview # 0
  /\ \/ Writes(Message("video", preview)) /\ UNCHANGED faults
     \/ Writes(Message("stream_error", 0)) /\ Fault
  /\ UNCHANGED <<process, commands, reader, unput, supervisor, handler, queue, attached>>

\* At EOF, or when stop() loses its patience, or of its own.
Exit ==
  /\ Alive
  /\ IF eof THEN UNCHANGED faults ELSE Fault
  /\ child' = "exited" /\ preview' = 0 /\ announced' = FALSE /\ commands' = <<>>
  /\ UNCHANGED <<eof, messages, reader, unput, supervisor, handler, queue, attached>>

-----------------------------------------------------------------------------
(***************************************************************************)
(* Starting and stopping the worker.                                       *)
(***************************************************************************)
\* A full queue refuses the terminal error.
FaultyEnqueueTerminal ==
  queue' = IF attached /\ Len(queue) < QueueSize THEN Append(queue, Ends) ELSE queue

\* _enqueue_terminal empties the queue first.
EnqueueTerminal == queue' = IF attached THEN <<Ends>> ELSE queue

SetFailed == status' = "failed" /\ startup' = "resolved"

Start ==
  /\ startup = "none" /\ ~stopping
  /\ \/ /\ child' = "starting" /\ reader' = "reading" /\ watch' = TRUE
        /\ startup' = "pending" /\ UNCHANGED <<status, faults>>
     \/ SetFailed /\ Fault /\ UNCHANGED <<child, reader, watch>>
  /\ UNCHANGED <<preview, announced, eof, commands, messages, unput, registered, stopping, stopper,
                 handler, queue, attached>>

StopBegins(who) ==
  /\ stopping' = TRUE /\ stopper' = stopper \union {who}
  /\ eof' = (eof \/ Alive) /\ EnqueueTerminal

StartupTimesOut ==
  /\ startup = "pending" /\ Fault /\ SetFailed /\ StopBegins("start")
  /\ UNCHANGED <<child, preview, announced, commands, messages, reader, unput, watch, registered,
                 handler, attached>>

StopPlugin ==
  /\ status # "stopped" /\ "plugin" \notin stopper /\ StopBegins("plugin")
  /\ UNCHANGED <<child, preview, announced, commands, messages, reader, unput, watch, startup, status,
                 registered, handler, attached, faults>>

StopEnds(who) ==
  /\ who \in stopper /\ ~Alive
  /\ stopper' = stopper \ {who}
  /\ child' = "none" /\ messages' = <<>> /\ reader' = "none" /\ unput' = Ends /\ watch' = FALSE
  /\ attached' = FALSE /\ registered' = FALSE
  /\ status' = IF who = "plugin" THEN "stopped" ELSE status
  /\ startup' = "resolved"
  /\ IF who = "capture" THEN at' = "idle" /\ capture' = 0 ELSE UNCHANGED <<at, capture>>
  /\ UNCHANGED <<preview, announced, eof, commands, stopping, started, stopped, pushed, captures,
                 queue, faults>>

WatchExit ==
  /\ watch /\ child = "exited" /\ watch' = FALSE
  /\ IF stopping THEN UNCHANGED <<registered, status, startup, queue>>
     ELSE /\ registered' = FALSE /\ EnqueueTerminal
          /\ IF status # "failed" THEN SetFailed ELSE UNCHANGED <<status, startup>>
  /\ UNCHANGED <<process, commands, messages, reader, unput, stopping, stopper, handler, attached, faults>>

-----------------------------------------------------------------------------
(***************************************************************************)
(* The reader.                                                             *)
(***************************************************************************)
\* A full queue blocks the reader in put.
Puts(item) ==
  IF ~attached THEN UNCHANGED <<queue, reader, unput>>
  ELSE IF Len(queue) < QueueSize
  THEN queue' = Append(queue, item) /\ UNCHANGED <<reader, unput>>
  ELSE reader' = "blocked" /\ unput' = item /\ UNCHANGED queue

Resolved(future, outcome) == IF future = "pending" THEN outcome ELSE future

HandleReady ==
  /\ status' = "running" /\ registered' = TRUE /\ startup' = "resolved"
  /\ UNCHANGED <<started, stopped, queue, reader, unput>>

HandleError(type) ==
  /\ UNCHANGED <<registered, stopped, reader, unput>>
  /\ IF type = "login_error" \/ startup = "pending"
     THEN SetFailed /\ UNCHANGED <<started, queue>>
     ELSE IF type = "preview_error"
     THEN started' = Resolved(started, "failed") /\ UNCHANGED <<status, startup, queue>>
     ELSE EnqueueTerminal /\ UNCHANGED <<status, startup, started>>

Handle(message) ==
  \/ message.type = "ready" /\ HandleReady
  \/ message.type \in {"login_error", "preview_error", "stream_error"} /\ HandleError(message.type)
  \/ /\ message.type = "video" /\ Puts(message.id)
     /\ UNCHANGED <<registered, status, startup, started, stopped>>
  \/ /\ message.type = "preview_started" /\ started' = Resolved(started, "set")
     /\ UNCHANGED <<registered, status, startup, stopped, queue, reader, unput>>
  \/ /\ message.type = "preview_stopped" /\ stopped' = Resolved(stopped, "set") /\ Puts(Ends)
     /\ UNCHANGED <<registered, status, startup, started>>

Read ==
  /\ reader = "reading" /\ messages # <<>>
  /\ messages' = Tail(messages) /\ Handle(Head(messages))
  /\ UNCHANGED <<process, commands, watch, stopping, stopper, capture, at, pushed, captures, attached,
                 faults>>

\* There is room again: the capture took an item, or a terminal error emptied the queue.
Unblock ==
  /\ reader = "blocked" /\ Len(queue) < QueueSize
  /\ reader' = "reading" /\ queue' = Append(queue, unput) /\ unput' = Ends
  /\ UNCHANGED <<process, commands, messages, supervisor, handler, attached, faults>>

-----------------------------------------------------------------------------
(***************************************************************************)
(* A capture: the video handler the recorder runs.                         *)
(***************************************************************************)
Sends(command) == commands' = IF eof THEN commands ELSE Append(commands, command)

Begin ==
  /\ capture = 0 /\ status # "starting" /\ Alive /\ captures < MaxCaptures
  /\ stopping => Untimely
  /\ captures' = captures + 1 /\ capture' = captures' /\ at' = "starting"
  /\ queue' = <<>> /\ attached' = TRUE /\ started' = "pending" /\ stopped' = "pending" /\ pushed' = 0
  /\ Sends(Message("start", captures'))
  /\ UNCHANGED <<process, messages, reader, unput, supervisor, faults>>

Started ==
  /\ at = "starting" /\ started = "set" /\ at' = "streaming"
  /\ UNCHANGED <<process, commands, messages, reader, unput, supervisor, capture, started, stopped,
                 pushed, captures, queue, attached, faults>>

Released == at' = "idle" /\ capture' = 0

\* The lock is released as soon as stop has been sent.
FaultyLeaves ==
  /\ attached' = FALSE /\ Released
  /\ commands' = IF stopping \/ ~Alive \/ eof THEN commands ELSE Append(commands, Message("stop", 0))

\* The finally clause: detach the queue, ask the child to stop.
Leaves ==
  /\ attached' = FALSE
  /\ IF stopping \/ ~Alive THEN Released /\ UNCHANGED commands
     ELSE at' = "stopping" /\ Sends(Message("stop", 0)) /\ UNCHANGED capture

Push ==
  /\ at = "streaming" /\ queue # <<>> /\ queue' = Tail(queue)
  /\ IF Head(queue) = Ends THEN Leaves /\ UNCHANGED pushed
     ELSE pushed' = Head(queue) /\ UNCHANGED <<at, capture, commands, attached>>
  /\ UNCHANGED <<process, messages, reader, unput, supervisor, started, stopped, captures, faults>>

\* The preview was refused, or did not start in time, or the recorder cancels the capture.
GiveUp ==
  /\ \/ at = "starting" /\ (IF started = "failed" THEN UNCHANGED faults ELSE Fault)
     \/ at = "streaming" /\ UNCHANGED faults
  /\ Leaves
  /\ UNCHANGED <<process, messages, reader, unput, supervisor, started, stopped, pushed, captures, queue>>

PreviewStopped ==
  /\ at = "stopping" /\ (stopped = "set" \/ Untimely) /\ Released
  /\ UNCHANGED <<process, commands, messages, reader, unput, supervisor, started, stopped, pushed,
                 captures, queue, attached, faults>>

\* preview_stopped never came: the worker is stopped, with its status preserved.
StopTimesOut ==
  /\ at = "stopping" /\ stopped # "set"
  /\ at' = "killing" /\ StopBegins("capture")
  /\ UNCHANGED <<child, preview, announced, commands, messages, reader, unput, watch, startup, status,
                 registered, capture, started, stopped, pushed, captures, attached, faults>>

Next ==
  \/ Login \/ Obey \/ Announce \/ Packet \/ Exit
  \/ Start \/ StartupTimesOut \/ StopPlugin \/ WatchExit \/ (\E who \in Stoppers : StopEnds(who))
  \/ Read \/ Unblock
  \/ Begin \/ Started \/ Push \/ GiveUp \/ PreviewStopped \/ StopTimesOut

Spec == Init /\ [][Next]_videoVars

FairSpec ==
  /\ Spec
  /\ WF_videoVars(Push) /\ WF_videoVars(PreviewStopped) /\ WF_videoVars(StopTimesOut)
  /\ WF_videoVars(WatchExit) /\ WF_videoVars(eof /\ Exit)
  /\ WF_videoVars(\E who \in Stoppers : StopEnds(who))

-----------------------------------------------------------------------------
\* What a capture pushes to the recorder was seen by its own preview: the messages of an
\* earlier one have all left the pipe before the lock is released (_stop_preview).
PushesItsOwnPreview == pushed \in {0, capture} \/ capture = 0

\* A recorder is never left waiting for a dead child: a terminal error reaches it past a full
\* queue and a reader blocked on it (_enqueue_terminal, _watch_exit, stop).
CaptureEnds == (at = "streaming" /\ ~Alive) ~> at # "streaming"

\* A worker reported as running has a child, or the watcher that will report its exit.
RunningMeansConnected == status = "running" => child # "none"

-----------------------------------------------------------------------------
(***************************************************************************)
(* Why a capture sees nothing of an earlier one: all there is belongs to   *)
(* the newest capture, and while the worker serves, the lock is free only  *)
(* when the child, the pipes and the reader have nothing left of it.       *)
(***************************************************************************)
Ours         == {Ends, captures}
CommandTypes == {"start", "stop"}
MessageTypes == {"ready", "login_error", "preview_error", "stream_error", "video", "preview_started",
                 "preview_stopped"}

OwnInv ==
  /\ captures \in Nat /\ capture \in Ours /\ preview \in Ours /\ unput \in Ours /\ pushed \in Ours
  /\ at \in {"idle", "starting", "streaming", "stopping", "killing"} /\ (capture = 0 <=> at = "idle")
  /\ queue \in Seq(Ours)
  /\ commands \in Seq([type : CommandTypes, id : Ours])
  /\ messages \in Seq([type : MessageTypes, id : Nat])
  /\ \A k \in DOMAIN messages : messages[k].type = "video" => messages[k].id = captures
  /\ reader # "blocked" => unput = Ends
  /\ startup = "none" => child = "none" /\ reader = "none" /\ at = "idle"
  /\ eof => stopping

\* Not stopped, and its child has not exited: a capture may still begin.
Serving == ~stopping /\ (startup = "none" \/ Alive)

OfPreview == {"video", "preview_stopped"}

Over ==
  /\ preview = 0 /\ commands = <<>> /\ reader # "blocked"
  /\ \A k \in DOMAIN messages : messages[k].type \notin OfPreview

\* While the capture runs nothing has asked for the preview's end.
UnderWay ==
  /\ stopped = "pending"
  /\ \A k \in DOMAIN commands : commands[k].type # "stop"
  /\ \A k \in DOMAIN messages : messages[k].type # "preview_stopped"

\* "stop" is the last command and "preview_stopped" the preview's last message.
Ending ==
  /\ ~attached
  /\ stopped = "set" => Over
  /\ \A k \in DOMAIN commands : commands[k].type = "stop" => k = Len(commands)
  /\ \A k \in DOMAIN messages : messages[k].type = "preview_stopped" =>
       /\ preview = 0 /\ commands = <<>>
       /\ \A j \in DOMAIN messages : j > k => messages[j].type \notin OfPreview

TurnInv ==
  Serving => /\ at # "killing"
             /\ at = "idle" => Over
             /\ at \in {"starting", "streaming"} => UnderWay
             /\ at = "stopping" => Ending

VideoInv == OwnInv /\ TurnInv
=============================================================================
