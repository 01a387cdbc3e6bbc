--------------------------- MODULE HikvisionAlarms --------------------------
(***************************************************************************)
(* One Hikvision doorbell.  SDKDeviceWorker supervises a child that holds  *)
(* the HCNetSDK login: alarms come up its stdout and are preserved one     *)
(* after the other; snapshots are asked for on its stdin, by request id.   *)
(***************************************************************************)
EXTENDS Naturals, Sequences, FiniteSets

CONSTANTS
  MaxAlarms, MaxRequests, \* bound the alarms and the snapshot requests
  MaxFaults,              \* bounds failed deliveries, exits of the child and missed deadlines
  EarlyAlarms             \* whether the subscription may bring an alarm before "ready" is written

Requests == 1..MaxRequests

VARIABLES
  child,     \* "none", "starting", "subscribed", "up", "exited"
  commands,  \* request ids on its stdin
  messages,  \* on its stdout
  alarms,    \* alarms the Device has sent
  reader,    \* _read_messages: "none", "reading", "preserving" an alarm
  watch,     \* _watch_exit is waiting
  startup,   \* start(): "none", "pending", "resolved"
  status, stopping, stopper,
  request,   \* per snapshot request: "new", "waiting", "asked", "done"
  answer,    \* per request: the outcome of its future; [of, ok]
  lost,      \* alarms read and not preserved
  faults

child_    == <<child, commands, alarms>>
worker    == <<watch, startup, status, stopping, stopper>>
snapshots == <<request, answer>>
alarmVars == <<child_, messages, reader, worker, snapshots, lost, faults>>

Message(type, id) == [type |-> type, id |-> id]
Pending   == [of |-> 0, ok |-> FALSE]
Failed(r) == [of |-> r, ok |-> FALSE]
Alive     == child \in {"starting", "subscribed", "up"}
Stoppers  == {"start", "plugin"}

Init ==
  /\ child = "none" /\ commands = <<>> /\ messages = <<>> /\ alarms = 0
  /\ reader = "none" /\ watch = FALSE /\ startup = "none"
  /\ status = "starting" /\ stopping = FALSE /\ stopper = {}
  /\ request = [r \in Requests |-> "new"] /\ answer = [r \in Requests |-> Pending]
  /\ lost = 0 /\ faults = 0

Fault == faults < MaxFaults /\ faults' = faults + 1

-----------------------------------------------------------------------------
(***************************************************************************)
(* The child (worker.run): its main thread and the alarm callback.         *)
(***************************************************************************)
Writes(message) == messages' = Append(messages, message)

Subscribe ==
  /\ child = "starting"
  /\ \/ child' = "subscribed" /\ UNCHANGED <<messages, faults>>
     \/ child' = "exited" /\ Writes(Message("error", 0)) /\ Fault
  /\ UNCHANGED <<commands, alarms, reader, worker, snapshots, lost>>

Ready ==
  /\ child = "subscribed" /\ child' = "up" /\ Writes(Message("ready", 0))
  /\ UNCHANGED <<commands, alarms, reader, worker, snapshots, lost, faults>>

Alarm ==
  /\ child = "up" \/ (EarlyAlarms /\ child = "subscribed")
  /\ alarms < MaxAlarms /\ alarms' = alarms + 1 /\ Writes(Message("alarm", alarms'))
  /\ UNCHANGED <<child, commands, reader, worker, snapshots, lost, faults>>

TakePicture ==
  /\ child = "up" /\ commands # <<>> /\ commands' = Tail(commands)
  /\ \E type \in {"snapshot", "snapshot_error"} : Writes(Message(type, Head(commands)))
  /\ UNCHANGED <<child, alarms, reader, worker, snapshots, lost, faults>>

Exit ==
  /\ Alive
  /\ IF stopping THEN UNCHANGED faults ELSE Fault
  /\ child' = "exited" /\ commands' = <<>>
  /\ UNCHANGED <<alarms, messages, reader, worker, snapshots, lost>>

-----------------------------------------------------------------------------
(***************************************************************************)
(* Starting and stopping.                                                  *)
(***************************************************************************)
\* The requests whose future is in _snapshot_requests and not done.
Open == {r \in Requests : request[r] = "asked" /\ answer[r] = Pending}

FailRequests == answer' = [r \in Requests |-> IF r \in Open THEN Failed(r) ELSE answer[r]]

SetFailed == status' = "failed" /\ startup' = "resolved" /\ FailRequests

Start ==
  /\ startup = "none" /\ ~stopping
  /\ \/ /\ child' = "starting" /\ reader' = "reading" /\ watch' = TRUE /\ startup' = "pending"
        /\ UNCHANGED <<status, answer, faults>>
     \/ SetFailed /\ Fault /\ UNCHANGED <<child, reader, watch>>
  /\ UNCHANGED <<commands, alarms, messages, stopping, stopper, request, lost>>

StartupTimesOut ==
  /\ startup = "pending" /\ Fault /\ SetFailed
  /\ stopping' = TRUE /\ stopper' = stopper \union {"start"}
  /\ UNCHANGED <<child_, messages, reader, watch, request, lost>>

StopPlugin ==
  /\ status # "stopped" /\ stopping' = TRUE /\ stopper' = stopper \union {"plugin"}
  /\ UNCHANGED <<child_, messages, reader, watch, startup, status, snapshots, lost, faults>>

\* A delivery in progress is cancelled with the reader.
StopEnds(who) ==
  /\ who \in stopper /\ ~Alive
  /\ stopper' = stopper \ {who}
  /\ child' = "none" /\ messages' = <<>> /\ reader' = "none" /\ watch' = FALSE
  /\ FailRequests /\ startup' = "resolved"
  /\ status' = IF who = "plugin" THEN "stopped" ELSE status
  /\ UNCHANGED <<commands, alarms, stopping, request, lost, faults>>

WatchExit ==
  /\ watch /\ child = "exited" /\ watch' = FALSE
  /\ IF stopping \/ status = "failed" THEN UNCHANGED <<status, startup, answer>> ELSE SetFailed
  /\ UNCHANGED <<child_, messages, reader, stopping, stopper, request, lost, faults>>

-----------------------------------------------------------------------------
(***************************************************************************)
(* The reader.                                                             *)
(***************************************************************************)
FaultyAnswers(r, message) == r \in Open

\* _resolve_snapshot.
Answers(r, message) == r = message.id /\ r \in Open

Handle(message) ==
  \/ /\ message.type = "ready" /\ status' = "running" /\ startup' = "resolved"
     /\ UNCHANGED <<reader, answer>>
  \/ message.type = "error" /\ SetFailed /\ UNCHANGED reader
  \/ /\ message.type = "alarm" /\ reader' = "preserving"
     /\ UNCHANGED <<status, startup, answer>>
  \/ /\ message.type \in {"snapshot", "snapshot_error"}
     /\ answer' = [r \in Requests |-> IF Answers(r, message)
                                      THEN [of |-> message.id, ok |-> message.type = "snapshot"]
                                      ELSE answer[r]]
     /\ UNCHANGED <<reader, status, startup>>

Read ==
  /\ reader = "reading" /\ messages # <<>>
  /\ messages' = Tail(messages) /\ Handle(Head(messages))
  /\ UNCHANGED <<child_, watch, stopping, stopper, request, lost, faults>>

FaultyPreserve ==
  /\ reader = "preserving" /\ reader' = "reading"
  /\ \/ UNCHANGED <<lost, faults>>
     \/ lost' = lost + 1 /\ Fault
  /\ UNCHANGED <<child_, messages, worker, snapshots>>

\* _preserve_alarm, until the delivery sink has answered.
Preserve ==
  /\ reader = "preserving" /\ reader' = "reading"
  /\ \/ UNCHANGED <<status, startup, answer, lost, faults>>
     \/ lost' = lost + 1 /\ SetFailed /\ Fault
  /\ UNCHANGED <<child_, messages, watch, stopping, stopper, request>>

-----------------------------------------------------------------------------
(***************************************************************************)
(* capture_snapshot.                                                       *)
(***************************************************************************)
IsNext(r) ==
  request[r] = "new" /\ \A q \in Requests : request[q] # "asked" /\ (q < r => request[q] # "new")

Ask(r) ==
  /\ IsNext(r)
  /\ IF Alive /\ status = "running"
     THEN request' = [request EXCEPT ![r] = "asked"] /\ commands' = Append(commands, r)
          /\ UNCHANGED answer
     ELSE request' = [request EXCEPT ![r] = "done"] /\ answer' = [answer EXCEPT ![r] = Failed(r)]
          /\ UNCHANGED commands
  /\ UNCHANGED <<child, alarms, messages, reader, worker, lost, faults>>

\* The child is gone and the exit not yet seen: the write finds a broken pipe.
FindBrokenPipe(r) ==
  /\ IsNext(r) /\ child = "exited" /\ status = "running" /\ SetFailed
  /\ request' = [request EXCEPT ![r] = "done"]
  /\ UNCHANGED <<child_, messages, reader, watch, stopping, stopper, lost, faults>>

\* The caller has its picture or its error, or it has waited too long.
Return(r) ==
  /\ request[r] = "asked" /\ request' = [request EXCEPT ![r] = "done"]
  /\ IF answer[r] = Pending THEN Fault /\ answer' = [answer EXCEPT ![r] = Failed(r)]
     ELSE UNCHANGED <<answer, faults>>
  /\ UNCHANGED <<child_, messages, reader, worker, lost>>

Next ==
  \/ Subscribe \/ Ready \/ Alarm \/ TakePicture \/ Exit
  \/ Start \/ StartupTimesOut \/ StopPlugin \/ WatchExit \/ (\E who \in Stoppers : StopEnds(who))
  \/ Read \/ Preserve \/ (\E r \in Requests : Ask(r) \/ FindBrokenPipe(r) \/ Return(r))

Spec == Init /\ [][Next]_alarmVars

-----------------------------------------------------------------------------
\* A late answer to a request nobody waits for is never taken for the next one's
\* (_resolve_snapshot, request_id).
AnswersItsRequest == \A r \in Requests : answer[r].of \in {0, r}

\* An alarm that could not be preserved stays visible in the worker's status until the plugin is
\* stopped (_preserve_alarm), whatever is read, asked or timed out after it.
LostAlarmShows == lost > 0 => status \in {"failed", "stopped"}
-----------------------------------------------------------------------------
(***************************************************************************)
(* The inductive invariant behind them: once an alarm has been read, "ready" *)
(* has been read before it, and nothing will say it again.                 *)
(***************************************************************************)
Wrote(type) == \E k \in DOMAIN messages : messages[k].type = type

\* "ready" will not be read any more.
NoReady == child \notin {"starting", "subscribed"} /\ startup # "none" /\ ~Wrote("ready")

TypeOK ==
  /\ child \in {"none", "starting", "subscribed", "up", "exited"}
  /\ messages \in Seq([type : {"ready", "error", "alarm", "snapshot", "snapshot_error"}, id : Nat])
  /\ commands \in Seq(Requests) /\ alarms \in Nat /\ lost \in Nat
  /\ answer \in [Requests -> [of : Nat, ok : BOOLEAN]]
  /\ startup \in {"none", "pending", "resolved"}

ReadyInv ==
  /\ startup = "none" => child = "none" /\ messages = <<>> /\ reader = "none"
  /\ Wrote("ready") => child \notin {"starting", "subscribed"}
  /\ Wrote("alarm") => child \notin {"starting", "subscribed"}
  /\ \A k \in DOMAIN messages : messages[k].type = "ready" =>
       \A j \in DOMAIN messages : j # k => messages[j].type # "ready" /\ (j < k => messages[j].type # "alarm")
  /\ reader = "preserving" \/ lost > 0 => NoReady

AlarmInv == TypeOK /\ AnswersItsRequest /\ (~EarlyAlarms => ReadyInv /\ LostAlarmShows)
=============================================================================
