------------------------- MODULE RecordingLifecycle -------------------------
(***************************************************************************)
(* What the recorder promises about recordings, without its maps, leases,  *)
(* messages and barriers.  A recording is one workspace of one Episode and *)
(* Device, for good, and one task at a time has it in hand.  Capture       *)
(* begins for what was asked for while the Episode was open, and while it  *)
(* is open one task captures for a key.  What is kept is never lost again: *)
(* a workspace, its Evidence row, its seal, in this order, across crashes. *)
(* No Episode is CLOSED while a capture runs that began before it was      *)
(* sealed, unless the process is being stopped; one that began late may    *)
(* run on.                                                                 *)
(*   RecordingEngine implements this specification (RecordingEngineProofs).*)
(***************************************************************************)
CONSTANTS Episodes, Devices, Recordings

Keys == Episodes \X Devices

VARIABLES
  mode,      \* of the process: "starting" from its death until capture is resumed
  episode,   \* state of each Episode
  key,       \* Episode and Device of each recording
  task,      \* what a task does with it
  saved,     \* what outlives the process
  due,       \* Episodes and Devices capture was asked for, and may still begin
  late       \* recordings whose task began when the Episode was sealed already

vars == <<mode, episode, key, task, saved, due, late>>

TypeOK ==
  /\ mode \in {"starting", "serving", "stopping"}
  /\ episode \in [Episodes -> {"open", "finalizing", "closed"}]
  /\ key \in [Recordings -> Keys]
  /\ task \in [Recordings -> {"none", "capturing", "publishing"}]
  /\ saved \in [Recordings -> {"nothing", "workspace", "evidence", "sealed"}]
  /\ due \subseteq Keys /\ late \subseteq Recordings

Init ==
  /\ mode = "serving" /\ episode = [e \in Episodes |-> "open"]
  /\ key \in [Recordings -> Keys]
  /\ task = [r \in Recordings |-> "none"] /\ saved = [r \in Recordings |-> "nothing"]
  /\ due = {} /\ late = {}

EpisodeOf(r) == key[r][1]

\* Requests come while the Episode is open, and lapse.
Ask ==
  /\ due' \in SUBSET (due \union {k \in Keys : episode[k[1]] = "open"})
  /\ UNCHANGED <<mode, episode, key, task, saved, late>>

\* A new workspace, or one left behind is continued.
Begin(r, k) ==
  /\ mode # "stopping" /\ k \in due /\ task[r] = "none"
  /\ episode[k[1]] = "open" => \A s \in Recordings : ~(task[s] = "capturing" /\ key[s] = k)
  /\ saved[r] = "nothing" \/ key[r] = k
  /\ key' = [key EXCEPT ![r] = k]
  /\ task' = [task EXCEPT ![r] = "capturing"]
  /\ saved' = [saved EXCEPT ![r] = IF @ = "nothing" THEN "workspace" ELSE @]
  /\ late' = IF episode[k[1]] = "open" THEN late \ {r} ELSE late \union {r}
  /\ due' \in SUBSET due
  /\ UNCHANGED <<mode, episode>>

\* Capture ends: parked, left for the next start, dead, or to be published.
EndCapture(r) ==
  /\ task[r] = "capturing"
  /\ \E next \in {"none", "publishing"} : task' = [task EXCEPT ![r] = next]
  /\ UNCHANGED <<mode, episode, key, saved, due, late>>

\* The sink has it, from its task or a barrier.  Startup publishes
\* what an Event continued, a barrier what one continued late.
Persist(r) ==
  /\ saved[r] = "workspace" /\ episode[EpisodeOf(r)] # "closed"
  /\ task[r] = "capturing" => mode = "starting" \/ r \in late
  /\ saved' = [saved EXCEPT ![r] = "evidence"]
  /\ UNCHANGED <<mode, episode, key, task, due, late>>

\* Completed: by a barrier, or at once for all that startup finds persisted.
Seal(done) ==
  /\ \A r \in done : saved[r] \in {"evidence", "sealed"}
  /\ saved' = [r \in Recordings |-> IF r \in done THEN "sealed" ELSE saved[r]]
  /\ UNCHANGED <<mode, episode, key, task, due, late>>

\* The task that publishes completes, or fails and retains the workspace.
EndPublication(r) ==
  /\ task[r] = "publishing" /\ task' = [task EXCEPT ![r] = "none"]
  /\ \/ UNCHANGED saved
     \/ saved[r] \in {"evidence", "sealed"} /\ saved' = [saved EXCEPT ![r] = "sealed"]
  /\ UNCHANGED <<mode, episode, key, due, late>>

Expire(e) ==
  /\ episode[e] = "open" /\ episode' = [episode EXCEPT ![e] = "finalizing"]
  /\ UNCHANGED <<mode, key, task, saved, due, late>>

Close(e) ==
  /\ episode[e] = "finalizing" /\ episode' = [episode EXCEPT ![e] = "closed"]
  /\ mode = "stopping" \/ \A r \in Recordings \ late : ~(task[r] = "capturing" /\ EpisodeOf(r) = e)
  /\ UNCHANGED <<mode, key, task, saved, due, late>>

Shutdown ==
  /\ mode = "serving" /\ mode' = "stopping"
  /\ UNCHANGED <<episode, key, task, saved, due, late>>

Crash ==
  /\ mode' = "starting" /\ task' = [r \in Recordings |-> "none"]
  /\ due' = {} /\ late' = {}
  /\ UNCHANGED <<episode, key, saved>>

Resumed ==
  /\ mode = "starting" /\ mode' = "serving"
  /\ UNCHANGED <<episode, key, task, saved, due, late>>

Next ==
  \/ \E r \in Recordings :
       EndCapture(r) \/ Persist(r) \/ EndPublication(r) \/ \E k \in Keys : Begin(r, k)
  \/ \E done \in SUBSET Recordings : Seal(done)
  \/ \E e \in Episodes : Expire(e) \/ Close(e)
  \/ Ask \/ Shutdown \/ Crash \/ Resumed

Spec == Init /\ [][Next]_vars
=============================================================================
