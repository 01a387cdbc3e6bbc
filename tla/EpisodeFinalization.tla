------------------------- MODULE EpisodeFinalization -------------------------
(***************************************************************************)
(* From FINALIZING to CLOSED: the lifecycle pass that finishes an Episode, *)
(* and the portable bundle (manifest.json, journal.ndjson) it leaves.      *)
(*                                                                         *)
(* EpisodeEngine has the deadlines; here an open Episode's deadline passes *)
(* whenever it likes, and ACTIVE and QUIESCENT are one "open".  What is    *)
(* detailed is everything after the lifecycle lock is released: several    *)
(* passes with their own lists, the finalizer, and the tasks that still    *)
(* refresh a manifest on behalf of an Event, a receipt or a recording.     *)
(***************************************************************************)
EXTENDS Integers, FiniteSets

CONSTANTS
  Episodes,
  Events, Receipts, Recordings,  \* what tasks add to a bundle, one task each
  Loop, Startup, Request,        \* the three tasks that run a lifecycle pass
  NoTask, NoEpisode,
  MaxTime, MaxCrashes, MaxFailures, MaxRequests   \* bounds

Writers == Events \union Receipts \union Recordings
Passes  == {Loop, Startup, Request}
Tasks   == Writers \union Passes

ASSUME TaskAssumption ==
  /\ Passes \intersect Writers = {}
  /\ Recordings \intersect (Events \union Receipts) = {} /\ Events \intersect Receipts = {}
  /\ NoTask \notin Tasks /\ NoEpisode \notin Episodes

ASSUME BoundAssumption == {MaxTime, MaxCrashes, MaxFailures, MaxRequests} \subseteq Nat

VARIABLES
  now, phase, crashes, failures, requests,
  dbState, dbEnd,       \* episodes table: state and end_time
  items,                \* rows associated with an Episode
  manifest, journal,    \* the bundle on disk
  finalizingIds,        \* engine memory: _finalizing_ids
  lifecycleLock, bundleLock,
  pc, job

environment == <<now, phase, crashes, failures, requests>>
rows   == <<dbState, dbEnd, items>>
bundle == <<manifest, journal>>
locks  == <<lifecycleLock, bundleLock>>
vars   == <<environment, rows, bundle, finalizingIds, locks, pc, job>>

NoTime == -1
Time   == 0 .. MaxTime
Document == [state : {"open", "finalizing", "closed"}, end : Time \union {NoTime}, items : SUBSET Writers]
Unread == [state |-> "open", end |-> NoTime, items |-> {}]

\* Steps from which a task goes on to another one after a manifest refresh.
Refreshing == {"refresh", "read", "write"}
Steps == Refreshing \union
         {"idle", "enter", "settle", "advance", "finalizer", "seal", "close", "commit",
          "unlock", "done", "failed"}

\* todo: the pass's own list; settled, entered: Episodes it has just moved to
\* QUIESCENT and to FINALIZING; after: where to go when the manifest is written;
\* closing: the refresh under way is the final one, with closed_at in "end".
Job == [todo : SUBSET Episodes, settled : SUBSET Episodes, entered : SUBSET Episodes,
        episode : Episodes \union {NoEpisode}, end : Time \union {NoTime},
        closing : BOOLEAN, snapshot : Document, after : Steps]

IdleJob == [todo |-> {}, settled |-> {}, entered |-> {},
            episode |-> NoEpisode, end |-> NoTime,
            closing |-> FALSE, snapshot |-> Unread, after |-> "idle"]

EnvironmentOK ==
  /\ now \in Time /\ phase \in {"down", "deferred", "running"}
  /\ crashes \in 0 .. MaxCrashes /\ failures \in 0 .. MaxFailures /\ requests \in 0 .. MaxRequests

RowsOK ==
  /\ dbState \in [Episodes -> {"open", "finalizing", "closed"}]
  /\ dbEnd \in [Episodes -> Time \union {NoTime}]
  /\ items \in [Episodes -> SUBSET Writers]

BundleOK ==
  /\ manifest \in [Episodes -> Document]
  /\ journal \in [Episodes -> SUBSET {"finalizing", "closed"}]

TasksOK ==
  /\ finalizingIds \subseteq Episodes
  /\ lifecycleLock \in Tasks \union {NoTask}
  /\ bundleLock \in [Episodes -> Tasks \union {NoTask}]
  /\ pc \in [Tasks -> Steps] /\ job \in [Tasks -> Job]

TypeOK == EnvironmentOK /\ RowsOK /\ BundleOK /\ TasksOK

\* Episodes an earlier run left open, each with the manifest of its creation.
Init ==
  /\ now = 0 /\ phase = "down" /\ crashes = 0 /\ failures = 0 /\ requests = 0
  /\ dbState = [ep \in Episodes |-> "open"]
  /\ dbEnd = [ep \in Episodes |-> NoTime]
  /\ items = [ep \in Episodes |-> {}]
  /\ manifest = [ep \in Episodes |-> Unread]
  /\ journal = [ep \in Episodes |-> {}]
  /\ finalizingIds = {}
  /\ lifecycleLock = NoTask
  /\ bundleLock = [ep \in Episodes |-> NoTask]
  /\ pc = [t \in Tasks |-> "idle"]
  /\ job = [t \in Tasks |-> IdleJob]

Move(t, from, to) == pc[t] = from /\ pc' = [pc EXCEPT ![t] = to]

\* Lock owners after task t has left every "async with" block it was in.
Freed(t) == [ep \in Episodes |-> IF bundleLock[ep] = t THEN NoTask ELSE bundleLock[ep]]
Left(t)  == IF lifecycleLock = t THEN NoTask ELSE lifecycleLock

-----------------------------------------------------------------------------
(***************************************************************************)
(* EpisodeBundleProjector.refresh: under a lock per Episode the state is   *)
(* read, then the rows page by page, then the file is replaced.            *)
(***************************************************************************)
StateRead(t) == IF job[t].closing THEN "closed" ELSE dbState[job[t].episode]

FaultyMayRefresh(ep) == TRUE

MayRefresh(ep) == bundleLock[ep] = NoTask

ReadState(t) ==
  LET ep == job[t].episode IN
  /\ Move(t, "refresh", "read")
  /\ MayRefresh(ep)
  /\ bundleLock' = [bundleLock EXCEPT ![ep] = t]
  /\ job' = [job EXCEPT ![t].snapshot =
               [state |-> StateRead(t),
                end |-> IF job[t].closing THEN job[t].end ELSE dbEnd[ep],
                items |-> {}]]
  /\ UNCHANGED <<environment, rows, bundle, finalizingIds, lifecycleLock>>

ReadItems(t) ==
  /\ Move(t, "read", "write")
  /\ job' = [job EXCEPT ![t].snapshot.items = items[job[t].episode]]
  /\ UNCHANGED <<environment, rows, bundle, finalizingIds, locks>>

WriteManifest(t) ==
  /\ Move(t, "write", job[t].after)
  /\ manifest' = [manifest EXCEPT ![job[t].episode] = job[t].snapshot]
  /\ bundleLock' = Freed(t)
  /\ UNCHANGED <<environment, rows, journal, finalizingIds, lifecycleLock, job>>

-----------------------------------------------------------------------------
(***************************************************************************)
(* Tasks that add to a bundle.                                             *)
(***************************************************************************)
\* job' of a task that is to refresh the manifest of ep and then go on.
RefreshThen(t, ep, step) ==
  job' = [job EXCEPT ![t].episode = ep, ![t].closing = FALSE, ![t].after = step]

\* An Event is linked under the lifecycle lock and only to an open Episode;
\* the manifest is refreshed after the locks (_finish_event_association).
AssociateEvent(t, ep) ==
  /\ t \in Events /\ phase = "running"
  /\ Move(t, "idle", "refresh")
  /\ lifecycleLock = NoTask /\ dbState[ep] = "open"
  /\ items' = [items EXCEPT ![ep] = @ \union {t}]
  /\ RefreshThen(t, ep, "done")
  /\ UNCHANGED <<environment, dbState, dbEnd, bundle, finalizingIds, locks>>

\* A duplicate delivery's receipt is linked to its Event's Episode whatever
\* state that Episode is in (link_ingestion_receipt).
LinkReceipt(t, ep) ==
  /\ t \in Receipts /\ phase = "running"
  /\ Move(t, "idle", "refresh")
  /\ items' = [items EXCEPT ![ep] = @ \union {t}]
  /\ RefreshThen(t, ep, "done")
  /\ UNCHANGED <<environment, dbState, dbEnd, bundle, finalizingIds, locks>>

\* A finished recording: the state is checked, then the row is linked, both
\* and the refresh under the lifecycle lock, which closing does not take.
CheckRecording(t, ep) ==
  /\ t \in Recordings /\ phase = "running"
  /\ lifecycleLock = NoTask
  /\ IF dbState[ep] = "closed"
     THEN Move(t, "idle", "done") /\ UNCHANGED <<lifecycleLock, job>>
     ELSE /\ Move(t, "idle", "commit")
          /\ lifecycleLock' = t
          /\ RefreshThen(t, ep, "unlock")
  /\ UNCHANGED <<environment, rows, bundle, finalizingIds, bundleLock>>

LinkRecording(t) ==
  /\ t \in Recordings
  /\ Move(t, "commit", "refresh")
  /\ items' = [items EXCEPT ![job[t].episode] = @ \union {t}]
  /\ UNCHANGED <<environment, dbState, dbEnd, bundle, finalizingIds, locks, job>>

Unlock(t) ==
  /\ Move(t, "unlock", "done")
  /\ lifecycleLock' = Left(t)
  /\ UNCHANGED <<environment, rows, bundle, finalizingIds, bundleLock, job>>

-----------------------------------------------------------------------------
(***************************************************************************)
(* A lifecycle pass (_close_timed_out_episodes), run by the timeout loop,  *)
(* by startup and by the request that changes the settling grace.          *)
(***************************************************************************)
RequestPass ==
  /\ phase = "running" /\ requests < MaxRequests
  /\ Move(Request, "idle", "enter")
  /\ requests' = requests + 1
  /\ UNCHANGED <<now, phase, crashes, failures, rows, bundle, finalizingIds, locks, job>>

\* complete_finalizing_episodes stops deferring, then runs a pass.
CompleteStartup ==
  /\ phase = "deferred"
  /\ Move(Startup, "idle", "enter")
  /\ phase' = "running"
  /\ UNCHANGED <<now, crashes, failures, requests, rows, bundle, finalizingIds, locks, job>>

\* transition_timed_out_episodes returns every FINALIZING row, not only the
\* ones this pass moved there.
WorkList(expired) == expired \union {ep \in Episodes : dbState[ep] = "finalizing"}

Open == {ep \in Episodes : dbState[ep] = "open"}

\* The loop turns by itself, the other two when they are asked to.
Ready(p) == IF p = Loop THEN "idle" ELSE "enter"

Transition(p) ==
  /\ p \in Passes /\ phase # "down"
  /\ Move(p, Ready(p), "settle")
  /\ lifecycleLock = NoTask
  /\ \E expired \in SUBSET Open : \E settled \in SUBSET (Open \ expired) :
       /\ settled \union WorkList(expired) # {}
       /\ dbState' = [ep \in Episodes |-> IF ep \in expired THEN "finalizing" ELSE dbState[ep]]
       /\ job' = [job EXCEPT ![p] = [IdleJob EXCEPT !.todo = WorkList(expired),
                                                   !.settled = settled, !.entered = expired]]
  /\ lifecycleLock' = p
  /\ UNCHANGED <<environment, dbEnd, items, bundle, finalizingIds, bundleLock>>

\* Nothing has expired and nothing is left FINALIZING.
NothingToDo(p) ==
  /\ p \in Passes \ {Loop} /\ phase # "down"
  /\ Move(p, Ready(p), "idle")
  /\ lifecycleLock = NoTask
  /\ WorkList({}) = {}
  /\ UNCHANGED <<environment, rows, bundle, finalizingIds, locks, job>>

\* Still under the lock, the manifests of newly QUIESCENT Episodes follow.
SettleNext(p) ==
  /\ Move(p, "settle", "refresh")
  /\ \E ep \in job[p].settled :
       job' = [job EXCEPT ![p].settled = @ \ {ep}, ![p].episode = ep, ![p].after = "settle"]
  /\ UNCHANGED <<environment, rows, bundle, finalizingIds, locks>>

\* Then the journals of the Episodes this pass moved to FINALIZING.
JournalFinalizing(p) ==
  /\ pc[p] = "settle" /\ job[p].settled = {} /\ job[p].entered # {}
  /\ journal' = [ep \in Episodes |->
                   IF ep \in job[p].entered THEN journal[ep] \union {"finalizing"} ELSE journal[ep]]
  /\ job' = [job EXCEPT ![p].entered = {}]
  /\ UNCHANGED <<environment, rows, manifest, finalizingIds, locks, pc>>

TransitionDone(p) == pc[p] = "settle" /\ job[p].settled = {} /\ job[p].entered = {}

\* Leaving the lock after QUIESCENT messages, other tasks run in between.
LeaveLock(p) ==
  /\ Move(p, "settle", "advance")
  /\ TransitionDone(p) /\ job[p].after = "settle"
  /\ lifecycleLock' = NoTask
  /\ UNCHANGED <<environment, rows, bundle, finalizingIds, bundleLock, job>>

\* A pass goes on to its next Episode in one go: from the lock when it had
\* nothing to publish, and from the "finally" of the Episode before.
MayAdvance(p) ==
  \/ pc[p] = "advance"
  \/ TransitionDone(p) /\ job[p].after = "idle"

FaultyReleased(p) == finalizingIds

Released(p) == finalizingIds \ {job[p].episode}

HeldByOthers(p) == IF pc[p] = "advance" /\ job[p].after = "seal" THEN Released(p) ELSE finalizingIds

FaultyMayClaim(p, ep) == TRUE

MayClaim(p, ep) == ep \notin HeldByOthers(p)

\* Episodes another pass finalizes now are skipped, the next other one is
\* claimed; its row is not read again since the list was made.
ClaimEpisode(p) ==
  /\ phase = "running" /\ MayAdvance(p)
  /\ pc' = [pc EXCEPT ![p] = "finalizer"]
  /\ \E ep \in job[p].todo : \E skipped \in SUBSET (job[p].todo \intersect HeldByOthers(p)) :
       /\ MayClaim(p, ep)
       /\ finalizingIds' = HeldByOthers(p) \union {ep}
       /\ job' = [job EXCEPT ![p] = [IdleJob EXCEPT !.todo = job[p].todo \ (skipped \union {ep}),
                                                   !.episode = ep, !.after = "seal"]]
  /\ lifecycleLock' = Left(p)
  /\ UNCHANGED <<environment, rows, bundle, bundleLock>>

\* The list is finished, or finalization waits for the recorder to recover.
EndPass(p) ==
  /\ MayAdvance(p)
  /\ phase = "deferred" \/ \A ep \in job[p].todo : ~MayClaim(p, ep)
  /\ pc' = [pc EXCEPT ![p] = "idle"]
  /\ finalizingIds' = HeldByOthers(p)
  /\ job' = [job EXCEPT ![p] = IdleJob]
  /\ lifecycleLock' = Left(p)
  /\ UNCHANGED <<environment, rows, bundle, bundleLock>>

ClosedAt == now

\* The recorder's barrier returned; closed_at is taken and the manifest that
\* says CLOSED is to be written.
FinalizerReturns(p) ==
  /\ Move(p, "finalizer", "refresh")
  /\ job' = [job EXCEPT ![p].end = ClosedAt, ![p].closing = TRUE]
  /\ UNCHANGED <<environment, rows, bundle, finalizingIds, locks>>

\* The row CLOSED already, mark_episode_closed returns at once.
FaultyStillFinalizing(ep) == TRUE

StillFinalizing(ep) == dbState[ep] = "finalizing"

AlreadyClosed(p) ==
  /\ Move(p, "seal", "advance")
  /\ ~StillFinalizing(job[p].episode)
  /\ UNCHANGED <<environment, rows, bundle, finalizingIds, locks, job>>

FaultyJournaled(ep) == journal[ep]

Journaled(ep) == journal[ep] \union {"closed"}

JournalClose(p) ==
  LET ep == job[p].episode IN
  /\ Move(p, "seal", "close")
  /\ StillFinalizing(ep)
  /\ journal' = [journal EXCEPT ![ep] = Journaled(ep)]
  /\ UNCHANGED <<environment, rows, manifest, finalizingIds, locks, job>>

\* A conditional UPDATE; the Episode stays claimed until CLOSED is published.
CommitClose(p) ==
  LET ep == job[p].episode IN
  /\ Move(p, "close", "advance")
  /\ IF StillFinalizing(ep)
     THEN /\ dbState' = [dbState EXCEPT ![ep] = "closed"]
          /\ dbEnd' = [dbEnd EXCEPT ![ep] = job[p].end]
     ELSE UNCHANGED <<dbState, dbEnd>>
  /\ UNCHANGED <<environment, items, bundle, finalizingIds, locks, job>>

-----------------------------------------------------------------------------
(***************************************************************************)
(* Failures, crash, restart, time.                                         *)
(***************************************************************************)
\* An exception while one Episode is finalized leaves it FINALIZING and the
\* pass goes on; anywhere else it ends the pass or the task.
Fail(t) ==
  /\ failures < MaxFailures
  /\ pc[t] \in Refreshing \union {"finalizer", "seal", "close", "commit"}
  /\ failures' = failures + 1
  /\ IF job[t].after = "seal"
     THEN pc' = [pc EXCEPT ![t] = "advance"] /\ UNCHANGED job
     ELSE /\ pc' = [pc EXCEPT ![t] = IF t \in Writers THEN "failed" ELSE "idle"]
          /\ job' = [job EXCEPT ![t] = IdleJob]
  /\ lifecycleLock' = Left(t) /\ bundleLock' = Freed(t)
  /\ UNCHANGED <<now, phase, crashes, requests, rows, bundle, finalizingIds>>

\* Startup rewrites the manifest of every unsealed Episode and of no other.
Unsealed == {ep \in Episodes : dbState[ep] # "closed"}

Boot ==
  /\ phase = "down"
  /\ phase' = "deferred"
  /\ manifest' = [ep \in Episodes |->
                    IF ep \in Unsealed
                    THEN [state |-> dbState[ep], end |-> dbEnd[ep], items |-> items[ep]]
                    ELSE manifest[ep]]
  /\ UNCHANGED <<now, crashes, failures, requests, rows, journal, finalizingIds, locks, pc, job>>

Crash ==
  /\ phase # "down" /\ crashes < MaxCrashes
  /\ phase' = "down"
  /\ crashes' = crashes + 1
  /\ finalizingIds' = {}
  /\ lifecycleLock' = NoTask
  /\ bundleLock' = [ep \in Episodes |-> NoTask]
  /\ pc' = [t \in Tasks |-> IF t \in Passes THEN "idle"
                            ELSE IF pc[t] \in {"idle", "done"} THEN pc[t] ELSE "failed"]
  /\ job' = [t \in Tasks |-> IdleJob]
  /\ UNCHANGED <<now, failures, requests, rows, bundle>>

Tick ==
  /\ now < MaxTime
  /\ now' = now + 1
  /\ UNCHANGED <<phase, crashes, failures, requests, rows, bundle, finalizingIds, locks, pc, job>>

Refresh(t) == ReadState(t) \/ ReadItems(t) \/ WriteManifest(t)

PassStep(p) ==
  \/ SettleNext(p) \/ JournalFinalizing(p) \/ LeaveLock(p) \/ EndPass(p) \/ ClaimEpisode(p)
  \/ FinalizerReturns(p) \/ AlreadyClosed(p) \/ JournalClose(p) \/ CommitClose(p)

WriterStep(t) == LinkRecording(t) \/ Unlock(t)

Next ==
  \/ \E t \in Writers, ep \in Episodes :
       AssociateEvent(t, ep) \/ LinkReceipt(t, ep) \/ CheckRecording(t, ep)
  \/ \E t \in Writers : WriterStep(t)
  \/ \E t \in Tasks : Refresh(t) \/ Fail(t)
  \/ \E p \in Passes : Transition(p) \/ NothingToDo(p) \/ PassStep(p)
  \/ RequestPass \/ CompleteStartup \/ Boot \/ Crash \/ Tick

Spec == Init /\ [][Next]_vars

(***************************************************************************)
(* Started tasks run on, the timeout loop keeps turning, and a stopped     *)
(* process is started again.                                               *)
(***************************************************************************)
Fairness ==
  /\ \A t \in Tasks : WF_vars(Refresh(t))
  /\ \A t \in Writers : WF_vars(WriterStep(t))
  /\ \A p \in Passes : WF_vars(PassStep(p)) /\ WF_vars(Transition(p))
  /\ WF_vars(CompleteStartup) /\ WF_vars(Boot)

FairSpec == Spec /\ Fairness
=============================================================================
