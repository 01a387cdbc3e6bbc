---------------------------- MODULE EpisodeEngine ----------------------------
(***************************************************************************)
(* The Episode engine: it turns deliveries into canonical Events and       *)
(* Events into Episodes (engine/engine.py over storage/repository.py).     *)
(*                                                                         *)
(* Every SQLite commit of the correlation path is a step of its own, so    *)
(* that a crash, a failing write, a tick of the clock or another task may  *)
(* fall between any two of them.  Two kinds of asyncio lock order the      *)
(* tasks: one per Area, and one lifecycle lock for the whole engine.       *)
(* An Episode's finalization is two steps here; EpisodeFinalization has    *)
(* its detail.                                                             *)
(***************************************************************************)
EXTENDS Integers, FiniteSets

CONSTANTS
  Areas,
  Events,          \* canonical identities (deduplication keys)
  Deliveries,      \* raw deliveries; each is one run of ingest_event
  Episodes,        \* identities Episodes may be created with
  Startup,         \* the engine's own task during start()
  NoWorker, NoEpisode, NoDelivery, NoEvent,
  EventOf,         \* the canonical identity a delivery resolves to
  AreaOf,          \* the Area its Device is in when it is resolved
  StateOf,         \* the transition it reports: "active" or "inactive"
  StreamOf,        \* Device and Event type of an Event, for pairing
  TimestampOf,     \* source timestamp of an Event
  Decisions,       \* participation decisions a Capture profile may take
  Windows,         \* activity windows a Device may have
  Graces,          \* settling graces an operator may choose
  MaxTime, MaxCrashes, MaxFailures, MaxGraceChanges   \* bounds

Workers == Deliveries \union {Startup}
Kinds   == {"allowed", "filtered", "excluded", "inactive"}

ASSUME IdentityAssumption ==
  /\ Startup \notin Deliveries
  /\ NoWorker \notin Workers
  /\ NoEpisode \notin Episodes
  /\ NoDelivery \notin Deliveries
  /\ NoEvent \notin Events

ASSUME DeliveryAssumption ==
  /\ EventOf \in [Deliveries -> Events]
  /\ AreaOf \in [Deliveries -> Areas]
  /\ StateOf \in [Deliveries -> {"active", "inactive"}]
  /\ TimestampOf \in [Events -> Nat]

ASSUME SettingAssumption ==
  /\ Decisions \subseteq {"allowed", "filtered", "excluded"}
  /\ Windows \subseteq Nat \ {0}
  /\ Graces \subseteq Nat
  /\ MaxTime \in Nat
  /\ MaxCrashes \in Nat
  /\ MaxFailures \in Nat
  /\ MaxGraceChanges \in Nat

VARIABLES
  \* the environment
  now, phase, crashes, failures,
  \* the quiescent grace, the PUT request that changes it, and how often it ran
  grace, api, graceChanges,
  \* events table: participation, Episode, attachment, window, first delivery
  evKind, evEpisode, evAttach, evWindow, evOrigin,
  \* ingestion_receipts table: reception time, and whether it names its Event
  received, linked,
  \* episodes table
  epState, epArea, epStart, minEnd, lastActivity,
  \* engine memory: the deadline behind each capture lease
  deadline,
  \* tasks: program counter, locals, and the two kinds of lock
  pc, job, areaLock, lifecycleLock,
  \* history: actions dispatched per Event, episode.created per Episode
  dispatched, announced

environment == <<now, phase, crashes, failures>>
settings    == <<grace, api, graceChanges>>
eventRows   == <<evKind, evEpisode, evAttach, evWindow, evOrigin>>
receiptRows == <<received, linked>>
episodeRows == <<epState, epArea, epStart, minEnd, lastActivity>>
tasks       == <<pc, job, areaLock, lifecycleLock>>
history     == <<dispatched, announced>>
vars == <<environment, settings, eventRows, receiptRows, episodeRows, deadline, tasks, history>>

NoTime == -1
Never  == [ep \in Episodes |-> NoTime]

EpisodeState == {"none", "active", "quiescent", "finalizing", "closed"}
OpenStates   == {"active", "quiescent"}

\* Where a task is.  The Locked ones are inside "async with _lifecycle_lock".
Locked == {"first_event", "activity", "extend", "wake", "announce", "attachment"}
Steps  == Locked \union
          {"idle", "accepted", "canonicalize", "backfill", "link", "recover",
           "lifecycle", "leave", "publish", "scan", "done", "failed"}

Job == [event : Events \union {NoEvent}, at : Nat, episode : Episodes \union {NoEpisode},
        mode : {"new", "duplicate", "recovered"}, expired : BOOLEAN,
        via : {"none", "joined", "resumed", "opened"}]

IdleJob == [event |-> NoEvent, at |-> 0, episode |-> NoEpisode,
            mode |-> "duplicate", expired |-> FALSE, via |-> "none"]

EnvironmentOK ==
  /\ now \in Nat /\ crashes \in Nat /\ failures \in Nat
  /\ phase \in {"down", "recovering", "deferred", "running"}
  /\ grace \in Graces /\ api \in {"idle", "pass"} /\ graceChanges \in Nat

EventRowsOK ==
  /\ evKind \in [Events -> Kinds \union {"absent"}]
  /\ evEpisode \in [Events -> Episodes \union {NoEpisode}]
  /\ evAttach \in [Events -> {"pending", "attached", "no_open_episode"}]
  /\ evWindow \in [Events -> Nat]
  /\ evOrigin \in [Events -> Deliveries \union {NoDelivery}]

ReceiptRowsOK ==
  /\ received \in [Deliveries -> Int]
  /\ linked \in [Deliveries -> BOOLEAN]

EpisodeRowsOK ==
  /\ epState \in [Episodes -> EpisodeState]
  /\ epArea \in [Episodes -> Areas \union {"none"}]
  /\ epStart \in [Episodes -> Nat]
  /\ minEnd \in [Episodes -> Nat]
  /\ lastActivity \in [Episodes -> Nat]

TasksOK ==
  /\ pc \in [Workers -> Steps]
  /\ job \in [Workers -> Job]
  /\ areaLock \in [Areas -> Workers \union {NoWorker}]
  /\ lifecycleLock \in Workers \union {NoWorker}

MemoryOK ==
  /\ deadline \in [Episodes -> Int]
  /\ dispatched \in [Events -> Nat]
  /\ announced \in [Episodes -> Nat]

TypeOK == EnvironmentOK /\ EventRowsOK /\ ReceiptRowsOK /\ EpisodeRowsOK /\ TasksOK /\ MemoryOK

(***************************************************************************)
(* An installation starts empty, with the application down.                *)
(***************************************************************************)
Init ==
  /\ now = 0 /\ phase = "down" /\ crashes = 0 /\ failures = 0
  /\ grace \in Graces /\ api = "idle" /\ graceChanges = 0
  /\ evKind = [e \in Events |-> "absent"]
  /\ evEpisode = [e \in Events |-> NoEpisode]
  /\ evAttach = [e \in Events |-> "pending"]
  /\ evWindow = [e \in Events |-> 0]
  /\ evOrigin = [e \in Events |-> NoDelivery]
  /\ received = [d \in Deliveries |-> NoTime]
  /\ linked = [d \in Deliveries |-> FALSE]
  /\ epState = [ep \in Episodes |-> "none"]
  /\ epArea = [ep \in Episodes |-> "none"]
  /\ epStart = [ep \in Episodes |-> 0]
  /\ minEnd = [ep \in Episodes |-> 0]
  /\ lastActivity = [ep \in Episodes |-> 0]
  /\ deadline = Never
  /\ pc = [w \in Workers |-> "idle"]
  /\ job = [w \in Workers |-> IdleJob]
  /\ areaLock = [a \in Areas |-> NoWorker]
  /\ lifecycleLock = NoWorker
  /\ dispatched = [e \in Events |-> 0]
  /\ announced = [ep \in Episodes |-> 0]

-----------------------------------------------------------------------------
(***************************************************************************)
(* The queries.                                                            *)
(***************************************************************************)
Larger(a, b)  == IF a < b THEN b ELSE a
Earliest(S)   == {t \in S : \A u \in S : t <= u}
IsOpen(ep)    == epState[ep] \in OpenStates
MembersOf(ep) == {e \in Events : evEpisode[e] = ep}
RowArea(e)    == AreaOf[evOrigin[e]]
IsActiveRow(e) == evKind[e] \in {"allowed", "filtered", "excluded"}

\* Reception times of the receipts linked to an Event.
Ingress(e) == {received[d] : d \in {x \in Deliveries : linked[x] /\ EventOf[x] = e}}

\* Reception times of the Events that drive an Episode's capture.
DriverIngress(ep) == UNION {Ingress(e) : e \in {x \in MembersOf(ep) : evKind[x] = "allowed"}}

\* An active Event whose stored decision was never carried out.
Pending(e) ==
  /\ evEpisode[e] = NoEpisode
  /\ evKind[e] = "allowed" \/ (evKind[e] = "filtered" /\ evAttach[e] = "pending")

WithinHorizon(ep, at) == at <= minEnd[ep] + grace

\* find_open_episode_for_area, before ORDER BY ... LIMIT 1.
OpenAt(area, at, recovery) ==
  {ep \in Episodes :
     /\ IsOpen(ep) /\ epArea[ep] = area
     /\ WithinHorizon(ep, at)
     /\ recovery => \E t \in Earliest(DriverIngress(ep)) : t <= at}

MostRecent(S) == {ep \in S : \A other \in S : lastActivity[other] <= lastActivity[ep]}

\* find_empty_episode_for_recovery: the one shell a crash may have left for e.
EmptyShells(e) ==
  {ep \in Episodes :
     /\ IsOpen(ep) /\ epArea[ep] = RowArea(e)
     /\ epStart[ep] = TimestampOf[e] /\ MembersOf(ep) = {}}

FaultyNoShell(e, at) == {}

RecoverableShell(e, at) ==
  {ep \in EmptyShells(e) : EmptyShells(e) = {ep} /\ WithinHorizon(ep, at)}

\* The Episode a task correlates its active Event with; none: open a new one.
Targets(w) ==
  LET e        == job[w].event
      recovery == job[w].mode = "recovered"
      shell    == IF recovery THEN RecoverableShell(e, job[w].at) ELSE {}
  IN  IF shell # {} THEN shell ELSE MostRecent(OpenAt(RowArea(e), job[w].at, recovery))

\* The Episode a filtered Event is attributed to, if one is open.
ContextTargets(w) ==
  MostRecent(OpenAt(RowArea(job[w].event), job[w].at, job[w].mode = "recovered"))

\* find_preceding_event_transition: the latest earlier row of the same stream.
Preceding(e) ==
  LET earlier == {x \in Events \ {e} :
                    /\ evKind[x] # "absent" /\ StreamOf[x] = StreamOf[e]
                    /\ RowArea(x) = RowArea(e)
                    /\ TimestampOf[x] <= TimestampOf[e]}
  IN  {x \in earlier : \A y \in earlier : TimestampOf[y] <= TimestampOf[x]}

\* Faulty variants, here and below, are what the checks must tell from the code.
FaultyContributionOfReception(w) == job[w].at

Contribution(w) == job[w].at + evWindow[job[w].event]

-----------------------------------------------------------------------------
(***************************************************************************)
(* Moving a task, and the locks it holds.                                  *)
(***************************************************************************)
Move(w, from, to) == pc[w] = from /\ pc' = [pc EXCEPT ![w] = to]

FaultyKeepAreas(w) == areaLock' = areaLock

ReleaseAreas(w) == areaLock' = [a \in Areas |-> IF areaLock[a] = w THEN NoWorker ELSE areaLock[a]]

FaultyAbort(w) ==
  /\ pc' = [pc EXCEPT ![w] = "failed"]
  /\ job' = [job EXCEPT ![w] = IdleJob]
  /\ ReleaseAreas(w)
  /\ UNCHANGED lifecycleLock

\* A raised exception leaves both "async with" blocks.
Abort(w) ==
  /\ pc' = [pc EXCEPT ![w] = "failed"]
  /\ job' = [job EXCEPT ![w] = IdleJob]
  /\ ReleaseAreas(w)
  /\ lifecycleLock' = IF lifecycleLock = w THEN NoWorker ELSE lifecycleLock

\* The delivery is on disk and in ingestion_receipts before ingest_event runs.
Receive(d) ==
  /\ phase = "running"
  /\ Move(d, "idle", "accepted")
  /\ received' = [received EXCEPT ![d] = now]
  /\ job' = [job EXCEPT ![d] = [IdleJob EXCEPT !.event = EventOf[d], !.at = now]]
  /\ UNCHANGED <<environment, settings, eventRows, linked, episodeRows, deadline,
                 areaLock, lifecycleLock, history>>

\* The Device still needs setup: the receipt is kept, no Event is made.
RejectDraft(d) ==
  /\ Move(d, "accepted", "done")
  /\ job' = [job EXCEPT ![d] = IdleJob]
  /\ UNCHANGED <<environment, settings, eventRows, receiptRows, episodeRows, deadline,
                 areaLock, lifecycleLock, history>>

EnterArea(d) ==
  /\ Move(d, "accepted", "canonicalize")
  /\ areaLock[AreaOf[d]] = NoWorker
  /\ areaLock' = [areaLock EXCEPT ![AreaOf[d]] = d]
  /\ UNCHANGED <<environment, settings, eventRows, receiptRows, episodeRows, deadline,
                 job, lifecycleLock, history>>

\* The canonical row and the participation decision commit together.
CanonicalizeNew(d) ==
  LET e == EventOf[d] IN
  /\ Move(d, "canonicalize", "link")
  /\ evKind[e] = "absent"
  /\ \E kind \in IF StateOf[d] = "active" THEN Decisions ELSE {"inactive"} :
       /\ evKind' = [evKind EXCEPT ![e] = kind]
       /\ \E win \in IF kind = "allowed" THEN Windows ELSE {0} :
            evWindow' = [evWindow EXCEPT ![e] = win]
  /\ evOrigin' = [evOrigin EXCEPT ![e] = d]
  /\ job' = [job EXCEPT ![d].mode = "new"]
  /\ UNCHANGED <<environment, settings, evEpisode, evAttach, receiptRows, episodeRows, deadline,
                 areaLock, lifecycleLock, history>>

Conflicts(d) == (evKind[EventOf[d]] = "inactive") # (StateOf[d] = "inactive")

\* A duplicate of an unassigned active Event first backfills the receipt of
\* the delivery that created the row.
CanonicalizeDuplicate(d) ==
  LET e == EventOf[d] IN
  /\ Move(d, "canonicalize",
          IF IsActiveRow(e) /\ evEpisode[e] = NoEpisode THEN "backfill" ELSE "link")
  /\ evKind[e] # "absent" /\ ~Conflicts(d)
  /\ UNCHANGED <<environment, settings, eventRows, receiptRows, episodeRows, deadline,
                 job, areaLock, lifecycleLock, history>>

\* Same key, different transition: nothing is linked and nothing published.
RejectConflict(d) ==
  /\ Move(d, "canonicalize", "done")
  /\ evKind[EventOf[d]] # "absent" /\ Conflicts(d)
  /\ job' = [job EXCEPT ![d] = IdleJob]
  /\ ReleaseAreas(d)
  /\ UNCHANGED <<environment, settings, eventRows, receiptRows, episodeRows, deadline,
                 lifecycleLock, history>>

\* event_recovery_ingress_time: the first delivery is found by its exact path.
FaultyNoBackfill(e) == FALSE

NeedsBackfill(e) == Ingress(e) = {}

Backfilled(e) == IF NeedsBackfill(e) THEN [linked EXCEPT ![evOrigin[e]] = TRUE] ELSE linked

Backfill(d) ==
  /\ Move(d, "backfill", "link")
  /\ linked' = Backfilled(EventOf[d])
  /\ UNCHANGED <<environment, settings, eventRows, received, episodeRows, deadline,
                 job, areaLock, lifecycleLock, history>>

AfterLink(d) ==
  LET e == EventOf[d] IN
  IF job[d].mode = "new"
  THEN IF evKind[e] = "excluded" THEN "leave" ELSE "lifecycle"
  ELSE IF IsActiveRow(e) /\ evEpisode[e] = NoEpisode THEN "recover" ELSE "leave"

Link(d) ==
  /\ Move(d, "link", AfterLink(d))
  /\ linked' = [linked EXCEPT ![d] = TRUE]
  /\ UNCHANGED <<environment, settings, eventRows, received, episodeRows, deadline,
                 job, areaLock, lifecycleLock, history>>

\* _recover_unassigned_active_event, up to the lifecycle lock: the original
\* ingress time and the stored decision, never the time or policy of today.
Recover(w) ==
  LET e == job[w].event IN
  /\ pc[w] = "recover"
  /\ IF ~Pending(e)
     THEN Move(w, "recover", "leave") /\ UNCHANGED job
     ELSE /\ Move(w, "recover", "lifecycle")
          /\ \E t \in Earliest(Ingress(e)) :
               job' = [job EXCEPT ![w].mode = "recovered", ![w].at = t,
                                  ![w].expired = evKind[e] = "allowed" /\ t + evWindow[e] + grace < now]
  /\ UNCHANGED <<environment, settings, eventRows, receiptRows, episodeRows, deadline,
                 areaLock, lifecycleLock, history>>

-----------------------------------------------------------------------------
(***************************************************************************)
(* Under the lifecycle lock: _correlate and _attach_without_capture.       *)
(* Taking the lock, the queries and the first commit are one step: no      *)
(* other task can tell them apart.                                         *)
(***************************************************************************)
EnterLifecycle(w, to) ==
  /\ Move(w, "lifecycle", to)
  /\ lifecycleLock = NoWorker
  /\ lifecycleLock' = w

\* Another recovery finished while this one waited for the lock.
AlreadyRecovered(w) == job[w].mode = "recovered" /\ evEpisode[job[w].event] # NoEpisode

AbandonRecovery(w) ==
  /\ Move(w, "lifecycle", "leave")
  /\ lifecycleLock = NoWorker
  /\ AlreadyRecovered(w)
  /\ job' = [job EXCEPT ![w].mode = "duplicate"]
  /\ UNCHANGED <<environment, settings, eventRows, receiptRows, episodeRows, deadline,
                 areaLock, lifecycleLock, history>>

FaultyReassociation(e, ep) == IsOpen(ep)

\* add_event_to_episode: a silent return if the Event is there already, an
\* exception if it belongs elsewhere or the Episode is sealed.
MayAssociate(e, ep) == evEpisode[e] \in {NoEpisode, ep} /\ IsOpen(ep)

FaultyVia(ep) == "joined"

\* An Episode read as QUIESCENT is returned to ACTIVE at the end.
Via(ep) == IF epState[ep] = "quiescent" THEN "resumed" ELSE "joined"

\* _correlate with an Episode found: the Event is linked before anything else.
JoinEpisode(w) ==
  LET e == job[w].event IN
  /\ EnterLifecycle(w, "activity")
  /\ evKind[e] = "allowed" /\ ~AlreadyRecovered(w)
  /\ \E ep \in Targets(w) :
       /\ MayAssociate(e, ep)
       /\ evEpisode' = [evEpisode EXCEPT ![e] = ep]
       /\ job' = [job EXCEPT ![w].episode = ep, ![w].via = Via(ep)]
  /\ UNCHANGED <<environment, settings, evKind, evAttach, evWindow, evOrigin, receiptRows,
                 episodeRows, deadline, areaLock, history>>

\* _correlate with none found: create_episode commits an empty shell.
OpenEpisode(w) ==
  LET e == job[w].event IN
  /\ EnterLifecycle(w, "first_event")
  /\ evKind[e] = "allowed" /\ ~AlreadyRecovered(w)
  /\ Targets(w) = {}
  /\ \E ep \in Episodes :
       /\ epState[ep] = "none"
       /\ epState' = [epState EXCEPT ![ep] = "active"]
       /\ epArea' = [epArea EXCEPT ![ep] = RowArea(e)]
       /\ epStart' = [epStart EXCEPT ![ep] = TimestampOf[e]]
       /\ minEnd' = [minEnd EXCEPT ![ep] = Contribution(w)]
       /\ lastActivity' = [lastActivity EXCEPT ![ep] = job[w].at]
       /\ job' = [job EXCEPT ![w].episode = ep, ![w].via = "opened"]
  /\ UNCHANGED <<environment, settings, eventRows, receiptRows, deadline, areaLock, history>>

LinkFirstEvent(w) ==
  LET e == job[w].event IN
  /\ Move(w, "first_event", "activity")
  /\ MayAssociate(e, job[w].episode)
  /\ evEpisode' = [evEpisode EXCEPT ![e] = job[w].episode]
  /\ UNCHANGED <<environment, settings, evKind, evAttach, evWindow, evOrigin, receiptRows,
                 episodeRows, deadline, job, areaLock, lifecycleLock, history>>

Refused(w, ep) == ~MayAssociate(job[w].event, ep)

\* The Event was linked elsewhere meanwhile: add_event_to_episode raises.
RefuseAssociation(w) ==
  /\ \/ /\ pc[w] = "lifecycle" /\ lifecycleLock = NoWorker
        /\ ~AlreadyRecovered(w)
        /\ \/ evKind[job[w].event] = "allowed" /\ \E ep \in Targets(w) : Refused(w, ep)
           \/ evKind[job[w].event] = "filtered" /\ \E ep \in ContextTargets(w) : Refused(w, ep)
     \/ pc[w] = "first_event" /\ Refused(w, job[w].episode)
  /\ Abort(w)
  /\ UNCHANGED <<environment, settings, eventRows, receiptRows, episodeRows, deadline, history>>

\* update_episode_times: COALESCE takes the new activity time, even an older one.
RecordActivity(w) ==
  /\ Move(w, "activity", "extend")
  /\ lastActivity' = [lastActivity EXCEPT ![job[w].episode] = job[w].at]
  /\ UNCHANGED <<environment, settings, eventRows, receiptRows, epState, epArea, epStart, minEnd,
                 deadline, job, areaLock, lifecycleLock, history>>

FaultyLastContribution(ep, t) == t

Extended(ep, t) == Larger(minEnd[ep], t)

ExtendMinimumEnd(w) ==
  LET ep == job[w].episode IN
  /\ Move(w, "extend", IF job[w].via = "resumed" THEN "wake" ELSE "announce")
  /\ minEnd' = [minEnd EXCEPT ![ep] = Extended(ep, Contribution(w))]
  /\ UNCHANGED <<environment, settings, eventRows, receiptRows, epState, epArea, epStart,
                 lastActivity, deadline, job, areaLock, lifecycleLock, history>>

Wake(w) ==
  /\ Move(w, "wake", "announce")
  /\ epState' = [epState EXCEPT ![job[w].episode] = "active"]
  /\ UNCHANGED <<environment, settings, eventRows, receiptRows, epArea, epStart, minEnd,
                 lastActivity, deadline, job, areaLock, lifecycleLock, history>>

FaultyForgetful(ep, t)   == t
FaultyLeaseAsDeadline(ep, t) == Larger(deadline[ep], Larger(minEnd[ep], t)) + grace

\* _remember_episode_deadline: the lease follows the persisted deadline.
Remembered(ep, t) == Larger(deadline[ep], Larger(minEnd[ep], t))

Announces(w) == job[w].via = "opened" /\ ~job[w].expired

\* The last step of _correlate: memory, then the messages, then the lock.
Announce(w) ==
  LET ep == job[w].episode IN
  /\ Move(w, "announce", "leave")
  /\ deadline' = [deadline EXCEPT ![ep] = Remembered(ep, Contribution(w))]
  /\ announced' = IF Announces(w) THEN [announced EXCEPT ![ep] = @ + 1] ELSE announced
  /\ lifecycleLock' = NoWorker
  /\ UNCHANGED <<environment, settings, eventRows, receiptRows, episodeRows, job, areaLock,
                 dispatched>>

\* An inactive Event joins the mutable Episode of the transition it ends.
PrecedingEpisodes(e) ==
  {ep \in Episodes : IsOpen(ep) /\ \E x \in Preceding(e) : IsActiveRow(x) /\ evEpisode[x] = ep}

AttachInactive(w) ==
  LET e == job[w].event IN
  /\ Move(w, "lifecycle", "leave")
  /\ lifecycleLock = NoWorker
  /\ evKind[e] = "inactive"
  /\ IF PrecedingEpisodes(e) = {}
     THEN UNCHANGED evEpisode
     ELSE \E ep \in PrecedingEpisodes(e) :
            MayAssociate(e, ep) /\ evEpisode' = [evEpisode EXCEPT ![e] = ep]
  /\ UNCHANGED <<environment, settings, evKind, evAttach, evWindow, evOrigin, receiptRows,
                 episodeRows, deadline, job, areaLock, lifecycleLock, history>>

\* _attach_without_capture: link only, and only to an Episode already open.
AttachFiltered(w) ==
  LET e == job[w].event IN
  /\ EnterLifecycle(w, "attachment")
  /\ evKind[e] = "filtered" /\ ~AlreadyRecovered(w)
  /\ \E ep \in ContextTargets(w) :
       /\ MayAssociate(e, ep)
       /\ evEpisode' = [evEpisode EXCEPT ![e] = ep]
  /\ UNCHANGED <<environment, settings, evKind, evAttach, evWindow, evOrigin, receiptRows,
                 episodeRows, deadline, job, areaLock, history>>

RecordAttachment(w) ==
  /\ Move(w, "attachment", "leave")
  /\ evAttach' = [evAttach EXCEPT ![job[w].event] = "attached"]
  /\ lifecycleLock' = NoWorker
  /\ UNCHANGED <<environment, settings, evKind, evEpisode, evWindow, evOrigin, receiptRows,
                 episodeRows, deadline, job, areaLock, history>>

RecordNoOpenEpisode(w) ==
  LET e == job[w].event IN
  /\ Move(w, "lifecycle", "leave")
  /\ lifecycleLock = NoWorker
  /\ evKind[e] = "filtered" /\ ~AlreadyRecovered(w)
  /\ ContextTargets(w) = {}
  /\ evAttach' = [evAttach EXCEPT ![e] = "no_open_episode"]
  /\ UNCHANGED <<environment, settings, evKind, evEpisode, evWindow, evOrigin, receiptRows,
                 episodeRows, deadline, job, areaLock, lifecycleLock, history>>

LeaveArea(w) ==
  /\ Move(w, "leave", IF w = Startup THEN "scan" ELSE "publish")
  /\ ReleaseAreas(w)
  /\ job' = IF w = Startup THEN [job EXCEPT ![w] = IdleJob] ELSE job
  /\ UNCHANGED <<environment, settings, eventRows, receiptRows, episodeRows, deadline,
                 lifecycleLock, history>>

FaultyDispatch(d) == evKind[job[d].event] = "allowed" /\ evEpisode[job[d].event] # NoEpisode

\* A duplicate starts actions only when it carried out the missed correlation.
ShouldDispatch(d) ==
  /\ job[d].mode = "recovered" /\ ~job[d].expired
  /\ evKind[job[d].event] = "allowed" /\ evEpisode[job[d].event] # NoEpisode

\* event.canonicalized, published after both locks are released.
Publish(d) ==
  LET e == job[d].event IN
  /\ Move(d, "publish", "done")
  /\ dispatched' = IF job[d].mode = "new" \/ ShouldDispatch(d)
                   THEN [dispatched EXCEPT ![e] = @ + 1] ELSE dispatched
  /\ job' = [job EXCEPT ![d] = IdleJob]
  /\ UNCHANGED <<environment, settings, eventRows, receiptRows, episodeRows, deadline,
                 areaLock, lifecycleLock, announced>>

\* A repository call raised: its commit may or may not have been the last one
\* (this is the same as failing before the next), and ingest_event unwinds.
Fail(d) ==
  /\ failures < MaxFailures
  /\ pc[d] \notin {"idle", "accepted", "done", "failed"}
  /\ failures' = failures + 1
  /\ Abort(d)
  /\ UNCHANGED <<now, phase, crashes, settings, eventRows, receiptRows, episodeRows, deadline,
                 history>>

-----------------------------------------------------------------------------
(***************************************************************************)
(* The lifecycle pass, finalization and the grace setting.                 *)
(***************************************************************************)
FaultyEnterPass == TRUE

MayEnterPass == lifecycleLock = NoWorker

FaultyExpired(ep) == minEnd[ep] < now

Expired(ep)  == minEnd[ep] + grace < now
Quiesces(ep) == epState[ep] = "active" /\ minEnd[ep] <= now

\* transition_timed_out_episodes: one commit for every open Episode.
AfterPass ==
  [ep \in Episodes |->
     IF IsOpen(ep) /\ Expired(ep) THEN "finalizing"
     ELSE IF Quiesces(ep) THEN "quiescent"
     ELSE epState[ep]]

Pass ==
  /\ MayEnterPass
  /\ epState' = AfterPass
  /\ UNCHANGED <<epArea, epStart, minEnd, lastActivity>>

\* A turn of _timeout_loop.
TimeoutPass ==
  /\ phase \in {"deferred", "running"}
  /\ Pass
  /\ UNCHANGED <<environment, settings, eventRows, receiptRows, deadline, tasks, history>>

\* The pass hands a FINALIZING Episode on: its lease is dropped ...
BeginFinalization(ep) ==
  /\ phase = "running"
  /\ epState[ep] = "finalizing" /\ deadline[ep] # NoTime
  /\ deadline' = [deadline EXCEPT ![ep] = NoTime]
  /\ UNCHANGED <<environment, settings, eventRows, receiptRows, episodeRows, tasks, history>>

\* ... and once the finalizer succeeds mark_episode_closed commits.
CompleteFinalization(ep) ==
  /\ phase = "running"
  /\ epState[ep] = "finalizing" /\ deadline[ep] = NoTime
  /\ epState' = [epState EXCEPT ![ep] = "closed"]
  /\ UNCHANGED <<environment, settings, eventRows, receiptRows, epArea, epStart, minEnd,
                 lastActivity, deadline, tasks, history>>

\* set_quiescent_grace stores the value, then runs a pass of its own.
SetGrace(g) ==
  /\ phase = "running" /\ api = "idle" /\ graceChanges < MaxGraceChanges
  /\ grace' = g
  /\ api' = "pass"
  /\ graceChanges' = graceChanges + 1
  /\ UNCHANGED <<environment, eventRows, receiptRows, episodeRows, deadline, tasks, history>>

GracePass ==
  /\ phase = "running" /\ api = "pass"
  /\ Pass
  /\ api' = "idle"
  /\ UNCHANGED <<environment, grace, graceChanges, eventRows, receiptRows, deadline, tasks,
                 history>>

-----------------------------------------------------------------------------
(***************************************************************************)
(* Startup, crash, and time.                                               *)
(***************************************************************************)
\* _restore_episode_deadlines.
Restored == [ep \in Episodes |-> IF IsOpen(ep) THEN minEnd[ep] ELSE NoTime]

Boot ==
  /\ phase = "down"
  /\ phase' = "recovering"
  /\ deadline' = Restored
  /\ Move(Startup, "idle", "backfill")
  /\ UNCHANGED <<now, crashes, failures, settings, eventRows, receiptRows, episodeRows,
                 job, areaLock, lifecycleLock, history>>

\* First every pending Event gets its receipt back, so that the recovery
\* order below is the order of reception.
StartupBackfill ==
  LET lost == {e \in Events : Pending(e) /\ NeedsBackfill(e)} IN
  /\ phase = "recovering"
  /\ IF lost = {}
     THEN Move(Startup, "backfill", "scan") /\ UNCHANGED linked
     ELSE /\ pc[Startup] = "backfill" /\ UNCHANGED pc
          /\ \E e \in lost : linked' = Backfilled(e)
  /\ UNCHANGED <<environment, settings, eventRows, received, episodeRows, deadline,
                 job, areaLock, lifecycleLock, history>>

ReceivedNoLater(e, other) ==
  \E t \in Earliest(Ingress(e)) : \E u \in Earliest(Ingress(other)) : t <= u

StartupScan ==
  /\ phase = "recovering"
  /\ Move(Startup, "scan", "recover")
  /\ \E e \in Events :
       /\ Pending(e)
       /\ \A other \in Events : Pending(other) => ReceivedNoLater(e, other)
       /\ areaLock[RowArea(e)] = NoWorker
       /\ areaLock' = [areaLock EXCEPT ![RowArea(e)] = Startup]
       /\ job' = [job EXCEPT ![Startup] = [IdleJob EXCEPT !.event = e]]
  /\ UNCHANGED <<environment, settings, eventRows, receiptRows, episodeRows, deadline,
                 lifecycleLock, history>>

FaultyNothingPending == \A e \in Events : ~(Pending(e) /\ evKind[e] = "allowed")

NothingPending == \A e \in Events : ~Pending(e)

\* start() ends with a pass that leaves finalization to the recorder.
StartupPass ==
  /\ phase = "recovering"
  /\ NothingPending
  /\ Move(Startup, "scan", "idle")
  /\ Pass
  /\ phase' = "deferred"
  /\ UNCHANGED <<now, crashes, failures, settings, eventRows, receiptRows, deadline,
                 job, areaLock, lifecycleLock, history>>

\* complete_finalizing_episodes, once the recorder has recovered; the
\* connectors start after it.
CompleteStartup ==
  /\ phase = "deferred"
  /\ Pass
  /\ phase' = "running"
  /\ UNCHANGED <<now, crashes, failures, settings, eventRows, receiptRows, deadline,
                 tasks, history>>

\* The process stops between any two commits; memory and locks are gone.
Crash ==
  /\ phase # "down" /\ crashes < MaxCrashes
  /\ phase' = "down"
  /\ crashes' = crashes + 1
  /\ api' = "idle"
  /\ deadline' = Never
  /\ pc' = [w \in Workers |->
              IF w = Startup THEN "idle"
              ELSE IF pc[w] \in {"idle", "done"} THEN pc[w] ELSE "failed"]
  /\ job' = [w \in Workers |-> IdleJob]
  /\ areaLock' = [a \in Areas |-> NoWorker]
  /\ lifecycleLock' = NoWorker
  /\ UNCHANGED <<now, failures, grace, graceChanges, eventRows, receiptRows, episodeRows, history>>

Tick ==
  /\ now < MaxTime
  /\ now' = now + 1
  /\ UNCHANGED <<phase, crashes, failures, settings, eventRows, receiptRows, episodeRows,
                 deadline, tasks, history>>

DeliveryStep(d) ==
  \/ RejectDraft(d) \/ EnterArea(d)
  \/ CanonicalizeNew(d) \/ CanonicalizeDuplicate(d) \/ RejectConflict(d)
  \/ Backfill(d) \/ Link(d) \/ Publish(d)

CorrelationStep(w) ==
  \/ Recover(w) \/ AbandonRecovery(w)
  \/ JoinEpisode(w) \/ OpenEpisode(w) \/ LinkFirstEvent(w) \/ RefuseAssociation(w)
  \/ RecordActivity(w) \/ ExtendMinimumEnd(w) \/ Wake(w) \/ Announce(w)
  \/ AttachInactive(w) \/ AttachFiltered(w) \/ RecordAttachment(w) \/ RecordNoOpenEpisode(w)
  \/ LeaveArea(w)

StartupStep == Boot \/ StartupBackfill \/ StartupScan \/ StartupPass \/ CompleteStartup

Next ==
  \/ \E d \in Deliveries : Receive(d) \/ DeliveryStep(d) \/ Fail(d)
  \/ \E w \in Workers : CorrelationStep(w)
  \/ \E ep \in Episodes : BeginFinalization(ep) \/ CompleteFinalization(ep)
  \/ \E g \in Graces : SetGrace(g)
  \/ TimeoutPass \/ GracePass \/ StartupStep \/ Crash \/ Tick

Spec == Init /\ [][Next]_vars

(***************************************************************************)
(* Started tasks run on, the timeout loop turns, finalizers end, and a     *)
(* stopped process is started again.                                       *)
(***************************************************************************)
Fairness ==
  /\ \A d \in Deliveries : WF_vars(DeliveryStep(d))
  /\ \A w \in Workers : WF_vars(CorrelationStep(w))
  /\ \A ep \in Episodes : WF_vars(BeginFinalization(ep)) /\ WF_vars(CompleteFinalization(ep))
  /\ WF_vars(TimeoutPass) /\ WF_vars(GracePass) /\ WF_vars(StartupStep) /\ WF_vars(Tick)

FairSpec == Spec /\ Fairness
=============================================================================
