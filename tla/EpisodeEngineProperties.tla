----------------------- MODULE EpisodeEngineProperties -----------------------
(***************************************************************************)
(* What must hold of the Episode engine, and what its documentation says   *)
(* holds of it.                                                            *)
(***************************************************************************)
EXTENDS EpisodeEngine

(***************************************************************************)
(* The inductive invariant behind the proofs.  LockInv: a task is past the *)
(* lifecycle lock exactly when it holds it, and the Episode it writes to   *)
(* is open.  TaskInv: a task under way knows its Event, and correlates it  *)
(* only once the row exists.  ReceiptInv: an Event row names the delivery  *)
(* that created it, and a linked receipt has a reception time.             *)
(***************************************************************************)
Writing  == {"first_event", "activity", "extend", "wake", "announce"}
AtRest   == {"idle", "done", "failed"}
Correlating == {"recover", "lifecycle"} \union Locked

LockInv ==
  /\ \A w \in Workers : pc[w] \in Locked <=> lifecycleLock = w
  /\ \A w \in Workers : pc[w] \in Writing => job[w].episode \in Episodes /\ IsOpen(job[w].episode)

TaskInv ==
  /\ \A d \in Deliveries : pc[d] \notin AtRest => job[d].event = EventOf[d]
  /\ \A d \in Deliveries : pc[d] \in {"backfill", "link"} => evKind[EventOf[d]] # "absent"
  /\ \A w \in Workers : pc[w] \in Correlating => job[w].event \in Events /\ evKind[job[w].event] # "absent"

ReceiptInv ==
  /\ \A d \in Deliveries : pc[d] # "idle" \/ linked[d] => received[d] \in Nat
  /\ \A e \in Events : evKind[e] # "absent" => evOrigin[e] \in Deliveries
  /\ \A e \in Events : evOrigin[e] \in Deliveries => received[evOrigin[e]] \in Nat

IndInv == TypeOK /\ LockInv /\ TaskInv /\ ReceiptInv

\* No task is inside the lifecycle lock.
Settled == lifecycleLock = NoWorker

-----------------------------------------------------------------------------
(***************************************************************************)
(* What the proofs about time, pending Events and dispatch add to IndInv.  *)
(* Each part is an invariant of its own that relies on those before it.    *)
(***************************************************************************)
\* No step has failed and the process has not crashed.
Undisturbed == failures = 0 /\ crashes = 0

\* All deliveries of an Event resolve to one Area: its Device does not move.
Stationary == \A d, x \in Deliveries : EventOf[d] = EventOf[x] => AreaOf[d] = AreaOf[x]

\* Deliveries run only while the engine does, the startup task only before.
PhaseInv ==
  /\ phase # "running" => \A d \in Deliveries : pc[d] \in AtRest
  /\ phase # "recovering" => pc[Startup] = "idle"

\* An Event row names a delivery of that Event which has come, as does a linked
\* receipt.  A delivery that is processed as new created the row, and is
\* processed at the time it came.
LinkedHasRow ==
  \A d \in Deliveries :
    linked[d] \/ pc[d] \in {"leave", "publish"} => pc[d] # "idle" /\ evKind[EventOf[d]] # "absent"
RowHasOrigin == \A e \in Events : evKind[e] # "absent" => pc[evOrigin[e]] # "idle" /\ EventOf[evOrigin[e]] = e
NewOwnsRow ==
  \A d \in Deliveries : pc[d] \notin AtRest /\ job[d].mode = "new" =>
    evKind[EventOf[d]] # "absent" /\ evOrigin[EventOf[d]] = d
NewIsOnTime ==
  \A d \in Deliveries :
    pc[d] \in {"accepted", "canonicalize"} \/ (pc[d] \notin AtRest /\ job[d].mode = "new") =>
      job[d].at = received[d]
ModeFitsStep ==
  /\ job[Startup].mode # "new"
  /\ \A d \in Deliveries :
       /\ pc[d] \in {"accepted", "canonicalize", "backfill", "recover"} => job[d].mode = "duplicate"
       /\ pc[d] = "link" => job[d].mode # "recovered"
  /\ \A w \in Workers : pc[w] \in {"lifecycle"} \union Locked => job[w].mode \in {"new", "recovered"}

OriginInv == LinkedHasRow /\ RowHasOrigin /\ NewOwnsRow /\ NewIsOnTime /\ ModeFitsStep

\* Whoever correlates an active Event, or has, finds its first receipt linked;
\* the time it is correlated at lies between its first ingress and its first
\* delivery.
OriginLinked(e) == IsActiveRow(e) => linked[evOrigin[e]]

LinksIncludeOrigin == \A d \in Deliveries : linked[d] => OriginLinked(EventOf[d])
DuplicatesLinkLater ==
  \A d \in Deliveries : pc[d] = "link" /\ job[d].mode # "new" => OriginLinked(EventOf[d])
CorrelatesLinked == \A w \in Workers : pc[w] \in Correlating => OriginLinked(job[w].event)
AssociatedIsLinked ==
  \A e \in Events : evEpisode[e] # NoEpisode => evKind[e] # "absent" /\ OriginLinked(e)
CorrelatesBetween ==
  \A w \in Workers : pc[w] \in {"lifecycle"} \union Locked =>
    /\ job[w].at <= received[evOrigin[job[w].event]]
    /\ \E t \in Ingress(job[w].event) : t <= job[w].at

IngressInv ==
  LinksIncludeOrigin /\ DuplicatesLinkLater /\ CorrelatesLinked /\ AssociatedIsLinked /\ CorrelatesBetween

\* A task that is about to announce has persisted its contribution.
LeaseInv ==
  /\ \A ep \in Episodes : deadline[ep] # NoTime => epState[ep] # "none" /\ deadline[ep] <= minEnd[ep]
  /\ \A w \in Workers : pc[w] \in {"wake", "announce"} => Contribution(w) <= minEnd[job[w].episode]

\* Only an Episode that was joined in quiescence is still quiescent under the
\* lock, and its task wakes it after it has extended it.
AwakeUnlessResumed ==
  /\ \A w \in Workers : pc[w] = "first_event" => job[w].via = "opened"
  /\ \A w \in Workers : pc[w] \in {"first_event", "activity", "extend"} /\ job[w].via # "resumed" =>
       epState[job[w].episode] = "active"
  /\ \A w \in Workers : pc[w] = "announce" => epState[job[w].episode] = "active"
ElapsedUnlessWoken ==
  Undisturbed => \A ep \in Episodes : epState[ep] = "quiescent" =>
    minEnd[ep] <= now \/ \E w \in Workers : pc[w] = "wake" /\ job[w].episode = ep

QuiescenceInv == AwakeUnlessResumed /\ ElapsedUnlessWoken

\* The Episode of an allowed Event covers it, or a task is about to see to that.
Covered(e) == \E t \in Earliest(Ingress(e)) : minEnd[evEpisode[e]] >= t + evWindow[e]

MembersExist == \A e \in Events : evEpisode[e] # NoEpisode => epState[evEpisode[e]] # "none"
CoveredUnlessExtended ==
  Undisturbed => \A e \in Events : evKind[e] = "allowed" /\ evEpisode[e] # NoEpisode =>
    \/ Covered(e)
    \/ \E w \in Workers : /\ pc[w] \in {"activity", "extend"}
                          /\ job[w].event = e /\ job[w].episode = evEpisode[e]

DriverInv == MembersExist /\ CoveredUnlessExtended

\* A pending Event has a delivery of its own that has yet to correlate it.
PendingInv ==
  failures = 0 /\ phase \in {"deferred", "running"} =>
    \A e \in Events : Pending(e) =>
      \E d \in Deliveries :
        /\ EventOf[d] = e /\ pc[d] \in {"link", "lifecycle", "first_event"}
        /\ pc[d] = "link" => job[d].mode = "new"

\* What holds however Devices move.
CorrelationInv ==
  PhaseInv /\ OriginInv /\ IngressInv /\ LeaseInv /\ QuiescenceInv /\ DriverInv /\ PendingInv

\* A task in its Area holds the Area's lock.  So no other task has its Event,
\* if the Event's Device does not move, and the Event it has created is its own
\* to associate.
InArea == {"canonicalize", "backfill", "link", "leave"} \union Correlating

DeliveriesHoldArea == \A d \in Deliveries : pc[d] \in InArea => areaLock[AreaOf[d]] = d
StartupHoldsArea ==
  pc[Startup] \in InArea \ {"backfill"} =>
    /\ job[Startup].event \in Events /\ evKind[job[Startup].event] # "absent"
    /\ areaLock[RowArea(job[Startup].event)] = Startup

AreaInv == DeliveriesHoldArea /\ StartupHoldsArea

AssociationInv ==
  \A w \in Workers :
    \/ pc[w] \in {"link", "lifecycle"} /\ job[w].mode = "new"
    \/ pc[w] = "first_event"
    => evEpisode[job[w].event] = NoEpisode

\* Every lease is the deadline on disk, but for the Episode a task writes to.
MemoryInv ==
  failures = 0 /\ phase # "down" =>
    \A ep \in Episodes : IsOpen(ep) =>
      deadline[ep] = minEnd[ep] \/ \E w \in Workers : pc[w] \in Writing /\ job[w].episode = ep

\* The tasks that will start the actions of an Event, unless they fail.
Dispatcher(d, e) ==
  /\ pc[d] \notin AtRest /\ job[d].event = e
  /\ \/ job[d].mode = "new"
     \/ /\ job[d].mode = "recovered" /\ ~job[d].expired /\ evKind[e] = "allowed"
        /\ pc[d] \in {"lifecycle", "leave", "publish"} \union Locked

\* Only one of them is left, and none once actions have been dispatched.
DispatchedOnce ==
  \A e \in Events :
    /\ dispatched[e] <= 1
    /\ dispatched[e] = 1 => evKind[e] # "absent" /\ \A d \in Deliveries : ~Dispatcher(d, e)
    /\ dispatched[e] = 1 /\ evKind[e] = "allowed" => evEpisode[e] # NoEpisode
OneDispatcher == \A d, x \in Deliveries : \A e \in Events : Dispatcher(d, e) /\ Dispatcher(x, e) => d = x
DispatchesAssociated ==
  \A d \in Deliveries, e \in Events :
    Dispatcher(d, e) /\ evKind[e] = "allowed" /\ pc[d] \notin {"link", "lifecycle", "first_event"} =>
      evEpisode[e] # NoEpisode

DispatchInv == DispatchedOnce /\ OneDispatcher /\ DispatchesAssociated

\* Recovery takes the pending Events in the order they came, each at the time
\* it came.
RecoveryOrder ==
  \A e \in Events : job[Startup].event = e =>
    /\ pc[Startup] \in {"recover", "lifecycle"} =>
         \A other \in Events : Pending(other) => ReceivedNoLater(e, other)
    /\ pc[Startup] = "lifecycle" =>
         job[Startup].mode = "recovered" /\ job[Startup].at \in Earliest(Ingress(e))

\* An Episode without an allowed Event, and the pending Event it was created
\* for: recovery finds it again by Area, start and horizon.
Shell(ep) == epState[ep] # "none" /\ \A e \in MembersOf(ep) : evKind[e] # "allowed"
CreatedFor(ep, e) ==
  /\ evKind[e] = "allowed" /\ evEpisode[e] = NoEpisode
  /\ RowArea(e) = epArea[ep] /\ TimestampOf[e] = epStart[ep]
  /\ \E t \in Ingress(e) : t <= minEnd[ep]

\* Shells have a task that is about to link their first Event, or a crash left
\* them for recovery, and no two of them can be taken for one another.
FirstEventFits ==
  \A w \in Workers, ep \in Episodes, e \in Events :
    pc[w] = "first_event" /\ job[w].episode = ep /\ job[w].event = e =>
      CreatedFor(ep, e) /\ MembersOf(ep) = {}
Recoverable(ep) == IsOpen(ep) /\ MembersOf(ep) = {} /\ \E e \in Events : CreatedFor(ep, e)
ShellsAreFound ==
  failures = 0 => \A ep \in Episodes : Shell(ep) =>
    \/ \E w \in Workers : pc[w] = "first_event" /\ job[w].episode = ep
    \/ phase \in {"down", "recovering"} /\ Recoverable(ep)
ShellsDiffer ==
  failures = 0 => \A ep, other \in Episodes :
    Shell(ep) /\ Shell(other) /\ epArea[ep] = epArea[other] /\ epStart[ep] = epStart[other] => ep = other

ShellInv == RecoveryOrder /\ FirstEventFits /\ ShellsAreFound /\ ShellsDiffer

\* What holds as long as Devices stay in their Areas.
StationaryInv == AreaInv /\ AssociationInv /\ MemoryInv /\ DispatchInv /\ ShellInv

(***************************************************************************)
(* The inductive invariant of the engine: the lifecycle lock serializes    *)
(* its tasks, and between its commits, crashes and failures every delivery *)
(* leaves rows from which duplicates and recovery can finish its work.     *)
(***************************************************************************)
EngineInv == IndInv /\ CorrelationInv /\ (Stationary => StationaryInv)

-----------------------------------------------------------------------------
(***************************************************************************)
(* A sealed Episode is final: once FINALIZING it gains no Event, its       *)
(* deadline stands, and the only state left to it is CLOSED.  The close    *)
(* pass and five commits of a correlation meet at the lifecycle lock.      *)
(***************************************************************************)
SealedIsFinal ==
  [][\A ep \in Episodes :
       epState[ep] \in {"finalizing", "closed"} =>
         /\ epState'[ep] \in {epState[ep], "closed"}
         /\ minEnd'[ep] = minEnd[ep] /\ lastActivity'[ep] = lastActivity[ep]
         /\ \A e \in Events : (evEpisode'[e] = ep) <=> (evEpisode[e] = ep)]_vars

(***************************************************************************)
(* An Event belongs to one Episode for good, also when two deliveries of   *)
(* it hold the locks of different Areas because its Device moved.          *)
(***************************************************************************)
AssociationIsPermanent ==
  [][\A e \in Events : evEpisode[e] # NoEpisode => evEpisode'[e] = evEpisode[e]]_vars

(***************************************************************************)
(* "The Episode persists the greatest contributed deadline, so later       *)
(* Events may extend it but cannot shorten it": whatever order deliveries  *)
(* are processed in, minimum_end_at of an Episode never moves back.        *)
(***************************************************************************)
DeadlineNeverShrinks ==
  [][\A ep \in Episodes : epState[ep] # "none" => minEnd'[ep] >= minEnd[ep]]_vars

(***************************************************************************)
(* "Every active Event contributes a minimum deadline": outside the        *)
(* lifecycle lock an Episode lasts at least one activity window beyond the *)
(* first reception of every Event that drives it, until a step fails or    *)
(* the process crashes between the association and the deadline.           *)
(***************************************************************************)
EveryDriverContributes ==
  Settled /\ Undisturbed =>
    \A e \in Events :
      evKind[e] = "allowed" /\ evEpisode[e] # NoEpisode =>
        \E t \in Earliest(Ingress(e)) : minEnd[evEpisode[e]] >= t + evWindow[e]

(***************************************************************************)
(* The lease the recorder enforces without a database read is the          *)
(* persisted deadline: in memory and on disk they agree for every open     *)
(* Episode whenever no task is between the two, across crashes and until a *)
(* task fails between the two.                                             *)
(***************************************************************************)
LeaseMatchesDeadline ==
  Settled /\ failures = 0 /\ phase # "down" =>
    \A ep \in Episodes : IsOpen(ep) => deadline[ep] = minEnd[ep]

(***************************************************************************)
(* Whatever step failed or crashed, a lease never outlives the persisted   *)
(* deadline: a recorder does not run on beyond its Episode.                *)
(***************************************************************************)
LeaseNeverOutlivesDeadline ==
  \A ep \in Episodes : deadline[ep] # NoTime => epState[ep] # "none" /\ deadline[ep] <= minEnd[ep]

(***************************************************************************)
(* An Episode in quiescence has had its deadline pass; an Event that       *)
(* extends it has returned it to ACTIVE before the lock is released, until *)
(* a step fails or the process crashes between the two commits.            *)
(***************************************************************************)
QuiescentHasElapsed ==
  Settled /\ Undisturbed => \A ep \in Episodes : epState[ep] = "quiescent" => minEnd[ep] <= now

(***************************************************************************)
(* Filtered, excluded and inactive Events never open an Episode, and a     *)
(* crash between creating an Episode and linking its first Event leaves no *)
(* shell behind once recovery has run: every Episode has an allowed Event. *)
(* (A correlation that fails there leaves its shell for the next start.)   *)
(***************************************************************************)
EveryEpisodeHasADriver ==
  Settled /\ failures = 0 /\ phase \in {"deferred", "running"} =>
    \A ep \in Episodes :
      epState[ep] # "none" => \E e \in MembersOf(ep) : evKind[e] = "allowed"

(***************************************************************************)
(* Startup recovery is complete: in a running engine the only pending      *)
(* Events are those whose own delivery is still being processed, across    *)
(* crashes.  (A delivery that fails leaves its Event for the next start.)  *)
(***************************************************************************)
PendingIsInProgress ==
  failures = 0 /\ phase \in {"deferred", "running"} =>
    \A e \in Events : Pending(e) =>
      \E d \in Deliveries : EventOf[d] = e /\ pc[d] \in {"link", "lifecycle", "first_event"}

(***************************************************************************)
(* However often an Event is delivered, and whichever delivery carries out *)
(* its correlation, actions are dispatched for it at most once.            *)
(***************************************************************************)
DispatchedAtMostOnce == \A e \in Events : dispatched[e] <= 1

(***************************************************************************)
(* Recovery uses the original ingress time: an Event is never correlated   *)
(* at a time later than the reception of the delivery that created it, so  *)
(* a redelivery cannot stretch an Episode.                                 *)
(***************************************************************************)
CorrelatesAtFirstIngress ==
  \A w \in Workers :
    pc[w] \in {"lifecycle"} \union Locked => job[w].at <= received[evOrigin[job[w].event]]

(***************************************************************************)
(* Episode lifecycle latency creates no artificial split: a new Episode is *)
(* opened for an Event only if no Episode of its Area had it within its    *)
(* horizon when it was received.                                           *)
(***************************************************************************)
NoArtificialSplit ==
  [][\A w \in Workers : OpenEpisode(w) =>
       ~\E ep \in Episodes :
          /\ epState[ep] # "none" /\ epArea[ep] = RowArea(job[w].event)
          /\ \E t \in Earliest(DriverIngress(ep)) : t <= job[w].at
          /\ WithinHorizon(ep, job[w].at)]_vars

(***************************************************************************)
(* An Episode whose horizon has passed is eventually closed, however       *)
(* deliveries, crashes and failures fall, unless an Event received within  *)
(* the horizon extends it.                                                 *)
(***************************************************************************)
TimedOutEpisodesClose ==
  \A ep \in Episodes :
    (epState[ep] # "none" /\ Expired(ep)) ~> (epState[ep] = "closed" \/ ~Expired(ep))

(***************************************************************************)
(* Two levels of locks, taken in one order: every delivery that entered    *)
(* comes out, processed or failed, and leaves no lock behind.              *)
(***************************************************************************)
EveryDeliveryEnds ==
  \A d \in Deliveries :
    pc[d] = "accepted" ~> /\ pc[d] \in {"done", "failed"}
                          /\ lifecycleLock # d /\ \A a \in Areas : areaLock[a] # d

(***************************************************************************)
(* The engine implements what EpisodeLifecycle promises.                   *)
(***************************************************************************)
Lifecycle == INSTANCE EpisodeLifecycle WITH
  clock <- now, state <- epState, deadline <- minEnd,
  members <- [ep \in Episodes |-> MembersOf(ep)]

Implements == Lifecycle!Spec
=============================================================================
