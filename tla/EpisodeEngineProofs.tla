------------------------- MODULE EpisodeEngineProofs -------------------------
(***************************************************************************)
(* Proofs about the Episode engine, for every number of Areas, Events,     *)
(* deliveries and Episodes, and for every bound: types, locks, finality    *)
(* and the refinement first, then what a correlation leaves behind.        *)
(***************************************************************************)
EXTENDS EpisodeEngineProperties, WellFoundedInduction, TLAPS

USE IdentityAssumption, DeliveryAssumption, SettingAssumption

\* The queries of _correlate and _attach_without_capture return open Episodes.
LEMMA TargetsAreOpen ==
  ASSUME NEW w \in Workers
  PROVE  /\ \A ep \in Targets(w) : ep \in Episodes /\ IsOpen(ep)
         /\ \A ep \in ContextTargets(w) : ep \in Episodes /\ IsOpen(ep)
BY DEF Targets, ContextTargets, RecoverableShell, EmptyShells, MostRecent, OpenAt

\* The ingress times of an Event are the times its deliveries came.
LEMMA IngressIsTime ==
  ASSUME IndInv, NEW e \in Events
  PROVE  Ingress(e) \subseteq Nat
BY DEF IndInv, ReceiptInv, Ingress

\* A task in the correlation knows its Event, its Area and its deadline.
LEMMA CorrelatedEvent ==
  ASSUME IndInv, NEW w \in Workers, pc[w] \in Correlating
  PROVE  /\ job[w].event \in Events /\ RowArea(job[w].event) \in Areas
         /\ job[w].at \in Nat /\ Contribution(w) \in Nat
<1>1. job[w].event \in Events /\ evKind[job[w].event] # "absent"
  BY DEF IndInv, TaskInv
<1>2. job[w].at \in Nat
  BY DEF IndInv, TypeOK, TasksOK, Job
<1>3. RowArea(job[w].event) \in Areas
  BY <1>1 DEF IndInv, ReceiptInv, RowArea
<1>. QED  BY <1>1, <1>2, <1>3 DEF IndInv, TypeOK, EventRowsOK, Contribution

\* A backfill links only the delivery that created the Event.
LEMMA BackfilledLinks ==
  ASSUME ReceiptRowsOK, NEW e \in Events
  PROVE  /\ Backfilled(e) \in [Deliveries -> BOOLEAN]
         /\ \A d \in Deliveries : Backfilled(e)[d] => linked[d] \/ evOrigin[e] = d
BY DEF ReceiptRowsOK, Backfilled

\* A task's locals stay well typed when it notes the Episode it writes to.
LEMMA JoinedJob ==
  ASSUME NEW j \in Job, NEW ep \in Episodes, NEW via \in {"joined", "resumed", "opened"}
  PROVE  /\ [j EXCEPT !.episode = ep, !.via = via] \in Job
         /\ [j EXCEPT !.episode = ep, !.via = via].episode = ep
BY DEF Job

-----------------------------------------------------------------------------
(***************************************************************************)
(* Every action preserves the inductive invariant: one lemma for each, one *)
(* step for each conjunct, after one for the conjuncts it leaves alone.    *)
(***************************************************************************)
\* Receive gives its own row a reception time before anything refers to it.
LEMMA ReceiveInv ==
  ASSUME IndInv, NEW d \in Deliveries, Receive(d)
  PROVE  IndInv'
<1>. USE DEF IndInv, TypeOK, Receive, Move, environment, settings, eventRows, episodeRows, history
<1>1. EnvironmentOK' /\ EventRowsOK' /\ EpisodeRowsOK' /\ MemoryOK'
  BY DEF EnvironmentOK, EventRowsOK, EpisodeRowsOK, MemoryOK
<1>2. ReceiptRowsOK'
  BY DEF ReceiptRowsOK, EnvironmentOK
<1>3. TasksOK'
  <2>1. [IdleJob EXCEPT !.event = EventOf[d], !.at = now] \in Job
    BY DEF IdleJob, Job, EnvironmentOK
  <2>. QED  BY <2>1 DEF TasksOK, Steps, Workers
<1>4. LockInv'
  BY DEF LockInv, TasksOK, EpisodeRowsOK, Locked, Writing, Workers, IsOpen, OpenStates, Job
<1>5. TaskInv'
  BY DEF TaskInv, TasksOK, AtRest, Correlating, Locked, Workers, IdleJob
<1>6. ReceiptInv'
  BY DEF ReceiptInv, EnvironmentOK, EventRowsOK, ReceiptRowsOK, TasksOK, Workers
<1>. QED  BY <1>1, <1>2, <1>3, <1>4, <1>5, <1>6

\* RejectDraft ends a task that holds no lock.
LEMMA RejectDraftInv ==
  ASSUME IndInv, NEW d \in Deliveries, RejectDraft(d)
  PROVE  IndInv'
<1>. USE DEF IndInv, TypeOK, RejectDraft, Move, IdleJob, environment, settings, eventRows,
             receiptRows, episodeRows, history
<1>1. EnvironmentOK' /\ EventRowsOK' /\ ReceiptRowsOK' /\ EpisodeRowsOK' /\ MemoryOK'
  BY DEF EnvironmentOK, EventRowsOK, ReceiptRowsOK, EpisodeRowsOK, MemoryOK
<1>2. TasksOK'
  BY DEF TasksOK, Steps, Locked, Workers, Job
<1>3. LockInv'
  BY DEF LockInv, TasksOK, EpisodeRowsOK, Locked, Writing, Workers, IsOpen, OpenStates, Job
<1>4. TaskInv'
  BY DEF TaskInv, TasksOK, AtRest, Correlating, Locked, Workers, Job
<1>5. ReceiptInv'
  BY DEF ReceiptInv
<1>. QED  BY <1>1, <1>2, <1>3, <1>4, <1>5

\* EnterArea takes an Area lock, which the invariant does not speak of.
LEMMA EnterAreaInv ==
  ASSUME IndInv, NEW d \in Deliveries, EnterArea(d)
  PROVE  IndInv'
<1>. USE DEF IndInv, TypeOK, EnterArea, Move, environment, settings, eventRows, receiptRows,
             episodeRows, history
<1>1. EnvironmentOK' /\ EventRowsOK' /\ ReceiptRowsOK' /\ EpisodeRowsOK' /\ MemoryOK'
  BY DEF EnvironmentOK, EventRowsOK, ReceiptRowsOK, EpisodeRowsOK, MemoryOK
<1>2. TasksOK'
  BY DEF TasksOK, Steps, Workers
<1>3. LockInv'
  BY DEF LockInv, TasksOK, EpisodeRowsOK, Locked, Writing, Workers, IsOpen, OpenStates, Job
<1>4. TaskInv'
  BY DEF TaskInv, TasksOK, AtRest, Correlating, Locked, Workers, Job
<1>5. ReceiptInv'
  BY DEF ReceiptInv
<1>. QED  BY <1>1, <1>2, <1>3, <1>4, <1>5

\* CanonicalizeNew names the delivery that created the row.
LEMMA CanonicalizeNewInv ==
  ASSUME IndInv, NEW d \in Deliveries, CanonicalizeNew(d)
  PROVE  IndInv'
<1>. USE DEF IndInv, TypeOK, CanonicalizeNew, Move, environment, settings, receiptRows,
             episodeRows, history
<1>1. EnvironmentOK' /\ ReceiptRowsOK' /\ EpisodeRowsOK' /\ MemoryOK'
  BY DEF EnvironmentOK, ReceiptRowsOK, EpisodeRowsOK, MemoryOK
<1>2. EventRowsOK'
  BY DEF EventRowsOK, Kinds
<1>3. TasksOK'
  BY DEF TasksOK, Steps, Locked, Workers, Job
<1>4. LockInv'
  BY DEF LockInv, TasksOK, EpisodeRowsOK, Locked, Writing, Workers, IsOpen, OpenStates, Job
<1>5. TaskInv'
  <2>1. PICK kind \in Kinds : evKind' = [evKind EXCEPT ![EventOf[d]] = kind]
    BY DEF Kinds
  <2>2. \A e \in Events : evKind[e] # "absent" => evKind'[e] # "absent"
    BY <2>1 DEF EventRowsOK, Kinds
  <2>3. evKind'[EventOf[d]] # "absent" /\ \A w \in Workers : job'[w].event = job[w].event
    BY <2>1 DEF EventRowsOK, Kinds, TasksOK, Job
  <2>. QED  BY <2>2, <2>3 DEF TaskInv, TasksOK, AtRest, Correlating, Locked, Workers
<1>6. ReceiptInv'
  BY DEF ReceiptInv, EnvironmentOK, EventRowsOK, ReceiptRowsOK, TasksOK, Workers
<1>. QED  BY <1>1, <1>2, <1>3, <1>4, <1>5, <1>6

\* CanonicalizeDuplicate goes on only because the row exists.
LEMMA CanonicalizeDuplicateInv ==
  ASSUME IndInv, NEW d \in Deliveries, CanonicalizeDuplicate(d)
  PROVE  IndInv'
<1>. USE DEF IndInv, TypeOK, CanonicalizeDuplicate, Move, IsActiveRow, environment, settings,
             eventRows, receiptRows, episodeRows, history
<1>1. EnvironmentOK' /\ EventRowsOK' /\ ReceiptRowsOK' /\ EpisodeRowsOK' /\ MemoryOK'
  BY DEF EnvironmentOK, EventRowsOK, ReceiptRowsOK, EpisodeRowsOK, MemoryOK
<1>2. TasksOK'
  BY DEF TasksOK, Steps, Workers
<1>3. LockInv'
  BY DEF LockInv, TasksOK, EpisodeRowsOK, Locked, Writing, Workers, IsOpen, OpenStates, Job
<1>4. TaskInv'
  BY DEF TaskInv, TasksOK, AtRest, Correlating, Workers
<1>5. ReceiptInv'
  BY DEF ReceiptInv
<1>. QED  BY <1>1, <1>2, <1>3, <1>4, <1>5

\* RejectConflict ends a task that is outside the lifecycle lock.
LEMMA RejectConflictInv ==
  ASSUME IndInv, NEW d \in Deliveries, RejectConflict(d)
  PROVE  IndInv'
<1>. USE DEF IndInv, TypeOK, RejectConflict, Move, IdleJob, ReleaseAreas, environment, settings,
             eventRows, receiptRows, episodeRows, history
<1>1. EnvironmentOK' /\ EventRowsOK' /\ ReceiptRowsOK' /\ EpisodeRowsOK' /\ MemoryOK'
  BY DEF EnvironmentOK, EventRowsOK, ReceiptRowsOK, EpisodeRowsOK, MemoryOK
<1>2. TasksOK'
  BY DEF TasksOK, Steps, Locked, Workers, Job
<1>3. LockInv'
  BY DEF LockInv, TasksOK, EpisodeRowsOK, Locked, Writing, Workers, IsOpen, OpenStates, Job
<1>4. TaskInv'
  BY DEF TaskInv, TasksOK, AtRest, Correlating, Locked, Workers, Job
<1>5. ReceiptInv'
  BY DEF ReceiptInv
<1>. QED  BY <1>1, <1>2, <1>3, <1>4, <1>5

\* Backfill links the creating delivery, which has a reception time.
LEMMA BackfillInv ==
  ASSUME IndInv, NEW d \in Deliveries, Backfill(d)
  PROVE  IndInv'
<1>. USE DEF IndInv, TypeOK, Backfill, Move, environment, settings, eventRows, episodeRows, history
<1>1. EnvironmentOK' /\ EventRowsOK' /\ EpisodeRowsOK' /\ MemoryOK'
  BY DEF EnvironmentOK, EventRowsOK, EpisodeRowsOK, MemoryOK
<1>2. ReceiptRowsOK'
  BY BackfilledLinks DEF ReceiptRowsOK
<1>3. TasksOK'
  BY DEF TasksOK, Steps, Workers
<1>4. LockInv'
  BY DEF LockInv, TasksOK, EpisodeRowsOK, Locked, Writing, Workers, IsOpen, OpenStates, Job
<1>5. TaskInv'
  BY DEF TaskInv, TasksOK, AtRest, Correlating, Workers
<1>6. ReceiptInv'
  <2>1. \A x \in Deliveries : linked'[x] => linked[x] \/ evOrigin[EventOf[d]] = x
    BY BackfilledLinks
  <2>. QED  BY <2>1 DEF ReceiptInv, TasksOK, Workers
<1>. QED  BY <1>1, <1>2, <1>3, <1>4, <1>5, <1>6

\* Link links the delivery being processed; its Event row exists.
LEMMA LinkInv ==
  ASSUME IndInv, NEW d \in Deliveries, Link(d)
  PROVE  IndInv'
<1>. USE DEF IndInv, TypeOK, Link, Move, AfterLink, environment, settings, eventRows, episodeRows,
             history
<1>1. EnvironmentOK' /\ EventRowsOK' /\ EpisodeRowsOK' /\ MemoryOK'
  BY DEF EnvironmentOK, EventRowsOK, EpisodeRowsOK, MemoryOK
<1>2. ReceiptRowsOK'
  BY DEF ReceiptRowsOK
<1>3. TasksOK'
  BY DEF TasksOK, Steps, Workers
<1>4. LockInv'
  BY DEF LockInv, TasksOK, EpisodeRowsOK, Locked, Writing, Workers, IsOpen, OpenStates, Job
<1>5. TaskInv'
  BY DEF TaskInv, TasksOK, AtRest, Correlating, Workers
<1>6. ReceiptInv'
  BY DEF ReceiptInv
<1>. QED  BY <1>1, <1>2, <1>3, <1>4, <1>5, <1>6

\* A recovery changes the time it correlates at, not what it correlates.
LEMMA RecoverKeepsEvent ==
  ASSUME IndInv, NEW w \in Workers, Recover(w)
  PROVE  /\ job' \in [Workers -> Job]
         /\ \A x \in Workers : job'[x].event = job[x].event /\ job'[x].episode = job[x].episode
<1>. DEFINE e == job[w].event
<1>1. CASE ~Pending(e)
  BY <1>1 DEF IndInv, TypeOK, TasksOK, Recover
<1>2. CASE Pending(e)
  <2>1. e \in Events /\ pc[w] \in Correlating
    BY CorrelatedEvent DEF Correlating, Recover
  <2>2. PICK t \in Earliest(Ingress(e)) :
          job' = [job EXCEPT ![w].mode = "recovered", ![w].at = t,
                             ![w].expired = evKind[e] = "allowed" /\ t + evWindow[e] + grace < now]
    BY <1>2 DEF Recover
  <2>3. t \in Nat
    BY <2>1, IngressIsTime DEF Earliest
  <2>. DEFINE late == evKind[e] = "allowed" /\ t + evWindow[e] + grace < now
              next == [job[w] EXCEPT !.mode = "recovered", !.at = t, !.expired = late]
  <2>4. late \in BOOLEAN
    OBVIOUS
  <2>5. job[w] \in Job
    BY DEF IndInv, TypeOK, TasksOK
  <2>6. job' = [job EXCEPT ![w] = next]
    BY <2>2
  <2>. HIDE DEF late
  <2>7. next \in Job /\ next.event = e /\ next.episode = job[w].episode
    BY <2>3, <2>4, <2>5 DEF Job
  <2>. HIDE DEF next
  <2>. QED  BY <2>6, <2>7 DEF IndInv, TypeOK, TasksOK
<1>. QED  BY <1>1, <1>2

\* Recover replaces the time to correlate at by a reception time.
LEMMA RecoverInv ==
  ASSUME IndInv, NEW w \in Workers, Recover(w)
  PROVE  IndInv'
<1>. USE DEF IndInv, TypeOK, Recover, Move, environment, settings, eventRows, receiptRows,
             episodeRows, history
<1>1. EnvironmentOK' /\ EventRowsOK' /\ ReceiptRowsOK' /\ EpisodeRowsOK' /\ MemoryOK'
  BY DEF EnvironmentOK, EventRowsOK, ReceiptRowsOK, EpisodeRowsOK, MemoryOK
<1>2. TasksOK'
  <2>1. PICK to \in {"leave", "lifecycle"} : pc' = [pc EXCEPT ![w] = to]
    OBVIOUS
  <2>2. pc \in [Workers -> Steps] /\ to \in Steps
    BY DEF TasksOK, Steps
  <2>3. pc' \in [Workers -> Steps]
    BY ONLY <2>1, <2>2
  <2>. QED  BY <2>3, RecoverKeepsEvent DEF TasksOK
<1>3. LockInv'
  <2>1. PICK to \in {"leave", "lifecycle"} : pc' = [pc EXCEPT ![w] = to]
    OBVIOUS
  <2>2. \A x \in Workers : job'[x].episode = job[x].episode
    BY RecoverKeepsEvent
  <2>. QED  BY <2>1, <2>2 DEF LockInv, TasksOK, Locked, Writing, Workers, IsOpen
<1>4. TaskInv'
  <2>1. PICK to \in {"leave", "lifecycle"} : pc' = [pc EXCEPT ![w] = to]
    OBVIOUS
  <2>2. \A x \in Workers : job'[x].event = job[x].event
    BY RecoverKeepsEvent
  <2>. QED  BY <2>1, <2>2 DEF TaskInv, TasksOK, AtRest, Correlating, Locked, Workers
<1>5. ReceiptInv'
  BY DEF ReceiptInv, TasksOK, Workers
<1>. QED  BY <1>1, <1>2, <1>3, <1>4, <1>5

\* AbandonRecovery leaves without having taken the lifecycle lock.
LEMMA AbandonRecoveryInv ==
  ASSUME IndInv, NEW w \in Workers, AbandonRecovery(w)
  PROVE  IndInv'
<1>. USE DEF IndInv, TypeOK, AbandonRecovery, Move, environment, settings, eventRows, receiptRows,
             episodeRows, history
<1>1. EnvironmentOK' /\ EventRowsOK' /\ ReceiptRowsOK' /\ EpisodeRowsOK' /\ MemoryOK'
  BY DEF EnvironmentOK, EventRowsOK, ReceiptRowsOK, EpisodeRowsOK, MemoryOK
<1>2. TasksOK'
  BY DEF TasksOK, Steps, Locked, Workers, Job
<1>3. LockInv'
  BY DEF LockInv, TasksOK, Locked, Writing, Workers
<1>4. TaskInv'
  BY DEF TaskInv, TasksOK, AtRest, Correlating, Workers
<1>5. ReceiptInv'
  BY DEF ReceiptInv
<1>. QED  BY <1>1, <1>2, <1>3, <1>4, <1>5

\* JoinEpisode takes the lock for an Episode the query found open.
LEMMA JoinEpisodeInv ==
  ASSUME IndInv, NEW w \in Workers, JoinEpisode(w)
  PROVE  IndInv'
<1>. USE DEF IndInv, TypeOK, JoinEpisode, Move, EnterLifecycle, environment, settings,
             receiptRows, episodeRows, history
<1>1. EnvironmentOK' /\ ReceiptRowsOK' /\ EpisodeRowsOK' /\ MemoryOK'
  BY DEF EnvironmentOK, ReceiptRowsOK, EpisodeRowsOK, MemoryOK
<1>2. EventRowsOK'
  <2>1. PICK ep \in Targets(w) : evEpisode' = [evEpisode EXCEPT ![job[w].event] = ep]
    OBVIOUS
  <2>. QED  BY <2>1, TargetsAreOpen DEF EventRowsOK
<1>3. TasksOK'
  <2>1. PICK ep \in Targets(w) : job' = [job EXCEPT ![w].episode = ep, ![w].via = Via(ep)]
    OBVIOUS
  <2>2. Via(ep) \in {"joined", "resumed"}
    BY DEF Via
  <2>3. [job[w] EXCEPT !.episode = ep, !.via = Via(ep)] \in Job
    <3>1. job[w] \in Job /\ ep \in Episodes
      BY TargetsAreOpen DEF TasksOK
    <3>. QED  BY ONLY <2>2, <3>1, JoinedJob
  <2>. QED  BY <2>1, <2>3 DEF TasksOK, Steps, Locked
<1>4. LockInv'
  <2>1. PICK ep \in Targets(w) : job' = [job EXCEPT ![w].episode = ep, ![w].via = Via(ep)]
    OBVIOUS
  <2>2. ep \in Episodes /\ IsOpen(ep)
    BY TargetsAreOpen
  <2>3. job'[w].episode = ep /\ \A x \in Workers \ {w} : job'[x] = job[x]
    BY <2>1 DEF TasksOK, Job
  <2>. QED  BY <2>2, <2>3 DEF LockInv, TasksOK, Locked, Writing, Workers, IsOpen
<1>5. TaskInv'
  BY DEF TaskInv, TasksOK, AtRest, Correlating, Workers
<1>6. ReceiptInv'
  BY DEF ReceiptInv
<1>. QED  BY <1>1, <1>2, <1>3, <1>4, <1>5, <1>6

\* OpenEpisode takes the lock for the Episode it creates ACTIVE.
LEMMA OpenEpisodeInv ==
  ASSUME IndInv, NEW w \in Workers, OpenEpisode(w)
  PROVE  IndInv'
<1>. USE DEF IndInv, TypeOK, OpenEpisode, Move, EnterLifecycle, environment, settings, eventRows,
             receiptRows, history
<1>1. EnvironmentOK' /\ EventRowsOK' /\ ReceiptRowsOK' /\ MemoryOK'
  BY DEF EnvironmentOK, EventRowsOK, ReceiptRowsOK, MemoryOK
<1>2. EpisodeRowsOK'
  <2>1. /\ job[w].event \in Events /\ RowArea(job[w].event) \in Areas
        /\ job[w].at \in Nat /\ Contribution(w) \in Nat
    BY CorrelatedEvent DEF Correlating
  <2>. QED  BY <2>1 DEF EpisodeRowsOK, EpisodeState
<1>3. TasksOK'
  <2>1. PICK ep \in Episodes : job' = [job EXCEPT ![w].episode = ep, ![w].via = "opened"]
    OBVIOUS
  <2>2. [job[w] EXCEPT !.episode = ep, !.via = "opened"] \in Job
    <3>1. job[w] \in Job
      BY DEF TasksOK
    <3>. QED  BY ONLY <3>1, ep \in Episodes, JoinedJob
  <2>. QED  BY <2>1, <2>2 DEF TasksOK, Steps, Locked
<1>4. LockInv'
  BY DEF LockInv, TasksOK, EpisodeRowsOK, Locked, Writing, Workers, IsOpen, OpenStates, Job
<1>5. TaskInv'
  BY DEF TaskInv, TasksOK, AtRest, Correlating, Workers
<1>6. ReceiptInv'
  BY DEF ReceiptInv
<1>. QED  BY <1>1, <1>2, <1>3, <1>4, <1>5, <1>6

\* LinkFirstEvent stays inside the lock, with the same Episode.
LEMMA LinkFirstEventInv ==
  ASSUME IndInv, NEW w \in Workers, LinkFirstEvent(w)
  PROVE  IndInv'
<1>. USE DEF IndInv, TypeOK, LinkFirstEvent, Move, environment, settings, receiptRows,
             episodeRows, history
<1>1. EnvironmentOK' /\ ReceiptRowsOK' /\ EpisodeRowsOK' /\ MemoryOK'
  BY DEF EnvironmentOK, ReceiptRowsOK, EpisodeRowsOK, MemoryOK
<1>2. EventRowsOK'
  BY DEF EventRowsOK, Kinds, TasksOK, Workers, Job
<1>3. TasksOK'
  BY DEF TasksOK, Steps, Locked, Workers, Job
<1>4. LockInv'
  BY DEF LockInv, TasksOK, EpisodeRowsOK, Locked, Writing, Workers, IsOpen, OpenStates, Job
<1>5. TaskInv'
  BY DEF TaskInv, TasksOK, AtRest, Correlating, Locked, Workers, Job
<1>6. ReceiptInv'
  BY DEF ReceiptInv
<1>. QED  BY <1>1, <1>2, <1>3, <1>4, <1>5, <1>6

\* RefuseAssociation leaves the locks behind it free.
LEMMA RefuseAssociationInv ==
  ASSUME IndInv, NEW w \in Workers, RefuseAssociation(w)
  PROVE  IndInv'
<1>. USE DEF IndInv, TypeOK, RefuseAssociation, Abort, IdleJob, ReleaseAreas, environment,
             settings, eventRows, receiptRows, episodeRows, history
<1>1. EnvironmentOK' /\ EventRowsOK' /\ ReceiptRowsOK' /\ EpisodeRowsOK' /\ MemoryOK'
  BY DEF EnvironmentOK, EventRowsOK, ReceiptRowsOK, EpisodeRowsOK, MemoryOK
<1>2. TasksOK'
  BY DEF TasksOK, Steps, Locked, Workers, Job
<1>3. LockInv'
  BY DEF LockInv, TasksOK, Locked, Writing, Workers
<1>4. TaskInv'
  BY DEF TaskInv, TasksOK, AtRest, Correlating, Locked, Workers, Job
<1>5. ReceiptInv'
  BY DEF ReceiptInv
<1>. QED  BY <1>1, <1>2, <1>3, <1>4, <1>5

\* RecordActivity writes a time to the Episode its task holds.
LEMMA RecordActivityInv ==
  ASSUME IndInv, NEW w \in Workers, RecordActivity(w)
  PROVE  IndInv'
<1>. USE DEF IndInv, TypeOK, RecordActivity, Move, environment, settings, eventRows, receiptRows,
             history
<1>1. EnvironmentOK' /\ EventRowsOK' /\ ReceiptRowsOK' /\ MemoryOK'
  BY DEF EnvironmentOK, EventRowsOK, ReceiptRowsOK, MemoryOK
<1>2. EpisodeRowsOK'
  BY DEF EpisodeRowsOK, EpisodeState, OpenStates, TasksOK, Workers, Job
<1>3. TasksOK'
  BY DEF TasksOK, Steps, Locked, Workers, Job
<1>4. LockInv'
  BY DEF LockInv, TasksOK, EpisodeRowsOK, Locked, Writing, Workers, IsOpen, OpenStates, Job
<1>5. TaskInv'
  BY DEF TaskInv, TasksOK, AtRest, Correlating, Locked, Workers, Job
<1>6. ReceiptInv'
  BY DEF ReceiptInv
<1>. QED  BY <1>1, <1>2, <1>3, <1>4, <1>5, <1>6

\* ExtendMinimumEnd writes a time to the Episode its task holds.
LEMMA ExtendMinimumEndInv ==
  ASSUME IndInv, NEW w \in Workers, ExtendMinimumEnd(w)
  PROVE  IndInv'
<1>. USE DEF IndInv, TypeOK, ExtendMinimumEnd, Move, environment, settings, eventRows,
             receiptRows, history
<1>1. EnvironmentOK' /\ EventRowsOK' /\ ReceiptRowsOK' /\ MemoryOK'
  BY DEF EnvironmentOK, EventRowsOK, ReceiptRowsOK, MemoryOK
<1>2. EpisodeRowsOK'
  <2>1. Contribution(w) \in Nat
    BY CorrelatedEvent DEF Correlating, Locked
  <2>. QED  BY <2>1 DEF EpisodeRowsOK, Extended, Larger
<1>3. TasksOK'
  BY DEF TasksOK, Steps, Locked, Workers, Job
<1>4. LockInv'
  BY DEF LockInv, TasksOK, EpisodeRowsOK, Locked, Writing, Workers, IsOpen, OpenStates, Job
<1>5. TaskInv'
  BY DEF TaskInv, TasksOK, AtRest, Correlating, Locked, Workers, Job
<1>6. ReceiptInv'
  BY DEF ReceiptInv
<1>. QED  BY <1>1, <1>2, <1>3, <1>4, <1>5, <1>6

\* Wake leaves the Episode its task holds open.
LEMMA WakeInv ==
  ASSUME IndInv, NEW w \in Workers, Wake(w)
  PROVE  IndInv'
<1>. USE DEF IndInv, TypeOK, Wake, Move, environment, settings, eventRows, receiptRows, history
<1>1. EnvironmentOK' /\ EventRowsOK' /\ ReceiptRowsOK' /\ MemoryOK'
  BY DEF EnvironmentOK, EventRowsOK, ReceiptRowsOK, MemoryOK
<1>2. EpisodeRowsOK'
  BY DEF EpisodeRowsOK, EpisodeState, OpenStates
<1>3. TasksOK'
  BY DEF TasksOK, Steps, Locked, Workers, Job
<1>4. LockInv'
  BY DEF LockInv, TasksOK, EpisodeRowsOK, Locked, Writing, Workers, IsOpen, OpenStates, Job
<1>5. TaskInv'
  BY DEF TaskInv, TasksOK, AtRest, Correlating, Locked, Workers, Job
<1>6. ReceiptInv'
  BY DEF ReceiptInv
<1>. QED  BY <1>1, <1>2, <1>3, <1>4, <1>5, <1>6

\* Announce updates memory and gives the lifecycle lock back.
LEMMA AnnounceInv ==
  ASSUME IndInv, NEW w \in Workers, Announce(w)
  PROVE  IndInv'
<1>. USE DEF IndInv, TypeOK, Announce, Move, environment, settings, eventRows, receiptRows,
             episodeRows
<1>1. EnvironmentOK' /\ EventRowsOK' /\ ReceiptRowsOK' /\ EpisodeRowsOK'
  BY DEF EnvironmentOK, EventRowsOK, ReceiptRowsOK, EpisodeRowsOK
<1>2. MemoryOK'
  <2>1. Contribution(w) \in Nat
    BY CorrelatedEvent DEF Correlating, Locked
  <2>2. job[w].episode \in Episodes
    BY DEF LockInv, Writing
  <2>3. Remembered(job[w].episode, Contribution(w)) \in Int
    BY <2>1, <2>2 DEF MemoryOK, EpisodeRowsOK, Remembered, Larger
  <2>. QED  BY <2>2, <2>3 DEF MemoryOK
<1>3. TasksOK'
  BY DEF TasksOK, Steps, Workers
<1>4. LockInv'
  BY DEF LockInv, TasksOK, Locked, Writing, Workers
<1>5. TaskInv'
  BY DEF TaskInv, TasksOK, AtRest, Correlating, Locked, Workers, Job
<1>6. ReceiptInv'
  BY DEF ReceiptInv
<1>. QED  BY <1>1, <1>2, <1>3, <1>4, <1>5, <1>6

\* AttachInactive links inside one hold of the lifecycle lock.
LEMMA AttachInactiveInv ==
  ASSUME IndInv, NEW w \in Workers, AttachInactive(w)
  PROVE  IndInv'
<1>. USE DEF IndInv, TypeOK, AttachInactive, Move, environment, settings, receiptRows,
             episodeRows, history
<1>1. EnvironmentOK' /\ ReceiptRowsOK' /\ EpisodeRowsOK' /\ MemoryOK'
  BY DEF EnvironmentOK, ReceiptRowsOK, EpisodeRowsOK, MemoryOK
<1>2. EventRowsOK'
  <2>. DEFINE e == job[w].event
  <2>1. CASE PrecedingEpisodes(e) = {}
    BY <2>1 DEF EventRowsOK
  <2>2. CASE PrecedingEpisodes(e) # {}
    <3>1. PICK ep \in Episodes : evEpisode' = [evEpisode EXCEPT ![e] = ep]
      BY <2>2 DEF PrecedingEpisodes
    <3>. QED  BY <3>1 DEF EventRowsOK
  <2>. QED  BY <2>1, <2>2
<1>3. TasksOK'
  BY DEF TasksOK, Steps, Workers
<1>4. LockInv'
  BY DEF LockInv, TasksOK, Locked, Writing, Workers
<1>5. TaskInv'
  BY DEF TaskInv, TasksOK, AtRest, Correlating, Workers
<1>6. ReceiptInv'
  BY DEF ReceiptInv
<1>. QED  BY <1>1, <1>2, <1>3, <1>4, <1>5, <1>6

\* AttachFiltered takes the lifecycle lock, writing no Episode row.
LEMMA AttachFilteredInv ==
  ASSUME IndInv, NEW w \in Workers, AttachFiltered(w)
  PROVE  IndInv'
<1>. USE DEF IndInv, TypeOK, AttachFiltered, Move, EnterLifecycle, environment, settings,
             receiptRows, episodeRows, history
<1>1. EnvironmentOK' /\ ReceiptRowsOK' /\ EpisodeRowsOK' /\ MemoryOK'
  BY DEF EnvironmentOK, ReceiptRowsOK, EpisodeRowsOK, MemoryOK
<1>2. EventRowsOK'
  <2>1. PICK ep \in ContextTargets(w) : evEpisode' = [evEpisode EXCEPT ![job[w].event] = ep]
    OBVIOUS
  <2>. QED  BY <2>1, TargetsAreOpen DEF EventRowsOK
<1>3. TasksOK'
  BY DEF TasksOK, Steps, Locked, Workers, Job
<1>4. LockInv'
  BY DEF LockInv, TasksOK, Locked, Writing, Workers
<1>5. TaskInv'
  BY DEF TaskInv, TasksOK, AtRest, Correlating, Workers
<1>6. ReceiptInv'
  BY DEF ReceiptInv
<1>. QED  BY <1>1, <1>2, <1>3, <1>4, <1>5, <1>6

\* RecordAttachment gives the lifecycle lock back.
LEMMA RecordAttachmentInv ==
  ASSUME IndInv, NEW w \in Workers, RecordAttachment(w)
  PROVE  IndInv'
<1>. USE DEF IndInv, TypeOK, RecordAttachment, Move, environment, settings, receiptRows,
             episodeRows, history
<1>1. EnvironmentOK' /\ ReceiptRowsOK' /\ EpisodeRowsOK' /\ MemoryOK'
  BY DEF EnvironmentOK, ReceiptRowsOK, EpisodeRowsOK, MemoryOK
<1>2. EventRowsOK'
  BY DEF EventRowsOK, Kinds
<1>3. TasksOK'
  BY DEF TasksOK, Steps, Workers
<1>4. LockInv'
  BY DEF LockInv, TasksOK, Locked, Writing, Workers
<1>5. TaskInv'
  BY DEF TaskInv, TasksOK, AtRest, Correlating, Locked, Workers, Job
<1>6. ReceiptInv'
  BY DEF ReceiptInv
<1>. QED  BY <1>1, <1>2, <1>3, <1>4, <1>5, <1>6

\* RecordNoOpenEpisode is over within one hold of the lock.
LEMMA RecordNoOpenEpisodeInv ==
  ASSUME IndInv, NEW w \in Workers, RecordNoOpenEpisode(w)
  PROVE  IndInv'
<1>. USE DEF IndInv, TypeOK, RecordNoOpenEpisode, Move, environment, settings, receiptRows,
             episodeRows, history
<1>1. EnvironmentOK' /\ ReceiptRowsOK' /\ EpisodeRowsOK' /\ MemoryOK'
  BY DEF EnvironmentOK, ReceiptRowsOK, EpisodeRowsOK, MemoryOK
<1>2. EventRowsOK'
  BY DEF EventRowsOK, Kinds
<1>3. TasksOK'
  BY DEF TasksOK, Steps, Workers
<1>4. LockInv'
  BY DEF LockInv, TasksOK, Locked, Writing, Workers
<1>5. TaskInv'
  BY DEF TaskInv, TasksOK, AtRest, Correlating, Workers
<1>6. ReceiptInv'
  BY DEF ReceiptInv
<1>. QED  BY <1>1, <1>2, <1>3, <1>4, <1>5, <1>6

\* LeaveArea gives Area locks back; only the engine's own task forgets its Event.
LEMMA LeaveAreaInv ==
  ASSUME IndInv, NEW w \in Workers, LeaveArea(w)
  PROVE  IndInv'
<1>. USE DEF IndInv, TypeOK, LeaveArea, Move, ReleaseAreas, IdleJob, environment, settings,
             eventRows, receiptRows, episodeRows, history
<1>1. EnvironmentOK' /\ EventRowsOK' /\ ReceiptRowsOK' /\ EpisodeRowsOK' /\ MemoryOK'
  BY DEF EnvironmentOK, EventRowsOK, ReceiptRowsOK, EpisodeRowsOK, MemoryOK
<1>2. TasksOK'
  BY DEF TasksOK, Steps, Locked, Workers, Job
<1>3. LockInv'
  BY DEF LockInv, TasksOK, EpisodeRowsOK, Locked, Writing, Workers, IsOpen, OpenStates, Job
<1>4. TaskInv'
  BY DEF TaskInv, TasksOK, AtRest, Correlating, Locked, Workers, Job
<1>5. ReceiptInv'
  BY DEF ReceiptInv
<1>. QED  BY <1>1, <1>2, <1>3, <1>4, <1>5

\* Publish counts a dispatch and ends the task.
LEMMA PublishInv ==
  ASSUME IndInv, NEW d \in Deliveries, Publish(d)
  PROVE  IndInv'
<1>. USE DEF IndInv, TypeOK, Publish, Move, IdleJob, environment, settings, eventRows,
             receiptRows, episodeRows
<1>1. EnvironmentOK' /\ EventRowsOK' /\ ReceiptRowsOK' /\ EpisodeRowsOK'
  BY DEF EnvironmentOK, EventRowsOK, ReceiptRowsOK, EpisodeRowsOK
<1>2. MemoryOK'
  <2>1. job[d].event \in Events
    BY DEF TaskInv, AtRest
  <2>. QED  BY <2>1 DEF MemoryOK
<1>3. TasksOK'
  BY DEF TasksOK, Steps, Locked, Workers, Job
<1>4. LockInv'
  BY DEF LockInv, TasksOK, EpisodeRowsOK, Locked, Writing, Workers, IsOpen, OpenStates, Job
<1>5. TaskInv'
  BY DEF TaskInv, TasksOK, AtRest, Correlating, Locked, Workers, Job
<1>6. ReceiptInv'
  BY DEF ReceiptInv
<1>. QED  BY <1>1, <1>2, <1>3, <1>4, <1>5, <1>6

\* Fail leaves both kinds of lock, whatever step it interrupts.
LEMMA FailInv ==
  ASSUME IndInv, NEW d \in Deliveries, Fail(d)
  PROVE  IndInv'
<1>. USE DEF IndInv, TypeOK, Fail, Abort, IdleJob, ReleaseAreas, settings, eventRows, receiptRows,
             episodeRows, history
<1>1. EventRowsOK' /\ ReceiptRowsOK' /\ EpisodeRowsOK' /\ MemoryOK'
  BY DEF EventRowsOK, ReceiptRowsOK, EpisodeRowsOK, MemoryOK
<1>2. EnvironmentOK'
  BY DEF EnvironmentOK
<1>3. TasksOK'
  BY DEF TasksOK, Steps, Locked, Workers, Job
<1>4. LockInv'
  BY DEF LockInv, TasksOK, EpisodeRowsOK, Locked, Writing, Workers, IsOpen, OpenStates, Job
<1>5. TaskInv'
  BY DEF TaskInv, TasksOK, AtRest, Correlating, Locked, Workers, Job
<1>6. ReceiptInv'
  BY DEF ReceiptInv
<1>. QED  BY <1>1, <1>2, <1>3, <1>4, <1>5, <1>6

\* TimeoutPass needs the lifecycle lock, so no task is writing to what it seals.
LEMMA TimeoutPassInv ==
  ASSUME IndInv, TimeoutPass
  PROVE  IndInv'
<1>. USE DEF IndInv, TypeOK, TimeoutPass, Pass, MayEnterPass, AfterPass, environment, settings,
             eventRows, receiptRows, tasks, history
<1>1. EnvironmentOK' /\ EventRowsOK' /\ ReceiptRowsOK' /\ MemoryOK'
  BY DEF EnvironmentOK, EventRowsOK, ReceiptRowsOK, MemoryOK
<1>2. EpisodeRowsOK'
  BY DEF EpisodeRowsOK, EpisodeState, OpenStates
<1>3. TasksOK'
  BY DEF TasksOK
<1>4. LockInv'
  BY DEF LockInv, TasksOK, Locked, Writing, Workers
<1>5. TaskInv'
  BY DEF TaskInv
<1>6. ReceiptInv'
  BY DEF ReceiptInv
<1>. QED  BY <1>1, <1>2, <1>3, <1>4, <1>5, <1>6

\* BeginFinalization drops the lease of a sealed Episode.
LEMMA BeginFinalizationInv ==
  ASSUME IndInv, NEW ep \in Episodes, BeginFinalization(ep)
  PROVE  IndInv'
<1>. USE DEF IndInv, TypeOK, BeginFinalization, NoTime, environment, settings, eventRows,
             receiptRows, episodeRows, tasks, history
<1>1. EnvironmentOK' /\ EventRowsOK' /\ ReceiptRowsOK' /\ EpisodeRowsOK'
  BY DEF EnvironmentOK, EventRowsOK, ReceiptRowsOK, EpisodeRowsOK
<1>2. MemoryOK'
  BY DEF MemoryOK
<1>3. TasksOK'
  BY DEF TasksOK
<1>4. LockInv'
  BY DEF LockInv, IsOpen
<1>5. TaskInv'
  BY DEF TaskInv
<1>6. ReceiptInv'
  BY DEF ReceiptInv
<1>. QED  BY <1>1, <1>2, <1>3, <1>4, <1>5, <1>6

\* CompleteFinalization closes an Episode no task is writing to.
LEMMA CompleteFinalizationInv ==
  ASSUME IndInv, NEW ep \in Episodes, CompleteFinalization(ep)
  PROVE  IndInv'
<1>. USE DEF IndInv, TypeOK, CompleteFinalization, environment, settings, eventRows, receiptRows,
             tasks, history
<1>1. EnvironmentOK' /\ EventRowsOK' /\ ReceiptRowsOK' /\ MemoryOK'
  BY DEF EnvironmentOK, EventRowsOK, ReceiptRowsOK, MemoryOK
<1>2. EpisodeRowsOK'
  BY DEF EpisodeRowsOK, EpisodeState, OpenStates
<1>3. TasksOK'
  BY DEF TasksOK
<1>4. LockInv'
  BY DEF LockInv, TasksOK, EpisodeRowsOK, Locked, Writing, Workers, IsOpen, OpenStates, Job
<1>5. TaskInv'
  BY DEF TaskInv
<1>6. ReceiptInv'
  BY DEF ReceiptInv
<1>. QED  BY <1>1, <1>2, <1>3, <1>4, <1>5, <1>6

\* SetGrace chooses another grace.
LEMMA SetGraceInv ==
  ASSUME IndInv, NEW g \in Graces, SetGrace(g)
  PROVE  IndInv'
<1>. USE DEF IndInv, TypeOK, SetGrace, environment, eventRows, receiptRows, episodeRows, tasks,
             history
<1>1. EventRowsOK' /\ ReceiptRowsOK' /\ EpisodeRowsOK' /\ MemoryOK'
  BY DEF EventRowsOK, ReceiptRowsOK, EpisodeRowsOK, MemoryOK
<1>2. EnvironmentOK'
  BY DEF EnvironmentOK
<1>3. TasksOK'
  BY DEF TasksOK
<1>4. LockInv'
  BY DEF LockInv, IsOpen
<1>5. TaskInv'
  BY DEF TaskInv
<1>6. ReceiptInv'
  BY DEF ReceiptInv
<1>. QED  BY <1>1, <1>2, <1>3, <1>4, <1>5, <1>6

\* GracePass needs the lifecycle lock, as TimeoutPass does.
LEMMA GracePassInv ==
  ASSUME IndInv, GracePass
  PROVE  IndInv'
<1>. USE DEF IndInv, TypeOK, GracePass, Pass, MayEnterPass, AfterPass, environment, eventRows,
             receiptRows, tasks, history
<1>1. EventRowsOK' /\ ReceiptRowsOK' /\ MemoryOK'
  BY DEF EventRowsOK, ReceiptRowsOK, MemoryOK
<1>2. EnvironmentOK'
  BY DEF EnvironmentOK
<1>3. EpisodeRowsOK'
  BY DEF EpisodeRowsOK, EpisodeState, OpenStates
<1>4. TasksOK'
  BY DEF TasksOK
<1>5. LockInv'
  BY DEF LockInv, TasksOK, Locked, Writing, Workers
<1>6. TaskInv'
  BY DEF TaskInv
<1>7. ReceiptInv'
  BY DEF ReceiptInv
<1>. QED  BY <1>1, <1>2, <1>3, <1>4, <1>5, <1>6, <1>7

\* Boot restores leases and starts the engine's own task.
LEMMA BootInv ==
  ASSUME IndInv, Boot
  PROVE  IndInv'
<1>. USE DEF IndInv, TypeOK, Boot, Move, Restored, NoTime, settings, eventRows, receiptRows,
             episodeRows, history
<1>1. EventRowsOK' /\ ReceiptRowsOK' /\ EpisodeRowsOK'
  BY DEF EventRowsOK, ReceiptRowsOK, EpisodeRowsOK
<1>2. EnvironmentOK'
  BY DEF EnvironmentOK
<1>3. MemoryOK'
  BY DEF MemoryOK, EpisodeRowsOK
<1>4. TasksOK'
  BY DEF TasksOK, Steps, Workers
<1>5. LockInv'
  BY DEF LockInv, TasksOK, EpisodeRowsOK, Locked, Writing, Workers, IsOpen, OpenStates, Job
<1>6. TaskInv'
  BY DEF TaskInv, TasksOK, AtRest, Correlating, Locked, Workers, Job
<1>7. ReceiptInv'
  BY DEF ReceiptInv
<1>. QED  BY <1>1, <1>2, <1>3, <1>4, <1>5, <1>6, <1>7

\* StartupBackfill links only deliveries that created a row.
LEMMA StartupBackfillInv ==
  ASSUME IndInv, StartupBackfill
  PROVE  IndInv'
<1>. USE DEF IndInv, TypeOK, StartupBackfill, Move, environment, settings, eventRows, episodeRows,
             history
<1>1. EnvironmentOK' /\ EventRowsOK' /\ EpisodeRowsOK' /\ MemoryOK'
  BY DEF EnvironmentOK, EventRowsOK, EpisodeRowsOK, MemoryOK
<1>2. ReceiptRowsOK'
  BY BackfilledLinks DEF ReceiptRowsOK
<1>3. TasksOK'
  BY DEF TasksOK, Steps, Workers
<1>4. LockInv'
  BY DEF LockInv, TasksOK, EpisodeRowsOK, Locked, Writing, Workers, IsOpen, OpenStates, Job
<1>5. TaskInv'
  BY DEF TaskInv, TasksOK, AtRest, Correlating, Locked, Workers, Job
<1>6. ReceiptInv'
  <2>1. linked' = linked \/ \E e \in Events : linked' = Backfilled(e)
    OBVIOUS
  <2>2. \A x \in Deliveries : linked'[x] => linked[x] \/ \E e \in Events : evOrigin[e] = x
    BY <2>1, BackfilledLinks
  <2>. QED  BY <2>2 DEF ReceiptInv, TasksOK, Workers
<1>. QED  BY <1>1, <1>2, <1>3, <1>4, <1>5, <1>6

\* StartupScan picks an Event whose row exists.
LEMMA StartupScanInv ==
  ASSUME IndInv, StartupScan
  PROVE  IndInv'
<1>. USE DEF IndInv, TypeOK, StartupScan, Move, environment, settings, eventRows, receiptRows,
             episodeRows, history
<1>1. EnvironmentOK' /\ EventRowsOK' /\ ReceiptRowsOK' /\ EpisodeRowsOK' /\ MemoryOK'
  BY DEF EnvironmentOK, EventRowsOK, ReceiptRowsOK, EpisodeRowsOK, MemoryOK
<1>2. TasksOK'
  <2>1. PICK e \in Events :
          /\ areaLock' = [areaLock EXCEPT ![RowArea(e)] = Startup]
          /\ job' = [job EXCEPT ![Startup] = [IdleJob EXCEPT !.event = e]]
    OBVIOUS
  <2>2. [IdleJob EXCEPT !.event = e] \in Job
    BY DEF IdleJob, Job
  <2>. QED  BY <2>1, <2>2 DEF TasksOK, Steps, Workers
<1>3. LockInv'
  BY DEF LockInv, TasksOK, EpisodeRowsOK, Locked, Writing, Workers, IsOpen, OpenStates, Job
<1>4. TaskInv'
  BY DEF TaskInv, TasksOK, AtRest, Correlating, Locked, Workers, IdleJob, Pending
<1>5. ReceiptInv'
  BY DEF ReceiptInv
<1>. QED  BY <1>1, <1>2, <1>3, <1>4, <1>5

\* StartupPass needs the lifecycle lock, as TimeoutPass does.
LEMMA StartupPassInv ==
  ASSUME IndInv, StartupPass
  PROVE  IndInv'
<1>. USE DEF IndInv, TypeOK, StartupPass, Move, Pass, MayEnterPass, AfterPass, settings,
             eventRows, receiptRows, history
<1>1. EventRowsOK' /\ ReceiptRowsOK' /\ MemoryOK'
  BY DEF EventRowsOK, ReceiptRowsOK, MemoryOK
<1>2. EnvironmentOK'
  BY DEF EnvironmentOK
<1>3. EpisodeRowsOK'
  BY DEF EpisodeRowsOK, EpisodeState, OpenStates
<1>4. TasksOK'
  BY DEF TasksOK, Steps, Workers
<1>5. LockInv'
  BY DEF LockInv, TasksOK, Locked, Writing, Workers
<1>6. TaskInv'
  BY DEF TaskInv, TasksOK, AtRest, Correlating, Locked, Workers, Job
<1>7. ReceiptInv'
  BY DEF ReceiptInv
<1>. QED  BY <1>1, <1>2, <1>3, <1>4, <1>5, <1>6, <1>7

\* CompleteStartup needs the lifecycle lock, as TimeoutPass does.
LEMMA CompleteStartupInv ==
  ASSUME IndInv, CompleteStartup
  PROVE  IndInv'
<1>. USE DEF IndInv, TypeOK, CompleteStartup, Pass, MayEnterPass, AfterPass, settings, eventRows,
             receiptRows, tasks, history
<1>1. EventRowsOK' /\ ReceiptRowsOK' /\ MemoryOK'
  BY DEF EventRowsOK, ReceiptRowsOK, MemoryOK
<1>2. EnvironmentOK'
  BY DEF EnvironmentOK
<1>3. EpisodeRowsOK'
  BY DEF EpisodeRowsOK, EpisodeState, OpenStates
<1>4. TasksOK'
  BY DEF TasksOK
<1>5. LockInv'
  BY DEF LockInv, TasksOK, Locked, Writing, Workers
<1>6. TaskInv'
  BY DEF TaskInv
<1>7. ReceiptInv'
  BY DEF ReceiptInv
<1>. QED  BY <1>1, <1>2, <1>3, <1>4, <1>5, <1>6, <1>7

\* Crash frees every lock and leaves no task under way.
LEMMA CrashInv ==
  ASSUME IndInv, Crash
  PROVE  IndInv'
<1>. USE DEF IndInv, TypeOK, Crash, IdleJob, Never, NoTime, eventRows, receiptRows, episodeRows,
             history
<1>1. EventRowsOK' /\ ReceiptRowsOK' /\ EpisodeRowsOK'
  BY DEF EventRowsOK, ReceiptRowsOK, EpisodeRowsOK
<1>2. EnvironmentOK'
  BY DEF EnvironmentOK
<1>3. MemoryOK'
  BY DEF MemoryOK
<1>4. TasksOK'
  BY DEF TasksOK, Steps, Locked, Workers, Job
<1>5. LockInv'
  BY DEF LockInv, TasksOK, Locked, Writing, Workers
<1>6. TaskInv'
  BY DEF TaskInv, TasksOK, AtRest, Correlating, Locked, Workers, Job
<1>7. ReceiptInv'
  BY DEF ReceiptInv, TasksOK, Workers
<1>. QED  BY <1>1, <1>2, <1>3, <1>4, <1>5, <1>6, <1>7

\* Tick moves the clock.
LEMMA TickInv ==
  ASSUME IndInv, Tick
  PROVE  IndInv'
<1>. USE DEF IndInv, TypeOK, Tick, settings, eventRows, receiptRows, episodeRows, tasks, history
<1>1. EventRowsOK' /\ ReceiptRowsOK' /\ EpisodeRowsOK' /\ MemoryOK'
  BY DEF EventRowsOK, ReceiptRowsOK, EpisodeRowsOK, MemoryOK
<1>2. EnvironmentOK'
  BY DEF EnvironmentOK
<1>3. TasksOK'
  BY DEF TasksOK
<1>4. LockInv'
  BY DEF LockInv, IsOpen
<1>5. TaskInv'
  BY DEF TaskInv
<1>6. ReceiptInv'
  BY DEF ReceiptInv
<1>. QED  BY <1>1, <1>2, <1>3, <1>4, <1>5, <1>6

-----------------------------------------------------------------------------
\* The initial state satisfies the inductive invariant.
LEMMA InitInv == Init => IndInv
BY DEF Init, IndInv, TypeOK, EnvironmentOK, EventRowsOK, ReceiptRowsOK, EpisodeRowsOK, TasksOK,
       MemoryOK, LockInv, TaskInv, ReceiptInv, Kinds, EpisodeState, Job, IdleJob, Steps, Locked,
       Writing, AtRest, Correlating, Workers, Never, NoTime

\* A stuttering step preserves it.
LEMMA StutterInv == IndInv /\ UNCHANGED vars => IndInv'
BY DEF vars, environment, settings, eventRows, receiptRows, episodeRows, tasks, history,
       IndInv, TypeOK, EnvironmentOK, EventRowsOK, ReceiptRowsOK, EpisodeRowsOK, TasksOK,
       MemoryOK, LockInv, TaskInv, ReceiptInv, IsOpen

\* Every step preserves it: one lemma above for each action.
LEMMA NextInv == IndInv /\ [Next]_vars => IndInv'
<1>. SUFFICES ASSUME IndInv, [Next]_vars PROVE IndInv'
  OBVIOUS
<1>1. CASE \E d \in Deliveries : Receive(d) \/ DeliveryStep(d) \/ Fail(d)
  BY <1>1, ReceiveInv, RejectDraftInv, EnterAreaInv, CanonicalizeNewInv, CanonicalizeDuplicateInv,
     RejectConflictInv, BackfillInv, LinkInv, PublishInv, FailInv
  DEF DeliveryStep
<1>2. CASE \E w \in Workers : CorrelationStep(w)
  BY <1>2, RecoverInv, AbandonRecoveryInv, JoinEpisodeInv, OpenEpisodeInv, LinkFirstEventInv,
     RefuseAssociationInv, RecordActivityInv, ExtendMinimumEndInv, WakeInv, AnnounceInv,
     AttachInactiveInv, AttachFilteredInv, RecordAttachmentInv, RecordNoOpenEpisodeInv, LeaveAreaInv
  DEF CorrelationStep
<1>3. CASE \E ep \in Episodes : BeginFinalization(ep) \/ CompleteFinalization(ep)
  BY <1>3, BeginFinalizationInv, CompleteFinalizationInv
<1>4. CASE \E g \in Graces : SetGrace(g)
  BY <1>4, SetGraceInv
<1>5. CASE StartupStep
  BY <1>5, BootInv, StartupBackfillInv, StartupScanInv, StartupPassInv, CompleteStartupInv
  DEF StartupStep
<1>6. CASE TimeoutPass \/ GracePass \/ Crash \/ Tick
  BY <1>6, TimeoutPassInv, GracePassInv, CrashInv, TickInv
<1>7. CASE UNCHANGED vars
  BY <1>7, StutterInv
<1>. QED  BY <1>1, <1>2, <1>3, <1>4, <1>5, <1>6, <1>7 DEF Next

(***************************************************************************)
(* The inductive invariant holds always: whoever writes an Episode's rows  *)
(* holds the lifecycle lock, and the Episode it writes to is still open.   *)
(***************************************************************************)
THEOREM Invariance == Spec => []IndInv
<1>1. Init => IndInv
  BY InitInv
<1>2. IndInv /\ [Next]_vars => IndInv'
  BY NextInv
<1>. QED  BY <1>1, <1>2, PTL DEF Spec

(***************************************************************************)
(* Every variable keeps its type, for all values of the constants.         *)
(***************************************************************************)
THEOREM TypeCorrectness == Spec => []TypeOK
<1>1. IndInv => TypeOK
  BY DEF IndInv
<1>. QED  BY <1>1, Invariance, PTL

-----------------------------------------------------------------------------
(***************************************************************************)
(* The steps that write to Episodes or associate Events with them.         *)
(***************************************************************************)
EpisodeStep(w) ==
  \/ JoinEpisode(w) \/ OpenEpisode(w) \/ LinkFirstEvent(w)
  \/ RecordActivity(w) \/ ExtendMinimumEnd(w) \/ Wake(w)
  \/ AttachInactive(w) \/ AttachFiltered(w)

PassStep == TimeoutPass \/ GracePass \/ StartupPass \/ CompleteStartup

Untouched == UNCHANGED <<epState, minEnd, lastActivity, evEpisode>>

\* No other step does.
LEMMA EpisodeWriters ==
  ASSUME [Next]_vars
  PROVE  \/ \E w \in Workers : EpisodeStep(w)
         \/ PassStep
         \/ \E ep \in Episodes : CompleteFinalization(ep)
         \/ Tick
         \/ \E g \in Graces : SetGrace(g)
         \/ Untouched /\ UNCHANGED <<now, grace>>
<1>. USE DEF Untouched, environment, settings, eventRows, episodeRows
<1>1. ASSUME NEW d \in Deliveries, Receive(d) \/ DeliveryStep(d) \/ Fail(d)
      PROVE  Untouched /\ UNCHANGED <<now, grace>>
  BY <1>1 DEF DeliveryStep, Receive, RejectDraft, EnterArea, CanonicalizeNew, CanonicalizeDuplicate,
              RejectConflict, Backfill, Link, Publish, Fail
<1>2. ASSUME NEW w \in Workers, CorrelationStep(w)
      PROVE  EpisodeStep(w) \/ (Untouched /\ UNCHANGED <<now, grace>>)
  BY <1>2 DEF CorrelationStep, EpisodeStep, Recover, AbandonRecovery, RefuseAssociation, Announce,
              RecordAttachment, RecordNoOpenEpisode, LeaveArea
<1>3. ASSUME NEW ep \in Episodes, BeginFinalization(ep)
      PROVE  Untouched /\ UNCHANGED <<now, grace>>
  BY <1>3 DEF BeginFinalization
<1>4. ASSUME StartupStep
      PROVE  PassStep \/ (Untouched /\ UNCHANGED <<now, grace>>)
  BY <1>4 DEF StartupStep, PassStep, Boot, StartupBackfill, StartupScan
<1>5. ASSUME Crash
      PROVE  Untouched /\ UNCHANGED <<now, grace>>
  BY <1>5 DEF Crash
<1>6. ASSUME UNCHANGED vars
      PROVE  Untouched /\ UNCHANGED <<now, grace>>
  BY <1>6 DEF vars
<1>. QED  BY <1>1, <1>2, <1>3, <1>4, <1>5, <1>6 DEF Next, PassStep

\* A sealed Episode is not open, and no task is writing to it.
LEMMA SealedHasNoWriter ==
  ASSUME IndInv, NEW ep \in Episodes, epState[ep] \in {"finalizing", "closed"}
  PROVE  /\ ~IsOpen(ep)
         /\ \A w \in Workers : pc[w] \in Writing => job[w].episode # ep
BY DEF IndInv, LockInv, IsOpen, OpenStates

\* What one step may do to a sealed Episode.
Sealed(ep) ==
  /\ epState'[ep] \in {epState[ep], "closed"}
  /\ minEnd'[ep] = minEnd[ep] /\ lastActivity'[ep] = lastActivity[ep]
  /\ \A e \in Events : (evEpisode'[e] = ep) <=> (evEpisode[e] = ep)

\* Every step respects a sealed Episode.
LEMMA SealedStep ==
  ASSUME IndInv, [Next]_vars, NEW ep \in Episodes, epState[ep] \in {"finalizing", "closed"}
  PROVE  Sealed(ep)
<1>. USE DEF Sealed
<1>1. ASSUME NEW w \in Workers, EpisodeStep(w)
      PROVE  Sealed(ep)
  <2>. USE SealedHasNoWriter DEF IndInv, TypeOK, EventRowsOK, EpisodeRowsOK
  <2>1. CASE JoinEpisode(w)
    <3>1. PICK other \in Targets(w) :
            MayAssociate(job[w].event, other) /\ evEpisode' = [evEpisode EXCEPT ![job[w].event] = other]
      BY <2>1 DEF JoinEpisode
    <3>2. other # ep /\ evEpisode[job[w].event] # ep
      BY <3>1 DEF MayAssociate
    <3>. QED  BY <2>1, <3>1, <3>2 DEF JoinEpisode, episodeRows
  <2>2. CASE OpenEpisode(w)
    BY <2>2 DEF OpenEpisode, EnterLifecycle, eventRows
  <2>3. CASE LinkFirstEvent(w)
    <3>1. job[w].episode # ep
      BY <2>3 DEF LinkFirstEvent, Move, Writing
    <3>. QED  BY <2>3, <3>1 DEF LinkFirstEvent, MayAssociate, episodeRows
  <2>4. CASE RecordActivity(w)
    <3>1. job[w].episode # ep
      BY <2>4 DEF RecordActivity, Move, Writing
    <3>. QED  BY <2>4, <3>1 DEF RecordActivity, eventRows
  <2>5. CASE ExtendMinimumEnd(w)
    <3>1. job[w].episode # ep
      BY <2>5 DEF ExtendMinimumEnd, Move, Writing
    <3>. QED  BY <2>5, <3>1 DEF ExtendMinimumEnd, eventRows
  <2>6. CASE Wake(w)
    <3>1. job[w].episode # ep
      BY <2>6 DEF Wake, Move, Writing
    <3>. QED  BY <2>6, <3>1 DEF Wake, eventRows
  <2>7. CASE AttachInactive(w)
    <3>. DEFINE e == job[w].event
    <3>1. CASE PrecedingEpisodes(e) = {}
      BY <2>7, <3>1 DEF AttachInactive, episodeRows
    <3>2. CASE PrecedingEpisodes(e) # {}
      <4>1. PICK other \in PrecedingEpisodes(e) :
              MayAssociate(e, other) /\ evEpisode' = [evEpisode EXCEPT ![e] = other]
        BY <2>7, <3>2 DEF AttachInactive
      <4>2. other # ep /\ evEpisode[e] # ep
        BY <4>1 DEF MayAssociate
      <4>. QED  BY <2>7, <4>1, <4>2 DEF AttachInactive, episodeRows
    <3>. QED  BY <3>1, <3>2
  <2>8. CASE AttachFiltered(w)
    <3>1. PICK other \in ContextTargets(w) :
            MayAssociate(job[w].event, other) /\ evEpisode' = [evEpisode EXCEPT ![job[w].event] = other]
      BY <2>8 DEF AttachFiltered
    <3>2. other # ep /\ evEpisode[job[w].event] # ep
      BY <3>1 DEF MayAssociate
    <3>. QED  BY <2>8, <3>1, <3>2 DEF AttachFiltered, episodeRows
  <2>. QED  BY <1>1, <2>1, <2>2, <2>3, <2>4, <2>5, <2>6, <2>7, <2>8 DEF EpisodeStep
<1>2. ASSUME PassStep
      PROVE  Sealed(ep)
  BY <1>2, SealedHasNoWriter DEF PassStep, TimeoutPass, GracePass, StartupPass, CompleteStartup,
     Pass, AfterPass, Quiesces, eventRows
<1>3. ASSUME NEW other \in Episodes, CompleteFinalization(other)
      PROVE  Sealed(ep)
  BY <1>3 DEF CompleteFinalization, eventRows, IndInv, TypeOK, EpisodeRowsOK
<1>4. ASSUME Tick \/ (\E g \in Graces : SetGrace(g)) \/ Untouched
      PROVE  Sealed(ep)
  BY <1>4 DEF Tick, SetGrace, Untouched, episodeRows, eventRows
<1>. QED  BY EpisodeWriters, <1>1, <1>2, <1>3, <1>4

(***************************************************************************)
(* A sealed Episode is final.  The lifecycle lock is what makes it so: a   *)
(* pass needs the lock free, and then no task is between its commits.      *)
(***************************************************************************)
THEOREM SealedEpisodesAreFinal == Spec => SealedIsFinal
<1>. DEFINE Step == \A ep \in Episodes : epState[ep] \in {"finalizing", "closed"} => Sealed(ep)
<1>1. IndInv /\ [Next]_vars => Step
  BY SealedStep
<1>2. Step => \A ep \in Episodes :
                epState[ep] \in {"finalizing", "closed"} =>
                  /\ epState'[ep] \in {epState[ep], "closed"}
                  /\ minEnd'[ep] = minEnd[ep] /\ lastActivity'[ep] = lastActivity[ep]
                  /\ \A e \in Events : (evEpisode'[e] = ep) <=> (evEpisode[e] = ep)
  BY DEF Sealed
<1>. QED  BY <1>1, <1>2, Invariance, PTL DEF Spec, SealedIsFinal

-----------------------------------------------------------------------------
\* Where an association is written, add_event_to_episode's check was made.
LEMMA AssociationStep ==
  ASSUME IndInv, [Next]_vars
  PROVE  \/ UNCHANGED evEpisode
         \/ \E e \in Events, ep \in Episodes :
              MayAssociate(e, ep) /\ evEpisode' = [evEpisode EXCEPT ![e] = ep]
<1>1. ASSUME NEW w \in Workers, EpisodeStep(w)
      PROVE  \/ UNCHANGED evEpisode
             \/ \E e \in Events, ep \in Episodes :
                  MayAssociate(e, ep) /\ evEpisode' = [evEpisode EXCEPT ![e] = ep]
  <2>1. CASE JoinEpisode(w)
    <3>1. job[w].event \in Events
      BY <2>1, CorrelatedEvent DEF JoinEpisode, EnterLifecycle, Move, Correlating
    <3>. QED  BY <2>1, <3>1, TargetsAreOpen DEF JoinEpisode
  <2>2. CASE LinkFirstEvent(w)
    <3>1. job[w].event \in Events
      BY <2>2, CorrelatedEvent DEF LinkFirstEvent, Move, Correlating, Locked
    <3>2. job[w].episode \in Episodes
      BY <2>2 DEF LinkFirstEvent, Move, IndInv, LockInv, Writing
    <3>. QED  BY <2>2, <3>1, <3>2 DEF LinkFirstEvent
  <2>3. CASE AttachInactive(w)
    <3>1. job[w].event \in Events
      BY <2>3, CorrelatedEvent DEF AttachInactive, Move, Correlating
    <3>. QED  BY <2>3, <3>1 DEF AttachInactive, PrecedingEpisodes
  <2>4. CASE AttachFiltered(w)
    <3>1. job[w].event \in Events
      BY <2>4, CorrelatedEvent DEF AttachFiltered, EnterLifecycle, Move, Correlating
    <3>. QED  BY <2>4, <3>1, TargetsAreOpen DEF AttachFiltered
  <2>5. CASE OpenEpisode(w) \/ RecordActivity(w) \/ ExtendMinimumEnd(w) \/ Wake(w)
    BY <2>5 DEF OpenEpisode, RecordActivity, ExtendMinimumEnd, Wake, eventRows
  <2>. QED  BY <1>1, <2>1, <2>2, <2>3, <2>4, <2>5 DEF EpisodeStep
<1>2. ASSUME PassStep \/ (\E ep \in Episodes : CompleteFinalization(ep)) \/ Tick
             \/ (\E g \in Graces : SetGrace(g)) \/ Untouched
      PROVE  UNCHANGED evEpisode
  BY <1>2 DEF PassStep, TimeoutPass, GracePass, StartupPass, CompleteStartup, CompleteFinalization,
              Tick, SetGrace, Untouched, eventRows
<1>. QED  BY EpisodeWriters, <1>1, <1>2

(***************************************************************************)
(* An Event never leaves its Episode, whichever Areas its deliveries hold. *)
(***************************************************************************)
THEOREM AssociationsArePermanent == Spec => AssociationIsPermanent
<1>1. ASSUME IndInv, [Next]_vars, NEW e \in Events, evEpisode[e] # NoEpisode
      PROVE  evEpisode'[e] = evEpisode[e]
  BY <1>1, AssociationStep DEF MayAssociate, IndInv, TypeOK, EventRowsOK
<1>2. IndInv /\ [Next]_vars =>
        \A e \in Events : evEpisode[e] # NoEpisode => evEpisode'[e] = evEpisode[e]
  BY <1>1
<1>. QED  BY <1>2, Invariance, PTL DEF Spec, AssociationIsPermanent

-----------------------------------------------------------------------------
\* What one step may do to the deadlines: open an Episode, or extend one.
LEMMA DeadlineStep ==
  ASSUME IndInv, [Next]_vars
  PROVE  \/ UNCHANGED minEnd
         \/ \E ep \in Episodes, t \in Nat :
              /\ minEnd' = [minEnd EXCEPT ![ep] = t]
              /\ epState[ep] = "none" \/ (IsOpen(ep) /\ t >= minEnd[ep])
<1>1. ASSUME NEW w \in Workers, OpenEpisode(w)
      PROVE  \E ep \in Episodes, t \in Nat :
               epState[ep] = "none" /\ minEnd' = [minEnd EXCEPT ![ep] = t]
  <2>1. Contribution(w) \in Nat
    BY <1>1, CorrelatedEvent DEF OpenEpisode, EnterLifecycle, Move, Correlating
  <2>. QED  BY <1>1, <2>1 DEF OpenEpisode
<1>2. ASSUME NEW w \in Workers, ExtendMinimumEnd(w)
      PROVE  \E ep \in Episodes, t \in Nat :
               IsOpen(ep) /\ t >= minEnd[ep] /\ minEnd' = [minEnd EXCEPT ![ep] = t]
  <2>. DEFINE ep == job[w].episode
              t  == Extended(ep, Contribution(w))
  <2>1. Contribution(w) \in Nat
    BY <1>2, CorrelatedEvent DEF ExtendMinimumEnd, Move, Correlating, Locked
  <2>2. ep \in Episodes /\ IsOpen(ep)
    BY <1>2 DEF ExtendMinimumEnd, Move, IndInv, LockInv, Writing
  <2>3. t \in Nat /\ t >= minEnd[ep]
    BY <2>1, <2>2 DEF Extended, Larger, IndInv, TypeOK, EpisodeRowsOK
  <2>4. minEnd' = [minEnd EXCEPT ![ep] = t]
    BY <1>2 DEF ExtendMinimumEnd
  <2>. QED  BY <2>2, <2>3, <2>4
<1>3. ASSUME NEW w \in Workers, EpisodeStep(w), ~OpenEpisode(w), ~ExtendMinimumEnd(w)
      PROVE  UNCHANGED minEnd
  BY <1>3 DEF EpisodeStep, JoinEpisode, LinkFirstEvent, RecordActivity, Wake, AttachInactive,
              AttachFiltered, episodeRows
<1>4. ASSUME PassStep \/ (\E ep \in Episodes : CompleteFinalization(ep)) \/ Tick
             \/ (\E g \in Graces : SetGrace(g)) \/ Untouched
      PROVE  UNCHANGED minEnd
  BY <1>4 DEF PassStep, TimeoutPass, GracePass, StartupPass, CompleteStartup, Pass,
              CompleteFinalization, Tick, SetGrace, Untouched, episodeRows
<1>. QED  BY EpisodeWriters, <1>1, <1>2, <1>3, <1>4

(***************************************************************************)
(* Later Events may extend an Episode's deadline but never shorten it.     *)
(***************************************************************************)
THEOREM DeadlinesNeverShrink == Spec => DeadlineNeverShrinks
<1>1. ASSUME IndInv, [Next]_vars, NEW ep \in Episodes, epState[ep] # "none"
      PROVE  minEnd'[ep] >= minEnd[ep]
  BY <1>1, DeadlineStep DEF IndInv, TypeOK, EpisodeRowsOK
<1>2. IndInv /\ [Next]_vars =>
        \A ep \in Episodes : epState[ep] # "none" => minEnd'[ep] >= minEnd[ep]
  BY <1>1
<1>. QED  BY <1>2, Invariance, PTL DEF Spec, DeadlineNeverShrinks

-----------------------------------------------------------------------------
(***************************************************************************)
(* The engine implements EpisodeLifecycle.  Commits that matter to it are  *)
(* the association (Join), the new row (Open), the greater deadline        *)
(* (Extend), the return to ACTIVE (Resume), a pass (Expire) and the        *)
(* closing write (Close); every other step of the engine stutters.         *)
(***************************************************************************)
Abstract == [Lifecycle!Next]_(Lifecycle!vars)

\* The abstract members change with the association, and with nothing else.
LEMMA MembersFollowAssociation ==
  ASSUME IndInv, NEW e \in Events, NEW ep \in Episodes,
         evEpisode[e] = NoEpisode, evEpisode' = [evEpisode EXCEPT ![e] = ep]
  PROVE  /\ \A other \in Episodes : e \notin MembersOf(other)
         /\ MembersOf(ep)' = MembersOf(ep) \union {e}
         /\ \A other \in Episodes \ {ep} : MembersOf(other)' = MembersOf(other)
BY DEF IndInv, TypeOK, EventRowsOK, MembersOf

\* An association is Join, or a stutter if the Event was there already.
LEMMA AssociationRefines ==
  ASSUME IndInv, NEW e \in Events, NEW ep \in Episodes, MayAssociate(e, ep),
         evEpisode' = [evEpisode EXCEPT ![e] = ep],
         UNCHANGED <<now, grace, epState, minEnd>>
  PROVE  Abstract
<1>1. CASE evEpisode[e] = ep
  <2>1. evEpisode' = evEpisode
    BY <1>1 DEF IndInv, TypeOK, EventRowsOK
  <2>. QED  BY <2>1 DEF Abstract, Lifecycle!vars, MembersOf
<1>2. CASE evEpisode[e] = NoEpisode
  <2>1. Lifecycle!Join(ep, e)
    BY <1>2, MembersFollowAssociation
    DEF Lifecycle!Join, Lifecycle!OpenStates, MayAssociate, IsOpen, OpenStates
  <2>. QED  BY <2>1 DEF Abstract, Lifecycle!Next
<1>. QED  BY <1>1, <1>2 DEF MayAssociate

\* A pass moves every Episode as Expire allows.
LEMMA PassRefines ==
  ASSUME IndInv, Pass, UNCHANGED <<now, grace, evEpisode>>
  PROVE  Abstract
<1>1. epState' \in [Episodes -> EpisodeState]
  BY DEF Pass, AfterPass, EpisodeState, IndInv, TypeOK, EpisodeRowsOK
<1>2. \A ep \in Episodes : Lifecycle!Expires(ep, epState'[ep])
  BY DEF Pass, AfterPass, Expired, Quiesces, IsOpen, OpenStates, Lifecycle!Expires, Lifecycle!OpenStates
<1>3. Lifecycle!Expire
  BY <1>1, <1>2 DEF Lifecycle!Expire, Lifecycle!EpisodeState, EpisodeState, Pass, MembersOf
<1>. QED  BY <1>3 DEF Abstract, Lifecycle!Next

\* Every step of a correlation is a step of the abstract specification.
LEMMA EpisodeStepRefines ==
  ASSUME IndInv, NEW w \in Workers, EpisodeStep(w)
  PROVE  Abstract
<1>. USE DEF settings, environment
<1>1. CASE JoinEpisode(w) \/ LinkFirstEvent(w) \/ AttachInactive(w) \/ AttachFiltered(w)
  <2>1. UNCHANGED <<now, grace, epState, minEnd>>
    BY <1>1 DEF JoinEpisode, LinkFirstEvent, AttachInactive, AttachFiltered, episodeRows
  <2>2. [Next]_vars
    BY <1>1 DEF Next, CorrelationStep
  <2>3. CASE UNCHANGED evEpisode
    BY <2>1, <2>3 DEF Abstract, Lifecycle!vars, MembersOf
  <2>4. CASE \E e \in Events, ep \in Episodes :
               MayAssociate(e, ep) /\ evEpisode' = [evEpisode EXCEPT ![e] = ep]
    BY <2>1, <2>4, AssociationRefines
  <2>. QED  BY <2>2, <2>3, <2>4, AssociationStep
<1>2. CASE OpenEpisode(w)
  <2>1. PICK ep \in Episodes :
          /\ epState[ep] = "none"
          /\ epState' = [epState EXCEPT ![ep] = "active"]
          /\ minEnd' = [minEnd EXCEPT ![ep] = Contribution(w)]
    BY <1>2 DEF OpenEpisode
  <2>2. Contribution(w) \in Nat
    BY <1>2, CorrelatedEvent DEF OpenEpisode, EnterLifecycle, Move, Correlating
  <2>3. minEnd'[ep] = Contribution(w)
    BY <2>1 DEF IndInv, TypeOK, EpisodeRowsOK
  <2>4. UNCHANGED <<now, grace, evEpisode>>
    BY <1>2 DEF OpenEpisode, eventRows
  <2>5. Lifecycle!Open(ep)
    BY <2>1, <2>2, <2>3, <2>4 DEF Lifecycle!Open, MembersOf
  <2>. QED  BY <2>5 DEF Abstract, Lifecycle!Next
<1>3. CASE ExtendMinimumEnd(w)
  <2>. DEFINE ep == job[w].episode
              t  == Extended(ep, Contribution(w))
  <2>1. Contribution(w) \in Nat
    BY <1>3, CorrelatedEvent DEF ExtendMinimumEnd, Move, Correlating, Locked
  <2>2. ep \in Episodes /\ epState[ep] \in OpenStates
    BY <1>3 DEF ExtendMinimumEnd, Move, IndInv, LockInv, Writing, IsOpen
  <2>3. t \in Nat /\ t >= minEnd[ep]
    BY <2>1, <2>2 DEF Extended, Larger, IndInv, TypeOK, EpisodeRowsOK
  <2>4. minEnd' = [minEnd EXCEPT ![ep] = t]
    BY <1>3 DEF ExtendMinimumEnd
  <2>5. minEnd'[ep] = t
    BY <2>2, <2>4 DEF IndInv, TypeOK, EpisodeRowsOK
  <2>6. UNCHANGED <<now, grace, epState, evEpisode>>
    BY <1>3 DEF ExtendMinimumEnd, eventRows
  <2>7. Lifecycle!Extend(ep)
    BY <2>2, <2>3, <2>4, <2>5, <2>6 DEF Lifecycle!Extend, Lifecycle!OpenStates, OpenStates, MembersOf
  <2>. QED  BY <2>2, <2>7 DEF Abstract, Lifecycle!Next
<1>4. CASE Wake(w)
  <2>. DEFINE ep == job[w].episode
  <2>1. ep \in Episodes /\ epState[ep] \in OpenStates
    BY <1>4 DEF Wake, Move, IndInv, LockInv, Writing, IsOpen
  <2>2. UNCHANGED <<now, grace, minEnd, evEpisode>> /\ epState' = [epState EXCEPT ![ep] = "active"]
    BY <1>4 DEF Wake, eventRows
  <2>3. CASE epState[ep] = "quiescent"
    <3>1. Lifecycle!Resume(ep)
      BY <2>2, <2>3 DEF Lifecycle!Resume, MembersOf
    <3>. QED  BY <2>1, <3>1 DEF Abstract, Lifecycle!Next
  <2>4. CASE epState[ep] = "active"
    <3>1. epState' = epState
      BY <2>1, <2>2, <2>4 DEF IndInv, TypeOK, EpisodeRowsOK
    <3>. QED  BY <2>2, <3>1 DEF Abstract, Lifecycle!vars, MembersOf
  <2>. QED  BY <2>1, <2>3, <2>4 DEF OpenStates
<1>5. CASE RecordActivity(w)
  BY <1>5 DEF RecordActivity, eventRows, Abstract, Lifecycle!vars, MembersOf
<1>. QED  BY <1>1, <1>2, <1>3, <1>4, <1>5 DEF EpisodeStep

\* Every step of the engine is a step or a stutter of the abstract one.
LEMMA StepRefines == IndInv /\ [Next]_vars => Abstract
<1>. SUFFICES ASSUME IndInv, [Next]_vars PROVE Abstract
  OBVIOUS
<1>1. ASSUME NEW w \in Workers, EpisodeStep(w) PROVE Abstract
  BY <1>1, EpisodeStepRefines
<1>2. CASE PassStep
  <2>1. Pass /\ UNCHANGED <<now, grace, evEpisode>>
    BY <1>2 DEF PassStep, TimeoutPass, GracePass, StartupPass, CompleteStartup, environment,
                settings, eventRows
  <2>. QED  BY <2>1, PassRefines
<1>3. ASSUME NEW ep \in Episodes, CompleteFinalization(ep) PROVE Abstract
  <2>1. Lifecycle!Close(ep)
    BY <1>3 DEF CompleteFinalization, Lifecycle!Close, environment, settings, eventRows, MembersOf
  <2>. QED  BY <2>1 DEF Abstract, Lifecycle!Next
<1>4. CASE Tick
  <2>1. Lifecycle!Tick
    BY <1>4 DEF Tick, Lifecycle!Tick, settings, eventRows, episodeRows, MembersOf
  <2>. QED  BY <2>1 DEF Abstract, Lifecycle!Next
<1>5. ASSUME NEW g \in Graces, SetGrace(g) PROVE Abstract
  <2>1. Lifecycle!SetGrace
    BY <1>5 DEF SetGrace, Lifecycle!SetGrace, environment, eventRows, episodeRows, MembersOf
  <2>. QED  BY <2>1 DEF Abstract, Lifecycle!Next
<1>6. CASE Untouched /\ UNCHANGED <<now, grace>>
  BY <1>6 DEF Untouched, Abstract, Lifecycle!vars, MembersOf
<1>. QED  BY EpisodeWriters, <1>1, <1>2, <1>3, <1>4, <1>5, <1>6

(***************************************************************************)
(* The engine, commit by commit and with crashes between them, implements  *)
(* the lifecycle an Episode is promised.                                   *)
(***************************************************************************)
THEOREM EngineImplementsLifecycle == Spec => Implements
<1>1. Init => Lifecycle!Init
  BY DEF Init, Lifecycle!Init, MembersOf
<1>2. IndInv /\ [Next]_vars => [Lifecycle!Next]_(Lifecycle!vars)
  BY StepRefines DEF Abstract
<1>. QED  BY <1>1, <1>2, Invariance, PTL DEF Spec, Implements, Lifecycle!Spec

-----------------------------------------------------------------------------
(***************************************************************************)
(* What a correlation leaves behind: receipts and times, leases and        *)
(* deadlines, quiescence, pending Events, actions and shells.  Each part   *)
(* of the two invariants has one lemma for a step of the engine, which     *)
(* relies on the parts before it.                                          *)
(***************************************************************************)
-----------------------------------------------------------------------------
(***************************************************************************)
(* The lemmas about single actions and queries.                            *)
(***************************************************************************)

\* Recovery keeps the task's Event, and correlates at its first ingress.
LEMMA RecoverOutcome ==
  ASSUME IndInv, NEW w \in Workers, Recover(w)
  PROVE  /\ \A x \in Workers \ {w} : pc'[x] = pc[x] /\ job'[x] = job[x]
         /\ job'[w].event = job[w].event /\ job'[w].episode = job[w].episode
         /\ \/ ~Pending(job[w].event) /\ pc'[w] = "leave" /\ job' = job
            \/ /\ Pending(job[w].event) /\ pc'[w] = "lifecycle"
               /\ job'[w].mode = "recovered" /\ job'[w].at \in Earliest(Ingress(job[w].event))
<1>. DEFINE e == job[w].event
<1>. USE DEF IndInv, TypeOK, TasksOK
<1>1. CASE ~Pending(e)
  BY <1>1 DEF Recover, Move, Steps
<1>2. CASE Pending(e)
  <2>1. PICK t \in Earliest(Ingress(e)) :
          job' = [job EXCEPT ![w].mode = "recovered", ![w].at = t,
                             ![w].expired = evKind[e] = "allowed" /\ t + evWindow[e] + grace < now]
    BY <1>2 DEF Recover
  <2>. DEFINE late == evKind[e] = "allowed" /\ t + evWindow[e] + grace < now
              next == [job[w] EXCEPT !.mode = "recovered", !.at = t, !.expired = late]
  <2>2. job' = [job EXCEPT ![w] = next] /\ job[w] \in Job
    BY <2>1
  <2>3. pc' = [pc EXCEPT ![w] = "lifecycle"]
    BY <1>2 DEF Recover, Move
  <2>. HIDE DEF late
  <2>4. next.mode = "recovered" /\ next.at = t
    BY <2>2 DEF Job
  <2>. HIDE DEF next
  <2>5. job'[w] = next /\ \A x \in Workers \ {w} : job'[x] = job[x]
    BY <2>2
  <2>. QED  BY <1>2, <2>1, <2>3, <2>4, <2>5, RecoverKeepsEvent
<1>. QED  BY <1>1, <1>2

\* Receipts only ever become linked, so what holds of linked ones stays so.
LEMMA LinksGrow ==
  ASSUME \A d \in Deliveries : linked[d] => linked'[d],
         UNCHANGED <<received, evKind, evOrigin>>, NEW e \in Events, evOrigin[e] \in Deliveries
  PROVE  /\ Ingress(e) \subseteq Ingress(e)'
         /\ OriginLinked(e) => OriginLinked(e)'
BY DEF Ingress, OriginLinked, IsActiveRow

\* A backfill links the first receipt of its Event, unless one is linked already.
LEMMA BackfillLinksOrigin ==
  ASSUME IndInv, OriginInv, LinksIncludeOrigin, NEW e \in Events, evKind[e] # "absent",
         linked' = Backfilled(e), UNCHANGED <<received, evKind, evOrigin>>
  PROVE  /\ \A d \in Deliveries : linked[d] => linked'[d]
         /\ OriginLinked(e)' /\ LinksIncludeOrigin'
<1>. USE DEF IndInv, TypeOK, ReceiptRowsOK
<1>1. evOrigin[e] \in Deliveries /\ EventOf[evOrigin[e]] = e
  BY DEF ReceiptInv, OriginInv, RowHasOrigin
<1>2. CASE NeedsBackfill(e)
  <2>1. linked' = [linked EXCEPT ![evOrigin[e]] = TRUE]
    BY <1>2 DEF Backfilled
  <2>2. \A d \in Deliveries : linked'[d] <=> linked[d] \/ d = evOrigin[e]
    BY <1>1, <2>1
  <2>. QED  BY <1>1, <2>2 DEF OriginLinked, LinksIncludeOrigin, IsActiveRow, ReceiptInv
<1>3. CASE ~NeedsBackfill(e)
  <2>1. linked' = linked
    BY <1>3 DEF Backfilled
  <2>2. PICK d \in Deliveries : linked[d] /\ EventOf[d] = e
    BY <1>3 DEF NeedsBackfill, Ingress
  <2>. QED  BY <2>1, <2>2 DEF OriginLinked, LinksIncludeOrigin, IsActiveRow
<1>. QED  BY <1>2, <1>3

\* Only the Event of a task that correlates is associated.
LEMMA AssociatesOwnEvent ==
  ASSUME IndInv, NEW w \in Workers,
         JoinEpisode(w) \/ LinkFirstEvent(w) \/ AttachInactive(w) \/ AttachFiltered(w)
  PROVE  /\ pc[w] \in Correlating
         /\ \A e \in Events \ {job[w].event} : evEpisode'[e] = evEpisode[e]
BY DEF JoinEpisode, EnterLifecycle, LinkFirstEvent, AttachInactive, AttachFiltered, Move, Correlating,
       Locked, IndInv, TypeOK, EventRowsOK

\* A new row leaves the rows that exist alone.
LEMMA NewRow ==
  ASSUME IndInv, NEW d \in Deliveries, CanonicalizeNew(d)
  PROVE  /\ evKind[EventOf[d]] = "absent" /\ evKind'[EventOf[d]] # "absent"
         /\ evOrigin'[EventOf[d]] = d
         /\ \A e \in Events : evKind[e] # "absent" =>
              evKind'[e] = evKind[e] /\ evOrigin'[e] = evOrigin[e] /\ evWindow'[e] = evWindow[e]
         /\ pc[d] = "canonicalize" /\ pc' = [pc EXCEPT ![d] = "link"]
         /\ \A x \in Workers \ {d} : job'[x] = job[x]
         /\ job'[d].mode = "new" /\ job'[d].event = job[d].event
         /\ UNCHANGED <<received, linked, evEpisode, areaLock>>
<1>1. /\ evKind \in [Events -> Kinds \union {"absent"}] /\ evWindow \in [Events -> Nat]
      /\ evOrigin \in [Events -> Deliveries \union {NoDelivery}]
      /\ job \in [Workers -> Job] /\ d \in Workers
  BY DEF IndInv, TypeOK, EventRowsOK, TasksOK, Workers
<1>2. /\ pc[d] = "canonicalize" /\ pc' = [pc EXCEPT ![d] = "link"]
      /\ UNCHANGED <<received, linked, evEpisode, areaLock>>
  BY DEF CanonicalizeNew, Move, receiptRows
<1>3. /\ evKind[EventOf[d]] = "absent" /\ \E kind : evKind' = [evKind EXCEPT ![EventOf[d]] = kind] /\ kind # "absent"
      /\ \E win : evWindow' = [evWindow EXCEPT ![EventOf[d]] = win]
      /\ evOrigin' = [evOrigin EXCEPT ![EventOf[d]] = d] /\ job' = [job EXCEPT ![d].mode = "new"]
      /\ EventOf[d] \in Events
  BY DEF CanonicalizeNew, Kinds
<1>4. /\ evKind'[EventOf[d]] # "absent" /\ evOrigin'[EventOf[d]] = d
      /\ \A e \in Events : evKind[e] # "absent" =>
           evKind'[e] = evKind[e] /\ evOrigin'[e] = evOrigin[e] /\ evWindow'[e] = evWindow[e]
  BY ONLY <1>1, <1>3
<1>5. (\A x \in Workers \ {d} : job'[x] = job[x]) /\ job'[d].mode = "new" /\ job'[d].event = job[d].event
  <2>1. job[d] \in Job
    BY <1>1
  <2>. QED  BY ONLY <1>1, <1>3, <2>1 DEF Job
<1>. QED  BY <1>2, <1>3, <1>4, <1>5

\* A set of times that is not empty has an earliest one.
LEMMA EarliestExists ==
  ASSUME NEW S, S \subseteq Nat, S # {}
  PROVE  Earliest(S) # {}
<1>1. PICK t \in S : \A u \in S : <<u, t>> \notin OpToRel(<, Nat)
  BY WFMin, NatLessThanWellFounded
<1>2. \A u \in S : ~(u < t)
  BY <1>1, Zenon DEF OpToRel
<1>3. \A u \in S : t <= u
  BY <1>2
<1>. QED  BY <1>1, <1>3 DEF Earliest

-----------------------------------------------------------------------------
(***************************************************************************)
(* Receipts and times: which delivery an Event is correlated for, and when. *)
(***************************************************************************)

\* Deliveries run in a running engine, the startup task in a recovering one.
LEMMA PhaseStep ==
  ASSUME IndInv, PhaseInv, [Next]_vars
  PROVE  PhaseInv'
<1>. USE DEF IndInv, TypeOK, EnvironmentOK, TasksOK, TaskInv, PhaseInv, Workers, Locked, AtRest, Move,
             environment, tasks
<1>1. ASSUME NEW d \in Deliveries, Receive(d) \/ DeliveryStep(d) \/ Fail(d)
      PROVE  PhaseInv'
  BY <1>1 DEF DeliveryStep, Receive, RejectDraft, RejectConflict, Fail, Abort, CanonicalizeNew,
              EnterArea, CanonicalizeDuplicate, Backfill, Link, AfterLink, Publish
<1>2. ASSUME NEW w \in Workers, CorrelationStep(w)
      PROVE  PhaseInv'
  <2>1. CASE Recover(w) \/ AbandonRecovery(w) \/ LeaveArea(w)
    BY <2>1 DEF Recover, AbandonRecovery, LeaveArea
  <2>2. CASE JoinEpisode(w) \/ OpenEpisode(w)
    BY <2>2 DEF JoinEpisode, OpenEpisode, EnterLifecycle
  <2>3. CASE LinkFirstEvent(w) \/ RefuseAssociation(w)
    BY <2>3 DEF LinkFirstEvent, RefuseAssociation, Abort
  <2>4. CASE RecordActivity(w) \/ ExtendMinimumEnd(w) \/ Wake(w) \/ Announce(w)
    BY <2>4 DEF RecordActivity, ExtendMinimumEnd, Wake, Announce
  <2>5. CASE AttachInactive(w) \/ AttachFiltered(w)
    BY <2>5 DEF AttachInactive, AttachFiltered, EnterLifecycle
  <2>6. CASE RecordAttachment(w) \/ RecordNoOpenEpisode(w)
    BY <2>6 DEF RecordAttachment, RecordNoOpenEpisode, EnterLifecycle
  <2>. QED  BY <1>2, <2>1, <2>2, <2>3, <2>4, <2>5, <2>6 DEF CorrelationStep
<1>3. CASE \/ \E ep \in Episodes : BeginFinalization(ep) \/ CompleteFinalization(ep)
           \/ \E g \in Graces : SetGrace(g)
           \/ Crash \/ Tick \/ UNCHANGED vars
  BY <1>3 DEF BeginFinalization, CompleteFinalization, SetGrace, Crash, Tick, vars, Never
<1>4. CASE PassStep
  BY <1>4 DEF PassStep, TimeoutPass, GracePass, StartupPass, CompleteStartup
<1>5. CASE Boot \/ StartupBackfill \/ StartupScan
  BY <1>5 DEF Boot, StartupBackfill, StartupScan
<1>. QED  BY <1>1, <1>2, <1>3, <1>4, <1>5 DEF Next, StartupStep, PassStep

\* Every step keeps an Event's row and its first delivery together.
LEMMA OriginStep ==
  ASSUME IndInv, PhaseInv, OriginInv, [Next]_vars
  PROVE  OriginInv'
<1>. USE DEF IndInv, TypeOK, TasksOK, Workers, Move, environment, settings, eventRows,
             receiptRows, episodeRows, tasks, history, OriginInv
<1>1. ASSUME NEW d \in Deliveries, Receive(d)
      PROVE  OriginInv'
  <2>1. LinkedHasRow'
    BY <1>1 DEF Receive, LinkedHasRow
  <2>2. RowHasOrigin'
    BY <1>1 DEF Receive, RowHasOrigin, ReceiptInv
  <2>3. NewOwnsRow'
    BY <1>1 DEF Receive, NewOwnsRow, AtRest, IdleJob
  <2>4. NewIsOnTime'
    BY <1>1 DEF Receive, NewIsOnTime, AtRest, IdleJob, ReceiptRowsOK, EnvironmentOK
  <2>5. ModeFitsStep'
    BY <1>1 DEF Receive, ModeFitsStep, Locked, IdleJob
  <2>. QED  BY <2>1, <2>2, <2>3, <2>4, <2>5 DEF OriginInv
<1>2. ASSUME NEW d \in Deliveries,
             \/ RejectDraft(d) \/ EnterArea(d) \/ CanonicalizeDuplicate(d)
             \/ RejectConflict(d) \/ Publish(d) \/ Fail(d)
      PROVE  OriginInv'
  <2>1. LinkedHasRow'
    BY <1>2
    DEF RejectDraft, EnterArea, CanonicalizeDuplicate, RejectConflict, ReleaseAreas, Publish,
        Fail, Abort, Conflicts, LinkedHasRow
  <2>2. RowHasOrigin'
    BY <1>2
    DEF RejectDraft, EnterArea, CanonicalizeDuplicate, RejectConflict, ReleaseAreas, Publish,
        Fail, Abort, Conflicts, RowHasOrigin, ReceiptInv
  <2>3. NewOwnsRow'
    BY <1>2
    DEF RejectDraft, EnterArea, CanonicalizeDuplicate, RejectConflict, ReleaseAreas, Publish,
        Fail, Abort, Conflicts, NewOwnsRow, AtRest
  <2>4. NewIsOnTime'
    BY <1>2
    DEF RejectDraft, EnterArea, CanonicalizeDuplicate, RejectConflict, ReleaseAreas, Publish,
        Fail, Abort, Conflicts, NewIsOnTime, AtRest
  <2>5. ModeFitsStep'
    BY <1>2
    DEF RejectDraft, EnterArea, CanonicalizeDuplicate, RejectConflict, ReleaseAreas, Publish,
        Fail, Abort, Conflicts, ModeFitsStep, Locked
  <2>. QED  BY <2>1, <2>2, <2>3, <2>4, <2>5 DEF OriginInv
<1>3. ASSUME NEW d \in Deliveries, CanonicalizeNew(d)
      PROVE  OriginInv'
  <2>1. LinkedHasRow'
    BY <1>3 DEF CanonicalizeNew, LinkedHasRow, EventRowsOK, Kinds
  <2>2. RowHasOrigin'
    BY <1>3 DEF CanonicalizeNew, RowHasOrigin, ReceiptInv, EventRowsOK, Kinds
  <2>3. NewOwnsRow'
    <3>1. evKind[EventOf[d]] = "absent" /\ evKind'[EventOf[d]] # "absent" /\ evOrigin'[EventOf[d]] = d
      BY <1>3 DEF CanonicalizeNew, EventRowsOK, Kinds
    <3>2. \A e \in Events \ {EventOf[d]} : evKind'[e] = evKind[e] /\ evOrigin'[e] = evOrigin[e]
      BY <1>3 DEF CanonicalizeNew, EventRowsOK
    <3>3. \A x \in Deliveries \ {d} : job'[x] = job[x] /\ pc'[x] = pc[x]
      BY <1>3 DEF CanonicalizeNew
    <3>. QED  BY <3>1, <3>2, <3>3 DEF NewOwnsRow
  <2>4. NewIsOnTime'
    BY <1>3 DEF CanonicalizeNew, NewIsOnTime, AtRest, Job
  <2>5. ModeFitsStep'
    BY <1>3 DEF CanonicalizeNew, ModeFitsStep, Locked, Job
  <2>. QED  BY <2>1, <2>2, <2>3, <2>4, <2>5 DEF OriginInv
<1>4. ASSUME NEW d \in Deliveries, Backfill(d)
      PROVE  OriginInv'
  <2>1. LinkedHasRow'
    BY <1>4, BackfilledLinks DEF Backfill, LinkedHasRow, TaskInv, ReceiptInv, RowHasOrigin
  <2>2. RowHasOrigin'
    BY <1>4 DEF Backfill, RowHasOrigin, ReceiptInv
  <2>3. NewOwnsRow'
    BY <1>4 DEF Backfill, NewOwnsRow, AtRest
  <2>4. NewIsOnTime'
    BY <1>4 DEF Backfill, NewIsOnTime, AtRest
  <2>5. ModeFitsStep'
    BY <1>4 DEF Backfill, ModeFitsStep, Locked
  <2>. QED  BY <2>1, <2>2, <2>3, <2>4, <2>5 DEF OriginInv
<1>5. ASSUME NEW d \in Deliveries, Link(d)
      PROVE  OriginInv'
  <2>1. LinkedHasRow'
    BY <1>5 DEF Link, AfterLink, LinkedHasRow, TaskInv, ReceiptRowsOK
  <2>2. RowHasOrigin'
    BY <1>5 DEF Link, AfterLink, RowHasOrigin, ReceiptInv
  <2>3. NewOwnsRow'
    BY <1>5 DEF Link, AfterLink, NewOwnsRow, AtRest
  <2>4. NewIsOnTime'
    BY <1>5 DEF Link, AfterLink, NewIsOnTime, AtRest
  <2>5. ModeFitsStep'
    BY <1>5 DEF Link, AfterLink, ModeFitsStep, Locked, IsActiveRow, Job
  <2>. QED  BY <2>1, <2>2, <2>3, <2>4, <2>5 DEF OriginInv
<1>6. ASSUME NEW w \in Workers, Recover(w)
      PROVE  OriginInv'
  <2>1. LinkedHasRow'
    <3>1. pc[w] = "recover" /\ UNCHANGED <<linked, evKind>>
      BY <1>6 DEF Recover
    <3>. QED  BY <1>6, <3>1, RecoverOutcome DEF LinkedHasRow, TaskInv, Correlating, AtRest
  <2>2. RowHasOrigin'
    <3>1. pc[w] = "recover" /\ UNCHANGED <<evKind, evOrigin>>
      BY <1>6 DEF Recover
    <3>. QED  BY <1>6, <3>1, RecoverOutcome DEF RowHasOrigin, ReceiptInv
  <2>3. NewOwnsRow'
    <3>1. pc[w] = "recover" /\ UNCHANGED <<evKind, evOrigin, received>>
      BY <1>6 DEF Recover
    <3>. QED  BY <1>6, <3>1, RecoverOutcome DEF NewOwnsRow, AtRest
  <2>4. NewIsOnTime'
    <3>1. pc[w] = "recover" /\ UNCHANGED <<evKind, evOrigin, received>>
      BY <1>6 DEF Recover
    <3>. QED  BY <1>6, <3>1, RecoverOutcome DEF NewIsOnTime, AtRest
  <2>5. ModeFitsStep'
    <3>1. pc[w] = "recover"
      BY <1>6 DEF Recover
    <3>. QED  BY <1>6, <3>1, RecoverOutcome DEF ModeFitsStep, Locked
  <2>. QED  BY <2>1, <2>2, <2>3, <2>4, <2>5 DEF OriginInv
<1>7. ASSUME NEW w \in Workers,
             AbandonRecovery(w) \/ LeaveArea(w) \/ RefuseAssociation(w)
      PROVE  OriginInv'
  <2>1. LinkedHasRow'
    BY <1>7
    DEF AbandonRecovery, LeaveArea, ReleaseAreas, RefuseAssociation, Abort, LinkedHasRow,
        TaskInv, Correlating, Locked, AtRest
  <2>2. RowHasOrigin'
    BY <1>7
    DEF AbandonRecovery, LeaveArea, ReleaseAreas, RefuseAssociation, Abort, RowHasOrigin,
        ReceiptInv
  <2>3. NewOwnsRow'
    BY <1>7
    DEF AbandonRecovery, LeaveArea, ReleaseAreas, RefuseAssociation, Abort, NewOwnsRow, AtRest,
        IdleJob, Job
  <2>4. NewIsOnTime'
    BY <1>7
    DEF AbandonRecovery, LeaveArea, ReleaseAreas, RefuseAssociation, Abort, NewIsOnTime, AtRest,
        IdleJob, Job
  <2>5. ModeFitsStep'
    BY <1>7
    DEF AbandonRecovery, LeaveArea, ReleaseAreas, RefuseAssociation, Abort, ModeFitsStep, Locked,
        IdleJob, Job
  <2>. QED  BY <2>1, <2>2, <2>3, <2>4, <2>5 DEF OriginInv
<1>8. ASSUME NEW w \in Workers, JoinEpisode(w)
      PROVE  OriginInv'
  <2>1. LinkedHasRow'
    BY <1>8 DEF JoinEpisode, EnterLifecycle, LinkedHasRow
  <2>2. RowHasOrigin'
    BY <1>8 DEF JoinEpisode, EnterLifecycle, RowHasOrigin, ReceiptInv
  <2>3. NewOwnsRow'
    BY <1>8 DEF JoinEpisode, EnterLifecycle, NewOwnsRow, AtRest
  <2>4. NewIsOnTime'
    BY <1>8 DEF JoinEpisode, EnterLifecycle, NewIsOnTime, AtRest
  <2>5. ModeFitsStep'
    BY <1>8 DEF JoinEpisode, EnterLifecycle, ModeFitsStep, Locked
  <2>. QED  BY <2>1, <2>2, <2>3, <2>4, <2>5 DEF OriginInv
<1>9. ASSUME NEW w \in Workers, OpenEpisode(w)
      PROVE  OriginInv'
  <2>1. LinkedHasRow'
    BY <1>9 DEF OpenEpisode, EnterLifecycle, LinkedHasRow
  <2>2. RowHasOrigin'
    BY <1>9 DEF OpenEpisode, EnterLifecycle, RowHasOrigin, ReceiptInv
  <2>3. NewOwnsRow'
    BY <1>9 DEF OpenEpisode, EnterLifecycle, NewOwnsRow, AtRest
  <2>4. NewIsOnTime'
    BY <1>9 DEF OpenEpisode, EnterLifecycle, NewIsOnTime, AtRest
  <2>5. ModeFitsStep'
    BY <1>9 DEF OpenEpisode, EnterLifecycle, ModeFitsStep, Locked
  <2>. QED  BY <2>1, <2>2, <2>3, <2>4, <2>5 DEF OriginInv
<1>10. ASSUME NEW w \in Workers, LinkFirstEvent(w)
      PROVE  OriginInv'
  <2>1. LinkedHasRow'
    BY <1>10 DEF LinkFirstEvent, LinkedHasRow
  <2>2. RowHasOrigin'
    BY <1>10 DEF LinkFirstEvent, RowHasOrigin, ReceiptInv
  <2>3. NewOwnsRow'
    BY <1>10 DEF LinkFirstEvent, NewOwnsRow, AtRest
  <2>4. NewIsOnTime'
    BY <1>10 DEF LinkFirstEvent, NewIsOnTime, AtRest
  <2>5. ModeFitsStep'
    BY <1>10 DEF LinkFirstEvent, ModeFitsStep, Locked
  <2>. QED  BY <2>1, <2>2, <2>3, <2>4, <2>5 DEF OriginInv
<1>11. ASSUME NEW w \in Workers,
              RecordActivity(w) \/ ExtendMinimumEnd(w) \/ Wake(w) \/ Announce(w)
      PROVE  OriginInv'
  <2>1. LinkedHasRow'
    BY <1>11
    DEF RecordActivity, ExtendMinimumEnd, Wake, Announce, LinkedHasRow, TaskInv, Correlating,
        Locked, AtRest
  <2>2. RowHasOrigin'
    BY <1>11 DEF RecordActivity, ExtendMinimumEnd, Wake, Announce, RowHasOrigin, ReceiptInv
  <2>3. NewOwnsRow'
    BY <1>11 DEF RecordActivity, ExtendMinimumEnd, Wake, Announce, NewOwnsRow, AtRest
  <2>4. NewIsOnTime'
    BY <1>11 DEF RecordActivity, ExtendMinimumEnd, Wake, Announce, NewIsOnTime, AtRest
  <2>5. ModeFitsStep'
    BY <1>11 DEF RecordActivity, ExtendMinimumEnd, Wake, Announce, ModeFitsStep, Locked
  <2>. QED  BY <2>1, <2>2, <2>3, <2>4, <2>5 DEF OriginInv
<1>12. ASSUME NEW w \in Workers, AttachInactive(w) \/ AttachFiltered(w)
      PROVE  OriginInv'
  <2>1. LinkedHasRow'
    BY <1>12
    DEF AttachInactive, AttachFiltered, EnterLifecycle, LinkedHasRow, TaskInv, Correlating,
        Locked, AtRest
  <2>2. RowHasOrigin'
    BY <1>12 DEF AttachInactive, AttachFiltered, EnterLifecycle, RowHasOrigin, ReceiptInv
  <2>3. NewOwnsRow'
    BY <1>12 DEF AttachInactive, AttachFiltered, EnterLifecycle, NewOwnsRow, AtRest
  <2>4. NewIsOnTime'
    BY <1>12 DEF AttachInactive, AttachFiltered, EnterLifecycle, NewIsOnTime, AtRest
  <2>5. ModeFitsStep'
    BY <1>12 DEF AttachInactive, AttachFiltered, EnterLifecycle, ModeFitsStep, Locked
  <2>. QED  BY <2>1, <2>2, <2>3, <2>4, <2>5 DEF OriginInv
<1>13. ASSUME NEW w \in Workers,
              RecordAttachment(w) \/ RecordNoOpenEpisode(w)
      PROVE  OriginInv'
  <2>1. LinkedHasRow'
    BY <1>13
    DEF RecordAttachment, RecordNoOpenEpisode, LinkedHasRow, TaskInv, Correlating, Locked, AtRest
  <2>2. RowHasOrigin'
    BY <1>13 DEF RecordAttachment, RecordNoOpenEpisode, RowHasOrigin, ReceiptInv
  <2>3. NewOwnsRow'
    BY <1>13 DEF RecordAttachment, RecordNoOpenEpisode, NewOwnsRow, AtRest
  <2>4. NewIsOnTime'
    BY <1>13 DEF RecordAttachment, RecordNoOpenEpisode, NewIsOnTime, AtRest
  <2>5. ModeFitsStep'
    BY <1>13 DEF RecordAttachment, RecordNoOpenEpisode, ModeFitsStep, Locked
  <2>. QED  BY <2>1, <2>2, <2>3, <2>4, <2>5 DEF OriginInv
<1>14. CASE \/ \E ep \in Episodes : BeginFinalization(ep) \/ CompleteFinalization(ep)
            \/ \E g \in Graces : SetGrace(g)
            \/ Tick \/ UNCHANGED vars
  <2>1. LinkedHasRow'
    BY <1>14 DEF BeginFinalization, CompleteFinalization, SetGrace, Tick, vars, LinkedHasRow
  <2>2. RowHasOrigin'
    BY <1>14
    DEF BeginFinalization, CompleteFinalization, SetGrace, Tick, vars, RowHasOrigin, ReceiptInv
  <2>3. NewOwnsRow'
    BY <1>14 DEF BeginFinalization, CompleteFinalization, SetGrace, Tick, vars, NewOwnsRow, AtRest
  <2>4. NewIsOnTime'
    BY <1>14
    DEF BeginFinalization, CompleteFinalization, SetGrace, Tick, vars, NewIsOnTime, AtRest
  <2>5. ModeFitsStep'
    BY <1>14
    DEF BeginFinalization, CompleteFinalization, SetGrace, Tick, vars, ModeFitsStep, Locked
  <2>. QED  BY <2>1, <2>2, <2>3, <2>4, <2>5 DEF OriginInv
<1>15. CASE PassStep
  <2>1. LinkedHasRow'
    BY <1>15
    DEF PassStep, TimeoutPass, GracePass, StartupPass, CompleteStartup, Pass, LinkedHasRow
  <2>2. RowHasOrigin'
    BY <1>15
    DEF PassStep, TimeoutPass, GracePass, StartupPass, CompleteStartup, Pass, RowHasOrigin,
        ReceiptInv
  <2>3. NewOwnsRow'
    BY <1>15
    DEF PassStep, TimeoutPass, GracePass, StartupPass, CompleteStartup, Pass, NewOwnsRow, AtRest
  <2>4. NewIsOnTime'
    BY <1>15
    DEF PassStep, TimeoutPass, GracePass, StartupPass, CompleteStartup, Pass, NewIsOnTime, AtRest
  <2>5. ModeFitsStep'
    BY <1>15
    DEF PassStep, TimeoutPass, GracePass, StartupPass, CompleteStartup, Pass, ModeFitsStep,
        Locked
  <2>. QED  BY <2>1, <2>2, <2>3, <2>4, <2>5 DEF OriginInv
<1>16. CASE Boot
  <2>1. LinkedHasRow'
    BY <1>16 DEF Boot, LinkedHasRow
  <2>2. RowHasOrigin'
    BY <1>16 DEF Boot, RowHasOrigin, ReceiptInv
  <2>3. NewOwnsRow'
    BY <1>16 DEF Boot, NewOwnsRow, AtRest
  <2>4. NewIsOnTime'
    BY <1>16 DEF Boot, NewIsOnTime, AtRest
  <2>5. ModeFitsStep'
    BY <1>16 DEF Boot, ModeFitsStep, Locked
  <2>. QED  BY <2>1, <2>2, <2>3, <2>4, <2>5 DEF OriginInv
<1>17. CASE StartupBackfill
  <2>1. LinkedHasRow'
    BY <1>17, BackfilledLinks DEF StartupBackfill, LinkedHasRow, Pending, ReceiptInv, RowHasOrigin
  <2>2. RowHasOrigin'
    BY <1>17 DEF StartupBackfill, RowHasOrigin, ReceiptInv
  <2>3. NewOwnsRow'
    BY <1>17 DEF StartupBackfill, NewOwnsRow, AtRest
  <2>4. NewIsOnTime'
    BY <1>17 DEF StartupBackfill, NewIsOnTime, AtRest
  <2>5. ModeFitsStep'
    BY <1>17 DEF StartupBackfill, ModeFitsStep, Locked
  <2>. QED  BY <2>1, <2>2, <2>3, <2>4, <2>5 DEF OriginInv
<1>18. CASE StartupScan
  <2>1. LinkedHasRow'
    BY <1>18 DEF StartupScan, LinkedHasRow
  <2>2. RowHasOrigin'
    BY <1>18 DEF StartupScan, RowHasOrigin, ReceiptInv
  <2>3. NewOwnsRow'
    BY <1>18 DEF StartupScan, NewOwnsRow, AtRest
  <2>4. NewIsOnTime'
    BY <1>18 DEF StartupScan, NewIsOnTime, AtRest
  <2>5. ModeFitsStep'
    BY <1>18 DEF StartupScan, ModeFitsStep, Locked, IdleJob
  <2>. QED  BY <2>1, <2>2, <2>3, <2>4, <2>5 DEF OriginInv
<1>19. CASE Crash
  <2>1. LinkedHasRow'
    BY <1>19 DEF Crash, LinkedHasRow
  <2>2. RowHasOrigin'
    BY <1>19 DEF Crash, RowHasOrigin, ReceiptInv
  <2>3. NewOwnsRow'
    BY <1>19 DEF Crash, NewOwnsRow, AtRest
  <2>4. NewIsOnTime'
    BY <1>19 DEF Crash, NewIsOnTime, AtRest
  <2>5. ModeFitsStep'
    BY <1>19 DEF Crash, ModeFitsStep, Locked, IdleJob
  <2>. QED  BY <2>1, <2>2, <2>3, <2>4, <2>5 DEF OriginInv
<1>. QED  BY <1>1, <1>2, <1>3, <1>4, <1>5, <1>6, <1>7, <1>8, <1>9, <1>10, <1>11, <1>12, <1>13,
             <1>14, <1>15, <1>16, <1>17, <1>18, <1>19
  DEF Next, DeliveryStep, CorrelationStep, StartupStep, PassStep

\* Every step keeps the first receipt of an Event linked before its correlation.
LEMMA IngressStep ==
  ASSUME IndInv, OriginInv, IngressInv, [Next]_vars
  PROVE  IngressInv'
<1>. USE DEF IndInv, TypeOK, TasksOK, Workers, Move, environment, settings, eventRows,
             receiptRows, episodeRows, tasks, history, IngressInv
<1>1. ASSUME NEW d \in Deliveries, Receive(d)
      PROVE  IngressInv'
  <2>1. LinksIncludeOrigin'
    BY <1>1 DEF Receive, LinksIncludeOrigin, OriginLinked, IsActiveRow
  <2>2. DuplicatesLinkLater'
    BY <1>1 DEF Receive, DuplicatesLinkLater, OriginLinked, IsActiveRow
  <2>3. CorrelatesLinked'
    BY <1>1 DEF Receive, CorrelatesLinked, OriginLinked, IsActiveRow, Correlating, Locked
  <2>4. AssociatedIsLinked'
    BY <1>1 DEF Receive, AssociatedIsLinked, OriginLinked, IsActiveRow
  <2>5. CorrelatesBetween'
    <3>1. \A x \in Deliveries : linked[x] \/ (\E e \in Events : evKind[e] # "absent" /\ evOrigin[e] = x)
                            => received'[x] = received[x]
      BY <1>1 DEF Receive, OriginInv, LinkedHasRow, RowHasOrigin
    <3>2. \A w \in Workers : pc'[w] \in {"lifecycle"} \union Locked =>
            pc[w] \in {"lifecycle"} \union Locked /\ job'[w] = job[w]
      BY <1>1 DEF Receive, Locked
    <3>3. \A w \in Workers : pc[w] \in {"lifecycle"} \union Locked =>
            job[w].event \in Events /\ evKind[job[w].event] # "absent" /\ evOrigin[job[w].event] \in Deliveries
      BY DEF TaskInv, ReceiptInv, Correlating
    <3>4. UNCHANGED <<linked, evOrigin>>
      BY <1>1 DEF Receive
    <3>. QED  BY <3>1, <3>2, <3>3, <3>4 DEF CorrelatesBetween, Ingress
  <2>. QED  BY <2>1, <2>2, <2>3, <2>4, <2>5 DEF IngressInv
<1>2. ASSUME NEW d \in Deliveries,
             \/ RejectDraft(d) \/ EnterArea(d) \/ CanonicalizeDuplicate(d)
             \/ RejectConflict(d) \/ Publish(d) \/ Fail(d)
      PROVE  IngressInv'
  <2>1. LinksIncludeOrigin'
    BY <1>2
    DEF RejectDraft, EnterArea, CanonicalizeDuplicate, RejectConflict, ReleaseAreas, Publish,
        Fail, Abort, Conflicts, LinksIncludeOrigin, OriginLinked, IsActiveRow
  <2>2. DuplicatesLinkLater'
    <3>1. UNCHANGED <<linked, evKind, evEpisode, evOrigin>>
      BY <1>2 DEF RejectDraft, EnterArea, CanonicalizeDuplicate, RejectConflict, Publish, Fail
    <3>2. \A x \in Deliveries : pc'[x] = "link" /\ job'[x].mode # "new" =>
            \/ pc[x] = "link" /\ job[x].mode # "new"
            \/ ~(IsActiveRow(EventOf[x]) /\ evEpisode[EventOf[x]] = NoEpisode)
      BY <1>2
      DEF RejectDraft, EnterArea, CanonicalizeDuplicate, RejectConflict, Publish, Fail, Abort
    <3>. QED  BY <3>1, <3>2 DEF DuplicatesLinkLater, AssociatedIsLinked, OriginLinked, IsActiveRow
  <2>3. CorrelatesLinked'
    BY <1>2
    DEF RejectDraft, EnterArea, CanonicalizeDuplicate, RejectConflict, ReleaseAreas, Publish,
        Fail, Abort, Conflicts, CorrelatesLinked, OriginLinked, IsActiveRow, Correlating, Locked
  <2>4. AssociatedIsLinked'
    BY <1>2
    DEF RejectDraft, EnterArea, CanonicalizeDuplicate, RejectConflict, ReleaseAreas, Publish,
        Fail, Abort, Conflicts, AssociatedIsLinked, OriginLinked, IsActiveRow
  <2>5. CorrelatesBetween'
    BY <1>2
    DEF RejectDraft, EnterArea, CanonicalizeDuplicate, RejectConflict, ReleaseAreas, Publish,
        Fail, Abort, Conflicts, CorrelatesBetween, Locked, Ingress
  <2>. QED  BY <2>1, <2>2, <2>3, <2>4, <2>5 DEF IngressInv
<1>3. ASSUME NEW d \in Deliveries, CanonicalizeNew(d)
      PROVE  IngressInv'
  <2>1. LinksIncludeOrigin'
    BY <1>3, NewRow
    DEF LinksIncludeOrigin, OriginLinked, IsActiveRow, Correlating, Locked, OriginInv,
        LinkedHasRow, TaskInv
  <2>2. DuplicatesLinkLater'
    BY <1>3, NewRow
    DEF DuplicatesLinkLater, OriginLinked, IsActiveRow, Correlating, Locked, OriginInv,
        LinkedHasRow, TaskInv
  <2>3. CorrelatesLinked'
    BY <1>3, NewRow
    DEF CorrelatesLinked, OriginLinked, IsActiveRow, Correlating, Locked, OriginInv,
        LinkedHasRow, TaskInv
  <2>4. AssociatedIsLinked'
    BY <1>3 DEF CanonicalizeNew, AssociatedIsLinked, OriginLinked, IsActiveRow
  <2>5. CorrelatesBetween'
    BY <1>3, NewRow
    DEF CorrelatesBetween, Ingress, Correlating, Locked, TaskInv
  <2>. QED  BY <2>1, <2>2, <2>3, <2>4, <2>5 DEF IngressInv
<1>4. ASSUME NEW d \in Deliveries, Backfill(d)
      PROVE  IngressInv'
  <2>1. evKind[EventOf[d]] # "absent" /\ UNCHANGED <<received, evKind, evEpisode, evOrigin, job>>
    BY <1>4 DEF Backfill, TaskInv
  <2>2. pc[d] = "backfill" /\ pc' = [pc EXCEPT ![d] = "link"] /\ linked' = Backfilled(EventOf[d])
    BY <1>4 DEF Backfill
  <2>3. OriginLinked(EventOf[d])' /\ LinksIncludeOrigin'
    BY <2>1, <2>2, BackfillLinksOrigin
  <2>4. \A e \in Events : evKind[e] # "absent" =>
          Ingress(e) \subseteq Ingress(e)' /\ (OriginLinked(e) => OriginLinked(e)')
    BY <2>1, <2>2, BackfillLinksOrigin, LinksGrow DEF ReceiptInv
  <2>5. DuplicatesLinkLater'
    BY <2>1, <2>2, <2>3, <2>4 DEF DuplicatesLinkLater, OriginLinked, IsActiveRow
  <2>6. CorrelatesLinked'
    BY <2>1, <2>2, <2>4 DEF CorrelatesLinked, Correlating, Locked, TaskInv
  <2>7. AssociatedIsLinked'
    BY <2>1, <2>4 DEF AssociatedIsLinked
  <2>8. CorrelatesBetween'
    BY <2>1, <2>2, <2>4 DEF CorrelatesBetween, Correlating, Locked, TaskInv
  <2>. QED  BY <2>3, <2>5, <2>6, <2>7, <2>8
<1>5. ASSUME NEW d \in Deliveries, Link(d)
      PROVE  IngressInv'
  <2>1. /\ pc[d] = "link" /\ linked' = [linked EXCEPT ![d] = TRUE]
        /\ UNCHANGED <<received, evKind, evEpisode, evOrigin, job>>
    BY <1>5 DEF Link
  <2>2. \A x \in Deliveries : linked'[x] <=> linked[x] \/ x = d
    BY <2>1 DEF ReceiptRowsOK
  <2>3. job[d].event = EventOf[d] /\ evKind[EventOf[d]] # "absent"
    BY <2>1 DEF TaskInv, AtRest
  <2>4. job[d].mode = "new" => evOrigin[EventOf[d]] = d /\ job[d].at = received[d]
    BY <2>1 DEF OriginInv, NewOwnsRow, NewIsOnTime, AtRest
  <2>5. OriginLinked(EventOf[d])' /\ LinksIncludeOrigin'
    BY <2>1, <2>2, <2>4 DEF DuplicatesLinkLater, LinksIncludeOrigin, OriginLinked, IsActiveRow
  <2>6. \A e \in Events : evKind[e] # "absent" =>
          Ingress(e) \subseteq Ingress(e)' /\ (OriginLinked(e) => OriginLinked(e)')
    BY <2>1, <2>2, LinksGrow DEF ReceiptInv
  <2>7. \A x \in Workers \ {d} : pc'[x] = pc[x]
    BY <1>5 DEF Link
  <2>8. pc'[d] \in {"leave", "recover"} \/ (pc'[d] = "lifecycle" /\ job[d].mode = "new")
    BY <1>5 DEF Link, AfterLink
  <2>9. DuplicatesLinkLater'
    BY <2>1, <2>6, <2>7, <2>8 DEF DuplicatesLinkLater, TaskInv
  <2>10. CorrelatesLinked'
    BY <2>1, <2>3, <2>5, <2>6, <2>7 DEF CorrelatesLinked, TaskInv
  <2>11. AssociatedIsLinked'
    BY <2>1, <2>6 DEF AssociatedIsLinked
  <2>12. CorrelatesBetween'
    <3>1. ASSUME pc'[d] = "lifecycle"
          PROVE  /\ job[d].at <= received[evOrigin[EventOf[d]]]
                 /\ job[d].at \in Ingress(EventOf[d])' /\ job[d].at \in Nat
      BY <2>1, <2>2, <2>4, <2>8, <3>1 DEF Ingress, Job
    <3>2. ASSUME NEW w \in Workers \ {d}, pc[w] \in {"lifecycle"} \union Locked
          PROVE  job[w].event \in Events /\ evKind[job[w].event] # "absent"
      BY <3>2 DEF TaskInv, Correlating
    <3>3. pc'[d] \notin Locked
      BY <2>8 DEF Locked
    <3>. QED  BY <2>1, <2>3, <2>6, <2>7, <3>1, <3>2, <3>3 DEF CorrelatesBetween
  <2>. QED  BY <2>5, <2>9, <2>10, <2>11, <2>12
<1>6. ASSUME NEW w \in Workers, Recover(w)
      PROVE  IngressInv'
  <2>1. LinksIncludeOrigin'
    BY <1>6 DEF Recover, LinksIncludeOrigin, OriginLinked, IsActiveRow
  <2>2. DuplicatesLinkLater'
    <3>1. UNCHANGED <<linked, evKind, evOrigin>>
      BY <1>6 DEF Recover
    <3>2. \A d \in Deliveries : pc'[d] = "link" => pc[d] = "link" /\ job'[d] = job[d]
      BY <1>6, RecoverOutcome
    <3>3. \A e \in Events : OriginLinked(e) => OriginLinked(e)'
      BY ONLY <3>1 DEF OriginLinked, IsActiveRow
    <3>. QED  BY <3>2, <3>3 DEF DuplicatesLinkLater
  <2>3. CorrelatesLinked'
    <3>1. pc[w] = "recover" /\ UNCHANGED <<linked, evKind, evOrigin>>
      BY <1>6 DEF Recover
    <3>. QED  BY <1>6, <3>1, RecoverOutcome
         DEF CorrelatesLinked, OriginLinked, IsActiveRow, Correlating, Locked
  <2>4. AssociatedIsLinked'
    BY <1>6 DEF Recover, AssociatedIsLinked, OriginLinked, IsActiveRow
  <2>5. CorrelatesBetween'
    <3>1. pc[w] = "recover" /\ UNCHANGED <<linked, received, evKind, evOrigin>>
      BY <1>6 DEF Recover
    <3>2. ASSUME Pending(job[w].event), job'[w].at \in Earliest(Ingress(job[w].event))
          PROVE  /\ job'[w].at \in Ingress(job[w].event) /\ job'[w].at \in Nat
                 /\ job'[w].at <= received[evOrigin[job[w].event]]
      <4>1. job[w].event \in Events /\ evKind[job[w].event] # "absent" /\ OriginLinked(job[w].event)
        BY <3>1 DEF TaskInv, CorrelatesLinked, Correlating
      <4>2. linked[evOrigin[job[w].event]]
        BY <3>2, <4>1 DEF Pending, OriginLinked, IsActiveRow
      <4>3. received[evOrigin[job[w].event]] \in Ingress(job[w].event)
        BY <4>1, <4>2 DEF Ingress, ReceiptInv, OriginInv, RowHasOrigin
      <4>4. Ingress(job[w].event) \subseteq Nat
        BY <4>1, IngressIsTime
      <4>. QED  BY <3>2, <4>3, <4>4 DEF Earliest
    <3>3. \A e \in Events : Ingress(e)' = Ingress(e)
      BY <3>1 DEF Ingress
    <3>4. job[w].event \in Events
      BY <3>1 DEF TaskInv, Correlating
    <3>. HIDE DEF TypeOK, TasksOK
    <3>5. ASSUME NEW x \in Workers, pc'[x] \in {"lifecycle"} \union Locked
          PROVE  /\ job'[x].at <= received[evOrigin[job'[x].event]]
                 /\ \E t \in Ingress(job'[x].event) : t <= job'[x].at
      <4>1. CASE x = w
        BY <1>6, <3>2, <3>5, <4>1, RecoverOutcome DEF Locked
      <4>2. CASE x # w
        BY <1>6, <3>5, <4>2, RecoverOutcome DEF CorrelatesBetween
      <4>. QED  BY <4>1, <4>2
    <3>6. \A x \in Workers : pc'[x] \in {"lifecycle"} \union Locked => job'[x].event \in Events
      BY <1>6, <3>4, RecoverOutcome DEF IndInv, TaskInv, Correlating
    <3>. QED  BY <3>1, <3>3, <3>5, <3>6 DEF CorrelatesBetween
  <2>. QED  BY <2>1, <2>2, <2>3, <2>4, <2>5 DEF IngressInv
<1>7. ASSUME NEW w \in Workers,
             AbandonRecovery(w) \/ LeaveArea(w) \/ RefuseAssociation(w)
      PROVE  IngressInv'
  <2>1. LinksIncludeOrigin'
    BY <1>7
    DEF AbandonRecovery, LeaveArea, ReleaseAreas, RefuseAssociation, Abort, LinksIncludeOrigin,
        OriginLinked, IsActiveRow
  <2>2. DuplicatesLinkLater'
    BY <1>7
    DEF AbandonRecovery, LeaveArea, ReleaseAreas, RefuseAssociation, Abort, DuplicatesLinkLater,
        OriginLinked, IsActiveRow
  <2>3. CorrelatesLinked'
    BY <1>7
    DEF AbandonRecovery, LeaveArea, ReleaseAreas, RefuseAssociation, Abort, CorrelatesLinked,
        OriginLinked, IsActiveRow, Correlating, Locked
  <2>4. AssociatedIsLinked'
    BY <1>7
    DEF AbandonRecovery, LeaveArea, ReleaseAreas, RefuseAssociation, Abort, AssociatedIsLinked,
        OriginLinked, IsActiveRow
  <2>5. CorrelatesBetween'
    BY <1>7
    DEF AbandonRecovery, LeaveArea, ReleaseAreas, RefuseAssociation, Abort, CorrelatesBetween,
        Locked, Ingress
  <2>. QED  BY <2>1, <2>2, <2>3, <2>4, <2>5 DEF IngressInv
<1>8. ASSUME NEW w \in Workers, JoinEpisode(w)
      PROVE  IngressInv'
  <2>1. LinksIncludeOrigin'
    BY <1>8 DEF JoinEpisode, EnterLifecycle, LinksIncludeOrigin, OriginLinked, IsActiveRow
  <2>2. DuplicatesLinkLater'
    BY <1>8 DEF JoinEpisode, EnterLifecycle, DuplicatesLinkLater, OriginLinked, IsActiveRow
  <2>3. CorrelatesLinked'
    BY <1>8
    DEF JoinEpisode, EnterLifecycle, CorrelatesLinked, OriginLinked, IsActiveRow, Correlating,
        Locked
  <2>4. AssociatedIsLinked'
    <3>1. UNCHANGED <<linked, evKind, evOrigin>>
      BY <1>8 DEF JoinEpisode
    <3>. QED  BY <1>8, <3>1, AssociatesOwnEvent
         DEF AssociatedIsLinked, CorrelatesLinked, OriginLinked, IsActiveRow, TaskInv
  <2>5. CorrelatesBetween'
    BY <1>8 DEF JoinEpisode, EnterLifecycle, CorrelatesBetween, Locked, Ingress
  <2>. QED  BY <2>1, <2>2, <2>3, <2>4, <2>5 DEF IngressInv
<1>9. ASSUME NEW w \in Workers, OpenEpisode(w)
      PROVE  IngressInv'
  <2>1. LinksIncludeOrigin'
    BY <1>9 DEF OpenEpisode, EnterLifecycle, LinksIncludeOrigin, OriginLinked, IsActiveRow
  <2>2. DuplicatesLinkLater'
    BY <1>9 DEF OpenEpisode, EnterLifecycle, DuplicatesLinkLater, OriginLinked, IsActiveRow
  <2>3. CorrelatesLinked'
    BY <1>9
    DEF OpenEpisode, EnterLifecycle, CorrelatesLinked, OriginLinked, IsActiveRow, Correlating,
        Locked
  <2>4. AssociatedIsLinked'
    BY <1>9 DEF OpenEpisode, EnterLifecycle, AssociatedIsLinked, OriginLinked, IsActiveRow
  <2>5. CorrelatesBetween'
    BY <1>9 DEF OpenEpisode, EnterLifecycle, CorrelatesBetween, Locked, Ingress
  <2>. QED  BY <2>1, <2>2, <2>3, <2>4, <2>5 DEF IngressInv
<1>10. ASSUME NEW w \in Workers, LinkFirstEvent(w)
      PROVE  IngressInv'
  <2>1. LinksIncludeOrigin'
    BY <1>10 DEF LinkFirstEvent, LinksIncludeOrigin, OriginLinked, IsActiveRow
  <2>2. DuplicatesLinkLater'
    BY <1>10 DEF LinkFirstEvent, DuplicatesLinkLater, OriginLinked, IsActiveRow
  <2>3. CorrelatesLinked'
    BY <1>10 DEF LinkFirstEvent, CorrelatesLinked, OriginLinked, IsActiveRow, Correlating, Locked
  <2>4. AssociatedIsLinked'
    <3>1. UNCHANGED <<linked, evKind, evOrigin>>
      BY <1>10 DEF LinkFirstEvent
    <3>. QED  BY <1>10, <3>1, AssociatesOwnEvent
         DEF AssociatedIsLinked, CorrelatesLinked, OriginLinked, IsActiveRow, TaskInv
  <2>5. CorrelatesBetween'
    BY <1>10 DEF LinkFirstEvent, CorrelatesBetween, Locked, Ingress
  <2>. QED  BY <2>1, <2>2, <2>3, <2>4, <2>5 DEF IngressInv
<1>11. ASSUME NEW w \in Workers,
              RecordActivity(w) \/ ExtendMinimumEnd(w) \/ Wake(w) \/ Announce(w)
      PROVE  IngressInv'
  <2>1. LinksIncludeOrigin'
    BY <1>11
    DEF RecordActivity, ExtendMinimumEnd, Wake, Announce, LinksIncludeOrigin, OriginLinked,
        IsActiveRow
  <2>2. DuplicatesLinkLater'
    BY <1>11
    DEF RecordActivity, ExtendMinimumEnd, Wake, Announce, DuplicatesLinkLater, OriginLinked,
        IsActiveRow
  <2>3. CorrelatesLinked'
    BY <1>11
    DEF RecordActivity, ExtendMinimumEnd, Wake, Announce, CorrelatesLinked, OriginLinked,
        IsActiveRow, Correlating, Locked
  <2>4. AssociatedIsLinked'
    BY <1>11
    DEF RecordActivity, ExtendMinimumEnd, Wake, Announce, AssociatedIsLinked, OriginLinked,
        IsActiveRow
  <2>5. CorrelatesBetween'
    BY <1>11
    DEF RecordActivity, ExtendMinimumEnd, Wake, Announce, CorrelatesBetween, Locked, Ingress
  <2>. QED  BY <2>1, <2>2, <2>3, <2>4, <2>5 DEF IngressInv
<1>12. ASSUME NEW w \in Workers, AttachInactive(w) \/ AttachFiltered(w)
      PROVE  IngressInv'
  <2>1. LinksIncludeOrigin'
    BY <1>12
    DEF AttachInactive, AttachFiltered, EnterLifecycle, LinksIncludeOrigin, OriginLinked,
        IsActiveRow
  <2>2. DuplicatesLinkLater'
    BY <1>12
    DEF AttachInactive, AttachFiltered, EnterLifecycle, DuplicatesLinkLater, OriginLinked,
        IsActiveRow
  <2>3. CorrelatesLinked'
    BY <1>12
    DEF AttachInactive, AttachFiltered, EnterLifecycle, CorrelatesLinked, OriginLinked,
        IsActiveRow, Correlating, Locked
  <2>4. AssociatedIsLinked'
    <3>1. UNCHANGED <<linked, evKind, evOrigin>>
      BY <1>12 DEF AttachInactive, AttachFiltered
    <3>. QED  BY <1>12, <3>1, AssociatesOwnEvent
         DEF AssociatedIsLinked, CorrelatesLinked, OriginLinked, IsActiveRow, TaskInv
  <2>5. CorrelatesBetween'
    BY <1>12
    DEF AttachInactive, AttachFiltered, EnterLifecycle, CorrelatesBetween, Locked, Ingress
  <2>. QED  BY <2>1, <2>2, <2>3, <2>4, <2>5 DEF IngressInv
<1>13. ASSUME NEW w \in Workers,
              RecordAttachment(w) \/ RecordNoOpenEpisode(w)
      PROVE  IngressInv'
  <2>1. LinksIncludeOrigin'
    BY <1>13
    DEF RecordAttachment, RecordNoOpenEpisode, LinksIncludeOrigin, OriginLinked, IsActiveRow
  <2>2. DuplicatesLinkLater'
    BY <1>13
    DEF RecordAttachment, RecordNoOpenEpisode, DuplicatesLinkLater, OriginLinked, IsActiveRow
  <2>3. CorrelatesLinked'
    BY <1>13
    DEF RecordAttachment, RecordNoOpenEpisode, CorrelatesLinked, OriginLinked, IsActiveRow,
        Correlating, Locked
  <2>4. AssociatedIsLinked'
    BY <1>13
    DEF RecordAttachment, RecordNoOpenEpisode, AssociatedIsLinked, OriginLinked, IsActiveRow
  <2>5. CorrelatesBetween'
    BY <1>13 DEF RecordAttachment, RecordNoOpenEpisode, CorrelatesBetween, Locked, Ingress
  <2>. QED  BY <2>1, <2>2, <2>3, <2>4, <2>5 DEF IngressInv
<1>14. CASE \/ \E ep \in Episodes : BeginFinalization(ep) \/ CompleteFinalization(ep)
            \/ \E g \in Graces : SetGrace(g)
            \/ Tick \/ UNCHANGED vars
  <2>1. LinksIncludeOrigin'
    BY <1>14
    DEF BeginFinalization, CompleteFinalization, SetGrace, Tick, vars, LinksIncludeOrigin,
        OriginLinked, IsActiveRow
  <2>2. DuplicatesLinkLater'
    BY <1>14
    DEF BeginFinalization, CompleteFinalization, SetGrace, Tick, vars, DuplicatesLinkLater,
        OriginLinked, IsActiveRow
  <2>3. CorrelatesLinked'
    BY <1>14
    DEF BeginFinalization, CompleteFinalization, SetGrace, Tick, vars, CorrelatesLinked,
        OriginLinked, IsActiveRow, Correlating, Locked
  <2>4. AssociatedIsLinked'
    BY <1>14
    DEF BeginFinalization, CompleteFinalization, SetGrace, Tick, vars, AssociatedIsLinked,
        OriginLinked, IsActiveRow
  <2>5. CorrelatesBetween'
    BY <1>14
    DEF BeginFinalization, CompleteFinalization, SetGrace, Tick, vars, CorrelatesBetween, Locked,
        Ingress
  <2>. QED  BY <2>1, <2>2, <2>3, <2>4, <2>5 DEF IngressInv
<1>15. CASE PassStep
  <2>1. LinksIncludeOrigin'
    BY <1>15
    DEF PassStep, TimeoutPass, GracePass, StartupPass, CompleteStartup, Pass, LinksIncludeOrigin,
        OriginLinked, IsActiveRow
  <2>2. DuplicatesLinkLater'
    BY <1>15
    DEF PassStep, TimeoutPass, GracePass, StartupPass, CompleteStartup, Pass,
        DuplicatesLinkLater, OriginLinked, IsActiveRow
  <2>3. CorrelatesLinked'
    BY <1>15
    DEF PassStep, TimeoutPass, GracePass, StartupPass, CompleteStartup, Pass, CorrelatesLinked,
        OriginLinked, IsActiveRow, Correlating, Locked
  <2>4. AssociatedIsLinked'
    BY <1>15
    DEF PassStep, TimeoutPass, GracePass, StartupPass, CompleteStartup, Pass, AssociatedIsLinked,
        OriginLinked, IsActiveRow
  <2>5. CorrelatesBetween'
    BY <1>15
    DEF PassStep, TimeoutPass, GracePass, StartupPass, CompleteStartup, Pass, CorrelatesBetween,
        Locked, Ingress
  <2>. QED  BY <2>1, <2>2, <2>3, <2>4, <2>5 DEF IngressInv
<1>16. CASE Boot
  <2>1. LinksIncludeOrigin'
    BY <1>16 DEF Boot, LinksIncludeOrigin, OriginLinked, IsActiveRow
  <2>2. DuplicatesLinkLater'
    BY <1>16 DEF Boot, DuplicatesLinkLater, OriginLinked, IsActiveRow
  <2>3. CorrelatesLinked'
    BY <1>16 DEF Boot, CorrelatesLinked, OriginLinked, IsActiveRow, Correlating, Locked
  <2>4. AssociatedIsLinked'
    BY <1>16 DEF Boot, AssociatedIsLinked, OriginLinked, IsActiveRow
  <2>5. CorrelatesBetween'
    BY <1>16 DEF Boot, CorrelatesBetween, Locked, Ingress
  <2>. QED  BY <2>1, <2>2, <2>3, <2>4, <2>5 DEF IngressInv
<1>17. CASE StartupBackfill
  <2>1. /\ UNCHANGED <<received, evKind, evEpisode, evOrigin, job>>
        /\ \A w \in Workers : pc'[w] \in {"scan", pc[w]}
    BY <1>17 DEF StartupBackfill
  <2>2. linked' = linked \/ \E e \in Events : evKind[e] # "absent" /\ linked' = Backfilled(e)
    BY <1>17 DEF StartupBackfill, Pending
  <2>3. (\A d \in Deliveries : linked[d] => linked'[d]) /\ LinksIncludeOrigin'
    BY <2>1, <2>2, BackfillLinksOrigin DEF LinksIncludeOrigin, OriginLinked, IsActiveRow
  <2>4. \A e \in Events : evKind[e] # "absent" =>
          Ingress(e) \subseteq Ingress(e)' /\ (OriginLinked(e) => OriginLinked(e)')
    BY <2>1, <2>3, LinksGrow DEF ReceiptInv
  <2>5. DuplicatesLinkLater'
    BY <2>1, <2>4 DEF DuplicatesLinkLater, TaskInv
  <2>6. CorrelatesLinked'
    BY <2>1, <2>4 DEF CorrelatesLinked, Correlating, Locked, TaskInv
  <2>7. AssociatedIsLinked'
    BY <2>1, <2>4 DEF AssociatedIsLinked
  <2>8. CorrelatesBetween'
    BY <2>1, <2>4 DEF CorrelatesBetween, Correlating, Locked, TaskInv
  <2>. QED  BY <2>3, <2>5, <2>6, <2>7, <2>8
<1>18. CASE StartupScan
  <2>1. LinksIncludeOrigin'
    BY <1>18 DEF StartupScan, LinksIncludeOrigin, OriginLinked, IsActiveRow
  <2>2. DuplicatesLinkLater'
    BY <1>18 DEF StartupScan, DuplicatesLinkLater, OriginLinked, IsActiveRow
  <2>3. CorrelatesLinked'
    <3>1. PICK e \in Events :
            /\ Pending(e) /\ ReceivedNoLater(e, e)
            /\ job' = [job EXCEPT ![Startup] = [IdleJob EXCEPT !.event = e]]
      BY <1>18 DEF StartupScan
    <3>2. \E d \in Deliveries : linked[d] /\ EventOf[d] = e
      BY <3>1 DEF ReceivedNoLater, Earliest, Ingress
    <3>3. OriginLinked(e)
      BY <3>2 DEF LinksIncludeOrigin
    <3>4. job'[Startup].event = e /\ \A w \in Deliveries : job'[w] = job[w]
      BY <3>1 DEF IdleJob
    <3>5. UNCHANGED <<linked, evKind, evOrigin>> /\ \A w \in Deliveries : pc'[w] = pc[w]
      BY <1>18 DEF StartupScan
    <3>. QED  BY <3>3, <3>4, <3>5 DEF CorrelatesLinked, OriginLinked, IsActiveRow
  <2>4. AssociatedIsLinked'
    BY <1>18 DEF StartupScan, AssociatedIsLinked, OriginLinked, IsActiveRow
  <2>5. CorrelatesBetween'
    BY <1>18 DEF StartupScan, CorrelatesBetween, Locked, Ingress
  <2>. QED  BY <2>1, <2>2, <2>3, <2>4, <2>5 DEF IngressInv
<1>19. CASE Crash
  <2>1. LinksIncludeOrigin'
    BY <1>19 DEF Crash, LinksIncludeOrigin, OriginLinked, IsActiveRow
  <2>2. DuplicatesLinkLater'
    BY <1>19 DEF Crash, DuplicatesLinkLater, OriginLinked, IsActiveRow
  <2>3. CorrelatesLinked'
    BY <1>19 DEF Crash, CorrelatesLinked, OriginLinked, IsActiveRow, Correlating, Locked
  <2>4. AssociatedIsLinked'
    BY <1>19 DEF Crash, AssociatedIsLinked, OriginLinked, IsActiveRow
  <2>5. CorrelatesBetween'
    BY <1>19 DEF Crash, CorrelatesBetween, Locked, Ingress
  <2>. QED  BY <2>1, <2>2, <2>3, <2>4, <2>5 DEF IngressInv
<1>. QED  BY <1>1, <1>2, <1>3, <1>4, <1>5, <1>6, <1>7, <1>8, <1>9, <1>10, <1>11, <1>12, <1>13,
             <1>14, <1>15, <1>16, <1>17, <1>18, <1>19
  DEF Next, DeliveryStep, CorrelationStep, StartupStep, PassStep

-----------------------------------------------------------------------------
(***************************************************************************)
(* Leases, quiescence and deadlines.                                       *)
(***************************************************************************)

\* A lease is never longer than the deadline on disk.
LEMMA LeaseStep ==
  ASSUME IndInv, LeaseInv, [Next]_vars
  PROVE  LeaseInv'
<1>. USE DEF IndInv, TypeOK, EventRowsOK, EpisodeRowsOK, TasksOK, MemoryOK, Job, LockInv, TaskInv,
             LeaseInv, Contribution, Workers, Writing, Locked, Correlating, AtRest, Move, environment,
             settings, eventRows, receiptRows, episodeRows, tasks, history, IsOpen, OpenStates, NoTime,
             Kinds, IdleJob
<1>1. ASSUME NEW d \in Deliveries, Receive(d) \/ DeliveryStep(d) \/ Fail(d)
      PROVE  LeaseInv'
  <2>1. CASE Receive(d)
    BY <2>1 DEF Receive
  <2>2. CASE RejectDraft(d) \/ RejectConflict(d) \/ Fail(d)
    BY <2>2 DEF RejectDraft, RejectConflict, Fail, Abort
  <2>3. CASE CanonicalizeNew(d)
    BY <2>3 DEF CanonicalizeNew
  <2>4. CASE EnterArea(d) \/ CanonicalizeDuplicate(d) \/ Backfill(d)
    BY <2>4 DEF EnterArea, CanonicalizeDuplicate, Backfill
  <2>5. CASE Link(d) \/ Publish(d)
    BY <2>5 DEF Link, AfterLink, Publish
  <2>. QED  BY <1>1, <2>1, <2>2, <2>3, <2>4, <2>5 DEF DeliveryStep
<1>2. ASSUME NEW w \in Workers, CorrelationStep(w)
      PROVE  LeaseInv'
  <2>1. CASE Recover(w)
    <3>1. /\ pc[w] = "recover" /\ UNCHANGED <<epState, minEnd, deadline, evWindow>>
      BY <2>1 DEF Recover
    <3>. QED  BY <2>1, <3>1, RecoverOutcome
  <2>2. CASE AbandonRecovery(w)
    BY <2>2 DEF AbandonRecovery
  <2>9. CASE LeaveArea(w)
    BY <2>9 DEF LeaveArea
  <2>3. CASE JoinEpisode(w)
    BY <2>3 DEF JoinEpisode, EnterLifecycle
  <2>4. CASE OpenEpisode(w)
    <3>1. /\ pc[w] = "lifecycle" /\ pc' = [pc EXCEPT ![w] = "first_event"]
          /\ lifecycleLock = NoWorker /\ UNCHANGED <<deadline, evWindow>>
      BY <2>4 DEF OpenEpisode, EnterLifecycle
    <3>2. PICK ep \in Episodes :
            /\ epState[ep] = "none" /\ epState' = [epState EXCEPT ![ep] = "active"]
            /\ minEnd' = [minEnd EXCEPT ![ep] = Contribution(w)]
            /\ job' = [job EXCEPT ![w].episode = ep, ![w].via = "opened"]
      BY <2>4 DEF OpenEpisode
    <3>3. \A x \in Episodes : deadline'[x] # NoTime => epState'[x] # "none" /\ deadline'[x] <= minEnd'[x]
      BY <3>1, <3>2
    <3>4. ASSUME NEW x \in Workers, pc'[x] \in {"wake", "announce"}
          PROVE  FALSE
      BY <3>1, <3>4
    <3>. QED  BY <3>3, <3>4
  <2>5. CASE LinkFirstEvent(w) \/ RefuseAssociation(w) \/ RecordActivity(w) \/ Wake(w)
    <3>1. CASE LinkFirstEvent(w)
      BY <3>1 DEF LinkFirstEvent
    <3>2. CASE RefuseAssociation(w)
      BY <3>2 DEF RefuseAssociation, Abort
    <3>3. CASE RecordActivity(w)
      BY <3>3 DEF RecordActivity
    <3>4. CASE Wake(w)
      BY <3>4 DEF Wake
    <3>. QED  BY <2>5, <3>1, <3>2, <3>3, <3>4
  <2>6. CASE ExtendMinimumEnd(w)
    BY <2>6 DEF ExtendMinimumEnd, Extended, Larger
  <2>7. CASE Announce(w)
    <3>. DEFINE ep == job[w].episode
    <3>1. /\ pc[w] = "announce" /\ pc' = [pc EXCEPT ![w] = "leave"]
          /\ deadline' = [deadline EXCEPT ![ep] = Remembered(ep, Contribution(w))]
          /\ UNCHANGED <<epState, minEnd, job, evWindow>>
      BY <2>7 DEF Announce
    <3>2. /\ ep \in Episodes /\ epState[ep] # "none" /\ Contribution(w) <= minEnd[ep]
          /\ deadline[ep] = NoTime \/ deadline[ep] <= minEnd[ep]
      BY <3>1
    <3>3. minEnd[ep] \in Nat /\ deadline[ep] \in Int
      BY <3>2
    <3>4. Remembered(ep, Contribution(w)) <= minEnd[ep]
      BY ONLY <3>2, <3>3 DEF Remembered, Larger, NoTime
    <3>5. \A x \in Episodes \ {ep} : deadline'[x] = deadline[x]
      BY <3>1
    <3>6. deadline'[ep] = Remembered(ep, Contribution(w))
      BY <3>1, <3>2
    <3>7. \A x \in Workers : pc'[x] \in {"wake", "announce"} => pc[x] \in {"wake", "announce"}
      BY <3>1
    <3>8. \A x \in Episodes : deadline'[x] # NoTime => epState'[x] # "none" /\ deadline'[x] <= minEnd'[x]
      BY <3>1, <3>2, <3>4, <3>5, <3>6
    <3>. QED  BY <3>1, <3>7, <3>8
  <2>8. CASE \/ AttachInactive(w) \/ AttachFiltered(w)
             \/ RecordAttachment(w) \/ RecordNoOpenEpisode(w)
    <3>1. CASE AttachInactive(w)
      BY <3>1 DEF AttachInactive, EnterLifecycle
    <3>2. CASE AttachFiltered(w)
      BY <3>2 DEF AttachFiltered, EnterLifecycle
    <3>3. CASE RecordAttachment(w)
      BY <3>3 DEF RecordAttachment
    <3>4. CASE RecordNoOpenEpisode(w)
      BY <3>4 DEF RecordNoOpenEpisode, EnterLifecycle
    <3>. QED  BY <2>8, <3>1, <3>2, <3>3, <3>4
  <2>. QED  BY <1>2, <2>1, <2>2, <2>3, <2>4, <2>5, <2>6, <2>7, <2>8,
         <2>9 DEF CorrelationStep
<1>3. CASE \/ \E ep \in Episodes : BeginFinalization(ep) \/ CompleteFinalization(ep)
           \/ \E g \in Graces : SetGrace(g)
           \/ Crash \/ Tick \/ UNCHANGED vars
  BY <1>3 DEF BeginFinalization, CompleteFinalization, SetGrace, Crash, Tick, vars, Never
<1>4. CASE PassStep
  BY <1>4 DEF PassStep, TimeoutPass, GracePass, StartupPass, CompleteStartup, Pass, AfterPass
<1>5. CASE Boot \/ StartupBackfill \/ StartupScan
  BY <1>5 DEF Boot, StartupBackfill, StartupScan, Restored
<1>. QED  BY <1>1, <1>2, <1>3, <1>4, <1>5 DEF Next, StartupStep, PassStep

\* Every step keeps an Episode awake while Events extend it.
LEMMA QuiescenceStep ==
  ASSUME IndInv, QuiescenceInv, [Next]_vars
  PROVE  QuiescenceInv'
<1>. USE DEF IndInv, TypeOK, TasksOK, Workers, Move, environment, settings, eventRows,
             receiptRows, episodeRows, tasks, history, QuiescenceInv
<1>1. ASSUME NEW d \in Deliveries, Receive(d)
      PROVE  QuiescenceInv'
  <2>1. AwakeUnlessResumed'
    BY <1>1 DEF Receive, AwakeUnlessResumed, LockInv, Locked, Writing, IdleJob, Job
  <2>2. ElapsedUnlessWoken'
    BY <1>1 DEF Receive, ElapsedUnlessWoken, Undisturbed
  <2>. QED  BY <2>1, <2>2 DEF QuiescenceInv
<1>2. ASSUME NEW d \in Deliveries,
             \/ RejectDraft(d) \/ EnterArea(d) \/ CanonicalizeDuplicate(d)
             \/ RejectConflict(d) \/ Publish(d) \/ Fail(d)
      PROVE  QuiescenceInv'
  <2>1. AwakeUnlessResumed'
    BY <1>2
    DEF RejectDraft, EnterArea, CanonicalizeDuplicate, RejectConflict, ReleaseAreas, Publish,
        Fail, Abort, Conflicts, AwakeUnlessResumed, LockInv, Locked, Writing
  <2>2. ElapsedUnlessWoken'
    BY <1>2
    DEF RejectDraft, EnterArea, CanonicalizeDuplicate, RejectConflict, ReleaseAreas, Publish,
        Fail, Abort, Conflicts, ElapsedUnlessWoken, Undisturbed, EnvironmentOK
  <2>. QED  BY <2>1, <2>2 DEF QuiescenceInv
<1>3. ASSUME NEW d \in Deliveries, CanonicalizeNew(d)
      PROVE  QuiescenceInv'
  <2>1. AwakeUnlessResumed'
    BY <1>3 DEF CanonicalizeNew, AwakeUnlessResumed, LockInv, Locked, Writing
  <2>2. ElapsedUnlessWoken'
    BY <1>3 DEF CanonicalizeNew, ElapsedUnlessWoken, Undisturbed
  <2>. QED  BY <2>1, <2>2 DEF QuiescenceInv
<1>4. ASSUME NEW d \in Deliveries, Backfill(d)
      PROVE  QuiescenceInv'
  <2>1. AwakeUnlessResumed'
    BY <1>4 DEF Backfill, AwakeUnlessResumed, LockInv, Locked, Writing
  <2>2. ElapsedUnlessWoken'
    BY <1>4 DEF Backfill, ElapsedUnlessWoken, Undisturbed
  <2>. QED  BY <2>1, <2>2 DEF QuiescenceInv
<1>5. ASSUME NEW d \in Deliveries, Link(d)
      PROVE  QuiescenceInv'
  <2>1. AwakeUnlessResumed'
    BY <1>5 DEF Link, AfterLink, AwakeUnlessResumed, LockInv, Locked, Writing
  <2>2. ElapsedUnlessWoken'
    BY <1>5 DEF Link, AfterLink, ElapsedUnlessWoken, Undisturbed
  <2>. QED  BY <2>1, <2>2 DEF QuiescenceInv
<1>6. ASSUME NEW w \in Workers, Recover(w)
      PROVE  QuiescenceInv'
  <2>1. AwakeUnlessResumed'
    <3>1. UNCHANGED epState
      BY <1>6 DEF Recover
    <3>2. pc[w] = "recover" /\ pc'[w] \in {"leave", "lifecycle"}
      BY <1>6 DEF Recover
    <3>. QED  BY <1>6, <3>1, <3>2, RecoverOutcome DEF AwakeUnlessResumed
  <2>2. ElapsedUnlessWoken'
    <3>1. pc[w] = "recover" /\ UNCHANGED <<epState, minEnd, now, failures, crashes>>
      BY <1>6 DEF Recover
    <3>. QED  BY <1>6, <3>1, RecoverOutcome DEF ElapsedUnlessWoken, Undisturbed
  <2>. QED  BY <2>1, <2>2 DEF QuiescenceInv
<1>7. ASSUME NEW w \in Workers,
             AbandonRecovery(w) \/ LeaveArea(w) \/ RefuseAssociation(w)
      PROVE  QuiescenceInv'
  <2>1. AwakeUnlessResumed'
    BY <1>7
    DEF AbandonRecovery, LeaveArea, ReleaseAreas, RefuseAssociation, Abort, AwakeUnlessResumed,
        LockInv, Locked, Writing, IdleJob, Job
  <2>2. ElapsedUnlessWoken'
    BY <1>7
    DEF AbandonRecovery, LeaveArea, ReleaseAreas, RefuseAssociation, Abort, ElapsedUnlessWoken,
        Undisturbed
  <2>. QED  BY <2>1, <2>2 DEF QuiescenceInv
<1>8. ASSUME NEW w \in Workers, JoinEpisode(w)
      PROVE  QuiescenceInv'
  <2>1. AwakeUnlessResumed'
    <3>1. PICK ep \in Targets(w) : job' = [job EXCEPT ![w].episode = ep, ![w].via = Via(ep)]
      BY <1>8 DEF JoinEpisode
    <3>2. ep \in Episodes /\ IsOpen(ep)
      BY TargetsAreOpen
    <3>3. job'[w].episode = ep /\ job'[w].via = Via(ep)
      BY <3>1 DEF Job
    <3>4. Via(ep) # "resumed" => epState[ep] = "active"
      BY <3>2 DEF Via, IsOpen, OpenStates
    <3>5. lifecycleLock = NoWorker /\ pc'[w] = "activity" /\ UNCHANGED epState
      BY <1>8 DEF JoinEpisode, EnterLifecycle
    <3>6. \A x \in Workers \ {w} : pc'[x] \notin Locked
      BY <1>8, <3>5 DEF JoinEpisode, EnterLifecycle, LockInv
    <3>. QED  BY <3>3, <3>4, <3>5, <3>6 DEF AwakeUnlessResumed, Locked
  <2>2. ElapsedUnlessWoken'
    BY <1>8 DEF JoinEpisode, EnterLifecycle, ElapsedUnlessWoken, Undisturbed
  <2>. QED  BY <2>1, <2>2 DEF QuiescenceInv
<1>9. ASSUME NEW w \in Workers, OpenEpisode(w)
      PROVE  QuiescenceInv'
  <2>1. AwakeUnlessResumed'
    <3>1. PICK ep \in Episodes : /\ job' = [job EXCEPT ![w].episode = ep, ![w].via = "opened"]
                               /\ epState' = [epState EXCEPT ![ep] = "active"]
      BY <1>9 DEF OpenEpisode
    <3>2. job'[w].episode = ep /\ job'[w].via = "opened" /\ epState'[ep] = "active"
      BY <3>1 DEF Job, EpisodeRowsOK
    <3>3. lifecycleLock = NoWorker /\ pc'[w] = "first_event"
      BY <1>9 DEF OpenEpisode, EnterLifecycle
    <3>4. \A x \in Workers \ {w} : pc'[x] \notin Locked
      BY <1>9, <3>3 DEF OpenEpisode, EnterLifecycle, LockInv
    <3>. QED  BY <3>2, <3>3, <3>4 DEF AwakeUnlessResumed, Locked
  <2>2. ElapsedUnlessWoken'
    BY <1>9 DEF OpenEpisode, EnterLifecycle, ElapsedUnlessWoken, Undisturbed
  <2>. QED  BY <2>1, <2>2 DEF QuiescenceInv
<1>10. ASSUME NEW w \in Workers, LinkFirstEvent(w)
      PROVE  QuiescenceInv'
  <2>1. AwakeUnlessResumed'
    BY <1>10 DEF LinkFirstEvent, AwakeUnlessResumed, LockInv, Locked, Writing
  <2>2. ElapsedUnlessWoken'
    BY <1>10 DEF LinkFirstEvent, ElapsedUnlessWoken, Undisturbed
  <2>. QED  BY <2>1, <2>2 DEF QuiescenceInv
<1>11. ASSUME NEW w \in Workers,
              RecordActivity(w) \/ ExtendMinimumEnd(w) \/ Wake(w) \/ Announce(w)
      PROVE  QuiescenceInv'
  <2>1. AwakeUnlessResumed'
    <3>1. pc[w] \in Locked /\ job' = job
      BY <1>11 DEF RecordActivity, ExtendMinimumEnd, Wake, Announce, Locked
    <3>2. \A x \in Workers \ {w} : pc'[x] \notin Locked
      BY <1>11, <3>1 DEF RecordActivity, ExtendMinimumEnd, Wake, Announce, LockInv
    <3>3. CASE RecordActivity(w) \/ ExtendMinimumEnd(w) \/ Announce(w)
      BY <3>1, <3>2, <3>3
      DEF RecordActivity, ExtendMinimumEnd, Announce, AwakeUnlessResumed, Locked
    <3>4. CASE Wake(w)
      <4>1. job[w].episode \in Episodes
        BY <3>4 DEF Wake, LockInv, Writing
      <4>. QED  BY <3>1, <3>2, <3>4, <4>1 DEF Wake, AwakeUnlessResumed, Locked, EpisodeRowsOK
    <3>. QED  BY <1>11, <3>3, <3>4
  <2>2. ElapsedUnlessWoken'
    <3>1. UNCHANGED <<now, failures, crashes, job>>
      BY <1>11 DEF RecordActivity, ExtendMinimumEnd, Wake, Announce
    <3>2. \A x \in Workers \ {w} : pc'[x] = pc[x]
      BY <1>11 DEF RecordActivity, ExtendMinimumEnd, Wake, Announce
    <3>3. CASE RecordActivity(w) \/ Announce(w)
      <4>1. pc[w] # "wake" /\ UNCHANGED <<epState, minEnd>>
        BY <3>3 DEF RecordActivity, Announce
      <4>. QED  BY <3>1, <3>2, <4>1 DEF ElapsedUnlessWoken, Undisturbed
    <3>4. CASE ExtendMinimumEnd(w)
      <4>1. /\ pc[w] = "extend" /\ UNCHANGED epState
            /\ pc'[w] = IF job[w].via = "resumed" THEN "wake" ELSE "announce"
            /\ \A ep \in Episodes \ {job[w].episode} : minEnd'[ep] = minEnd[ep]
        BY <3>4 DEF ExtendMinimumEnd, EpisodeRowsOK
      <4>2. epState[job[w].episode] = "quiescent" => pc'[w] = "wake"
        BY <4>1 DEF AwakeUnlessResumed
      <4>. QED  BY <3>1, <3>2, <4>1, <4>2 DEF ElapsedUnlessWoken, Undisturbed
    <3>5. CASE Wake(w)
      <4>1. UNCHANGED minEnd /\ epState' = [epState EXCEPT ![job[w].episode] = "active"]
        BY <3>5 DEF Wake
      <4>2. \A ep \in Episodes : epState'[ep] = "quiescent" =>
              epState[ep] = "quiescent" /\ ep # job[w].episode
        BY <4>1 DEF EpisodeRowsOK
      <4>. QED  BY <3>1, <3>2, <4>1, <4>2 DEF ElapsedUnlessWoken, Undisturbed
    <3>. QED  BY <1>11, <3>3, <3>4, <3>5
  <2>. QED  BY <2>1, <2>2 DEF QuiescenceInv
<1>12. ASSUME NEW w \in Workers, AttachInactive(w) \/ AttachFiltered(w)
      PROVE  QuiescenceInv'
  <2>1. AwakeUnlessResumed'
    BY <1>12
    DEF AttachInactive, AttachFiltered, EnterLifecycle, AwakeUnlessResumed, LockInv, Locked,
        Writing
  <2>2. ElapsedUnlessWoken'
    BY <1>12 DEF AttachInactive, AttachFiltered, EnterLifecycle, ElapsedUnlessWoken, Undisturbed
  <2>. QED  BY <2>1, <2>2 DEF QuiescenceInv
<1>13. ASSUME NEW w \in Workers,
              RecordAttachment(w) \/ RecordNoOpenEpisode(w)
      PROVE  QuiescenceInv'
  <2>1. AwakeUnlessResumed'
    BY <1>13
    DEF RecordAttachment, RecordNoOpenEpisode, AwakeUnlessResumed, LockInv, Locked, Writing
  <2>2. ElapsedUnlessWoken'
    BY <1>13 DEF RecordAttachment, RecordNoOpenEpisode, ElapsedUnlessWoken, Undisturbed
  <2>. QED  BY <2>1, <2>2 DEF QuiescenceInv
<1>14. CASE \/ \E ep \in Episodes : BeginFinalization(ep) \/ CompleteFinalization(ep)
            \/ \E g \in Graces : SetGrace(g)
            \/ Tick \/ UNCHANGED vars
  <2>1. \A ep \in Episodes :
          epState'[ep] = epState[ep] \/ (epState[ep] = "finalizing" /\ epState'[ep] = "closed")
    BY <1>14 DEF BeginFinalization, CompleteFinalization, SetGrace, Tick, vars, EpisodeRowsOK
  <2>2. UNCHANGED <<pc, job, minEnd, failures, crashes>> /\ now \in Nat /\ now' \in Nat /\ now' >= now
    BY <1>14 DEF BeginFinalization, CompleteFinalization, SetGrace, Tick, vars, EnvironmentOK
  <2>3. AwakeUnlessResumed'
    BY <2>1, <2>2 DEF AwakeUnlessResumed, LockInv, Writing
  <2>4. ElapsedUnlessWoken'
    <3>1. \A ep \in Episodes : minEnd[ep] \in Nat /\ (minEnd[ep] <= now => minEnd[ep] <= now')
      BY <2>2 DEF EpisodeRowsOK
    <3>. QED  BY <2>1, <2>2, <3>1 DEF ElapsedUnlessWoken, Undisturbed
  <2>. QED  BY <2>3, <2>4
<1>15. CASE PassStep
  <2>1. /\ lifecycleLock = NoWorker /\ UNCHANGED <<minEnd, now, failures, crashes, job>>
        /\ \A w \in Workers : pc'[w] \in {"idle", pc[w]}
        /\ epState' = AfterPass
    BY <1>15 DEF PassStep, TimeoutPass, GracePass, StartupPass, CompleteStartup, Pass, MayEnterPass
  <2>2. \A w \in Workers : pc[w] \notin Locked
    BY <2>1 DEF LockInv
  <2>3. AwakeUnlessResumed'
    BY <2>1, <2>2 DEF AwakeUnlessResumed, Locked
  <2>4. ElapsedUnlessWoken'
    BY <2>1, <2>2 DEF ElapsedUnlessWoken, Undisturbed, AfterPass, Quiesces, IsOpen, OpenStates, Locked
  <2>. QED  BY <2>3, <2>4
<1>16. CASE Boot
  <2>1. AwakeUnlessResumed'
    BY <1>16 DEF Boot, AwakeUnlessResumed, LockInv, Locked, Writing
  <2>2. ElapsedUnlessWoken'
    BY <1>16 DEF Boot, ElapsedUnlessWoken, Undisturbed, EnvironmentOK
  <2>. QED  BY <2>1, <2>2 DEF QuiescenceInv
<1>17. CASE StartupBackfill
  <2>1. AwakeUnlessResumed'
    BY <1>17 DEF StartupBackfill, AwakeUnlessResumed, LockInv, Locked, Writing
  <2>2. ElapsedUnlessWoken'
    BY <1>17 DEF StartupBackfill, ElapsedUnlessWoken, Undisturbed
  <2>. QED  BY <2>1, <2>2 DEF QuiescenceInv
<1>18. CASE StartupScan
  <2>1. AwakeUnlessResumed'
    BY <1>18 DEF StartupScan, AwakeUnlessResumed, LockInv, Locked, Writing, IdleJob, Job
  <2>2. ElapsedUnlessWoken'
    BY <1>18 DEF StartupScan, ElapsedUnlessWoken, Undisturbed
  <2>. QED  BY <2>1, <2>2 DEF QuiescenceInv
<1>19. CASE Crash
  <2>1. AwakeUnlessResumed'
    BY <1>19 DEF Crash, AwakeUnlessResumed, LockInv, Locked, Writing, IdleJob, Job
  <2>2. ElapsedUnlessWoken'
    BY <1>19 DEF Crash, ElapsedUnlessWoken, Undisturbed, EnvironmentOK
  <2>. QED  BY <2>1, <2>2 DEF QuiescenceInv
<1>. QED  BY <1>1, <1>2, <1>3, <1>4, <1>5, <1>6, <1>7, <1>8, <1>9, <1>10, <1>11, <1>12, <1>13,
             <1>14, <1>15, <1>16, <1>17, <1>18, <1>19
  DEF Next, DeliveryStep, CorrelationStep, StartupStep, PassStep

\* A row that exists keeps its decision, its window and its first delivery.
LEMMA RowsStay ==
  ASSUME IndInv, [Next]_vars, NEW e \in Events, evKind[e] # "absent"
  PROVE  evKind'[e] = evKind[e] /\ evWindow'[e] = evWindow[e] /\ evOrigin'[e] = evOrigin[e]
<1>. DEFINE Kept == UNCHANGED <<evKind, evWindow, evOrigin>>
<1>. USE DEF environment, settings, eventRows
<1>1. ASSUME NEW d \in Deliveries, CanonicalizeNew(d)
      PROVE  evKind'[e] = evKind[e] /\ evWindow'[e] = evWindow[e] /\ evOrigin'[e] = evOrigin[e]
  BY <1>1, NewRow
<1>2. ASSUME NEW d \in Deliveries, Receive(d) \/ DeliveryStep(d) \/ Fail(d), ~CanonicalizeNew(d)
      PROVE  Kept
  BY <1>2 DEF DeliveryStep, Receive, RejectDraft, EnterArea, CanonicalizeDuplicate, RejectConflict,
              Backfill, Link, Publish, Fail
<1>3. ASSUME NEW w \in Workers, CorrelationStep(w)
      PROVE  Kept
  BY <1>3 DEF CorrelationStep, Recover, AbandonRecovery, JoinEpisode, OpenEpisode, LinkFirstEvent,
              RefuseAssociation, RecordActivity, ExtendMinimumEnd, Wake, Announce, AttachInactive,
              AttachFiltered, RecordAttachment, RecordNoOpenEpisode, LeaveArea
<1>4. CASE \/ \E ep \in Episodes : BeginFinalization(ep) \/ CompleteFinalization(ep)
           \/ \E g \in Graces : SetGrace(g)
           \/ TimeoutPass \/ GracePass \/ StartupStep \/ Crash \/ Tick \/ UNCHANGED vars
  BY <1>4 DEF BeginFinalization, CompleteFinalization, SetGrace, TimeoutPass, GracePass, StartupStep,
              Boot, StartupBackfill, StartupScan, StartupPass, CompleteStartup, Crash, Tick, vars
<1>. QED  BY <1>1, <1>2, <1>3, <1>4 DEF Next

\* One receipt at most becomes linked, and a linked one keeps its time.
LEMMA LinksStep ==
  ASSUME IndInv, LinkedHasRow, [Next]_vars
  PROVE  /\ linked' = linked \/ \E x \in Deliveries : linked' = [linked EXCEPT ![x] = TRUE]
         /\ linked' = linked \/ received' = received
         /\ \A d \in Deliveries : linked[d] => received'[d] = received[d]
<1>. DEFINE Links == \/ linked' = linked \/ \E x \in Deliveries : linked' = [linked EXCEPT ![x] = TRUE]
<1>. USE DEF environment, settings, receiptRows
<1>1. ASSUME NEW d \in Deliveries, Receive(d)
      PROVE  linked' = linked /\ \A x \in Deliveries : linked[x] => received'[x] = received[x]
  BY <1>1 DEF Receive, Move, LinkedHasRow, IndInv, TypeOK, ReceiptRowsOK
<1>2. ASSUME NEW d \in Deliveries, Link(d)
      PROVE  received' = received /\ linked' = [linked EXCEPT ![d] = TRUE]
  BY <1>2 DEF Link
<1>3. ASSUME NEW e \in Events, linked' = Backfilled(e), evOrigin[e] \in Deliveries
      PROVE  Links
  BY <1>3 DEF Backfilled
<1>4. ASSUME NEW d \in Deliveries, Backfill(d)
      PROVE  received' = received /\ Links
  BY <1>3, <1>4 DEF Backfill, Move, IndInv, TaskInv, ReceiptInv
<1>5. CASE StartupBackfill
  <2>1. received' = received
    BY <1>5 DEF StartupBackfill
  <2>2. linked' = linked \/ \E e \in Events : evOrigin[e] \in Deliveries /\ linked' = Backfilled(e)
    BY <1>5 DEF StartupBackfill, Pending, IndInv, ReceiptInv
  <2>. QED  BY <1>3, <2>1, <2>2
<1>6. ASSUME NEW d \in Deliveries, DeliveryStep(d) \/ Fail(d), ~Link(d), ~Backfill(d)
      PROVE  UNCHANGED receiptRows
  BY <1>6 DEF DeliveryStep, RejectDraft, EnterArea, CanonicalizeNew, CanonicalizeDuplicate,
              RejectConflict, Publish, Fail
<1>7. ASSUME NEW w \in Workers, CorrelationStep(w)
      PROVE  UNCHANGED receiptRows
  BY <1>7 DEF CorrelationStep, Recover, AbandonRecovery, JoinEpisode, OpenEpisode, LinkFirstEvent,
              RefuseAssociation, RecordActivity, ExtendMinimumEnd, Wake, Announce, AttachInactive,
              AttachFiltered, RecordAttachment, RecordNoOpenEpisode, LeaveArea
<1>8. CASE \/ \E ep \in Episodes : BeginFinalization(ep) \/ CompleteFinalization(ep)
           \/ \E g \in Graces : SetGrace(g)
           \/ TimeoutPass \/ GracePass \/ Boot \/ StartupScan \/ StartupPass \/ CompleteStartup
           \/ Crash \/ Tick \/ UNCHANGED vars
  BY <1>8 DEF BeginFinalization, CompleteFinalization, SetGrace, TimeoutPass, GracePass,
              Boot, StartupScan, StartupPass, CompleteStartup, Crash, Tick, vars
<1>. QED  BY <1>1, <1>2, <1>4, <1>5, <1>6, <1>7, <1>8 DEF Next, StartupStep

\* The ingress times of an Event only grow, by one time at most.
LEMMA IngressGrows ==
  ASSUME IndInv, IndInv', LinkedHasRow, [Next]_vars, NEW e \in Events
  PROVE  Ingress(e)' = Ingress(e) \/ \E r \in Nat : Ingress(e)' = Ingress(e) \union {r}
<1>1. CASE linked' = linked
  BY <1>1, LinksStep DEF Ingress
<1>2. CASE linked' # linked
  <2>1. PICK x \in Deliveries : linked' = [linked EXCEPT ![x] = TRUE]
    BY <1>2, LinksStep
  <2>2. received' = received
    BY <1>2, LinksStep
  <2>3. \A d \in Deliveries : linked'[d] <=> linked[d] \/ d = x
    BY <2>1 DEF IndInv, TypeOK, ReceiptRowsOK
  <2>4. received[x] \in Nat
    BY <2>2, <2>3 DEF IndInv, ReceiptInv
  <2>5. CASE EventOf[x] = e
    BY <2>2, <2>3, <2>4, <2>5 DEF Ingress
  <2>6. CASE EventOf[x] # e
    BY <2>2, <2>3, <2>6 DEF Ingress
  <2>. QED  BY <2>5, <2>6
<1>. QED  BY <1>1, <1>2

\* So an Episode that covers an Event goes on covering it.
LEMMA CoverStays ==
  ASSUME IndInv, IndInv', LinkedHasRow, MembersExist, [Next]_vars,
         NEW e \in Events, evKind[e] # "absent", evEpisode[e] # NoEpisode, Covered(e)
  PROVE  Covered(e)'
<1>. DEFINE ep == evEpisode[e]
<1>1. ep \in Episodes /\ epState[ep] # "none"
  BY DEF IndInv, TypeOK, EventRowsOK, MembersExist
<1>2. evEpisode'[e] = ep
  BY AssociationStep DEF MayAssociate, IndInv, TypeOK, EventRowsOK
<1>3. minEnd[ep] \in Nat /\ minEnd'[ep] \in Nat /\ minEnd'[ep] >= minEnd[ep]
  BY <1>1, DeadlineStep DEF IndInv, TypeOK, EpisodeRowsOK
<1>4. evWindow'[e] = evWindow[e] /\ evWindow[e] \in Nat
  BY RowsStay DEF IndInv, TypeOK, EventRowsOK
<1>5. PICK t \in Earliest(Ingress(e)) : minEnd[ep] >= t + evWindow[e]
  BY DEF Covered
<1>6. Ingress(e) \subseteq Nat /\ t \in Nat
  BY IngressIsTime DEF Earliest
<1>7. \E u \in Earliest(Ingress(e)') : u <= t /\ u \in Nat
  BY <1>5, <1>6, IngressGrows DEF Earliest
<1>. QED  BY <1>2, <1>3, <1>4, <1>5, <1>6, <1>7 DEF Covered

\* Failures and crashes are only ever counted up.
LEMMA DisturbancesCount ==
  ASSUME IndInv, [Next]_vars
  PROVE  failures' >= failures /\ crashes' >= crashes
<1>. USE DEF environment
<1>1. ASSUME NEW d \in Deliveries, Receive(d) \/ DeliveryStep(d) \/ Fail(d)
      PROVE  UNCHANGED crashes /\ (failures' = failures \/ failures' = failures + 1)
  BY <1>1 DEF DeliveryStep, Receive, RejectDraft, EnterArea, CanonicalizeNew, CanonicalizeDuplicate,
              RejectConflict, Backfill, Link, Publish, Fail
<1>2. ASSUME NEW w \in Workers, CorrelationStep(w)
      PROVE  UNCHANGED <<failures, crashes>>
  BY <1>2 DEF CorrelationStep, Recover, AbandonRecovery, JoinEpisode, OpenEpisode, LinkFirstEvent,
              RefuseAssociation, RecordActivity, ExtendMinimumEnd, Wake, Announce, AttachInactive,
              AttachFiltered, RecordAttachment, RecordNoOpenEpisode, LeaveArea
<1>3. CASE \/ \E ep \in Episodes : BeginFinalization(ep) \/ CompleteFinalization(ep)
           \/ \E g \in Graces : SetGrace(g)
           \/ TimeoutPass \/ GracePass \/ StartupStep \/ Crash \/ Tick \/ UNCHANGED vars
  <2>1. UNCHANGED failures /\ (crashes' = crashes \/ crashes' = crashes + 1)
    BY <1>3 DEF BeginFinalization, CompleteFinalization, SetGrace, TimeoutPass, GracePass,
                StartupStep,
                Boot, StartupBackfill, StartupScan, StartupPass, CompleteStartup, Crash, Tick, vars
  <2>. QED  BY <2>1 DEF IndInv, TypeOK, EnvironmentOK
<1>. QED  BY <1>1, <1>2, <1>3 DEF Next, IndInv, TypeOK, EnvironmentOK

\* So a behaviour that is undisturbed has been so far.
LEMMA UndisturbedBefore ==
  ASSUME IndInv, [Next]_vars, Undisturbed'
  PROVE  Undisturbed
BY DisturbancesCount DEF Undisturbed, IndInv, TypeOK, EnvironmentOK

\* Only Events whose row exists are associated.
LEMMA CorrelatesRows ==
  ASSUME IndInv, [Next]_vars, NEW e \in Events, evKind[e] = "absent"
  PROVE  evEpisode'[e] = evEpisode[e]
<1>1. ASSUME NEW w \in Workers, EpisodeStep(w)
      PROVE  evEpisode'[e] = evEpisode[e]
  <2>1. CASE JoinEpisode(w) \/ LinkFirstEvent(w) \/ AttachInactive(w) \/ AttachFiltered(w)
    BY <2>1, AssociatesOwnEvent DEF IndInv, TaskInv
  <2>2. CASE OpenEpisode(w) \/ RecordActivity(w) \/ ExtendMinimumEnd(w) \/ Wake(w)
    BY <2>2 DEF OpenEpisode, RecordActivity, ExtendMinimumEnd, Wake, eventRows
  <2>. QED  BY <1>1, <2>1, <2>2 DEF EpisodeStep
<1>2. ASSUME PassStep \/ (\E ep \in Episodes : CompleteFinalization(ep)) \/ Tick
             \/ (\E g \in Graces : SetGrace(g)) \/ Untouched
      PROVE  UNCHANGED evEpisode
  BY <1>2 DEF PassStep, TimeoutPass, GracePass, StartupPass, CompleteStartup, CompleteFinalization,
              Tick, SetGrace, Untouched, eventRows
<1>. QED  BY EpisodeWriters, <1>1, <1>2

\* An Episode that exists goes on existing.
LEMMA EpisodesStay ==
  ASSUME IndInv, [Next]_vars, NEW ep \in Episodes, epState[ep] # "none"
  PROVE  epState'[ep] # "none"
<1>. USE DEF IndInv, TypeOK, EpisodeRowsOK
<1>1. ASSUME NEW w \in Workers, EpisodeStep(w)
      PROVE  epState'[ep] # "none"
  BY <1>1 DEF EpisodeStep, JoinEpisode, OpenEpisode, LinkFirstEvent, RecordActivity, ExtendMinimumEnd,
              Wake, AttachInactive, AttachFiltered, episodeRows
<1>2. ASSUME PassStep
      PROVE  epState'[ep] # "none"
  BY <1>2 DEF PassStep, TimeoutPass, GracePass, StartupPass, CompleteStartup, Pass, AfterPass
<1>3. ASSUME (\E other \in Episodes : CompleteFinalization(other)) \/ Tick
             \/ (\E g \in Graces : SetGrace(g)) \/ Untouched
      PROVE  epState'[ep] # "none"
  BY <1>3 DEF CompleteFinalization, Tick, SetGrace, Untouched, episodeRows
<1>. QED  BY EpisodeWriters, <1>1, <1>2, <1>3

\* Events are associated with Episodes that exist.
LEMMA MembersExistStep ==
  ASSUME IndInv, MembersExist, [Next]_vars
  PROVE  MembersExist'
<1>1. \A e \in Events : evEpisode'[e] = evEpisode[e] \/ (evEpisode'[e] \in Episodes /\ IsOpen(evEpisode'[e]))
  BY AssociationStep DEF MayAssociate, IndInv, TypeOK, EventRowsOK
<1>2. \A e \in Events : evEpisode[e] \in Episodes \union {NoEpisode}
  BY DEF IndInv, TypeOK, EventRowsOK
<1>. QED  BY <1>1, <1>2, EpisodesStay DEF MembersExist, IsOpen, OpenStates

\* A task between its association and its deadline moves by its own steps only.
LEMMA ExtenderMoves ==
  ASSUME IndInv, [Next]_vars, Undisturbed', NEW w \in Workers, pc[w] \in {"activity", "extend"}
  PROVE  \/ pc'[w] = pc[w] /\ job'[w] = job[w]
         \/ RecordActivity(w) \/ ExtendMinimumEnd(w)
<1>. DEFINE Waits == pc'[w] = pc[w] /\ job'[w] = job[w]
<1>. USE DEF IndInv, TypeOK, TasksOK, Workers, Move, environment, tasks
<1>1. ASSUME NEW d \in Deliveries, Receive(d) \/ DeliveryStep(d)
      PROVE  Waits
  BY <1>1 DEF DeliveryStep, Receive, RejectDraft, EnterArea, CanonicalizeNew, CanonicalizeDuplicate,
              RejectConflict, Backfill, Link, Publish
<1>2. ASSUME NEW d \in Deliveries, Fail(d) \/ Crash
      PROVE  FALSE
  BY <1>2 DEF Fail, Crash, Undisturbed, EnvironmentOK
<1>3. ASSUME NEW x \in Workers, CorrelationStep(x), x # w \/ (~RecordActivity(x) /\ ~ExtendMinimumEnd(x))
      PROVE  Waits
  <2>1. CASE Recover(x)
    BY <2>1, RecoverOutcome DEF Recover
  <2>2. CASE AbandonRecovery(x) \/ RefuseAssociation(x) \/ LeaveArea(x)
    BY <2>2 DEF AbandonRecovery, RefuseAssociation, Abort, LeaveArea
  <2>3. CASE JoinEpisode(x) \/ OpenEpisode(x) \/ LinkFirstEvent(x)
    BY <2>3 DEF JoinEpisode, OpenEpisode, EnterLifecycle, LinkFirstEvent
  <2>4. CASE \/ RecordActivity(x) \/ ExtendMinimumEnd(x) \/ Wake(x) \/ Announce(x)
             \/ AttachInactive(x) \/ AttachFiltered(x) \/ RecordAttachment(x) \/ RecordNoOpenEpisode(x)
    BY <1>3, <2>4 DEF RecordActivity, ExtendMinimumEnd, Wake, Announce, AttachInactive, AttachFiltered,
                      EnterLifecycle, RecordAttachment, RecordNoOpenEpisode
  <2>. QED  BY <1>3, <2>1, <2>2, <2>3, <2>4 DEF CorrelationStep
<1>4. CASE \/ \E ep \in Episodes : BeginFinalization(ep) \/ CompleteFinalization(ep)
           \/ \E g \in Graces : SetGrace(g)
           \/ TimeoutPass \/ GracePass \/ StartupStep \/ Tick \/ UNCHANGED vars
  BY <1>4 DEF BeginFinalization, CompleteFinalization, SetGrace, TimeoutPass, GracePass, StartupStep,
              Boot, StartupBackfill, StartupScan, StartupPass, CompleteStartup, Tick, vars
<1>5. CASE Crash
  BY <1>5 DEF Crash, Undisturbed, EnvironmentOK
<1>. QED  BY <1>1, <1>2, <1>3, <1>4, <1>5 DEF Next

\* An allowed Event that gains an Episode does so through a task that goes on to
\* extend it.
LEMMA AllowedAssociation ==
  ASSUME IndInv, [Next]_vars, NEW e \in Events, evKind[e] = "allowed", evEpisode'[e] # evEpisode[e]
  PROVE  \E w \in Workers :
           pc'[w] = "activity" /\ job'[w].event = e /\ job'[w].episode = evEpisode'[e]
<1>. USE DEF IndInv, TypeOK, TasksOK, EventRowsOK
<1>1. PICK w \in Workers : JoinEpisode(w) \/ LinkFirstEvent(w) \/ AttachInactive(w) \/ AttachFiltered(w)
  <2>1. ASSUME NEW w \in Workers, EpisodeStep(w)
        PROVE  \/ JoinEpisode(w) \/ LinkFirstEvent(w) \/ AttachInactive(w) \/ AttachFiltered(w)
               \/ UNCHANGED evEpisode
    BY <2>1 DEF EpisodeStep, OpenEpisode, RecordActivity, ExtendMinimumEnd, Wake, eventRows
  <2>2. ASSUME PassStep \/ (\E ep \in Episodes : CompleteFinalization(ep)) \/ Tick
               \/ (\E g \in Graces : SetGrace(g)) \/ Untouched
        PROVE  UNCHANGED evEpisode
    BY <2>2 DEF PassStep, TimeoutPass, GracePass, StartupPass, CompleteStartup, CompleteFinalization,
                Tick, SetGrace, Untouched, eventRows
  <2>. QED  BY EpisodeWriters, <2>1, <2>2
<1>2. job[w].event = e /\ pc[w] \in Correlating
  BY <1>1, AssociatesOwnEvent
<1>3. CASE JoinEpisode(w)
  <2>1. PICK ep \in Targets(w) : /\ evEpisode' = [evEpisode EXCEPT ![e] = ep]
                                 /\ job' = [job EXCEPT ![w].episode = ep, ![w].via = Via(ep)]
    BY <1>2, <1>3 DEF JoinEpisode
  <2>2. job'[w].event = e /\ job'[w].episode = ep /\ evEpisode'[e] = ep
    BY <1>2, <2>1 DEF Job
  <2>. QED  BY <1>3, <2>2 DEF JoinEpisode, EnterLifecycle, Move
<1>4. CASE LinkFirstEvent(w)
  BY <1>2, <1>4 DEF LinkFirstEvent, Move
<1>5. CASE AttachInactive(w) \/ AttachFiltered(w)
  BY <1>2, <1>5 DEF AttachInactive, AttachFiltered
<1>. QED  BY <1>1, <1>3, <1>4, <1>5

\* Every step keeps the Episode of an allowed Event covering it.
LEMMA DriverStep ==
  ASSUME IndInv, IndInv', OriginInv, IngressInv, DriverInv, [Next]_vars
  PROVE  DriverInv'
<1>1. MembersExist'
  BY MembersExistStep DEF DriverInv
<1>2. SUFFICES ASSUME Undisturbed', NEW e \in Events, evKind'[e] = "allowed", evEpisode'[e] # NoEpisode
               PROVE  \/ Covered(e)'
                      \/ \E w \in Workers : /\ pc'[w] \in {"activity", "extend"}
                                            /\ job'[w].event = e /\ job'[w].episode = evEpisode'[e]
  BY <1>1 DEF DriverInv, CoveredUnlessExtended
<1>3. Undisturbed
  BY <1>2, UndisturbedBefore
<1>4. evKind[e] = "allowed"
  <2>1. CASE evKind[e] = "absent"
    <3>1. evEpisode[e] = NoEpisode
      BY <2>1 DEF IngressInv, AssociatedIsLinked
    <3>. QED  BY <2>1, <3>1, <1>2, AssociationStep, CorrelatesRows
  <2>2. CASE evKind[e] # "absent"
    BY <2>2, RowsStay, <1>2
  <2>. QED  BY <2>1, <2>2
<1>5. CASE evEpisode'[e] # evEpisode[e]
  BY <1>4, <1>5, AllowedAssociation
<1>6. CASE evEpisode'[e] = evEpisode[e] /\ Covered(e)
  BY <1>2, <1>4, <1>6, CoverStays DEF DriverInv, OriginInv
<1>7. ASSUME evEpisode'[e] = evEpisode[e],
             NEW w \in Workers, pc[w] \in {"activity", "extend"},
             job[w].event = e, job[w].episode = evEpisode[e]
      PROVE  Covered(e)' \/ (pc'[w] \in {"activity", "extend"} /\ job'[w] = job[w])
  <2>1. CASE pc'[w] = pc[w] /\ job'[w] = job[w]
    BY <1>7, <2>1
  <2>2. CASE RecordActivity(w)
    BY <2>2 DEF RecordActivity, Move, IndInv, TypeOK, TasksOK
  <2>3. CASE ExtendMinimumEnd(w)
    <3>. DEFINE ep == evEpisode[e]
    <3>1. ep \in Episodes
      BY <1>7 DEF IndInv, LockInv, Writing
    <3>2. PICK t \in Ingress(e) : t <= job[w].at
      BY <1>7 DEF IngressInv, CorrelatesBetween, Locked
    <3>3. Ingress(e) \subseteq Nat /\ job[w].at \in Nat /\ Contribution(w) \in Nat
      BY <1>7, IngressIsTime, CorrelatedEvent DEF Correlating, Locked
    <3>4. PICK u \in Earliest(Ingress(e)) : u <= t
      BY <3>2, <3>3, EarliestExists DEF Earliest
    <3>5. minEnd'[ep] \in Nat /\ minEnd'[ep] >= Contribution(w)
      BY <1>7, <2>3, <3>1, <3>3 DEF ExtendMinimumEnd, Extended, Larger, IndInv, TypeOK, EpisodeRowsOK
    <3>6. UNCHANGED <<evWindow, evEpisode, linked, received>>
      BY <2>3 DEF ExtendMinimumEnd, eventRows, receiptRows
    <3>7. Ingress(e)' = Ingress(e)
      BY <3>6 DEF Ingress
    <3>8. evWindow[e] \in Nat /\ u \in Nat
      BY <3>3, <3>4 DEF IndInv, TypeOK, EventRowsOK, Earliest
    <3>9. minEnd'[ep] >= u + evWindow[e]
      BY <1>7, <3>2, <3>3, <3>4, <3>5, <3>8 DEF Contribution
    <3>. QED  BY <3>4, <3>6, <3>7, <3>9 DEF Covered
  <2>. QED  BY <1>2, <1>7, <2>1, <2>2, <2>3, ExtenderMoves
<1>. QED  BY <1>2, <1>3, <1>4, <1>5, <1>6, <1>7 DEF DriverInv, CoveredUnlessExtended

-----------------------------------------------------------------------------
(***************************************************************************)
(* Pending Events.                                                         *)
(***************************************************************************)

\* In a running engine a pending Event has a delivery under way.
LEMMA PendingStep ==
  ASSUME IndInv, PhaseInv, OriginInv, IngressInv, PendingInv, [Next]_vars
  PROVE  PendingInv'
<1>. USE DEF IndInv, TypeOK, EventRowsOK, TasksOK, Workers, Move, environment, settings,
             eventRows, receiptRows, episodeRows, tasks, history, PendingInv, Pending, TaskInv
<1>1. ASSUME NEW d \in Deliveries, Receive(d)
      PROVE  PendingInv'
  BY <1>1 DEF Receive, AtRest
<1>2. ASSUME NEW d \in Deliveries,
             \/ RejectDraft(d) \/ EnterArea(d) \/ CanonicalizeDuplicate(d)
             \/ RejectConflict(d) \/ Publish(d) \/ Fail(d)
      PROVE  PendingInv'
  BY <1>2
  DEF RejectDraft, EnterArea, CanonicalizeDuplicate, RejectConflict, ReleaseAreas, Publish, Fail,
      Abort, Conflicts, AtRest, EnvironmentOK
<1>3. ASSUME NEW d \in Deliveries, CanonicalizeNew(d)
      PROVE  PendingInv'
  BY <1>3 DEF CanonicalizeNew, AtRest
<1>4. ASSUME NEW d \in Deliveries, Backfill(d)
      PROVE  PendingInv'
  BY <1>4 DEF Backfill, AtRest
<1>5. ASSUME NEW d \in Deliveries, Link(d)
      PROVE  PendingInv'
  BY <1>5 DEF Link, AfterLink, AtRest
<1>6. ASSUME NEW w \in Workers, Recover(w)
      PROVE  PendingInv'
  <2>1. pc[w] = "recover" /\ UNCHANGED <<failures, phase, evKind, evEpisode, evAttach>>
    BY <1>6 DEF Recover
  <2>. QED  BY <1>6, <2>1, RecoverOutcome
<1>7. ASSUME NEW w \in Workers,
             AbandonRecovery(w) \/ LeaveArea(w) \/ RefuseAssociation(w)
      PROVE  PendingInv'
  <2>1. /\ UNCHANGED <<failures, phase, evKind, evEpisode, evAttach>>
        /\ \A x \in Workers \ {w} : pc'[x] = pc[x] /\ job'[x] = job[x]
    BY <1>7 DEF AbandonRecovery, LeaveArea, RefuseAssociation, Abort
  <2>2. pc[w] = "leave" \/ evEpisode[job[w].event] # NoEpisode
    <3>1. CASE AbandonRecovery(w)
      BY <3>1 DEF AbandonRecovery, AlreadyRecovered
    <3>2. CASE LeaveArea(w)
      BY <3>2 DEF LeaveArea
    <3>3. CASE RefuseAssociation(w)
      <4>1. \/ \E ep \in Targets(w) \union ContextTargets(w) : Refused(w, ep)
            \/ pc[w] = "first_event" /\ Refused(w, job[w].episode)
        BY <3>3 DEF RefuseAssociation
      <4>2. \E ep \in Episodes : IsOpen(ep) /\ Refused(w, ep)
        BY <4>1, TargetsAreOpen DEF LockInv, Writing
      <4>. QED  BY <4>2 DEF Refused, MayAssociate
    <3>. QED  BY <1>7, <3>1, <3>2, <3>3
  <2>. QED  BY <2>1, <2>2 DEF AtRest
<1>8. ASSUME NEW w \in Workers, JoinEpisode(w)
      PROVE  PendingInv'
  <2>1. UNCHANGED <<failures, phase, evKind, evAttach>>
    BY <1>8 DEF JoinEpisode, EnterLifecycle
  <2>2. \A x \in Workers \ {w} : pc'[x] = pc[x] /\ job'[x] = job[x]
    BY <1>8 DEF JoinEpisode, EnterLifecycle
  <2>3. \A e \in Events : Pending(e)' => Pending(e) /\ e # job[w].event
    <3>1. PICK ep \in Targets(w) : evEpisode' = [evEpisode EXCEPT ![job[w].event] = ep]
      BY <1>8 DEF JoinEpisode
    <3>. QED  BY <2>1, <3>1, TargetsAreOpen
  <2>. QED  BY <2>1, <2>2, <2>3 DEF AtRest
<1>9. ASSUME NEW w \in Workers, OpenEpisode(w)
      PROVE  PendingInv'
  BY <1>9 DEF OpenEpisode, EnterLifecycle, AtRest
<1>10. ASSUME NEW w \in Workers, LinkFirstEvent(w)
      PROVE  PendingInv'
  <2>1. UNCHANGED <<failures, phase, evKind, evAttach>>
    BY <1>10 DEF LinkFirstEvent
  <2>2. \A x \in Workers \ {w} : pc'[x] = pc[x] /\ job'[x] = job[x]
    BY <1>10 DEF LinkFirstEvent
  <2>3. \A e \in Events : Pending(e)' => Pending(e) /\ e # job[w].event
    <3>1. /\ job[w].episode \in Episodes
          /\ evEpisode' = [evEpisode EXCEPT ![job[w].event] = job[w].episode]
      BY <1>10 DEF LinkFirstEvent, LockInv, Writing
    <3>. QED  BY <2>1, <3>1
  <2>. QED  BY <2>1, <2>2, <2>3 DEF AtRest
<1>11. ASSUME NEW w \in Workers,
              RecordActivity(w) \/ ExtendMinimumEnd(w) \/ Wake(w) \/ Announce(w)
      PROVE  PendingInv'
  BY <1>11 DEF RecordActivity, ExtendMinimumEnd, Wake, Announce, AtRest
<1>12. ASSUME NEW w \in Workers, AttachInactive(w) \/ AttachFiltered(w)
      PROVE  PendingInv'
  <2>1. UNCHANGED <<failures, phase, evKind, evAttach>>
    BY <1>12 DEF AttachInactive, AttachFiltered, EnterLifecycle
  <2>2. \A x \in Workers \ {w} : pc'[x] = pc[x] /\ job'[x] = job[x]
    BY <1>12 DEF AttachInactive, AttachFiltered, EnterLifecycle
  <2>3. \A e \in Events : Pending(e)' => Pending(e) /\ e # job[w].event
    <3>1. CASE AttachInactive(w)
      <4>1. evKind[job[w].event] = "inactive"
        BY <3>1 DEF AttachInactive
      <4>2. \A e \in Events \ {job[w].event} : evEpisode'[e] = evEpisode[e]
        BY <3>1, AssociatesOwnEvent
      <4>. QED  BY <2>1, <4>1, <4>2
    <3>2. CASE AttachFiltered(w)
      <4>1. PICK ep \in ContextTargets(w) : evEpisode' = [evEpisode EXCEPT ![job[w].event] = ep]
        BY <3>2 DEF AttachFiltered
      <4>. QED  BY <2>1, <4>1, TargetsAreOpen
    <3>. QED  BY <1>12, <3>1, <3>2
  <2>. QED  BY <2>1, <2>2, <2>3 DEF AtRest
<1>13. ASSUME NEW w \in Workers,
              RecordAttachment(w) \/ RecordNoOpenEpisode(w)
      PROVE  PendingInv'
  BY <1>13 DEF RecordAttachment, RecordNoOpenEpisode, AtRest
<1>14. CASE \/ \E ep \in Episodes : BeginFinalization(ep) \/ CompleteFinalization(ep)
            \/ \E g \in Graces : SetGrace(g)
            \/ Tick \/ UNCHANGED vars
  BY <1>14 DEF BeginFinalization, CompleteFinalization, SetGrace, Tick, vars, AtRest
<1>15. CASE PassStep
  <2>1. /\ UNCHANGED <<failures, evKind, evEpisode, evAttach, job>>
        /\ \A d \in Deliveries : pc'[d] = pc[d]
    BY <1>15 DEF PassStep, TimeoutPass, GracePass, StartupPass, CompleteStartup
  <2>2. phase \in {"deferred", "running"} \/ NothingPending
    BY <1>15 DEF PassStep, TimeoutPass, GracePass, StartupPass, CompleteStartup
  <2>. QED  BY <2>1, <2>2 DEF NothingPending
<1>16. CASE Boot
  BY <1>16 DEF Boot, AtRest
<1>17. CASE StartupBackfill
  BY <1>17 DEF StartupBackfill, AtRest
<1>18. CASE StartupScan
  BY <1>18 DEF StartupScan, AtRest
<1>19. CASE Crash
  BY <1>19 DEF Crash, AtRest
<1>. QED  BY <1>1, <1>2, <1>3, <1>4, <1>5, <1>6, <1>7, <1>8, <1>9, <1>10, <1>11, <1>12, <1>13,
             <1>14, <1>15, <1>16, <1>17, <1>18, <1>19
  DEF Next, DeliveryStep, CorrelationStep, StartupStep, PassStep

-----------------------------------------------------------------------------
(***************************************************************************)
(* Areas: two tasks never have one Event, as long as its Device does not move. *)
(***************************************************************************)

\* A task that leaves its Area opens only its own lock.
LEMMA AreaReleased ==
  ASSUME IndInv, AreaInv, NEW w \in Workers, ReleaseAreas(w), pc'[w] \notin InArea,
         \A x \in Workers \ {w} : pc'[x] = pc[x] /\ job'[x] = job[x], UNCHANGED <<evKind, evOrigin>>
  PROVE  AreaInv'
<1>1. \A a \in Areas, x \in Workers \ {w} : areaLock[a] = x => areaLock'[a] = x
  BY DEF ReleaseAreas
<1>2. DeliveriesHoldArea'
  BY <1>1 DEF AreaInv, DeliveriesHoldArea, Workers
<1>3. StartupHoldsArea'
  <2>. SUFFICES ASSUME pc'[Startup] \in InArea \ {"backfill"}
                PROVE  /\ job'[Startup].event \in Events /\ evKind'[job'[Startup].event] # "absent"
                       /\ areaLock'[AreaOf[evOrigin'[job'[Startup].event]]] = Startup
    BY DEF StartupHoldsArea, RowArea
  <2>1. Startup # w /\ job'[Startup] = job[Startup] /\ pc'[Startup] = pc[Startup]
    BY DEF Workers
  <2>2. /\ job[Startup].event \in Events /\ evKind[job[Startup].event] # "absent"
        /\ areaLock[RowArea(job[Startup].event)] = Startup
    BY <2>1 DEF AreaInv, StartupHoldsArea
  <2>3. RowArea(job[Startup].event) \in Areas
    BY <2>2 DEF IndInv, ReceiptInv, RowArea
  <2>. QED  BY <1>1, <2>1, <2>2, <2>3 DEF Workers, RowArea
<1>. QED  BY <1>2, <1>3 DEF AreaInv

\* A step that neither enters nor leaves an Area leaves the locks alone.
LEMMA AreaStays ==
  ASSUME IndInv, AreaInv, UNCHANGED areaLock,
         \A x \in Workers : pc'[x] \in InArea =>
           \/ x = Startup /\ pc'[x] = "backfill"
           \/ /\ pc[x] \in InArea /\ (x = Startup => pc[x] # "backfill")
              /\ job'[x].event = job[x].event,
         \A e \in Events : evKind[e] # "absent" => evKind'[e] # "absent" /\ evOrigin'[e] = evOrigin[e]
  PROVE  AreaInv'
<1>1. DeliveriesHoldArea'
  BY DEF AreaInv, DeliveriesHoldArea, Workers
<1>2. StartupHoldsArea'
  BY DEF AreaInv, StartupHoldsArea, Workers, RowArea
<1>. QED  BY <1>1, <1>2 DEF AreaInv

\* Every step keeps a task in its Area behind the Area's lock.
LEMMA AreaStep ==
  ASSUME IndInv, RowHasOrigin, AreaInv, [Next]_vars
  PROVE  AreaInv'
<1>. USE DEF IndInv, TypeOK, TasksOK, Workers, Move, environment, settings, eventRows,
             receiptRows, episodeRows, tasks, history
<1>1. ASSUME NEW d \in Deliveries, Receive(d)
      PROVE  AreaInv'
  BY <1>1
  DEF Receive, AreaInv, InArea, Correlating, Locked, RowArea, DeliveriesHoldArea,
      StartupHoldsArea
<1>2. ASSUME NEW d \in Deliveries,
             \/ RejectDraft(d) \/ EnterArea(d) \/ CanonicalizeDuplicate(d)
             \/ RejectConflict(d) \/ Publish(d) \/ Fail(d)
      PROVE  AreaInv'
  <2>1. CASE RejectDraft(d)
    BY <2>1, AreaStays DEF RejectDraft, InArea, Correlating, Locked
  <2>2. CASE EnterArea(d)
    BY <2>2 DEF EnterArea, AreaInv, InArea, Correlating, Locked, RowArea, DeliveriesHoldArea, StartupHoldsArea
  <2>3. CASE CanonicalizeDuplicate(d)
    BY <2>3, AreaStays DEF CanonicalizeDuplicate, InArea, Correlating, Locked
  <2>4. CASE RejectConflict(d)
    BY <2>4, AreaReleased DEF RejectConflict, InArea, Correlating, Locked
  <2>5. CASE Publish(d)
    BY <2>5, AreaStays DEF Publish, InArea, Correlating, Locked
  <2>6. CASE Fail(d)
    BY <2>6, AreaReleased DEF Fail, Abort, InArea, Correlating, Locked
  <2>. QED  BY <1>2, <2>1, <2>2, <2>3, <2>4, <2>5, <2>6
<1>3. ASSUME NEW d \in Deliveries, CanonicalizeNew(d)
      PROVE  AreaInv'
  BY <1>3, AreaStays, NewRow DEF InArea, Correlating, Locked
<1>4. ASSUME NEW d \in Deliveries, Backfill(d)
      PROVE  AreaInv'
  BY <1>4, AreaStays DEF Backfill, InArea, Correlating, Locked
<1>5. ASSUME NEW d \in Deliveries, Link(d)
      PROVE  AreaInv'
  BY <1>5, AreaStays DEF Link, AfterLink, InArea, Correlating, Locked
<1>6. ASSUME NEW w \in Workers, Recover(w)
      PROVE  AreaInv'
  <2>1. pc[w] = "recover" /\ UNCHANGED <<evKind, evOrigin, areaLock>>
    BY <1>6 DEF Recover
  <2>. QED  BY <1>6, <2>1, RecoverOutcome, AreaStays DEF InArea, Correlating
<1>7. ASSUME NEW w \in Workers,
             AbandonRecovery(w) \/ LeaveArea(w) \/ RefuseAssociation(w)
      PROVE  AreaInv'
  <2>1. CASE AbandonRecovery(w)
    BY <2>1, AreaStays DEF AbandonRecovery, Job, InArea, Correlating, Locked
  <2>2. CASE LeaveArea(w)
    BY <2>2, AreaReleased DEF LeaveArea, InArea, Correlating, Locked
  <2>3. CASE RefuseAssociation(w)
    BY <2>3, AreaReleased DEF RefuseAssociation, Abort, InArea, Correlating, Locked
  <2>. QED  BY <1>7, <2>1, <2>2, <2>3
<1>8. ASSUME NEW w \in Workers, JoinEpisode(w)
      PROVE  AreaInv'
  BY <1>8, AreaStays DEF JoinEpisode, EnterLifecycle, InArea, Correlating, Locked, Job
<1>9. ASSUME NEW w \in Workers, OpenEpisode(w)
      PROVE  AreaInv'
  BY <1>9, AreaStays DEF OpenEpisode, EnterLifecycle, InArea, Correlating, Locked, Job
<1>10. ASSUME NEW w \in Workers, LinkFirstEvent(w)
      PROVE  AreaInv'
  BY <1>10, AreaStays DEF LinkFirstEvent, InArea, Correlating, Locked
<1>11. ASSUME NEW w \in Workers,
              RecordActivity(w) \/ ExtendMinimumEnd(w) \/ Wake(w) \/ Announce(w)
      PROVE  AreaInv'
  BY <1>11, AreaStays
  DEF RecordActivity, ExtendMinimumEnd, Wake, Announce, InArea, Correlating, Locked
<1>12. ASSUME NEW w \in Workers, AttachInactive(w) \/ AttachFiltered(w)
      PROVE  AreaInv'
  BY <1>12, AreaStays
  DEF AttachInactive, AttachFiltered, EnterLifecycle, InArea, Correlating, Locked
<1>13. ASSUME NEW w \in Workers,
              RecordAttachment(w) \/ RecordNoOpenEpisode(w)
      PROVE  AreaInv'
  BY <1>13, AreaStays DEF RecordAttachment, RecordNoOpenEpisode, InArea, Correlating, Locked
<1>14. CASE \/ \E ep \in Episodes : BeginFinalization(ep) \/ CompleteFinalization(ep)
            \/ \E g \in Graces : SetGrace(g)
            \/ Tick \/ UNCHANGED vars
  BY <1>14, AreaStays
  DEF BeginFinalization, CompleteFinalization, SetGrace, Tick, vars, InArea, Correlating, Locked
<1>15. CASE PassStep
  BY <1>15, AreaStays
  DEF PassStep, TimeoutPass, GracePass, StartupPass, CompleteStartup, InArea, Correlating, Locked
<1>16. CASE Boot
  BY <1>16, AreaStays DEF Boot, InArea, Correlating, Locked
<1>17. CASE StartupBackfill
  BY <1>17, AreaStays DEF StartupBackfill, InArea, Correlating, Locked
<1>18. CASE StartupScan
  <2>1. PICK e \in Events :
          /\ Pending(e) /\ areaLock[RowArea(e)] = NoWorker
          /\ areaLock' = [areaLock EXCEPT ![RowArea(e)] = Startup]
          /\ job' = [job EXCEPT ![Startup] = [IdleJob EXCEPT !.event = e]]
    BY <1>18 DEF StartupScan
  <2>2. /\ job'[Startup].event = e /\ evKind[e] # "absent" /\ RowArea(e) \in Areas
        /\ UNCHANGED <<evKind, evOrigin>> /\ pc' = [pc EXCEPT ![Startup] = "recover"]
    BY <1>18, <2>1 DEF StartupScan, IdleJob, Pending, ReceiptInv, RowArea
  <2>. QED  BY <2>1, <2>2 DEF AreaInv, DeliveriesHoldArea, StartupHoldsArea, RowArea
<1>19. CASE Crash
  BY <1>19
  DEF Crash, AreaInv, InArea, Correlating, Locked, RowArea, DeliveriesHoldArea, StartupHoldsArea
<1>. QED  BY <1>1, <1>2, <1>3, <1>4, <1>5, <1>6, <1>7, <1>8, <1>9, <1>10, <1>11, <1>12, <1>13,
             <1>14, <1>15, <1>16, <1>17, <1>18, <1>19
  DEF Next, DeliveryStep, CorrelationStep, StartupStep, PassStep

\* Two tasks in their Areas have different Events, if Devices do not move.
LEMMA OneTaskPerEvent ==
  ASSUME Stationary, IndInv, RowHasOrigin, AreaInv, NEW w \in Workers, NEW x \in Workers,
         pc[w] \in InArea \ {"canonicalize", "backfill"}, pc[x] \in InArea \ {"canonicalize", "backfill"},
         job[w].event = job[x].event
  PROVE  w = x
<1>1. \A d \in Deliveries : pc[d] \in InArea => job[d].event = EventOf[d]
  BY DEF IndInv, TaskInv, AtRest, InArea, Correlating, Locked
<1>2. \A e \in Events : evKind[e] # "absent" => evOrigin[e] \in Deliveries /\ EventOf[evOrigin[e]] = e
  BY DEF IndInv, ReceiptInv, RowHasOrigin
<1>3. CASE w \in Deliveries /\ x \in Deliveries
  BY <1>1, <1>3 DEF AreaInv, DeliveriesHoldArea, Stationary
<1>4. CASE w \in Deliveries /\ x = Startup
  BY <1>1, <1>2, <1>4 DEF AreaInv, DeliveriesHoldArea, StartupHoldsArea, Stationary, RowArea
<1>5. CASE w = Startup /\ x \in Deliveries
  BY <1>1, <1>2, <1>5 DEF AreaInv, DeliveriesHoldArea, StartupHoldsArea, Stationary, RowArea
<1>. QED  BY <1>3, <1>4, <1>5 DEF Workers

\* An Event waits for its own task, if Devices do not move.
LEMMA AssociationInvStep ==
  ASSUME Stationary, IndInv, OriginInv, IngressInv, AreaInv, AssociationInv, [Next]_vars
  PROVE  AssociationInv'
<1>. USE DEF IndInv, TypeOK, TasksOK, Workers, Move, environment, settings, eventRows,
             receiptRows, episodeRows, tasks, history, AssociationInv
<1>1. ASSUME NEW d \in Deliveries, Receive(d)
      PROVE  AssociationInv'
  BY <1>1 DEF Receive
<1>2. ASSUME NEW d \in Deliveries,
             \/ RejectDraft(d) \/ EnterArea(d) \/ CanonicalizeDuplicate(d)
             \/ RejectConflict(d) \/ Publish(d) \/ Fail(d)
      PROVE  AssociationInv'
  BY <1>2
  DEF RejectDraft, EnterArea, CanonicalizeDuplicate, RejectConflict, ReleaseAreas, Publish, Fail,
      Abort, Conflicts, OriginInv, ModeFitsStep, IdleJob, Job
<1>3. ASSUME NEW d \in Deliveries, CanonicalizeNew(d)
      PROVE  AssociationInv'
  <2>1. evEpisode[EventOf[d]] = NoEpisode /\ job[d].event = EventOf[d]
    BY <1>3, NewRow DEF IngressInv, AssociatedIsLinked, TaskInv, AtRest
  <2>. QED  BY <1>3, <2>1, NewRow
<1>4. ASSUME NEW d \in Deliveries, Backfill(d)
      PROVE  AssociationInv'
  BY <1>4 DEF Backfill, OriginInv, ModeFitsStep
<1>5. ASSUME NEW d \in Deliveries, Link(d)
      PROVE  AssociationInv'
  BY <1>5 DEF Link, AfterLink
<1>6. ASSUME NEW w \in Workers, Recover(w)
      PROVE  AssociationInv'
  <2>1. pc[w] = "recover" /\ UNCHANGED evEpisode
    BY <1>6 DEF Recover
  <2>. QED  BY <1>6, <2>1, RecoverOutcome
<1>7. ASSUME NEW w \in Workers,
             AbandonRecovery(w) \/ LeaveArea(w) \/ RefuseAssociation(w)
      PROVE  AssociationInv'
  BY <1>7 DEF AbandonRecovery, LeaveArea, ReleaseAreas, RefuseAssociation, Abort, IdleJob, Job
<1>8. ASSUME NEW w \in Workers, JoinEpisode(w)
      PROVE  AssociationInv'
  <2>1. /\ pc[w] \in {"lifecycle", "first_event"}
        /\ pc'[w] \in {"activity", "leave", "attachment"}
        /\ \A x \in Workers \ {w} : pc'[x] = pc[x] /\ job'[x] = job[x]
    BY <1>8 DEF JoinEpisode, EnterLifecycle
  <2>2. \A x \in Workers \ {w} : pc[x] \in {"link", "lifecycle", "first_event"} =>
          job[x].event \in Events /\ job[x].event # job[w].event
    BY <2>1, OneTaskPerEvent
    DEF InArea, Correlating, Locked, OriginInv, TaskInv, AtRest, AreaInv, StartupHoldsArea
  <2>. QED  BY <1>8, <2>1, <2>2, AssociatesOwnEvent
<1>9. ASSUME NEW w \in Workers, OpenEpisode(w)
      PROVE  AssociationInv'
  <2>1. pc[w] = "lifecycle" /\ ~AlreadyRecovered(w) /\ UNCHANGED evEpisode
    BY <1>9 DEF OpenEpisode, EnterLifecycle
  <2>2. evEpisode[job[w].event] = NoEpisode
    BY <2>1 DEF AlreadyRecovered, OriginInv, ModeFitsStep
  <2>3. job'[w].event = job[w].event /\ \A x \in Workers \ {w} : job'[x] = job[x] /\ pc'[x] = pc[x]
    BY <1>9 DEF OpenEpisode, EnterLifecycle, Job
  <2>. QED  BY <2>1, <2>2, <2>3
<1>10. ASSUME NEW w \in Workers, LinkFirstEvent(w)
      PROVE  AssociationInv'
  <2>1. /\ pc[w] \in {"lifecycle", "first_event"}
        /\ pc'[w] \in {"activity", "leave", "attachment"}
        /\ \A x \in Workers \ {w} : pc'[x] = pc[x] /\ job'[x] = job[x]
    BY <1>10 DEF LinkFirstEvent
  <2>2. \A x \in Workers \ {w} : pc[x] \in {"link", "lifecycle", "first_event"} =>
          job[x].event \in Events /\ job[x].event # job[w].event
    BY <2>1, OneTaskPerEvent
    DEF InArea, Correlating, Locked, OriginInv, TaskInv, AtRest, AreaInv, StartupHoldsArea
  <2>. QED  BY <1>10, <2>1, <2>2, AssociatesOwnEvent
<1>11. ASSUME NEW w \in Workers,
              RecordActivity(w) \/ ExtendMinimumEnd(w) \/ Wake(w) \/ Announce(w)
      PROVE  AssociationInv'
  BY <1>11 DEF RecordActivity, ExtendMinimumEnd, Wake, Announce
<1>12. ASSUME NEW w \in Workers, AttachInactive(w) \/ AttachFiltered(w)
      PROVE  AssociationInv'
  <2>1. /\ pc[w] \in {"lifecycle", "first_event"}
        /\ pc'[w] \in {"activity", "leave", "attachment"}
        /\ \A x \in Workers \ {w} : pc'[x] = pc[x] /\ job'[x] = job[x]
    BY <1>12 DEF AttachInactive, AttachFiltered, EnterLifecycle
  <2>2. \A x \in Workers \ {w} : pc[x] \in {"link", "lifecycle", "first_event"} =>
          job[x].event \in Events /\ job[x].event # job[w].event
    BY <2>1, OneTaskPerEvent
    DEF InArea, Correlating, Locked, OriginInv, TaskInv, AtRest, AreaInv, StartupHoldsArea
  <2>. QED  BY <1>12, <2>1, <2>2, AssociatesOwnEvent
<1>13. ASSUME NEW w \in Workers,
              RecordAttachment(w) \/ RecordNoOpenEpisode(w)
      PROVE  AssociationInv'
  BY <1>13 DEF RecordAttachment, RecordNoOpenEpisode
<1>14. CASE \/ \E ep \in Episodes : BeginFinalization(ep) \/ CompleteFinalization(ep)
            \/ \E g \in Graces : SetGrace(g)
            \/ Tick \/ UNCHANGED vars
  BY <1>14 DEF BeginFinalization, CompleteFinalization, SetGrace, Tick, vars
<1>15. CASE PassStep
  BY <1>15 DEF PassStep, TimeoutPass, GracePass, StartupPass, CompleteStartup, Pass
<1>16. CASE Boot
  BY <1>16 DEF Boot
<1>17. CASE StartupBackfill
  BY <1>17 DEF StartupBackfill
<1>18. CASE StartupScan
  BY <1>18 DEF StartupScan, IdleJob
<1>19. CASE Crash
  BY <1>19 DEF Crash, IdleJob
<1>. QED  BY <1>1, <1>2, <1>3, <1>4, <1>5, <1>6, <1>7, <1>8, <1>9, <1>10, <1>11, <1>12, <1>13,
             <1>14, <1>15, <1>16, <1>17, <1>18, <1>19
  DEF Next, DeliveryStep, CorrelationStep, StartupStep, PassStep

\* Every step keeps the leases at the deadlines, but for the Episode that is written to.
LEMMA MemoryStep ==
  ASSUME IndInv, LeaseInv, AssociationInv, MemoryInv, [Next]_vars
  PROVE  MemoryInv'
<1>. USE DEF IndInv, TypeOK, TasksOK, Workers, Move, Writing, environment, settings, eventRows,
             receiptRows, episodeRows, tasks, history, MemoryInv
<1>1. ASSUME NEW d \in Deliveries, Receive(d)
      PROVE  MemoryInv'
  BY <1>1 DEF Receive, IsOpen
<1>2. ASSUME NEW d \in Deliveries,
             \/ RejectDraft(d) \/ EnterArea(d) \/ CanonicalizeDuplicate(d)
             \/ RejectConflict(d) \/ Publish(d) \/ Fail(d)
      PROVE  MemoryInv'
  BY <1>2
  DEF RejectDraft, EnterArea, CanonicalizeDuplicate, RejectConflict, ReleaseAreas, Publish, Fail,
      Abort, Conflicts, IsOpen, EnvironmentOK
<1>3. ASSUME NEW d \in Deliveries, CanonicalizeNew(d)
      PROVE  MemoryInv'
  BY <1>3 DEF CanonicalizeNew, IsOpen
<1>4. ASSUME NEW d \in Deliveries, Backfill(d)
      PROVE  MemoryInv'
  BY <1>4 DEF Backfill, IsOpen
<1>5. ASSUME NEW d \in Deliveries, Link(d)
      PROVE  MemoryInv'
  BY <1>5 DEF Link, AfterLink, IsOpen
<1>6. ASSUME NEW w \in Workers, Recover(w)
      PROVE  MemoryInv'
  <2>1. pc[w] = "recover" /\ UNCHANGED <<failures, phase, epState, minEnd, deadline>>
    BY <1>6 DEF Recover
  <2>. QED  BY <1>6, <2>1, RecoverOutcome DEF IsOpen
<1>7. ASSUME NEW w \in Workers,
             AbandonRecovery(w) \/ LeaveArea(w) \/ RefuseAssociation(w)
      PROVE  MemoryInv'
  <2>1. /\ UNCHANGED <<failures, phase, epState, minEnd, deadline>>
        /\ \A x \in Workers \ {w} : pc'[x] = pc[x] /\ job'[x] = job[x]
    BY <1>7 DEF AbandonRecovery, LeaveArea, RefuseAssociation, Abort
  <2>2. ~(pc[w] = "first_event" /\ Refused(w, job[w].episode))
    BY DEF AssociationInv, LockInv, Refused, MayAssociate
  <2>3. pc[w] \notin Writing
    BY <1>7, <2>2 DEF AbandonRecovery, LeaveArea, RefuseAssociation
  <2>. QED  BY <2>1, <2>3 DEF IsOpen
<1>8. ASSUME NEW w \in Workers, JoinEpisode(w)
      PROVE  MemoryInv'
  <2>1. UNCHANGED <<failures, phase, epState, minEnd, deadline>> /\ pc[w] = "lifecycle"
    BY <1>8 DEF JoinEpisode, EnterLifecycle
  <2>2. \A x \in Workers \ {w} : pc'[x] = pc[x] /\ job'[x] = job[x]
    BY <1>8 DEF JoinEpisode, EnterLifecycle
  <2>. QED  BY <2>1, <2>2 DEF IsOpen
<1>9. ASSUME NEW w \in Workers, OpenEpisode(w)
      PROVE  MemoryInv'
  <2>1. PICK ep \in Episodes :
          /\ epState' = [epState EXCEPT ![ep] = "active"]
          /\ minEnd' = [minEnd EXCEPT ![ep] = Contribution(w)]
          /\ job' = [job EXCEPT ![w].episode = ep, ![w].via = "opened"]
    BY <1>9 DEF OpenEpisode
  <2>2. job'[w].episode = ep /\ \A x \in Workers \ {w} : job'[x] = job[x]
    BY <2>1 DEF Job
  <2>3. /\ UNCHANGED <<failures, phase, deadline>> /\ pc[w] = "lifecycle"
        /\ pc' = [pc EXCEPT ![w] = "first_event"]
    BY <1>9 DEF OpenEpisode, EnterLifecycle
  <2>4. \A other \in Episodes \ {ep} : epState'[other] = epState[other] /\ minEnd'[other] = minEnd[other]
    BY <2>1 DEF EpisodeRowsOK
  <2>. QED  BY <2>1, <2>2, <2>3, <2>4 DEF IsOpen
<1>10. ASSUME NEW w \in Workers, LinkFirstEvent(w)
      PROVE  MemoryInv'
  BY <1>10 DEF LinkFirstEvent, IsOpen
<1>11. ASSUME NEW w \in Workers,
              RecordActivity(w) \/ ExtendMinimumEnd(w) \/ Wake(w) \/ Announce(w)
      PROVE  MemoryInv'
  <2>. DEFINE ep == job[w].episode
  <2>1. UNCHANGED <<failures, phase, job>> /\ \A x \in Workers \ {w} : pc'[x] = pc[x]
    BY <1>11 DEF RecordActivity, ExtendMinimumEnd, Wake, Announce
  <2>2. pc[w] \in Writing /\ ep \in Episodes /\ IsOpen(ep)
    BY <1>11 DEF RecordActivity, ExtendMinimumEnd, Wake, Announce, LockInv
  <2>3. \A other \in Episodes \ {ep} :
          epState'[other] = epState[other] /\ minEnd'[other] = minEnd[other] /\ deadline'[other] = deadline[other]
    BY <1>11 DEF RecordActivity, ExtendMinimumEnd, Wake, Announce, EpisodeRowsOK, MemoryOK
  <2>4. CASE RecordActivity(w) \/ ExtendMinimumEnd(w) \/ Wake(w)
    <3>1. pc'[w] \in Writing
      BY <2>4 DEF RecordActivity, ExtendMinimumEnd, Wake
    <3>. QED  BY <2>1, <2>3, <3>1 DEF IsOpen
  <2>5. CASE Announce(w)
    <3>1. deadline'[ep] = Remembered(ep, Contribution(w)) /\ UNCHANGED minEnd
      BY <2>2, <2>5 DEF Announce, MemoryOK
    <3>2. /\ deadline[ep] <= minEnd[ep] /\ Contribution(w) <= minEnd[ep]
          /\ deadline[ep] \in Int /\ minEnd[ep] \in Nat /\ Contribution(w) \in Nat
      <4>1. pc[w] = "announce"
        BY <2>5 DEF Announce
      <4>2. Contribution(w) \in Nat /\ Contribution(w) <= minEnd[ep]
        BY <4>1, CorrelatedEvent DEF LeaseInv, Correlating, Locked
      <4>. QED  BY <2>2, <4>2 DEF LeaseInv, MemoryOK, EpisodeRowsOK, NoTime
    <3>3. deadline'[ep] = minEnd'[ep]
      BY <3>1, <3>2 DEF Remembered, Larger
    <3>. QED  BY <2>1, <2>3, <3>3 DEF IsOpen
  <2>. QED  BY <1>11, <2>4, <2>5
<1>12. ASSUME NEW w \in Workers, AttachInactive(w) \/ AttachFiltered(w)
      PROVE  MemoryInv'
  BY <1>12 DEF AttachInactive, AttachFiltered, EnterLifecycle, IsOpen
<1>13. ASSUME NEW w \in Workers,
              RecordAttachment(w) \/ RecordNoOpenEpisode(w)
      PROVE  MemoryInv'
  BY <1>13 DEF RecordAttachment, RecordNoOpenEpisode, IsOpen
<1>14. CASE \/ \E ep \in Episodes : BeginFinalization(ep) \/ CompleteFinalization(ep)
            \/ \E g \in Graces : SetGrace(g)
            \/ Tick \/ UNCHANGED vars
  BY <1>14
  DEF BeginFinalization, CompleteFinalization, SetGrace, Tick, vars, IsOpen, OpenStates,
      EpisodeRowsOK, MemoryOK
<1>15. CASE PassStep
  <2>1. /\ UNCHANGED <<failures, minEnd, deadline, job>> /\ phase # "down"
        /\ \A w \in Workers : pc[w] \in Writing => pc'[w] = pc[w]
        /\ epState' = AfterPass
    BY <1>15 DEF PassStep, TimeoutPass, GracePass, StartupPass, CompleteStartup, Pass
  <2>. QED  BY <2>1 DEF IsOpen, OpenStates, AfterPass, Quiesces
<1>16. CASE Boot
  BY <1>16 DEF Boot, Restored, IsOpen, MemoryOK
<1>17. CASE StartupBackfill
  BY <1>17 DEF StartupBackfill, IsOpen
<1>18. CASE StartupScan
  BY <1>18 DEF StartupScan, IsOpen
<1>19. CASE Crash
  BY <1>19 DEF Crash, IsOpen
<1>. QED  BY <1>1, <1>2, <1>3, <1>4, <1>5, <1>6, <1>7, <1>8, <1>9, <1>10, <1>11, <1>12, <1>13,
             <1>14, <1>15, <1>16, <1>17, <1>18, <1>19
  DEF Next, DeliveryStep, CorrelationStep, StartupStep, PassStep

-----------------------------------------------------------------------------
(***************************************************************************)
(* Actions: of the tasks that have an Event, one starts its actions.       *)
(***************************************************************************)

\* A step that starts no actions and makes no task a dispatcher, unless the
\* Event of that task is associated, keeps actions from being started twice.
LEMMA DispatchStays ==
  ASSUME IndInv, DispatchInv, UNCHANGED <<dispatched, evKind>>,
         \A e \in Events : evEpisode[e] # NoEpisode => evEpisode'[e] # NoEpisode,
         \A d \in Deliveries, e \in Events : Dispatcher(d, e)' =>
           /\ Dispatcher(d, e)
           /\ \/ pc'[d] \in {"link", "lifecycle", "first_event"}
              \/ pc[d] \notin {"link", "lifecycle", "first_event"}
              \/ evKind[e] # "allowed" \/ evEpisode'[e] # NoEpisode
  PROVE  DispatchInv'
<1>1. DispatchedOnce'
  BY DEF DispatchInv, DispatchedOnce
<1>2. OneDispatcher'
  BY DEF DispatchInv, OneDispatcher
<1>3. DispatchesAssociated'
  BY DEF DispatchInv, DispatchesAssociated
<1>. QED  BY <1>1, <1>2, <1>3 DEF DispatchInv

\* A step of a task that is no dispatcher afterwards makes none of the others.
LEMMA OthersDispatch ==
  ASSUME IndInv, DispatchInv, NEW w \in Workers, UNCHANGED <<dispatched, evKind>>,
         \A e \in Events : evEpisode[e] # NoEpisode => evEpisode'[e] # NoEpisode,
         \A x \in Workers \ {w} : pc'[x] = pc[x] /\ job'[x] = job[x],
         w \in Deliveries => \A e \in Events : Dispatcher(w, e)' =>
           /\ Dispatcher(w, e)
           /\ \/ pc'[w] \in {"link", "lifecycle", "first_event"}
              \/ pc[w] \notin {"link", "lifecycle", "first_event"}
              \/ evKind[e] # "allowed" \/ evEpisode'[e] # NoEpisode
  PROVE  DispatchInv'
<1>1. \A d \in Deliveries \ {w}, e \in Events : Dispatcher(d, e)' => Dispatcher(d, e) /\ pc'[d] = pc[d]
  BY DEF Dispatcher, Workers
<1>. QED  BY <1>1, DispatchStays

\* A new row has no actions started, and its delivery alone will start them.
LEMMA NewDispatcher ==
  ASSUME IndInv, OriginInv, DispatchInv, NEW d \in Deliveries, CanonicalizeNew(d)
  PROVE  DispatchInv'
<1>. DEFINE e == EventOf[d]
<1>1. e \in Events /\ job[d].event = e /\ job'[d].event = e /\ pc'[d] = "link"
  BY NewRow DEF IndInv, TaskInv, TypeOK, TasksOK, AtRest, Workers
<1>2. dispatched[e] = 0 /\ dispatched' = dispatched
  <2>1. dispatched' = dispatched
    BY DEF CanonicalizeNew, history
  <2>2. dispatched[e] \in Nat /\ dispatched[e] <= 1 /\ dispatched[e] # 1
    BY <1>1, NewRow DEF DispatchInv, DispatchedOnce, IndInv, TypeOK, MemoryOK
  <2>. QED  BY <2>1, <2>2
<1>3. \A x \in Deliveries \ {d} : pc'[x] = pc[x] /\ job'[x] = job[x]
  BY NewRow DEF IndInv, TypeOK, TasksOK, Workers
<1>4. \A x \in Deliveries : ~Dispatcher(x, e)
  BY NewRow, <1>1 DEF Dispatcher, OriginInv, NewOwnsRow, IndInv, TaskInv
<1>5. \A f \in Events \ {e} : evKind'[f] = evKind[f] /\ evEpisode'[f] = evEpisode[f]
  BY NewRow DEF CanonicalizeNew, IndInv, TypeOK, EventRowsOK
<1>6. \A x \in Deliveries \ {d} : ~Dispatcher(x, e)'
  <2>. SUFFICES ASSUME NEW x \in Deliveries \ {d}, Dispatcher(x, e)'
                PROVE  FALSE
    OBVIOUS
  <2>1. pc[x] \notin AtRest /\ job[x].event = e /\ job[x].mode \in {"new", "recovered"}
    BY <1>3 DEF Dispatcher
  <2>2. job[x].mode = "new"
    BY <1>3, <2>1, NewRow
    DEF Dispatcher, IndInv, TaskInv, Correlating, AtRest, OriginInv, LinkedHasRow, Workers
  <2>. QED  BY <1>4, <2>1, <2>2 DEF Dispatcher
<1>7. \A x \in Deliveries, f \in Events \ {e} : Dispatcher(x, f)' => Dispatcher(x, f) /\ pc'[x] = pc[x]
  BY <1>1, <1>3, <1>5 DEF Dispatcher
<1>8. DispatchedOnce'
  BY <1>2, <1>5, <1>7 DEF DispatchInv, DispatchedOnce
<1>9. OneDispatcher'
  BY <1>6, <1>7 DEF DispatchInv, OneDispatcher
<1>10. DispatchesAssociated'
  BY <1>1, <1>5, <1>6, <1>7 DEF DispatchInv, DispatchesAssociated
<1>. QED  BY <1>8, <1>9, <1>10 DEF DispatchInv

\* Recovery makes a task the dispatcher of an Event that had none.
LEMMA RecoveredDispatcher ==
  ASSUME Stationary, IndInv, OriginInv, AreaInv, DispatchInv, NEW w \in Workers, Recover(w)
  PROVE  DispatchInv'
<1>. DEFINE e == job[w].event
<1>1. pc[w] = "recover" /\ UNCHANGED <<dispatched, evKind, evEpisode>>
  BY DEF Recover, eventRows, history
<1>2. CASE w = Startup \/ ~Pending(e) \/ evKind[e] # "allowed"
  <2>1. w \in Deliveries => \A f \in Events : ~Dispatcher(w, f)'
    BY <1>1, <1>2, RecoverOutcome DEF Dispatcher, OriginInv, ModeFitsStep
  <2>. QED  BY <1>1, <2>1, RecoverOutcome, OthersDispatch
<1>3. CASE w \in Deliveries /\ Pending(e) /\ evKind[e] = "allowed"
  <2>1. e \in Events /\ evEpisode[e] = NoEpisode /\ job'[w].event = e /\ pc'[w] = "lifecycle"
    BY <1>1, <1>3, RecoverOutcome DEF Pending, IndInv, TaskInv, Correlating
  <2>2. \A x \in Deliveries \ {w} : pc'[x] = pc[x] /\ job'[x] = job[x]
    BY RecoverOutcome DEF Workers
  <2>3. \A x \in Deliveries \ {w} : ~Dispatcher(x, e)
    <3>. SUFFICES ASSUME NEW x \in Deliveries \ {w}, Dispatcher(x, e)
                  PROVE  FALSE
      OBVIOUS
    <3>1. pc[x] \in {"link", "lifecycle", "first_event"} /\ job[x].event = e
      BY <1>3, <2>1 DEF Dispatcher, DispatchInv, DispatchesAssociated
    <3>. QED  BY <1>1, <3>1, OneTaskPerEvent DEF InArea, Correlating, Locked, Workers, OriginInv
  <2>4. dispatched[e] # 1
    BY <1>3, <2>1 DEF DispatchInv, DispatchedOnce
  <2>5. \A x \in Deliveries, f \in Events : Dispatcher(x, f)' =>
          (x = w /\ f = e) \/ (Dispatcher(x, f) /\ x # w /\ pc'[x] = pc[x])
    BY <1>1, <2>1, <2>2 DEF Dispatcher
  <2>6. DispatchedOnce'
    BY <1>1, <2>4, <2>5 DEF DispatchInv, DispatchedOnce
  <2>7. OneDispatcher'
    BY <2>3, <2>5 DEF DispatchInv, OneDispatcher
  <2>8. DispatchesAssociated'
    BY <1>1, <2>1, <2>5 DEF DispatchInv, DispatchesAssociated
  <2>. QED  BY <2>6, <2>7, <2>8 DEF DispatchInv
<1>. QED  BY <1>2, <1>3 DEF Workers

\* A task starts the actions of its Event once, and was the last to do so.
LEMMA PublishDispatches ==
  ASSUME IndInv, OriginInv, DispatchInv, NEW d \in Deliveries, Publish(d)
  PROVE  DispatchInv'
<1>. DEFINE e == job[d].event
<1>1. /\ pc[d] = "publish" /\ e \in Events /\ UNCHANGED <<evKind, evEpisode>>
      /\ pc' = [pc EXCEPT ![d] = "done"] /\ job' = [job EXCEPT ![d] = IdleJob]
  BY DEF Publish, Move, eventRows, IndInv, TaskInv, AtRest
<1>2. \A x \in Workers \ {d} : pc'[x] = pc[x] /\ job'[x] = job[x]
  BY <1>1 DEF IndInv, TypeOK, TasksOK
<1>3. \A f \in Events : ~Dispatcher(d, f)'
  BY <1>1 DEF Dispatcher, AtRest, IndInv, TypeOK, TasksOK, Workers
<1>4. CASE job[d].mode = "new" \/ ShouldDispatch(d)
  <2>1. dispatched' = [dispatched EXCEPT ![e] = @ + 1]
    BY <1>4 DEF Publish
  <2>2. Dispatcher(d, e)
    BY <1>1, <1>4 DEF Dispatcher, ShouldDispatch, AtRest
  <2>3. dispatched[e] = 0
    BY <1>1, <2>2 DEF DispatchInv, DispatchedOnce, IndInv, TypeOK, MemoryOK
  <2>4. evKind[e] # "absent" /\ (evKind[e] = "allowed" => evEpisode[e] # NoEpisode)
    BY <1>1, <2>2 DEF Dispatcher, DispatchInv, DispatchesAssociated, OriginInv, NewOwnsRow, AtRest,
                      IndInv, TaskInv
  <2>5. dispatched'[e] = 1 /\ \A f \in Events \ {e} : dispatched'[f] = dispatched[f]
    BY <1>1, <2>1, <2>3 DEF IndInv, TypeOK, MemoryOK
  <2>6. \A x \in Deliveries, f \in Events : Dispatcher(x, f)' => Dispatcher(x, f) /\ x # d /\ pc'[x] = pc[x]
    BY <1>1, <1>2, <1>3 DEF Dispatcher, Workers
  <2>7. DispatchedOnce'
    BY <1>1, <2>2, <2>4, <2>5, <2>6 DEF DispatchInv, DispatchedOnce, OneDispatcher
  <2>8. OneDispatcher'
    BY <2>6 DEF DispatchInv, OneDispatcher
  <2>9. DispatchesAssociated'
    BY <1>1, <2>6 DEF DispatchInv, DispatchesAssociated
  <2>. QED  BY <2>7, <2>8, <2>9 DEF DispatchInv
<1>5. CASE ~(job[d].mode = "new" \/ ShouldDispatch(d))
  <2>1. dispatched' = dispatched
    BY <1>5 DEF Publish
  <2>. QED  BY <1>1, <1>2, <1>3, <2>1, OthersDispatch DEF Workers
<1>. QED  BY <1>4, <1>5

\* Actions are started by one task at most, if Devices do not move.
LEMMA DispatchStep ==
  ASSUME Stationary, IndInv, OriginInv, AreaInv, DispatchInv, [Next]_vars
  PROVE  DispatchInv'
<1>. USE DEF IndInv, TypeOK, TasksOK, Workers, Move, environment, settings, eventRows,
             receiptRows, episodeRows, tasks, history
<1>1. ASSUME NEW d \in Deliveries, Receive(d)
      PROVE  DispatchInv'
  BY <1>1, OthersDispatch DEF Receive, Dispatcher, Locked, AtRest, IdleJob
<1>2. ASSUME NEW d \in Deliveries,
             \/ RejectDraft(d) \/ EnterArea(d) \/ CanonicalizeDuplicate(d)
             \/ RejectConflict(d) \/ Publish(d) \/ Fail(d)
      PROVE  DispatchInv'
  <2>1. CASE Publish(d)
    BY <2>1, PublishDispatches
  <2>2. CASE ~Publish(d)
    <3>1. /\ UNCHANGED <<dispatched, evKind, evEpisode>>
          /\ \A x \in Workers \ {d} : pc'[x] = pc[x] /\ job'[x] = job[x]
      BY <1>2, <2>2 DEF RejectDraft, EnterArea, CanonicalizeDuplicate, RejectConflict, Fail, Abort
    <3>2. pc'[d] \in AtRest \/ (pc[d] \in {"accepted", "canonicalize"} /\ job' = job)
      BY <1>2, <2>2 DEF RejectDraft, EnterArea, CanonicalizeDuplicate, RejectConflict, Fail, Abort, AtRest
    <3>3. \A e \in Events : ~Dispatcher(d, e)'
      BY <3>2 DEF Dispatcher, OriginInv, ModeFitsStep
    <3>. QED  BY <3>1, <3>3, OthersDispatch
  <2>. QED  BY <2>1, <2>2
<1>3. ASSUME NEW d \in Deliveries, CanonicalizeNew(d)
      PROVE  DispatchInv'
  BY <1>3, NewDispatcher
<1>4. ASSUME NEW d \in Deliveries, Backfill(d)
      PROVE  DispatchInv'
  <2>1. /\ UNCHANGED <<dispatched, evKind, evEpisode, job>> /\ pc[d] = "backfill"
        /\ \A x \in Workers \ {d} : pc'[x] = pc[x]
    BY <1>4 DEF Backfill
  <2>2. \A e \in Events : ~Dispatcher(d, e)'
    BY <2>1 DEF Dispatcher, OriginInv, ModeFitsStep
  <2>. QED  BY <2>1, <2>2, OthersDispatch
<1>5. ASSUME NEW d \in Deliveries, Link(d)
      PROVE  DispatchInv'
  <2>1. /\ UNCHANGED <<dispatched, evKind, evEpisode, job>> /\ pc[d] = "link"
        /\ \A x \in Workers \ {d} : pc'[x] = pc[x]
    BY <1>5 DEF Link
  <2>2. job[d].mode # "recovered" /\ job[d].event = EventOf[d]
    BY <2>1 DEF OriginInv, ModeFitsStep, TaskInv, AtRest
  <2>3. job[d].mode = "new" => pc'[d] = "lifecycle" \/ evKind[EventOf[d]] = "excluded"
    BY <1>5 DEF Link, AfterLink
  <2>4. \A e \in Events : Dispatcher(d, e)' =>
          Dispatcher(d, e) /\ (pc'[d] = "lifecycle" \/ evKind[e] # "allowed")
    BY <2>1, <2>2, <2>3 DEF Dispatcher, AtRest
  <2>. QED  BY <2>1, <2>4, OthersDispatch
<1>6. ASSUME NEW w \in Workers, Recover(w)
      PROVE  DispatchInv'
  BY <1>6, RecoveredDispatcher
<1>7. ASSUME NEW w \in Workers,
             AbandonRecovery(w) \/ LeaveArea(w) \/ RefuseAssociation(w)
      PROVE  DispatchInv'
  <2>1. /\ UNCHANGED <<dispatched, evKind, evEpisode>>
        /\ \A x \in Workers \ {w} : pc'[x] = pc[x] /\ job'[x] = job[x]
    BY <1>7 DEF AbandonRecovery, LeaveArea, RefuseAssociation, Abort
  <2>2. w \in Deliveries =>
          \/ pc'[w] \in AtRest \/ job'[w].mode = "duplicate"
          \/ pc[w] = "leave" /\ pc'[w] = "publish" /\ job' = job
    BY <1>7 DEF AbandonRecovery, LeaveArea, RefuseAssociation, Abort, AtRest, Job
  <2>3. w \in Deliveries => \A e \in Events : Dispatcher(w, e)' => Dispatcher(w, e) /\ pc[w] = "leave"
    BY <2>1, <2>2 DEF Dispatcher, AtRest
  <2>. QED  BY <2>1, <2>3, OthersDispatch
<1>8. ASSUME NEW w \in Workers, JoinEpisode(w)
      PROVE  DispatchInv'
  <2>1. /\ UNCHANGED <<dispatched, evKind>> /\ pc[w] \in {"lifecycle"} /\ pc'[w] \in {"activity"}
        /\ \A x \in Workers \ {w} : pc'[x] = pc[x] /\ job'[x] = job[x]
    BY <1>8 DEF JoinEpisode, EnterLifecycle
  <2>2. /\ job'[w].event = job[w].event /\ job'[w].mode = job[w].mode
        /\ job'[w].expired = job[w].expired
    BY <1>8 DEF JoinEpisode, EnterLifecycle, Job
  <2>3. \A e \in Events : evEpisode[e] # NoEpisode => evEpisode'[e] # NoEpisode
    BY AssociationStep DEF EventRowsOK
  <2>4. evKind[job[w].event] # "allowed" \/ evEpisode'[job[w].event] # NoEpisode
    <3>1. PICK ep \in Targets(w) : evEpisode' = [evEpisode EXCEPT ![job[w].event] = ep]
      BY <1>8 DEF JoinEpisode
    <3>. QED  BY <2>1, <3>1, TargetsAreOpen, CorrelatedEvent DEF Correlating, EventRowsOK
  <2>5. \A e \in Events : w \in Deliveries /\ Dispatcher(w, e)' => Dispatcher(w, e) /\ e = job[w].event
    BY <2>1, <2>2 DEF Dispatcher, AtRest, Locked
  <2>. QED  BY <2>1, <2>3, <2>4, <2>5, OthersDispatch
<1>9. ASSUME NEW w \in Workers, OpenEpisode(w)
      PROVE  DispatchInv'
  <2>1. /\ UNCHANGED <<dispatched, evKind, evEpisode>> /\ pc[w] = "lifecycle" /\ pc'[w] = "first_event"
        /\ \A x \in Workers \ {w} : pc'[x] = pc[x] /\ job'[x] = job[x]
    BY <1>9 DEF OpenEpisode, EnterLifecycle
  <2>2. /\ job'[w].event = job[w].event /\ job'[w].mode = job[w].mode
        /\ job'[w].expired = job[w].expired
    BY <1>9 DEF OpenEpisode, EnterLifecycle, Job
  <2>3. \A e \in Events : w \in Deliveries /\ Dispatcher(w, e)' => Dispatcher(w, e)
    BY <2>1, <2>2 DEF Dispatcher, AtRest, Locked
  <2>. QED  BY <2>1, <2>3, OthersDispatch
<1>10. ASSUME NEW w \in Workers, LinkFirstEvent(w)
      PROVE  DispatchInv'
  <2>1. /\ UNCHANGED <<dispatched, evKind>> /\ pc[w] \in {"first_event"} /\ pc'[w] \in {"activity"}
        /\ \A x \in Workers \ {w} : pc'[x] = pc[x] /\ job'[x] = job[x]
    BY <1>10 DEF LinkFirstEvent
  <2>2. /\ job'[w].event = job[w].event /\ job'[w].mode = job[w].mode
        /\ job'[w].expired = job[w].expired
    BY <1>10 DEF LinkFirstEvent, Job
  <2>3. \A e \in Events : evEpisode[e] # NoEpisode => evEpisode'[e] # NoEpisode
    BY AssociationStep DEF EventRowsOK
  <2>4. evKind[job[w].event] # "allowed" \/ evEpisode'[job[w].event] # NoEpisode
    <3>1. /\ job[w].episode \in Episodes
          /\ evEpisode' = [evEpisode EXCEPT ![job[w].event] = job[w].episode]
      BY <1>10 DEF LinkFirstEvent, LockInv, Writing
    <3>. QED  BY <2>1, <3>1, CorrelatedEvent DEF Correlating, Locked, EventRowsOK
  <2>5. \A e \in Events : w \in Deliveries /\ Dispatcher(w, e)' => Dispatcher(w, e) /\ e = job[w].event
    BY <2>1, <2>2 DEF Dispatcher, AtRest, Locked
  <2>. QED  BY <2>1, <2>3, <2>4, <2>5, OthersDispatch
<1>11. ASSUME NEW w \in Workers,
              RecordActivity(w) \/ ExtendMinimumEnd(w) \/ Wake(w) \/ Announce(w)
      PROVE  DispatchInv'
  <2>1. /\ UNCHANGED <<dispatched, evKind, evEpisode, job>> /\ pc[w] \in Locked \ {"first_event"}
        /\ pc'[w] \in Locked \union {"leave"} /\ \A x \in Workers \ {w} : pc'[x] = pc[x]
    BY <1>11 DEF RecordActivity, ExtendMinimumEnd, Wake, Announce, Locked
  <2>2. \A e \in Events : w \in Deliveries /\ Dispatcher(w, e)' => Dispatcher(w, e)
    BY <2>1 DEF Dispatcher, AtRest, Locked
  <2>. QED  BY <2>1, <2>2, OthersDispatch DEF Locked
<1>12. ASSUME NEW w \in Workers, AttachInactive(w) \/ AttachFiltered(w)
      PROVE  DispatchInv'
  <2>1. /\ UNCHANGED <<dispatched, evKind>> /\ pc[w] \in {"lifecycle"} /\ pc'[w] \in {"leave", "attachment"}
        /\ \A x \in Workers \ {w} : pc'[x] = pc[x] /\ job'[x] = job[x]
    BY <1>12 DEF AttachInactive, AttachFiltered, EnterLifecycle
  <2>2. /\ job'[w].event = job[w].event /\ job'[w].mode = job[w].mode
        /\ job'[w].expired = job[w].expired
    BY <1>12 DEF AttachInactive, AttachFiltered, EnterLifecycle, Job
  <2>3. \A e \in Events : evEpisode[e] # NoEpisode => evEpisode'[e] # NoEpisode
    BY AssociationStep DEF EventRowsOK
  <2>4. evKind[job[w].event] # "allowed" \/ evEpisode'[job[w].event] # NoEpisode
    BY <1>12 DEF AttachInactive, AttachFiltered
  <2>5. \A e \in Events : w \in Deliveries /\ Dispatcher(w, e)' => Dispatcher(w, e) /\ e = job[w].event
    BY <2>1, <2>2 DEF Dispatcher, AtRest, Locked
  <2>. QED  BY <2>1, <2>3, <2>4, <2>5, OthersDispatch
<1>13. ASSUME NEW w \in Workers,
              RecordAttachment(w) \/ RecordNoOpenEpisode(w)
      PROVE  DispatchInv'
  <2>1. /\ UNCHANGED <<dispatched, evKind, evEpisode, job>>
        /\ pc[w] = "attachment" \/ (pc[w] = "lifecycle" /\ evKind[job[w].event] = "filtered")
        /\ pc'[w] = "leave" /\ \A x \in Workers \ {w} : pc'[x] = pc[x]
    BY <1>13 DEF RecordAttachment, RecordNoOpenEpisode
  <2>2. \A e \in Events : w \in Deliveries /\ Dispatcher(w, e)' => Dispatcher(w, e) /\ e = job[w].event
    BY <2>1 DEF Dispatcher, AtRest, Locked
  <2>. QED  BY <2>1, <2>2, OthersDispatch
<1>14. CASE \/ \E ep \in Episodes : BeginFinalization(ep) \/ CompleteFinalization(ep)
            \/ \E g \in Graces : SetGrace(g)
            \/ Tick \/ UNCHANGED vars
  <2>1. /\ UNCHANGED <<dispatched, evKind, evEpisode>>
        /\ \A d \in Deliveries : pc'[d] = pc[d] /\ job'[d] = job[d]
    BY <1>14 DEF BeginFinalization, CompleteFinalization, SetGrace, Tick, vars
  <2>2. \A d \in Deliveries, e \in Events : Dispatcher(d, e)' => Dispatcher(d, e)
    BY <2>1 DEF Dispatcher
  <2>. QED  BY <2>1, <2>2, DispatchStays
<1>15. CASE PassStep
  <2>1. /\ UNCHANGED <<dispatched, evKind, evEpisode>>
        /\ \A d \in Deliveries : pc'[d] = pc[d] /\ job'[d] = job[d]
    BY <1>15 DEF PassStep, TimeoutPass, GracePass, StartupPass, CompleteStartup, Pass
  <2>2. \A d \in Deliveries, e \in Events : Dispatcher(d, e)' => Dispatcher(d, e)
    BY <2>1 DEF Dispatcher
  <2>. QED  BY <2>1, <2>2, DispatchStays
<1>16. CASE Boot
  <2>1. /\ UNCHANGED <<dispatched, evKind, evEpisode>>
        /\ \A d \in Deliveries : pc'[d] = pc[d] /\ job'[d] = job[d]
    BY <1>16 DEF Boot
  <2>2. \A d \in Deliveries, e \in Events : Dispatcher(d, e)' => Dispatcher(d, e)
    BY <2>1 DEF Dispatcher
  <2>. QED  BY <2>1, <2>2, DispatchStays
<1>17. CASE StartupBackfill
  <2>1. /\ UNCHANGED <<dispatched, evKind, evEpisode>>
        /\ \A d \in Deliveries : pc'[d] = pc[d] /\ job'[d] = job[d]
    BY <1>17 DEF StartupBackfill
  <2>2. \A d \in Deliveries, e \in Events : Dispatcher(d, e)' => Dispatcher(d, e)
    BY <2>1 DEF Dispatcher
  <2>. QED  BY <2>1, <2>2, DispatchStays
<1>18. CASE StartupScan
  <2>1. /\ UNCHANGED <<dispatched, evKind, evEpisode>>
        /\ \A d \in Deliveries : pc'[d] = pc[d] /\ job'[d] = job[d]
    BY <1>18 DEF StartupScan
  <2>2. \A d \in Deliveries, e \in Events : Dispatcher(d, e)' => Dispatcher(d, e)
    BY <2>1 DEF Dispatcher
  <2>. QED  BY <2>1, <2>2, DispatchStays
<1>19. CASE Crash
  <2>1. /\ UNCHANGED <<dispatched, evKind, evEpisode>>
        /\ \A d \in Deliveries : pc'[d] \in AtRest
    BY <1>19 DEF Crash, AtRest
  <2>. QED  BY <2>1, DispatchStays DEF Dispatcher
<1>. QED  BY <1>1, <1>2, <1>3, <1>4, <1>5, <1>6, <1>7, <1>8, <1>9, <1>10, <1>11, <1>12, <1>13,
             <1>14, <1>15, <1>16, <1>17, <1>18, <1>19
  DEF Next, DeliveryStep, CorrelationStep, StartupStep, PassStep

-----------------------------------------------------------------------------
(***************************************************************************)
(* Shells: an Episode without an allowed Event is found by recovery.       *)
(***************************************************************************)

\* A task between the creation of an Episode and its first Event moves by its
\* own steps, a failure or a crash only, and comes there by the creation only.
LEMMA CreatorMoves ==
  ASSUME IndInv, [Next]_vars, NEW w \in Workers
  PROVE  /\ pc[w] = "first_event" =>
              \/ pc'[w] = "first_event" /\ job'[w] = job[w]
              \/ LinkFirstEvent(w) \/ RefuseAssociation(w) \/ failures' # 0 \/ Crash
         /\ pc'[w] = "first_event" => (pc[w] = "first_event" /\ job'[w] = job[w]) \/ OpenEpisode(w)
<1>. DEFINE Still == pc'[w] = "first_event" <=> pc[w] = "first_event"
            Kept == pc[w] = "first_event" => job'[w] = job[w]
<1>. USE DEF IndInv, TypeOK, TasksOK, Workers, Move, environment, tasks
<1>1. ASSUME NEW d \in Deliveries, Receive(d) \/ DeliveryStep(d)
      PROVE  Still /\ Kept
  BY <1>1 DEF DeliveryStep, Receive, RejectDraft, EnterArea, CanonicalizeNew, CanonicalizeDuplicate,
              RejectConflict, Backfill, Link, AfterLink, Publish
<1>2. ASSUME NEW d \in Deliveries, Fail(d)
      PROVE  failures' # 0 /\ pc'[d] = "failed" /\ (d # w => pc'[w] = pc[w] /\ job'[w] = job[w])
  BY <1>2 DEF Fail, Abort, EnvironmentOK
<1>3. ASSUME NEW x \in Workers, CorrelationStep(x)
      PROVE  (Still /\ Kept) \/ (x = w /\ (OpenEpisode(x) \/ LinkFirstEvent(x) \/ RefuseAssociation(x)))
  <2>1. CASE Recover(x)
    <3>1. pc[x] = "recover"
      BY <2>1 DEF Recover
    <3>. QED  BY <2>1, <3>1, RecoverOutcome
  <2>2. CASE AbandonRecovery(x) \/ LeaveArea(x)
    BY <2>2 DEF AbandonRecovery, LeaveArea
  <2>3. CASE RefuseAssociation(x) /\ x # w
    BY <2>3 DEF RefuseAssociation, Abort
  <2>4. CASE JoinEpisode(x)
    BY <2>4 DEF JoinEpisode, EnterLifecycle
  <2>5. CASE (OpenEpisode(x) \/ LinkFirstEvent(x)) /\ x # w
    BY <2>5 DEF OpenEpisode, EnterLifecycle, LinkFirstEvent
  <2>6. CASE \/ RecordActivity(x) \/ ExtendMinimumEnd(x) \/ Wake(x) \/ Announce(x)
             \/ AttachInactive(x) \/ AttachFiltered(x) \/ RecordAttachment(x) \/ RecordNoOpenEpisode(x)
    BY <2>6 DEF RecordActivity, ExtendMinimumEnd, Wake, Announce, AttachInactive, AttachFiltered,
                EnterLifecycle, RecordAttachment, RecordNoOpenEpisode
  <2>. QED  BY <1>3, <2>1, <2>2, <2>3, <2>4, <2>5, <2>6 DEF CorrelationStep
<1>4. ASSUME NEW x \in Workers, OpenEpisode(x) \/ LinkFirstEvent(x) \/ RefuseAssociation(x), x = w
      PROVE  /\ OpenEpisode(w) => pc[w] # "first_event"
             /\ LinkFirstEvent(w) \/ RefuseAssociation(w) => pc'[w] # "first_event"
  BY <1>4 DEF OpenEpisode, EnterLifecycle, LinkFirstEvent, RefuseAssociation, Abort
<1>5. CASE \/ \E ep \in Episodes : BeginFinalization(ep) \/ CompleteFinalization(ep)
           \/ \E g \in Graces : SetGrace(g)
           \/ TimeoutPass \/ GracePass \/ StartupStep \/ Tick \/ UNCHANGED vars
  <2>1. Still /\ Kept
    BY <1>5 DEF BeginFinalization, CompleteFinalization, SetGrace, TimeoutPass, GracePass, StartupStep,
                Boot, StartupBackfill, StartupScan, StartupPass, CompleteStartup, Tick, vars
  <2>. QED  BY <2>1
<1>6. CASE Crash
  BY <1>6 DEF Crash
<1>7. CASE \E x \in Workers : CorrelationStep(x)
  BY <1>3, <1>4, <1>7
<1>. QED  BY <1>1, <1>2, <1>5, <1>6, <1>7 DEF Next

\* The Area and the start of an Episode are those it was created with.
LEMMA CreationStays ==
  ASSUME IndInv, [Next]_vars, NEW ep \in Episodes, epState[ep] # "none"
  PROVE  epArea'[ep] = epArea[ep] /\ epStart'[ep] = epStart[ep]
<1>. USE DEF IndInv, TypeOK, EpisodeRowsOK, episodeRows
<1>1. ASSUME NEW d \in Deliveries, Receive(d) \/ DeliveryStep(d) \/ Fail(d)
      PROVE  UNCHANGED <<epArea, epStart>>
  BY <1>1 DEF DeliveryStep, Receive, RejectDraft, EnterArea, CanonicalizeNew, CanonicalizeDuplicate,
              RejectConflict, Backfill, Link, Publish, Fail
<1>2. ASSUME NEW w \in Workers, CorrelationStep(w)
      PROVE  epArea'[ep] = epArea[ep] /\ epStart'[ep] = epStart[ep]
  BY <1>2 DEF CorrelationStep, Recover, AbandonRecovery, JoinEpisode, OpenEpisode, LinkFirstEvent,
              RefuseAssociation, RecordActivity, ExtendMinimumEnd, Wake, Announce, AttachInactive,
              AttachFiltered, RecordAttachment, RecordNoOpenEpisode, LeaveArea
<1>3. CASE \/ \E other \in Episodes : BeginFinalization(other) \/ CompleteFinalization(other)
           \/ \E g \in Graces : SetGrace(g)
           \/ TimeoutPass \/ GracePass \/ StartupStep \/ Crash \/ Tick \/ UNCHANGED vars
  BY <1>3 DEF BeginFinalization, CompleteFinalization, SetGrace, TimeoutPass, GracePass, StartupStep,
              Boot, StartupBackfill, StartupScan, StartupPass, CompleteStartup, Pass, Crash, Tick, vars
<1>. QED  BY <1>1, <1>2, <1>3 DEF Next

\* Only a task that creates an Episode makes it exist.
LEMMA OnlyCreated ==
  ASSUME IndInv, [Next]_vars, NEW ep \in Episodes, epState[ep] = "none", epState'[ep] # "none"
  PROVE  \E w \in Workers : OpenEpisode(w) /\ job'[w].episode = ep
<1>. USE DEF IndInv, TypeOK, EpisodeRowsOK
<1>1. ASSUME NEW w \in Workers, EpisodeStep(w)
      PROVE  OpenEpisode(w) /\ job'[w].episode = ep
  <2>1. CASE OpenEpisode(w)
    <3>1. PICK x \in Episodes : /\ epState' = [epState EXCEPT ![x] = "active"]
                                /\ job' = [job EXCEPT ![w].episode = x, ![w].via = "opened"]
      BY <2>1 DEF OpenEpisode
    <3>2. x = ep
      BY <3>1
    <3>. QED  BY <2>1, <3>1, <3>2 DEF TasksOK, Job
  <2>2. CASE Wake(w)
    BY <2>2 DEF Wake, Move, LockInv, Writing, IsOpen, OpenStates
  <2>3. CASE JoinEpisode(w) \/ LinkFirstEvent(w) \/ RecordActivity(w) \/ ExtendMinimumEnd(w)
             \/ AttachInactive(w) \/ AttachFiltered(w)
    BY <2>3 DEF JoinEpisode, LinkFirstEvent, RecordActivity, ExtendMinimumEnd, AttachInactive,
                AttachFiltered, episodeRows
  <2>. QED  BY <1>1, <2>1, <2>2, <2>3 DEF EpisodeStep
<1>2. ASSUME PassStep \/ (\E other \in Episodes : CompleteFinalization(other)) \/ Tick
             \/ (\E g \in Graces : SetGrace(g)) \/ Untouched
      PROVE  FALSE
  BY <1>2 DEF PassStep, TimeoutPass, GracePass, StartupPass, CompleteStartup, Pass, AfterPass,
              Quiesces, IsOpen, OpenStates, CompleteFinalization, Tick, SetGrace, Untouched, episodeRows
<1>. QED  BY EpisodeWriters, <1>1, <1>2

\* The pending Event of a shell stays its Event until it is associated.
LEMMA CreatedForStays ==
  ASSUME IndInv, IndInv', LinkedHasRow, [Next]_vars, NEW ep \in Episodes, NEW e \in Events,
         CreatedFor(ep, e), epState[ep] # "none", evEpisode'[e] = NoEpisode
  PROVE  CreatedFor(ep, e)'
<1>1. evKind'[e] = "allowed" /\ evOrigin'[e] = evOrigin[e]
  BY RowsStay DEF CreatedFor
<1>2. epArea'[ep] = epArea[ep] /\ epStart'[ep] = epStart[ep]
  BY CreationStays
<1>3. PICK t \in Ingress(e) : t <= minEnd[ep]
  BY DEF CreatedFor
<1>4. t \in Nat /\ t \in Ingress(e)'
  BY IngressIsTime, IngressGrows
<1>5. minEnd[ep] \in Nat /\ minEnd'[ep] \in Nat /\ minEnd'[ep] >= minEnd[ep]
  BY DeadlineStep DEF IndInv, TypeOK, EpisodeRowsOK
<1>. QED  BY <1>1, <1>2, <1>3, <1>4, <1>5 DEF CreatedFor, RowArea

\* No Episode that exists becomes a shell again.
LEMMA ShellBefore ==
  ASSUME IndInv, [Next]_vars, NEW ep \in Episodes, Shell(ep)', epState[ep] # "none"
  PROVE  Shell(ep)
<1>1. SUFFICES ASSUME NEW e \in Events, evEpisode[e] = ep, evKind[e] = "allowed"
               PROVE  FALSE
  BY DEF Shell, MembersOf
<1>2. evKind'[e] = "allowed"
  BY <1>1, RowsStay
<1>3. evEpisode'[e] = ep
  BY <1>1, AssociationStep DEF MayAssociate, IndInv, TypeOK, EventRowsOK
<1>. QED  BY <1>2, <1>3 DEF Shell, MembersOf

\* A recovery that comes upon a shell of its Event's Area and start takes it.
LEMMA RecoveryTakesShell ==
  ASSUME IndInv, RecoveryOrder, ShellsDiffer, failures = 0, pc[Startup] = "lifecycle",
         NEW ep \in Episodes, Recoverable(ep),
         RowArea(job[Startup].event) = epArea[ep], TimestampOf[job[Startup].event] = epStart[ep]
  PROVE  Targets(Startup) = {ep}
<1>. DEFINE e == job[Startup].event
            at == job[Startup].at
<1>1. e \in Events
  BY CorrelatedEvent DEF Correlating, Workers
<1>2. PICK other \in Events : CreatedFor(ep, other)
  BY DEF Recoverable
<1>3. PICK t \in Ingress(other) : t <= minEnd[ep]
  BY <1>2 DEF CreatedFor
<1>4. /\ at \in Earliest(Ingress(e)) /\ job[Startup].mode = "recovered"
      /\ ReceivedNoLater(e, other)
  BY <1>1, <1>2 DEF RecoveryOrder, CreatedFor, Pending
<1>5. at <= t /\ at \in Nat /\ t \in Nat
  BY <1>1, <1>3, <1>4, IngressIsTime DEF ReceivedNoLater, Earliest
<1>6. WithinHorizon(ep, at)
  <2>1. minEnd[ep] \in Nat /\ grace \in Nat
    BY DEF IndInv, TypeOK, EnvironmentOK, EpisodeRowsOK
  <2>. QED  BY <1>3, <1>5, <2>1 DEF WithinHorizon
<1>7. EmptyShells(e) = {ep}
  <2>1. ep \in EmptyShells(e)
    BY DEF Recoverable, EmptyShells
  <2>2. \A x \in EmptyShells(e) : Shell(x) /\ epArea[x] = epArea[ep] /\ epStart[x] = epStart[ep]
    BY DEF EmptyShells, Shell, IsOpen, OpenStates
  <2>3. Shell(ep)
    BY DEF Recoverable, Shell, IsOpen, OpenStates
  <2>. QED  BY <2>1, <2>2, <2>3 DEF ShellsDiffer, EmptyShells
<1>8. RecoverableShell(e, at) = {ep}
  BY <1>6, <1>7 DEF RecoverableShell
<1>. QED  BY <1>4, <1>8 DEF Targets

\* Startup's task runs alone.
LEMMA StartupAlone ==
  ASSUME IndInv, PhaseInv, pc[Startup] # "idle"
  PROVE  phase = "recovering" /\ \A d \in Deliveries : pc[d] \in AtRest
BY DEF PhaseInv

\* A shell that recovery is to find is left to it, or gains an allowed Event.
LEMMA RecoverableStays ==
  ASSUME IndInv, IndInv', PhaseInv, OriginInv, IngressInv, ShellInv, [Next]_vars,
         failures = 0, phase \in {"down", "recovering"},
         NEW ep \in Episodes, Recoverable(ep), Shell(ep)'
  PROVE  phase' \in {"down", "recovering"} /\ Recoverable(ep)'
<1>. USE DEF IndInv, TypeOK
<1>1. PICK e \in Events : CreatedFor(ep, e)
  BY DEF Recoverable
<1>2. epState[ep] # "none" /\ Shell(ep) /\ Pending(e)
  BY <1>1 DEF Recoverable, IsOpen, OpenStates, Shell, CreatedFor, Pending
<1>3. phase' \in {"down", "recovering"} /\ IsOpen(ep)'
  <2>1. ASSUME NEW d \in Deliveries, Receive(d) \/ DeliveryStep(d) \/ Fail(d)
        PROVE  UNCHANGED <<phase, epState>>
    BY <2>1 DEF DeliveryStep, Receive, RejectDraft, EnterArea, CanonicalizeNew, CanonicalizeDuplicate,
                RejectConflict, Backfill, Link, Publish, Fail, environment, episodeRows
  <2>2. ASSUME NEW w \in Workers, CorrelationStep(w)
        PROVE  phase' = phase /\ (epState'[ep] = epState[ep] \/ epState'[ep] = "active")
    BY <2>2, <1>2
    DEF CorrelationStep, Recover, AbandonRecovery, JoinEpisode, OpenEpisode, LinkFirstEvent,
        RefuseAssociation, RecordActivity, ExtendMinimumEnd, Wake, Announce, AttachInactive,
        AttachFiltered, RecordAttachment, RecordNoOpenEpisode, LeaveArea, environment, episodeRows,
        EpisodeRowsOK
  <2>3. CASE \/ \E x \in Episodes : BeginFinalization(x) \/ CompleteFinalization(x)
             \/ \E g \in Graces : SetGrace(g)
             \/ TimeoutPass \/ GracePass \/ StartupStep \/ Crash \/ Tick \/ UNCHANGED vars
    BY <1>2, <2>3
    DEF BeginFinalization, CompleteFinalization, SetGrace, TimeoutPass, GracePass, StartupStep, Boot,
        StartupBackfill, StartupScan, StartupPass, NothingPending, CompleteStartup, Crash, Tick, vars,
        environment, episodeRows, IsOpen, Recoverable
  <2>. QED  BY <2>1, <2>2, <2>3 DEF Next, Recoverable, IsOpen, OpenStates
<1>4. evEpisode'[e] = NoEpisode /\ MembersOf(ep)' = {}
  <2>1. CASE UNCHANGED evEpisode
    BY <1>1, <2>1 DEF CreatedFor, Recoverable, MembersOf
  <2>2. ASSUME NEW w \in Workers, EpisodeStep(w), evEpisode' # evEpisode
        PROVE  evEpisode'[e] = NoEpisode /\ MembersOf(ep)' = {}
    <3>. DEFINE f == job[w].event
    <3>1. w = Startup
      <4>1. pc[w] \in Correlating
        BY <2>2, AssociatesOwnEvent
        DEF EpisodeStep, OpenEpisode, RecordActivity, ExtendMinimumEnd, Wake, eventRows
      <4>. QED  BY <4>1 DEF PhaseInv, Workers, AtRest, Correlating, Locked
    <3>2. CASE JoinEpisode(w)
      <4>1. PICK x \in Targets(w) : evEpisode' = [evEpisode EXCEPT ![f] = x]
        BY <3>2 DEF JoinEpisode
      <4>2. pc[w] = "lifecycle" /\ f \in Events /\ evKind[f] = "allowed" /\ UNCHANGED evKind
        BY <3>2, CorrelatedEvent DEF JoinEpisode, EnterLifecycle, Move, Correlating
      <4>3. x # ep
        BY <4>1, <4>2 DEF Shell, MembersOf, EventRowsOK
      <4>4. f # e
        BY <1>1, <3>1, <4>1, <4>2, <4>3, RecoveryTakesShell DEF CreatedFor, ShellInv
      <4>. QED  BY <1>1, <4>1, <4>2, <4>3, <4>4 DEF CreatedFor, Recoverable, MembersOf, EventRowsOK
    <3>3. CASE LinkFirstEvent(w)
      <4>1. /\ pc[w] = "first_event" /\ f \in Events /\ UNCHANGED evKind
            /\ job[w].episode \in Episodes /\ IsOpen(job[w].episode)
            /\ evEpisode' = [evEpisode EXCEPT ![f] = job[w].episode]
        BY <3>3, CorrelatedEvent DEF LinkFirstEvent, Move, Correlating, Locked, LockInv, Writing
      <4>2. CreatedFor(job[w].episode, f) /\ MembersOf(job[w].episode) = {}
        BY <4>1 DEF ShellInv, FirstEventFits
      <4>3. job[w].episode # ep
        BY <4>1, <4>2 DEF CreatedFor, Shell, MembersOf, EventRowsOK
      <4>4. f # e
        <5>1. Shell(job[w].episode)
          BY <4>1, <4>2 DEF Shell, IsOpen, OpenStates
        <5>. QED  BY <1>1, <1>2, <4>1, <4>2, <4>3, <5>1 DEF CreatedFor, ShellInv, ShellsDiffer
      <4>. QED  BY <1>1, <4>1, <4>3, <4>4 DEF CreatedFor, Recoverable, MembersOf, EventRowsOK
    <3>4. CASE AttachInactive(w)
      <4>1. /\ pc[w] = "lifecycle" /\ f \in Events /\ evKind[f] = "inactive"
            /\ \E x \in PrecedingEpisodes(f) : evEpisode' = [evEpisode EXCEPT ![f] = x]
        BY <2>2, <3>4, CorrelatedEvent DEF AttachInactive, Move, Correlating
      <4>2. ep \notin PrecedingEpisodes(f)
        BY DEF PrecedingEpisodes, Preceding, Recoverable, MembersOf
      <4>. QED  BY <1>1, <4>1, <4>2 DEF CreatedFor, Recoverable, MembersOf, EventRowsOK
    <3>5. CASE AttachFiltered(w)
      <4>1. /\ pc[w] = "lifecycle" /\ f \in Events /\ evKind[f] = "filtered"
            /\ \E x \in ContextTargets(w) : evEpisode' = [evEpisode EXCEPT ![f] = x]
        BY <3>5, CorrelatedEvent DEF AttachFiltered, EnterLifecycle, Move, Correlating
      <4>2. DriverIngress(ep) = {}
        BY DEF DriverIngress, Recoverable
      <4>3. ep \notin ContextTargets(w)
        BY <3>1, <4>1, <4>2 DEF ContextTargets, MostRecent, OpenAt, Earliest, ShellInv, RecoveryOrder
      <4>. QED  BY <1>1, <4>1, <4>3 DEF CreatedFor, Recoverable, MembersOf, EventRowsOK
    <3>6. CASE OpenEpisode(w) \/ RecordActivity(w) \/ ExtendMinimumEnd(w) \/ Wake(w)
      BY <2>2, <3>6 DEF OpenEpisode, RecordActivity, ExtendMinimumEnd, Wake, eventRows
    <3>. QED  BY <2>2, <3>2, <3>3, <3>4, <3>5, <3>6 DEF EpisodeStep
  <2>3. ASSUME PassStep \/ (\E x \in Episodes : CompleteFinalization(x)) \/ Tick
               \/ (\E g \in Graces : SetGrace(g)) \/ Untouched
        PROVE  UNCHANGED evEpisode
    BY <2>3 DEF PassStep, TimeoutPass, GracePass, StartupPass, CompleteStartup, CompleteFinalization,
                Tick, SetGrace, Untouched, eventRows
  <2>. QED  BY EpisodeWriters, <2>1, <2>2, <2>3
<1>5. CreatedFor(ep, e)'
  BY <1>1, <1>2, <1>4, CreatedForStays DEF OriginInv
<1>. QED  BY <1>3, <1>4, <1>5 DEF Recoverable

\* The first Event of a new Episode fits it until it is linked.
LEMMA FirstEventStep ==
  ASSUME IndInv, IndInv', OriginInv, IngressInv, MembersExist, AssociationInv, FirstEventFits, [Next]_vars
  PROVE  FirstEventFits'
<1>. USE DEF IndInv, TypeOK
<1>. SUFFICES ASSUME NEW w \in Workers, NEW ep \in Episodes, NEW e \in Events,
                     pc'[w] = "first_event", job'[w].episode = ep, job'[w].event = e
              PROVE  CreatedFor(ep, e)' /\ MembersOf(ep)' = {}
  BY DEF FirstEventFits
<1>1. CASE pc[w] = "first_event" /\ job'[w] = job[w]
  <2>1. CreatedFor(ep, e) /\ MembersOf(ep) = {} /\ epState[ep] # "none" /\ lifecycleLock = w
    BY <1>1 DEF FirstEventFits, LockInv, Writing, Locked, IsOpen, OpenStates
  <2>2. UNCHANGED evEpisode
    <3>1. ASSUME NEW x \in Workers, EpisodeStep(x)
          PROVE  UNCHANGED evEpisode
      <4>1. CASE JoinEpisode(x) \/ AttachInactive(x) \/ AttachFiltered(x)
        BY <2>1, <4>1 DEF JoinEpisode, AttachInactive, AttachFiltered, EnterLifecycle
      <4>2. CASE LinkFirstEvent(x)
        <5>1. x = w
          BY <2>1, <4>2 DEF LinkFirstEvent, Move, LockInv, Locked
        <5>. QED  BY <4>2, <5>1 DEF LinkFirstEvent, Move, TasksOK
      <4>3. CASE OpenEpisode(x) \/ RecordActivity(x) \/ ExtendMinimumEnd(x) \/ Wake(x)
        BY <4>3 DEF OpenEpisode, RecordActivity, ExtendMinimumEnd, Wake, eventRows
      <4>. QED  BY <3>1, <4>1, <4>2, <4>3 DEF EpisodeStep
    <3>2. ASSUME PassStep \/ (\E x \in Episodes : CompleteFinalization(x)) \/ Tick
                 \/ (\E g \in Graces : SetGrace(g)) \/ Untouched
          PROVE  UNCHANGED evEpisode
      BY <3>2 DEF PassStep, TimeoutPass, GracePass, StartupPass, CompleteStartup, CompleteFinalization,
                  Tick, SetGrace, Untouched, eventRows
    <3>. QED  BY EpisodeWriters, <3>1, <3>2
  <2>3. CreatedFor(ep, e)'
    BY <2>1, <2>2, CreatedForStays DEF CreatedFor, OriginInv
  <2>. QED  BY <2>1, <2>2, <2>3 DEF MembersOf
<1>2. CASE OpenEpisode(w)
  <2>1. PICK x \in Episodes :
          /\ epState[x] = "none"
          /\ epArea' = [epArea EXCEPT ![x] = RowArea(job[w].event)]
          /\ epStart' = [epStart EXCEPT ![x] = TimestampOf[job[w].event]]
          /\ minEnd' = [minEnd EXCEPT ![x] = Contribution(w)]
          /\ job' = [job EXCEPT ![w].episode = x, ![w].via = "opened"]
    BY <1>2 DEF OpenEpisode
  <2>2. job[w].event = e /\ x = ep
    BY <2>1 DEF TasksOK, Job
  <2>3. pc[w] = "lifecycle" /\ evKind[e] = "allowed" /\ UNCHANGED <<evKind, evEpisode, evOrigin, linked, received>>
    BY <1>2, <2>2 DEF OpenEpisode, EnterLifecycle, Move, eventRows, receiptRows
  <2>4. evEpisode[e] = NoEpisode
    BY <1>2, <2>2, <2>3 DEF OpenEpisode, AlreadyRecovered, AssociationInv, OriginInv, ModeFitsStep
  <2>5. epArea'[ep] = RowArea(e) /\ epStart'[ep] = TimestampOf[e] /\ minEnd'[ep] = Contribution(w)
    BY <2>1, <2>2 DEF EpisodeRowsOK
  <2>6. \E t \in Ingress(e) : t <= minEnd'[ep]
    <3>1. PICK t \in Ingress(e) : t <= job[w].at
      BY <2>2, <2>3 DEF IngressInv, CorrelatesBetween
    <3>2. t \in Nat /\ job[w].at \in Nat /\ evWindow[e] \in Nat
      BY <2>3, IngressIsTime DEF TasksOK, Job, EventRowsOK
    <3>. QED  BY <2>2, <2>5, <3>1, <3>2 DEF Contribution
  <2>7. MembersOf(ep) = {}
    BY <2>1, <2>2, IdentityAssumption DEF MembersExist, MembersOf
  <2>. QED  BY <2>3, <2>4, <2>5, <2>6, <2>7 DEF CreatedFor, RowArea, Ingress, MembersOf
<1>. QED  BY <1>1, <1>2, CreatorMoves

\* While rows and receipts stay, so does the order of recovery.
LEMMA SameOrder ==
  ASSUME UNCHANGED <<evKind, evEpisode, evAttach, linked, received>>, NEW e \in Events
  PROVE  /\ Pending(e)' <=> Pending(e)
         /\ Earliest(Ingress(e))' = Earliest(Ingress(e))
         /\ \A other \in Events : ReceivedNoLater(e, other)' <=> ReceivedNoLater(e, other)
<1>1. \A x \in Events : Ingress(x)' = Ingress(x)
  BY DEF Ingress
<1>2. \A x \in Events : Earliest(Ingress(x))' = Earliest(Ingress(x))
  BY <1>1 DEF Earliest
<1>. QED  BY <1>2 DEF Pending, ReceivedNoLater

\* Recovery stays in order.
LEMMA RecoveryOrderStep ==
  ASSUME IndInv, IndInv', PhaseInv, PhaseInv', RecoveryOrder, [Next]_vars
  PROVE  RecoveryOrder'
<1>. USE DEF IndInv, TypeOK, TasksOK, Workers, Move
<1>. DEFINE Rows == UNCHANGED <<evKind, evEpisode, evAttach, linked, received>>
            Keeps == UNCHANGED <<pc, job>> /\ Rows
            Away == pc'[Startup] \notin {"recover", "lifecycle"}
<1>1. ASSUME NEW d \in Deliveries, Receive(d) \/ DeliveryStep(d) \/ Fail(d)
      PROVE  Away
  <2>1. phase = "running" \/ pc[d] \notin AtRest
    BY <1>1 DEF DeliveryStep, Receive, RejectDraft, EnterArea, CanonicalizeNew, CanonicalizeDuplicate,
                RejectConflict, Backfill, Link, Publish, Fail, AtRest
  <2>2. pc'[Startup] = pc[Startup]
    BY <1>1 DEF DeliveryStep, Receive, RejectDraft, EnterArea, CanonicalizeNew, CanonicalizeDuplicate,
                RejectConflict, Backfill, Link, Publish, Fail, Abort
  <2>. QED  BY <2>1, <2>2, StartupAlone
<1>2. ASSUME NEW w \in Workers, CorrelationStep(w), ~Recover(w)
      PROVE  Away
  <2>1. pc[w] \notin AtRest /\ (w = Startup => Away) /\ (w # Startup => pc'[Startup] = pc[Startup])
    BY <1>2 DEF CorrelationStep, AbandonRecovery, JoinEpisode, OpenEpisode, LinkFirstEvent,
                RefuseAssociation, Abort, RecordActivity, ExtendMinimumEnd, Wake, Announce,
                AttachInactive, AttachFiltered, EnterLifecycle, RecordAttachment, RecordNoOpenEpisode,
                LeaveArea, AtRest
  <2>. QED  BY <2>1, StartupAlone
<1>3. ASSUME NEW w \in Workers, Recover(w)
      PROVE  RecoveryOrder'
  <2>1. pc[w] = "recover" /\ Rows
    BY <1>3 DEF Recover, eventRows, receiptRows
  <2>2. CASE w # Startup
    <3>1. Away
      BY <1>3, <2>1, <2>2, StartupAlone, RecoverOutcome DEF AtRest
    <3>. QED  BY <3>1 DEF RecoveryOrder
  <2>3. CASE w = Startup
    <3>1. ASSUME NEW e \in Events, job'[Startup].event = e, pc'[Startup] \in {"recover", "lifecycle"}
          PROVE  /\ \A other \in Events : Pending(other)' => ReceivedNoLater(e, other)'
                 /\ job'[Startup].mode = "recovered" /\ job'[Startup].at \in Earliest(Ingress(e))'
                 /\ pc'[Startup] = "lifecycle"
      BY <1>3, <2>1, <2>3, <3>1, RecoverOutcome, SameOrder DEF RecoveryOrder
    <3>. QED  BY <3>1 DEF RecoveryOrder
  <2>. QED  BY <2>2, <2>3
<1>4. CASE StartupScan
  <2>1. PICK e \in Events :
          /\ \A other \in Events : Pending(other) => ReceivedNoLater(e, other)
          /\ job' = [job EXCEPT ![Startup] = [IdleJob EXCEPT !.event = e]]
    BY <1>4 DEF StartupScan
  <2>2. job'[Startup].event = e /\ pc'[Startup] = "recover" /\ Rows
    BY <1>4, <2>1 DEF StartupScan, IdleJob, eventRows, receiptRows
  <2>. QED  BY <2>1, <2>2, SameOrder DEF RecoveryOrder
<1>5. CASE Boot \/ StartupBackfill \/ StartupPass \/ Crash
  <2>1. Away
    BY <1>5 DEF Boot, StartupBackfill, StartupPass, Crash
  <2>. QED  BY <2>1 DEF RecoveryOrder
<1>6. CASE \/ \E ep \in Episodes : BeginFinalization(ep) \/ CompleteFinalization(ep)
           \/ \E g \in Graces : SetGrace(g)
           \/ TimeoutPass \/ GracePass \/ CompleteStartup \/ Tick \/ UNCHANGED vars
  <2>1. Keeps
    BY <1>6 DEF BeginFinalization, CompleteFinalization, SetGrace, TimeoutPass, GracePass,
                CompleteStartup, Tick, vars, eventRows, receiptRows, tasks
  <2>. QED  BY <2>1, SameOrder DEF RecoveryOrder
<1>. QED  BY <1>1, <1>2, <1>3, <1>4, <1>5, <1>6 DEF Next, StartupStep, RecoveryOrder

\* Every step keeps shells with their creators, or for recovery to find.
LEMMA ShellStep ==
  ASSUME IndInv, IndInv', PhaseInv, PhaseInv', OriginInv, IngressInv, MembersExist, AssociationInv,
         ShellInv, [Next]_vars
  PROVE  ShellInv'
<1>1. RecoveryOrder'
  BY RecoveryOrderStep DEF ShellInv
<1>2. FirstEventFits'
  BY FirstEventStep DEF ShellInv
<1>3. failures' = 0 => failures = 0
  BY DisturbancesCount DEF IndInv, TypeOK, EnvironmentOK
<1>4. ShellsAreFound'
  <2>. SUFFICES ASSUME failures' = 0, NEW ep \in Episodes, Shell(ep)'
                PROVE  \/ \E w \in Workers : pc'[w] = "first_event" /\ job'[w].episode = ep
                       \/ phase' \in {"down", "recovering"} /\ Recoverable(ep)'
    BY DEF ShellsAreFound
  <2>1. CASE epState[ep] = "none"
    <3>1. PICK w \in Workers : OpenEpisode(w) /\ job'[w].episode = ep
      BY <2>1, OnlyCreated DEF Shell
    <3>. QED  BY <3>1 DEF OpenEpisode, EnterLifecycle, Move, IndInv, TypeOK, TasksOK
  <2>2. ASSUME NEW w \in Workers, pc[w] = "first_event", job[w].episode = ep
        PROVE  \/ pc'[w] = "first_event" /\ job'[w].episode = ep
               \/ phase' \in {"down", "recovering"} /\ Recoverable(ep)'
    <3>. PICK e \in Events : job[w].event = e
      BY <2>2, CorrelatedEvent DEF Correlating, Locked
    <3>1. CreatedFor(ep, e) /\ MembersOf(ep) = {} /\ IsOpen(ep)
      BY <2>2 DEF ShellInv, FirstEventFits, IndInv, LockInv, Writing
    <3>2. CASE pc'[w] = "first_event" /\ job'[w] = job[w]
      BY <2>2, <3>2
    <3>3. CASE LinkFirstEvent(w)
      <4>1. evEpisode' = [evEpisode EXCEPT ![e] = ep] /\ UNCHANGED evKind
        BY <2>2, <3>3 DEF LinkFirstEvent
      <4>. QED  BY <3>1, <4>1 DEF CreatedFor, Shell, MembersOf, IndInv, TypeOK, EventRowsOK
    <3>4. CASE RefuseAssociation(w)
      BY <2>2, <3>1, <3>4 DEF RefuseAssociation, Refused, MayAssociate, CreatedFor
    <3>5. CASE Crash
      <4>1. phase' = "down" /\ UNCHANGED <<evEpisode, epState>>
        BY <3>5 DEF Crash, eventRows, episodeRows
      <4>2. CreatedFor(ep, e)'
        BY <3>1, <4>1, CreatedForStays DEF CreatedFor, OriginInv, IsOpen, OpenStates
      <4>. QED  BY <3>1, <4>1, <4>2 DEF Recoverable, IsOpen, MembersOf
    <3>. QED  BY <2>2, <3>2, <3>3, <3>4, <3>5, CreatorMoves
  <2>3. CASE phase \in {"down", "recovering"} /\ Recoverable(ep)
    BY <1>3, <2>3, RecoverableStays
  <2>. QED  BY <1>3, <2>1, <2>2, <2>3, ShellBefore DEF ShellInv, ShellsAreFound
<1>5. ShellsDiffer'
  <2>1. ASSUME NEW ep \in Episodes, NEW other \in Episodes, failures = 0, Shell(other)', ep # other,
               epState[ep] = "none", epState'[ep] # "none",
               epArea'[ep] = epArea'[other], epStart'[ep] = epStart'[other]
        PROVE  FALSE
    <3>1. PICK w \in Workers : OpenEpisode(w) /\ job'[w].episode = ep
      BY <2>1, OnlyCreated
    <3>2. PICK x \in Episodes :
            /\ epState[x] = "none" /\ epState' = [epState EXCEPT ![x] = "active"]
            /\ epArea' = [epArea EXCEPT ![x] = RowArea(job[w].event)]
            /\ epStart' = [epStart EXCEPT ![x] = TimestampOf[job[w].event]]
            /\ job' = [job EXCEPT ![w].episode = x, ![w].via = "opened"]
      BY <3>1 DEF OpenEpisode
    <3>3. /\ x = ep /\ epState[other] # "none"
          /\ RowArea(job[w].event) = epArea[other] /\ TimestampOf[job[w].event] = epStart[other]
      BY <2>1, <3>1, <3>2 DEF IndInv, TypeOK, EpisodeRowsOK, TasksOK, Job, Shell
    <3>4. pc[w] = "lifecycle" /\ lifecycleLock = NoWorker /\ Targets(w) = {}
      BY <3>1 DEF OpenEpisode, EnterLifecycle, Move
    <3>5. \A y \in Workers : pc[y] # "first_event"
      BY <3>4 DEF IndInv, LockInv, Locked
    <3>6. Shell(other)
      BY <2>1, <3>3, ShellBefore
    <3>7. phase \in {"down", "recovering"} /\ Recoverable(other)
      BY <2>1, <3>5, <3>6 DEF ShellInv, ShellsAreFound
    <3>8. w = Startup
      BY <3>4, <3>7 DEF PhaseInv, Workers, AtRest
    <3>. QED  BY <2>1, <3>3, <3>4, <3>7, <3>8, RecoveryTakesShell DEF ShellInv
  <2>2. ASSUME failures' = 0, NEW ep \in Episodes, NEW other \in Episodes, Shell(ep)', Shell(other)',
               epArea'[ep] = epArea'[other], epStart'[ep] = epStart'[other], ep # other
        PROVE  FALSE
    <3>1. epState'[ep] # "none" /\ epState'[other] # "none"
      BY <2>2 DEF Shell
    <3>2. epState[ep] # "none" /\ epState[other] # "none"
      BY <1>3, <2>1, <2>2, <3>1
    <3>. QED  BY <1>3, <2>2, <3>2, ShellBefore, CreationStays DEF ShellInv, ShellsDiffer
  <2>. QED  BY <2>2 DEF ShellsDiffer
<1>. QED  BY <1>1, <1>2, <1>4, <1>5 DEF ShellInv

-----------------------------------------------------------------------------
\* The initial state satisfies both invariants.
LEMMA InitCorrelation == Init => CorrelationInv /\ StationaryInv
<1>. SUFFICES ASSUME Init PROVE CorrelationInv /\ StationaryInv
  OBVIOUS
<1>1. /\ phase = "down" /\ failures = 0 /\ \A w \in Workers : pc[w] = "idle" /\ job[w] = IdleJob
      /\ \A d \in Deliveries : d \in Workers /\ ~linked[d]
      /\ Startup \in Workers
      /\ \A e \in Events : evKind[e] = "absent" /\ evEpisode[e] = NoEpisode /\ dispatched[e] = 0
      /\ \A ep \in Episodes : epState[ep] = "none" /\ deadline[ep] = NoTime
  BY DEF Init, Workers, Never
<1>2. PhaseInv /\ OriginInv
  BY <1>1 DEF PhaseInv, AtRest, OriginInv, LinkedHasRow, RowHasOrigin, NewOwnsRow, NewIsOnTime,
              ModeFitsStep, Locked, IdleJob
<1>3. IngressInv
  BY <1>1 DEF IngressInv, LinksIncludeOrigin, DuplicatesLinkLater, CorrelatesLinked,
              AssociatedIsLinked, CorrelatesBetween, Correlating, Locked
<1>4. LeaseInv /\ QuiescenceInv
  BY <1>1 DEF LeaseInv, QuiescenceInv, AwakeUnlessResumed, ElapsedUnlessWoken
<1>5. DriverInv /\ PendingInv
  BY <1>1 DEF DriverInv, MembersExist, CoveredUnlessExtended, PendingInv
<1>6. AreaInv /\ AssociationInv /\ MemoryInv
  BY <1>1 DEF AreaInv, DeliveriesHoldArea, StartupHoldsArea, InArea, Correlating, Locked,
              AssociationInv, MemoryInv
<1>7. DispatchInv
  BY <1>1 DEF DispatchInv, DispatchedOnce, OneDispatcher, DispatchesAssociated, Dispatcher, AtRest
<1>8. ShellInv
  BY <1>1 DEF ShellInv, RecoveryOrder, FirstEventFits, ShellsAreFound, ShellsDiffer, Shell
<1>. QED  BY <1>2, <1>3, <1>4, <1>5, <1>6, <1>7, <1>8 DEF CorrelationInv, StationaryInv

(***************************************************************************)
(* Receipts and times, leases, quiescence, deadlines and pending Events:   *)
(* the invariant that holds however Devices move, Events are redelivered,  *)
(* steps fail and the process crashes.                                     *)
(***************************************************************************)
THEOREM CorrelationInvariance == Spec => []CorrelationInv
<1>1. Init => CorrelationInv
  BY InitCorrelation
<1>2. IndInv /\ IndInv' /\ CorrelationInv /\ [Next]_vars => CorrelationInv'
  BY PhaseStep, OriginStep, IngressStep, LeaseStep, QuiescenceStep, DriverStep, PendingStep
  DEF CorrelationInv
<1>. QED  BY <1>1, <1>2, Invariance, PTL DEF Spec

(***************************************************************************)
(* Areas, associations, memory, actions and shells: the invariant that     *)
(* holds as long as Devices stay in their Areas.                           *)
(***************************************************************************)
THEOREM StationaryInvariance ==
  ASSUME Stationary
  PROVE  Spec => []StationaryInv
<1>1. Init => StationaryInv
  BY InitCorrelation
<1>2. /\ IndInv /\ IndInv' /\ CorrelationInv /\ CorrelationInv' /\ StationaryInv /\ [Next]_vars
      => StationaryInv'
  <2>. SUFFICES ASSUME IndInv, IndInv', CorrelationInv, CorrelationInv', StationaryInv, [Next]_vars
                PROVE  StationaryInv'
    OBVIOUS
  <2>1. AreaInv'
    BY AreaStep DEF CorrelationInv, StationaryInv, OriginInv
  <2>2. AssociationInv' /\ MemoryInv'
    BY AssociationInvStep, MemoryStep DEF CorrelationInv, StationaryInv
  <2>3. DispatchInv'
    BY DispatchStep DEF CorrelationInv, StationaryInv
  <2>4. ShellInv'
    BY ShellStep DEF CorrelationInv, StationaryInv, DriverInv
  <2>. QED  BY <2>1, <2>2, <2>3, <2>4 DEF StationaryInv
<1>. QED  BY <1>1, <1>2, Invariance, CorrelationInvariance, PTL DEF Spec

(***************************************************************************)
(* The inductive invariant of the engine.                                  *)
(***************************************************************************)
THEOREM EngineInvariance == Spec => []EngineInv
<1>1. CASE Stationary
  <2>1. IndInv /\ CorrelationInv /\ StationaryInv => EngineInv
    BY DEF EngineInv
  <2>. QED  BY <1>1, <2>1, Invariance, CorrelationInvariance, StationaryInvariance, PTL
<1>2. CASE ~Stationary
  <2>1. IndInv /\ CorrelationInv => EngineInv
    BY <1>2 DEF EngineInv
  <2>. QED  BY <2>1, Invariance, CorrelationInvariance, PTL
<1>. QED  BY <1>1, <1>2

-----------------------------------------------------------------------------
(***************************************************************************)
(* The properties.                                                         *)
(***************************************************************************)
(***************************************************************************)
(* A recorder never runs on beyond its Episode's deadline on disk.         *)
(***************************************************************************)
THEOREM LeasesEndInTime == Spec => []LeaseNeverOutlivesDeadline
<1>1. CorrelationInv => LeaseNeverOutlivesDeadline
  BY DEF CorrelationInv, LeaseInv, LeaseNeverOutlivesDeadline
<1>. QED  BY <1>1, CorrelationInvariance, PTL

(***************************************************************************)
(* A redelivery or a recovery correlates an Event no later than the        *)
(* delivery that created its row was received.                             *)
(***************************************************************************)
THEOREM CorrelationsAreOnTime == Spec => []CorrelatesAtFirstIngress
<1>1. CorrelationInv => CorrelatesAtFirstIngress
  BY DEF CorrelationInv, IngressInv, CorrelatesBetween, CorrelatesAtFirstIngress
<1>. QED  BY <1>1, CorrelationInvariance, PTL

(***************************************************************************)
(* A quiescent Episode that an Event extends is woken under the same lock. *)
(***************************************************************************)
THEOREM QuiescenceIsEarned == Spec => []QuiescentHasElapsed
<1>1. IndInv /\ CorrelationInv => QuiescentHasElapsed
  BY DEF CorrelationInv, QuiescenceInv, ElapsedUnlessWoken, QuiescentHasElapsed, IndInv, TypeOK, TasksOK,
         LockInv, Settled, Locked
<1>. QED  BY <1>1, Invariance, CorrelationInvariance, PTL

(***************************************************************************)
(* Whatever order Events are correlated in, each has its window.           *)
(***************************************************************************)
THEOREM DriversContribute == Spec => []EveryDriverContributes
<1>1. IndInv /\ CorrelationInv => EveryDriverContributes
  BY DEF CorrelationInv, DriverInv, CoveredUnlessExtended, Covered, EveryDriverContributes, IndInv,
         LockInv, Settled, Locked
<1>. QED  BY <1>1, Invariance, CorrelationInvariance, PTL

(***************************************************************************)
(* A running engine owes no Event its correlation, after any crash.        *)
(***************************************************************************)
THEOREM RecoveryIsComplete == Spec => []PendingIsInProgress
<1>1. CorrelationInv => PendingIsInProgress
  BY DEF CorrelationInv, PendingInv, PendingIsInProgress
<1>. QED  BY <1>1, CorrelationInvariance, PTL

(***************************************************************************)
(* The leases in memory are the deadlines on disk, after any crash.        *)
(***************************************************************************)
THEOREM LeasesMatch ==
  ASSUME Stationary
  PROVE  Spec => []LeaseMatchesDeadline
<1>1. IndInv /\ StationaryInv => LeaseMatchesDeadline
  BY DEF StationaryInv, MemoryInv, LeaseMatchesDeadline, IndInv, LockInv, Settled, Locked, Writing
<1>. QED  BY <1>1, Invariance, StationaryInvariance, PTL

(***************************************************************************)
(* However often an Event is delivered, its actions start once.            *)
(***************************************************************************)
THEOREM ActionsStartOnce ==
  ASSUME Stationary
  PROVE  Spec => []DispatchedAtMostOnce
<1>1. StationaryInv => DispatchedAtMostOnce
  BY DEF StationaryInv, DispatchInv, DispatchedOnce, DispatchedAtMostOnce
<1>. QED  BY <1>1, StationaryInvariance, PTL

(***************************************************************************)
(* A crash between an Episode and its first Event leaves no shell behind.  *)
(***************************************************************************)
THEOREM EpisodesHaveDrivers ==
  ASSUME Stationary
  PROVE  Spec => []EveryEpisodeHasADriver
<1>1. IndInv /\ StationaryInv => EveryEpisodeHasADriver
  BY DEF StationaryInv, ShellInv, ShellsAreFound, Shell, EveryEpisodeHasADriver, IndInv, LockInv,
         Settled, Locked
<1>. QED  BY <1>1, Invariance, StationaryInvariance, PTL
=============================================================================
