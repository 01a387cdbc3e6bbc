------------------------ MODULE RecordingEngineProofs ------------------------
(***************************************************************************)
(* RecorderInv is inductive, and gives the recorder's properties for every *)
(* set of Episodes and Devices and every bound.                            *)
(*                                                                         *)
(* Each part of the invariant has a lemma <part>Step over the kinds of     *)
(* steps (StepKinds), which an outcome lemma describes: what a capture     *)
(* task, a quiet step, a start and a barrier may do to the maps.           *)
(***************************************************************************)
EXTENDS RecordingEngineProperties, TLAPS

USE RecorderAssumption

LEMMA KeyParts == \A k \in Keys : k[1] \in Episodes /\ k[2] \in Devices
  BY DEF Keys

LEMMA NoneType == None \in 0 .. MaxRecordings
  BY DEF None

LEMMA InitType == Init => TypeOK
<1>. SUFFICES ASSUME Init PROVE TypeOK
  OBVIOUS
<1>1. (CHOOSE k \in Keys : TRUE) \in Keys
  <2>1. PICK e \in Episodes, d \in Devices : TRUE
    OBVIOUS
  <2>2. <<e, d>> \in Keys
    BY DEF Keys
  <2>. QED  BY <2>2
<1>2. Unused \in Record
  BY <1>1 DEF Unused, Record, Steps, Live, NoTime
<1>3. IdleBarrier \in Barrier
  BY DEF IdleBarrier, Barrier, None
<1>4. /\ rec \in [Recordings -> Record] /\ barrier \in [Barriers -> Barrier]
  BY <1>2, <1>3 DEF Init
<1>. QED  BY <1>4 DEF Init, TypeOK, WorldOK, RowsOK, MessagesOK, LeasesOK, TasksOK, DiskOK, BarriersOK, Time, None, Lease, NoLease, Keys, Recordings

\* Updates of a record that are not of its pc alone.
LEMMA RecordUpdates ==
  ASSUME NEW f \in [Recordings -> Record], NEW r \in Recordings, NEW step \in Steps
  PROVE  /\ f[r] \in Record
         /\ [f EXCEPT ![r].pc = step] \in [Recordings -> Record]
         /\ [f EXCEPT ![r].pc = step, ![r].expired = TRUE, ![r].signalled = FALSE] \in [Recordings -> Record]
         /\ [f EXCEPT ![r].pc = step, ![r].published = TRUE] \in [Recordings -> Record]
         /\ [f EXCEPT ![r].pc = step, ![r].signalled = FALSE] \in [Recordings -> Record]
         /\ [f EXCEPT ![r].expired = TRUE, ![r].signalled = TRUE] \in [Recordings -> Record]
         /\ [f EXCEPT ![r].published = TRUE] \in [Recordings -> Record]
<1>1. f[r] \in Record
  OBVIOUS
<1>2. /\ [f[r] EXCEPT !.pc = step] \in Record
      /\ [f[r] EXCEPT !.pc = step, !.expired = TRUE, !.signalled = FALSE] \in Record
      /\ [f[r] EXCEPT !.pc = step, !.published = TRUE] \in Record
      /\ [f[r] EXCEPT !.pc = step, !.signalled = FALSE] \in Record
      /\ [f[r] EXCEPT !.expired = TRUE, !.signalled = TRUE] \in Record
      /\ [f[r] EXCEPT !.published = TRUE] \in Record
  BY <1>1 DEF Record
<1>. QED  BY <1>1, <1>2

\* A task stays, ends, parks or publishes its workspace.
LEMMA EndsType ==
  ASSUME TasksOK, NEW r \in Recordings
  PROVE  /\ \A step \in Steps : Goto(r, step) /\ UNCHANGED maps => TasksOK'
         /\ Leave(r) \/ Park(r) \/ Finalize(r) \/ (Drop(r) /\ Publish(r)) => TasksOK'
<1>0. /\ rec \in [Recordings -> Record]
      /\ recordings \in [Keys -> 0 .. MaxRecordings] /\ recoverable \in [Keys -> 0 .. MaxRecordings]
  BY DEF TasksOK
<1>1. r \in 0 .. MaxRecordings /\ None \in 0 .. MaxRecordings /\ rec[r].key \in Keys
  BY <1>0 DEF Recordings, None, Record
<1>2. "ended" \in Steps /\ "publishing" \in Steps
  BY DEF Steps, Live
<1>7. \A step \in Steps : Goto(r, step) => rec' \in [Recordings -> Record]
  BY <1>0, RecordUpdates DEF Goto
<1>3. \A step \in Steps : Goto(r, step) /\ UNCHANGED maps => TasksOK'
  BY <1>0, <1>7 DEF TasksOK, maps
<1>4. Leave(r) => TasksOK'
  BY <1>2, <1>3 DEF Leave
<1>6. Park(r) => TasksOK'
  <2>1. [rec EXCEPT ![r].pc = "ended", ![r].expired = TRUE, ![r].signalled = FALSE] \in [Recordings -> Record]
    BY <1>0, <1>2, RecordUpdates
  <2>. QED  BY ONLY <1>0, <1>1, <2>1 DEF Park, TasksOK
<1>5. Publish(r) => rec' \in [Recordings -> Record]
  BY <1>2, <1>7 DEF Publish
<1>8. Publish(r) /\ recoverable' = recoverable
      /\ recordings' \in {recordings, [recordings EXCEPT ![rec[r].key] = None]} => TasksOK'
  BY <1>0, <1>1, <1>5 DEF TasksOK
<1>. QED  BY <1>3, <1>4, <1>6, <1>8 DEF Finalize, Drop, maps

CaptureTask(r) == TaskStep(r) \/ ChildExits(r) \/ TaskDies(r) \/ SinkFails(r) \/ JournalFails(r)

LEMMA TaskType ==
  ASSUME TypeOK, NEW r \in Recordings, CaptureTask(r)
  PROVE  TypeOK'
<1>. USE DEF TypeOK
<1>1. {"spawn", "check", "recheck", "retry", "top", "ended", "dead", "committed", "capture"} \subseteq Steps
  BY DEF Steps, Live
<1>2. TasksOK'
  <2>1. CASE LoopTop(r)
    BY <1>1, <2>1, EndsType DEF LoopTop
  <2>2. CASE Check(r)
    BY <1>1, <2>2, EndsType DEF Check
  <2>3. CASE Retry(r)
    BY <1>1, <2>3, EndsType DEF Retry
  <2>4. CASE Recheck(r)
    BY <1>1, <2>4, EndsType DEF Recheck
  <2>5. CASE ChildExits(r)
    BY <1>1, <2>5, EndsType DEF ChildExits
  <2>6. CASE Spawned(r)
    BY <1>1, <2>6, EndsType DEF Spawned
  <2>9. CASE LeaseEnds(r)
    BY <1>1, <2>9, RecordUpdates DEF LeaseEnds, TasksOK, maps
  <2>7. CASE SinkAnswers(r) \/ TaskDies(r)
    BY <1>1, <2>7, EndsType DEF SinkAnswers, TaskDies
  <2>8. CASE SinkRefuses(r) \/ SinkFails(r) \/ Complete(r) \/ JournalFails(r)
    <3>1. r \in 0 .. MaxRecordings /\ rec[r].key \in Keys
      BY DEF Recordings, TasksOK, Record
    <3>2. rec' \in [Recordings -> Record]
      <4>1. rec \in [Recordings -> Record] /\ "ended" \in Steps
        BY <1>1 DEF TasksOK
      <4>2. /\ [rec EXCEPT ![r].pc = "ended"] \in [Recordings -> Record]
            /\ [rec EXCEPT ![r].pc = "ended", ![r].published = TRUE] \in [Recordings -> Record]
        BY <4>1, RecordUpdates
      <4>. QED  BY <2>8, <4>2 DEF SinkRefuses, SinkFails, Retained, Complete, JournalFails
    <3>3. recordings' = recordings /\ recoverable' \in {recoverable, [recoverable EXCEPT ![rec[r].key] = r]}
      BY <2>8 DEF SinkRefuses, SinkFails, Retained, Complete, JournalFails, maps
    <3>. QED  BY <3>1, <3>2, <3>3 DEF TasksOK
  <2>. QED  BY <2>1, <2>2, <2>3, <2>4, <2>5, <2>6, <2>7, <2>8, <2>9 DEF CaptureTask, TaskStep
<1>3. WorldOK'
  BY DEF CaptureTask, TaskStep, WorldOK, LoopTop, Check, Retry, Recheck, ChildExits, Spawned, LeaseEnds,
         TaskFrame, SinkAnswers, TaskDies, SinkRefuses, SinkFails, Retained, Complete, JournalFails, Sealed,
         world
<1>5. DiskOK'
  BY DEF CaptureTask, TaskStep, DiskOK, LoopTop, Check, Retry, Recheck, ChildExits, Spawned, LeaseEnds,
         TaskFrame, SinkAnswers, TaskDies, SinkRefuses, SinkFails, Retained, Complete, JournalFails, Sealed,
         disk
<1>4. RowsOK' /\ MessagesOK' /\ LeasesOK' /\ BarriersOK'
  BY DEF CaptureTask, TaskStep, RowsOK, MessagesOK, LeasesOK, BarriersOK, LoopTop, Check, Retry, Recheck,
         ChildExits, Spawned, LeaseEnds, TaskFrame, SinkAnswers, TaskDies, SinkRefuses, SinkFails, Retained,
         Complete, JournalFails, Sealed, rows, messages
<1>. QED  BY <1>2, <1>3, <1>4, <1>5

LEMMA AcceptedType ==
  ASSUME NEW old \in Lease \union {NoLease}, NEW new \in Lease
  PROVE  Accepted(old, new) \in Lease
  BY DEF Accepted, Lease, NoLease, Time, NoTime
LEMMA ExtendedType ==
  ASSUME TasksOK, NEW r \in Recordings, NEW lease \in Lease
  PROVE  /\ Extended(r, lease) \in Record
         /\ Extended(r, lease).deadline = lease.until
         /\ Extended(r, lease).key = rec[r].key /\ Extended(r, lease).pc = rec[r].pc
         /\ Extended(r, lease).stop = rec[r].stop /\ Extended(r, lease).published = rec[r].published
         /\ Extended(r, lease).late = rec[r].late
<1>1. rec[r] \in Record /\ lease.until \in Time \union {NoTime}
  BY DEF TasksOK, Lease
<1>. QED  BY <1>1 DEF Extended, Record

\* The recordings of an Episode, by the maps.
LEMMA MappedType ==
  ASSUME TasksOK, NEW e \in Episodes
  PROVE  Active(e) \subseteq Recordings /\ Parked(e) \subseteq Recordings /\ Idle(e) \subseteq Recordings
  BY DEF TasksOK, Active, Parked, Idle, Recordings, None

LEMMA StopAllType ==
  ASSUME TasksOK, NEW S, NEW shutdown \in BOOLEAN, StopAll(S, shutdown), recoverable' = recoverable
  PROVE  TasksOK'
<1>1. ASSUME NEW r \in Recordings
      PROVE  rec'[r] \in Record
  <2>1. rec[r] \in Record /\ Signalled(r) \in BOOLEAN
    BY DEF TasksOK, Signalled, Record
  <2>. QED  BY <2>1 DEF StopAll, Record
<1>2. None \in 0 .. MaxRecordings
  BY DEF None
<1>. QED  BY <1>1, <1>2 DEF StopAll, TasksOK

LEMMA StartType ==
  ASSUME TypeOK, NEW k \in Keys, NEW r \in Candidate(k), Start(k, r)
  PROVE  TasksOK' /\ DiskOK' /\ BarriersOK' /\ r \in Recordings
<1>. USE DEF TypeOK
<1>1. r \in Recordings
  BY DEF Candidate, Fresh, TasksOK, None, Recordings
<1>2. Started(k, r) \in Record
  <2>1. rec[r] \in Record /\ k[1] \in Episodes /\ leases[k[1]] \in Lease \union {NoLease}
    BY <1>1, KeyParts DEF TasksOK, LeasesOK
  <2>. QED  BY <2>1 DEF Started, Record, Lease, Steps, Live
<1>3. r \in 0 .. MaxRecordings /\ None \in 0 .. MaxRecordings
  BY <1>1 DEF Recordings, None
<1>4. TasksOK' /\ DiskOK'
  BY <1>1, <1>2, <1>3 DEF Start, TasksOK, DiskOK
<1>5. BarriersOK'
  <2>1. k[1] \in Barriers /\ barrier[k[1]] \in Barrier
    BY KeyParts DEF Barriers, BarriersOK
  <2>2. /\ [barrier[k[1]] EXCEPT !.todo = @ \ {r}] \in Barrier
        /\ [barrier[k[1]] EXCEPT !.todo = @] \in Barrier
    BY <2>1 DEF Barrier
  <2>3. Unawaited(k[1], r) \in [Barriers -> Barrier]
    BY <2>1, <2>2 DEF Unawaited, BarriersOK
  <2>. QED  BY <2>3 DEF Start, BarriersOK
<1>. QED  BY <1>1, <1>4, <1>5

LEMMA EndOfType == ASSUME TypeOK, NEW t \in Time PROVE EndOf(t) \in Time
  BY DEF EndOf, TypeOK, WorldOK

\* Every lease that is set is one, and changes no record but its deadline.
LEMMA LeaseType ==
  ASSUME TypeOK, NEW S \in SUBSET Episodes, NEW number \in 0 .. MaxRevision,
         NEW until \in [Episodes -> Time], SetLeases(S, number, until)
  PROVE  /\ rec' \in [Recordings -> Record] /\ LeasesOK'
         /\ \A e \in S : leases'[e] \in Lease
         /\ \A r \in Recordings : /\ rec'[r].key = rec[r].key /\ rec'[r].pc = rec[r].pc
                                  /\ rec'[r].published = rec[r].published /\ rec'[r].stop = rec[r].stop
                                  /\ rec'[r].late = rec[r].late
<1>1. ASSUME NEW e \in S
      PROVE  leases'[e] \in Lease
  <2>1. [revision |-> number, until |-> EndOf(until[e])] \in Lease
    BY EndOfType DEF Lease
  <2>. QED  BY <2>1, AcceptedType DEF SetLeases, TypeOK, LeasesOK
<1>2. LeasesOK'
  BY <1>1 DEF SetLeases, TypeOK, LeasesOK
<1>3. ASSUME NEW r \in Recordings
      PROVE  /\ rec'[r] \in Record
             /\ rec'[r].key = rec[r].key /\ rec'[r].pc = rec[r].pc
             /\ rec'[r].published = rec[r].published /\ rec'[r].stop = rec[r].stop
             /\ rec'[r].late = rec[r].late
  <2>1. rec[r] \in Record
    BY DEF TypeOK, TasksOK
  <2>2. EpisodeOf(r) \in S =>
          LET new == Extended(r, leases'[EpisodeOf(r)]) IN
          /\ new \in Record /\ new.key = rec[r].key /\ new.pc = rec[r].pc
          /\ new.published = rec[r].published /\ new.stop = rec[r].stop /\ new.late = rec[r].late
    BY <1>1, ExtendedType DEF TypeOK
  <2>. QED  BY <2>1, <2>2 DEF SetLeases
<1>. QED  BY <1>1, <1>2, <1>3 DEF SetLeases

\* The Episodes' messages, targets and notices.
LEMMA EpisodeType ==
  ASSUME TypeOK, NEW e \in Episodes,
         OnLeaseExpired(e) \/ Event(e) \/ EventFails(e) \/ Expire(e)
  PROVE  TypeOK'
<1>. USE DEF TypeOK
<1>2. CASE OnLeaseExpired(e)
  <2>1. ASSUME NEW r \in Recordings
        PROVE  rec'[r] \in Record
    <3>1. rec[r] \in Record /\ Signalled(r) \in BOOLEAN
      BY DEF TasksOK, Signalled, Record
    <3>. QED  BY <1>2, <3>1 DEF OnLeaseExpired, Record
  <2>2. rec' \in [Recordings -> Record]
    BY <1>2, <2>1 DEF OnLeaseExpired
  <2>. QED  BY <1>2, <2>2 DEF OnLeaseExpired, world, rows, messages, maps, disk, WorldOK, RowsOK, MessagesOK,
                              LeasesOK, TasksOK, DiskOK, BarriersOK
<1>1. ASSUME NEW until \in Time, NEW wanted \in SUBSET Devices, Joins(e, until, wanted), state' = state
      PROVE  RowsOK'
  <2>1. {e} \X wanted \subseteq Keys
    BY DEF Keys
  <2>. QED  BY <1>1, <2>1 DEF Joins, RowsOK
<1>3. CASE Event(e)
  <2>1. PICK until \in Time, wanted \in (SUBSET Devices) \ {{}} :
          /\ \A d \in wanted : events[<<e, d>>] < MaxUnhandled
          /\ Joins(e, until, wanted)
          /\ SetLeases({e}, revision, [x \in Episodes |-> until])
          /\ events' = [k \in Keys |-> IF k \in {e} \X wanted THEN events[k] + 1 ELSE events[k]]
    BY <1>3 DEF Event
  <2>2. RowsOK'
    BY <1>1, <1>3, <2>1 DEF Event
  <2>3. rec' \in [Recordings -> Record] /\ LeasesOK'
    <3>1. revision \in 0 .. MaxRevision /\ [x \in Episodes |-> until] \in [Episodes -> Time]
      BY <2>1 DEF MessagesOK
    <3>. HIDE DEF TypeOK
    <3>. QED  BY <2>1, <3>1, LeaseType
  <2>4. ASSUME NEW k \in Keys
        PROVE  events'[k] \in 0 .. MaxUnhandled
    <3>1. events[k] \in 0 .. MaxUnhandled /\ (k \in {e} \X wanted => events[k] < MaxUnhandled)
      BY <2>1 DEF MessagesOK
    <3>. QED  BY <2>1, <3>1
  <2>5. MessagesOK'
    BY <1>3, <2>1, <2>4 DEF Event, MessagesOK
  <2>. QED  BY <1>3, <2>2, <2>3, <2>5 DEF Event, world, maps, disk, WorldOK, TasksOK, DiskOK, BarriersOK
<1>5. CASE EventFails(e)
  <2>1. RowsOK'
    BY <1>1, <1>5 DEF EventFails
  <2>. QED  BY <1>5, <2>1 DEF EventFails, messages, maps, disk, WorldOK, MessagesOK, LeasesOK, TasksOK, DiskOK,
                              BarriersOK
<1>4. CASE Expire(e)
  BY <1>4 DEF Expire, world, messages, maps, disk, WorldOK, RowsOK, MessagesOK, LeasesOK, TasksOK,
              DiskOK, BarriersOK, Time
<1>. QED  BY <1>2, <1>3, <1>4, <1>5

LEMMA KeyType ==
  ASSUME TypeOK, NEW k \in Keys, OnEvent(k) \/ NoSource(k) \/ ResumeTarget(k)
  PROVE  TypeOK'
<1>. USE DEF TypeOK
<1>1. TasksOK' /\ DiskOK' /\ BarriersOK'
  BY StartType DEF OnEvent, NoSource, ResumeTarget, maps, disk, TasksOK, DiskOK, BarriersOK
<1>2. MessagesOK'
  BY DEF OnEvent, NoSource, ResumeTarget, Handled, MessagesOK
<1>3. WorldOK' /\ RowsOK' /\ LeasesOK'
  BY DEF OnEvent, NoSource, ResumeTarget, world, rows, WorldOK, RowsOK, LeasesOK
<1>. QED  BY <1>1, <1>2, <1>3

\* A barrier takes on recordings, and publishes one of them.
LEMMA BarrierUpdates ==
  ASSUME BarriersOK, NEW b \in Barriers
  PROVE  /\ barrier[b] \in Barrier /\ barrier[b].todo \subseteq Recordings
         /\ \A x \in Barrier : Becomes(b, x) => BarriersOK'
         /\ \A step \in {"idle", "join", "drain", "publishing", "committed", "returned", "closed"} :
              Moves(b, step) => BarriersOK'
         /\ IdleBarrier \in Barrier
<1>1. barrier[b] \in Barrier
  BY DEF BarriersOK
<1>2. \A step \in {"idle", "join", "drain", "publishing", "committed", "returned", "closed"} :
        [barrier[b] EXCEPT !.at = step] \in Barrier
  BY <1>1 DEF Barrier
<1>3. IdleBarrier \in Barrier /\ barrier[b].todo \subseteq Recordings
  BY <1>1 DEF Barrier, IdleBarrier, None
<1>. QED  BY <1>1, <1>2, <1>3 DEF BarriersOK, Becomes, Moves

LEMMA BarrierType ==
  ASSUME TypeOK, NEW b \in Barriers, Drain(b) \/ BarrierSink(b) \/ BarrierComplete(b)
  PROVE  TypeOK'
<1>. USE BarrierUpdates DEF TypeOK
<1>1. CASE Drain(b)
  <2>1. PICK r \in barrier[b].todo :
          IF rec[r].published
          THEN /\ recoverable' = [recoverable EXCEPT ![rec[r].key] = None]
               /\ barrier' = [barrier EXCEPT ![b].todo = @ \ {r}]
          ELSE /\ Take(b, r)
               /\ barrier' = [barrier EXCEPT ![b].at = "publishing", ![b].current = r]
    BY <1>1 DEF Drain
  <2>2. r \in Recordings /\ r \in 0 .. MaxRecordings /\ None \in 0 .. MaxRecordings
    BY <2>1 DEF Recordings, None
  <2>3. TasksOK'
    BY <1>1, <2>1, <2>2 DEF Drain, Take, TasksOK
  <2>4. [barrier[b] EXCEPT !.todo = @ \ {r}] \in Barrier
        /\ [barrier[b] EXCEPT !.at = "publishing", !.current = r] \in Barrier
    BY <2>2 DEF Barrier
  <2>5. BarriersOK'
    BY <2>1, <2>4 DEF BarriersOK
  <2>. QED  BY <1>1, <2>3, <2>5 DEF Drain, world, rows, messages, disk, WorldOK, RowsOK, MessagesOK,
                                    LeasesOK, DiskOK
<1>2. CASE BarrierSink(b)
  <2>1. BarriersOK'
    BY <1>2 DEF BarrierSink
  <2>. QED  BY <1>2, <2>1 DEF BarrierSink, world, rows, messages, maps, WorldOK, RowsOK, MessagesOK,
                              LeasesOK, TasksOK, DiskOK
<1>3. CASE BarrierComplete(b)
  <2>. DEFINE r == barrier[b].current
  <2>1. [barrier[b] EXCEPT !.at = "drain", !.todo = @ \ {r}, !.current = None] \in Barrier
    <3>1. barrier[b] \in Barrier
      OBVIOUS
    <3>. QED  BY ONLY <3>1, NoneType DEF Barrier
  <2>2. BarriersOK'
    BY <1>3, <2>1 DEF BarrierComplete
  <2>3. rec' \in [Recordings -> Record]
    <3>1. CASE r \in Recordings
      BY <1>3, <3>1, RecordUpdates DEF BarrierComplete, TasksOK, Steps, Live
    <3>2. CASE r \notin Recordings
      BY <1>3, <3>2 DEF BarrierComplete, TasksOK
    <3>. QED  BY <3>1, <3>2
  <2>4. TasksOK'
    <3>1. recordings' = recordings /\ (recoverable' = recoverable \/ recoverable' = [recoverable EXCEPT ![rec[r].key] = None])
      BY <1>3 DEF BarrierComplete, Forget
    <3>. QED  BY <2>3, <3>1, NoneType DEF TasksOK
  <2>. QED  BY <1>3, <2>2, <2>4 DEF BarrierComplete, Sealed, world, rows, messages, WorldOK, RowsOK,
                                    MessagesOK, LeasesOK, DiskOK
<1>. QED  BY <1>1, <1>2, <1>3

LEMMA EngineType ==
  ASSUME TypeOK, NEW e \in Episodes, EngineStep(e) \/ BarrierFails(e)
  PROVE  TypeOK'
<1>. USE BarrierUpdates DEF TypeOK
<1>0. e \in Barriers
  BY DEF Barriers
<1>1. CASE FinalizeEpisode(e)
  <2>1. TasksOK'
    BY <1>1, StopAllType DEF FinalizeEpisode
  <2>2. [at |-> IF Active(e) = {} THEN "drain" ELSE "join", todo |-> IF Active(e) = {} THEN Parked(e) ELSE Active(e),
         owed |-> Active(e) \union Idle(e), current |-> None] \in Barrier
    BY MappedType DEF Barrier, None
  <2>3. BarriersOK'
    BY <1>0, <1>1, <2>2 DEF FinalizeEpisode
  <2>. QED  BY <1>1, <2>1, <2>3 DEF FinalizeEpisode, world, rows, messages, disk, WorldOK, RowsOK, MessagesOK,
                                    LeasesOK, DiskOK
<1>2. CASE Join(e)
  <2>1. \A k \in Keys : recoverable'[k] \in 0 .. MaxRecordings
    <3>1. ASSUME NEW k \in Keys, NEW x \in Crashed(e), rec[x].key = k
          PROVE  (CHOOSE r \in Crashed(e) : rec[r].key = k) \in 0 .. MaxRecordings
      <4>1. (CHOOSE r \in Crashed(e) : rec[r].key = k) \in Crashed(e)
        BY <3>1
      <4>. QED  BY <1>0, <4>1 DEF Crashed, Recordings
    <3>. QED  BY <1>2, <3>1 DEF Join, TasksOK
  <2>2. TasksOK'
    BY <1>2, <2>1 DEF Join, TasksOK
  <2>3. [barrier[e] EXCEPT !.at = "drain", !.todo = Parked(e)] \in Barrier
    BY <1>0, MappedType DEF Barrier
  <2>4. BarriersOK'
    BY <1>0, <1>2, <2>3 DEF Join
  <2>. QED  BY <1>2, <2>2, <2>4 DEF Join, world, rows, messages, disk, WorldOK, RowsOK, MessagesOK,
                                    LeasesOK, DiskOK
<1>3. CASE FinalizeReturns(e) \/ Close(e)
  <2>1. BarriersOK'
    BY <1>0, <1>3 DEF FinalizeReturns, Close
  <2>2. RowsOK' /\ WorldOK' /\ MessagesOK' /\ LeasesOK' /\ TasksOK' /\ DiskOK'
    BY <1>3 DEF FinalizeReturns, Close, world, rows, messages, maps, disk, WorldOK, RowsOK, MessagesOK,
                LeasesOK, TasksOK, DiskOK
  <2>. QED  BY <2>1, <2>2
<1>4. CASE OnClosed(e)
  <2>1. TasksOK' /\ BarriersOK'
    BY <1>0, <1>4, StopAllType DEF OnClosed
  <2>. QED  BY <1>4, <2>1 DEF OnClosed, world, rows, messages, disk, WorldOK, RowsOK, MessagesOK,
                              LeasesOK, DiskOK
<1>5. CASE BarrierFails(e)
  <2>1. BarriersOK'
    BY <1>0, <1>5 DEF BarrierFails
  <2>2. rec' \in [Recordings -> Record] /\ DiskOK'
    <3>1. CASE ~At(e, "committed")
      BY <1>5, <3>1 DEF BarrierFails, disk, DiskOK, TasksOK
    <3>2. CASE At(e, "committed") /\ barrier[e].current \in Recordings
      <4>1. rec \in [Recordings -> Record] /\ "ended" \in Steps
        BY DEF TasksOK, Steps, Live
      <4>2. [rec EXCEPT ![barrier[e].current].published = TRUE] \in [Recordings -> Record]
        BY <3>2, <4>1, RecordUpdates
      <4>. QED  BY <1>5, <3>2, <4>2 DEF BarrierFails, Sealed, DiskOK
    <3>3. CASE At(e, "committed") /\ barrier[e].current \notin Recordings
      BY <1>5, <3>3 DEF BarrierFails, Sealed, DiskOK, TasksOK
    <3>. QED  BY <3>1, <3>2, <3>3
  <2>. QED  BY <1>5, <2>1, <2>2 DEF BarrierFails, rows, messages, maps, WorldOK, RowsOK, MessagesOK,
                                    LeasesOK, TasksOK
<1>. QED  BY <1>1, <1>2, <1>3, <1>4, <1>5 DEF EngineStep

LEMMA DieType ==
  ASSUME TypeOK, failures + crashes <= MaxFaults, Die
  PROVE  TypeOK'
<1>. USE DEF TypeOK
<1>1. ASSUME NEW r \in Recordings
      PROVE  rec'[r] \in Record
  <2>1. rec[r] \in Record
    BY DEF TasksOK
  <2>. QED  BY <2>1 DEF Die, Unused, Record, Steps, Live
<1>2. TasksOK'
  BY <1>1 DEF Die, TasksOK, None
<1>3. BarriersOK'
  BY DEF Die, BarriersOK, IdleBarrier, Barrier, None
<1>. QED  BY <1>2, <1>3 DEF Die, rows, disk, WorldOK, RowsOK, MessagesOK, LeasesOK, DiskOK

LEMMA ProcessType ==
  ASSUME TypeOK, \/ ChangeGrace \/ Shutdown \/ Crash \/ Recover \/ Resume \/ ResumeRest
                 \/ ResumeDone \/ ResumeFails \/ Tick \/ UNCHANGED vars
  PROVE  TypeOK'
<1>. USE BarrierUpdates DEF TypeOK
<1>0. Startup \in Barriers
  BY DEF Barriers
<1>1. CASE ChangeGrace
  <2>1. PICK until \in [Episodes -> Time], remembered \in SUBSET Episodes :
          /\ horizon' = [e \in Episodes |-> IF state[e] = "open" THEN until[e] ELSE horizon[e]]
          /\ SetLeases(remembered, revision + 1, until)
    BY <1>1 DEF ChangeGrace
  <2>2. revision + 1 \in 0 .. MaxRevision
    BY <1>1 DEF ChangeGrace, MessagesOK
  <2>3. rec' \in [Recordings -> Record] /\ LeasesOK'
    <3>. HIDE DEF TypeOK
    <3>. QED  BY <2>1, <2>2, LeaseType
  <2>4. MessagesOK' /\ RowsOK'
    BY <1>1, <2>1, <2>2 DEF ChangeGrace, MessagesOK, RowsOK
  <2>. QED  BY <1>1, <2>3, <2>4 DEF ChangeGrace, world, maps, disk, WorldOK, TasksOK, DiskOK, BarriersOK
<1>2. CASE Shutdown
  <2>1. TasksOK'
    BY <1>2, StopAllType DEF Shutdown
  <2>. QED  BY <1>2, <2>1 DEF Shutdown, rows, messages, disk, WorldOK, RowsOK, MessagesOK, LeasesOK,
                              DiskOK, BarriersOK
<1>3. CASE Crash \/ ResumeFails
  BY <1>3, DieType DEF Crash, ResumeFails, WorldOK
<1>4. CASE Recover
  <2>1. DiskOK'
    BY <1>4 DEF Recover, DiskOK
  <2>2. TasksOK'
    BY <1>4 DEF Recover, TasksOK
  <2>. QED  BY <1>4, <2>1, <2>2 DEF Recover, rows, messages, WorldOK, RowsOK, MessagesOK, LeasesOK,
                                    BarriersOK
<1>5. CASE Resume
  <2>1. rec' \in [Recordings -> Record] /\ LeasesOK'
    <3>1. {e \in Episodes : state[e] = "open"} \in SUBSET Episodes /\ 0 \in 0 .. MaxRevision
          /\ horizon \in [Episodes -> Time]
      BY DEF RowsOK
    <3>. HIDE DEF TypeOK
    <3>. QED  BY <1>5, <3>1, LeaseType DEF Resume
  <2>2. MessagesOK'
    BY <1>5 DEF Resume, MessagesOK
  <2>. QED  BY <1>5, <2>1, <2>2 DEF Resume, rows, maps, disk, WorldOK, RowsOK, TasksOK, DiskOK, BarriersOK
<1>6. CASE ResumeRest
  <2>. DEFINE rest == UNION {Parked(e) : e \in Episodes}
  <2>1. rest \subseteq Recordings
    BY MappedType
  <2>2. recoverable' = recoverable \/ \E r \in rest : recoverable' = [recoverable EXCEPT ![rec[r].key] = None]
    BY <1>6 DEF ResumeRest
  <2>3. TasksOK'
    BY <1>6, <2>2, NoneType DEF ResumeRest, TasksOK
  <2>. HIDE DEF rest
  <2>4. ASSUME NEW r \in rest
        PROVE  /\ [IdleBarrier EXCEPT !.at = "drain", !.todo = rest \ {r}] \in Barrier
               /\ [IdleBarrier EXCEPT !.at = "publishing", !.todo = rest, !.current = r] \in Barrier
    <3>1. r \in 0 .. MaxRecordings
      BY <2>1 DEF Recordings
    <3>. QED  BY ONLY <2>1, <2>4, <3>1, NoneType DEF Barrier, IdleBarrier
  <2>5. BarriersOK'
    BY <1>0, <1>6, <2>4 DEF ResumeRest, rest
  <2>. QED  BY <1>6, <2>3, <2>5 DEF ResumeRest, world, rows, disk, WorldOK, RowsOK, MessagesOK,
                                    LeasesOK, DiskOK
<1>7. CASE ResumeDone
  BY <1>0, <1>7 DEF ResumeDone, rows, messages, maps, disk, WorldOK, RowsOK, MessagesOK, LeasesOK, TasksOK,
                    DiskOK
<1>8. CASE Tick
  BY <1>8 DEF Tick, rows, messages, maps, disk, WorldOK, RowsOK, MessagesOK, LeasesOK, TasksOK, DiskOK,
              BarriersOK, Time
<1>9. CASE UNCHANGED vars
  BY <1>9 DEF vars, world, rows, messages, maps, disk, WorldOK, RowsOK, MessagesOK, LeasesOK, TasksOK,
              DiskOK, BarriersOK
<1>. QED  BY <1>1, <1>2, <1>3, <1>4, <1>5, <1>6, <1>7, <1>8, <1>9

LEMMA TypeStep ==
  ASSUME TypeOK, [Next]_vars
  PROVE  TypeOK'
  BY TaskType, BarrierType, EngineType, EpisodeType, KeyType, ProcessType DEF Next, CaptureTask, BarrierStep

-----------------------------------------------------------------------------
(***************************************************************************)
(* What a step of a capture task comes to.                                 *)
(***************************************************************************)
GoesOn(r) ==
  /\ rec[r].pc \in Capturing /\ rec'[r].pc \in Capturing \union {"dead"}
  /\ rec'[r].published = rec[r].published
  /\ UNCHANGED <<recordings, recoverable, workspace, evidence>>
Leaves(r) ==
  /\ rec[r].pc \in Capturing /\ rec'[r].pc = "ended" /\ Stopping(r)
  /\ rec'[r].published = rec[r].published
  /\ UNCHANGED <<recordings, recoverable, workspace, evidence>>
Parks(r) ==
  /\ rec[r].pc \in Capturing /\ rec'[r].pc = "ended"
  /\ rec'[r].published = rec[r].published
  /\ recordings' = [recordings EXCEPT ![rec[r].key] = None]
  /\ recoverable' = [recoverable EXCEPT ![rec[r].key] = r]
  /\ UNCHANGED <<workspace, evidence>>
Publishes(r) ==
  /\ rec[r].pc \in Capturing /\ rec'[r].pc = IF rec[r].published THEN "ended" ELSE "publishing"
  /\ rec'[r].published = rec[r].published
  /\ \/ ~Mapped(r) /\ recordings' = recordings
     \/ /\ recordings' = [recordings EXCEPT ![rec[r].key] = None]
        /\ state[EpisodeOf(r)] # "open" \/ DeviceOf(r) \in piped
  /\ UNCHANGED <<recoverable, workspace, evidence>>
Commits(r) ==
  /\ rec[r].pc = "publishing" /\ rec'[r].pc = "committed" /\ state[EpisodeOf(r)] # "closed"
  /\ rec'[r].published = rec[r].published
  /\ evidence' = [evidence EXCEPT ![r] = TRUE]
  /\ UNCHANGED <<recordings, recoverable, workspace>>
Retains(r) ==
  /\ rec[r].pc = "publishing" /\ rec'[r].pc = "ended"
  /\ rec'[r].published = rec[r].published
  /\ state[EpisodeOf(r)] = "closed" \/ failures' > 0
  /\ recoverable' = [recoverable EXCEPT ![rec[r].key] = r]
  /\ UNCHANGED <<recordings, workspace, evidence>>
Completes(r) ==
  /\ rec[r].pc = "committed" /\ rec'[r].pc = "ended"
  /\ rec'[r].published = TRUE
  /\ \/ recoverable' = recoverable
     \/ recoverable' = [recoverable EXCEPT ![rec[r].key] = r] /\ failures' > 0
  /\ workspace' = [workspace EXCEPT ![r] = "sealed"]
  /\ UNCHANGED <<recordings, evidence>>

TaskKeeps(r) ==
  /\ rec'[r].key = rec[r].key /\ rec'[r].deadline = rec[r].deadline /\ rec'[r].stop = rec[r].stop
  /\ rec'[r].late = rec[r].late
  /\ \A s \in Recordings \ {r} : rec'[s] = rec[s]
  /\ failures' >= failures
  /\ UNCHANGED <<now, crashes, phase, piped, state, targets, events, resumed, leases, barrier>>

\* A task leaves the other records alone, and its own keeps key and deadline.
LEMMA TaskFrameStep ==
  ASSUME TypeOK, NEW r \in Recordings, CaptureTask(r)
  PROVE  TaskKeeps(r)
<1>0. rec \in [Recordings -> Record] /\ rec[r] \in Record /\ failures \in Nat
  BY DEF TypeOK, TasksOK, WorldOK
<1>1. /\ \A s \in Recordings \ {r} : rec'[s] = rec[s]
      /\ rec'[r].key = rec[r].key /\ rec'[r].deadline = rec[r].deadline /\ rec'[r].stop = rec[r].stop
      /\ rec'[r].late = rec[r].late
  <2>1. CASE LoopTop(r) \/ Check(r) \/ Retry(r) \/ Recheck(r) \/ ChildExits(r)
    <3>1. \/ \E step \in Steps : Goto(r, step)
          \/ rec' = [rec EXCEPT ![r].pc = "ended", ![r].expired = TRUE, ![r].signalled = FALSE]
      BY <2>1 DEF LoopTop, Check, Retry, Recheck, ChildExits, Leave, Park, Finalize, Publish, Goto, Steps, Live
    <3>2. rec' = [rec EXCEPT ![r] = rec'[r]]
      BY <1>0, <3>1 DEF Goto
    <3>3. \/ \E step \in Steps : rec'[r] = [rec[r] EXCEPT !.pc = step, !.signalled = FALSE]
          \/ rec'[r] = [rec[r] EXCEPT !.pc = "ended", !.expired = TRUE, !.signalled = FALSE]
      BY <1>0, <3>1 DEF Goto
    <3>4. /\ rec'[r].key = rec[r].key /\ rec'[r].deadline = rec[r].deadline /\ rec'[r].stop = rec[r].stop
          /\ rec'[r].late = rec[r].late
      BY <1>0, <3>3 DEF Record
    <3>. QED  BY <1>0, <3>2, <3>4
  <2>2. CASE Spawned(r) \/ LeaseEnds(r)
    BY <1>0, <2>2 DEF Spawned, LeaseEnds, Goto, Record
  <2>3. CASE SinkAnswers(r) \/ TaskDies(r) \/ SinkRefuses(r) \/ SinkFails(r)
    BY <1>0, <2>3 DEF SinkAnswers, TaskDies, SinkRefuses, SinkFails, Retained, Goto, Record
  <2>4. CASE Complete(r) \/ JournalFails(r)
    BY <1>0, <2>4 DEF Complete, JournalFails, Record
  <2>. QED  BY <2>1, <2>2, <2>3, <2>4 DEF CaptureTask, TaskStep
<1>2. failures' >= failures /\ UNCHANGED <<now, crashes, phase, piped, state, targets, events, resumed, leases, barrier>>
  BY <1>0 DEF CaptureTask, TaskStep, LoopTop, Check, Retry, Recheck, ChildExits, Spawned, LeaseEnds,
              TaskFrame, SinkAnswers, TaskDies, SinkRefuses, SinkFails, Retained, Complete, JournalFails,
              world, rows, messages
<1>. QED  BY <1>1, <1>2 DEF TaskKeeps

\* The ends of a capture task, wherever it is.
LEMMA Ends ==
  ASSUME TypeOK, NEW r \in Recordings, rec[r].pc \in Capturing, UNCHANGED disk
  PROVE  /\ Leave(r) /\ Stopping(r) => Leaves(r)
         /\ Park(r) => Parks(r)
         /\ Finalize(r) /\ ~Mapped(r) => Parks(r) \/ Publishes(r)
         /\ Drop(r) /\ Publish(r) /\ (state[EpisodeOf(r)] # "open" \/ DeviceOf(r) \in piped) => Publishes(r)
         /\ \A step \in Capturing : Goto(r, step) /\ UNCHANGED maps => GoesOn(r)
<1>. USE DEF maps, disk, Goto
<1>1. rec \in [Recordings -> Record] /\ rec[r] \in Record
  BY DEF TypeOK, TasksOK
<1>2. \A step : Goto(r, step) => rec'[r].pc = step /\ rec'[r].published = rec[r].published
  BY <1>1 DEF Record
<1>3. Leave(r) /\ Stopping(r) => Leaves(r)
  BY <1>2 DEF Leave, Leaves
<1>4. Park(r) => Parks(r)
  BY <1>1 DEF Park, Parks, Record
<1>5. Publish(r) => /\ rec'[r].pc = IF rec[r].published THEN "ended" ELSE "publishing"
                    /\ rec'[r].published = rec[r].published
  BY <1>2 DEF Publish
<1>6. Finalize(r) /\ ~Mapped(r) => Parks(r) \/ Publishes(r)
  BY <1>4, <1>5 DEF Finalize, Publishes
<1>7. Drop(r) /\ Publish(r) /\ (state[EpisodeOf(r)] # "open" \/ DeviceOf(r) \in piped) => Publishes(r)
  BY <1>5 DEF Drop, Publishes
<1>8. \A step \in Capturing : Goto(r, step) /\ UNCHANGED maps => GoesOn(r)
  BY <1>2 DEF GoesOn
<1>. QED  BY <1>3, <1>4, <1>6, <1>7, <1>8

\* Every step of a task is one of these.
LEMMA TaskOutcome ==
  ASSUME TypeOK, NEW r \in Recordings, CaptureTask(r)
  PROVE  \/ GoesOn(r) \/ Leaves(r) \/ Parks(r) \/ Publishes(r) \/ Commits(r) \/ Retains(r) \/ Completes(r)
<1>0. rec \in [Recordings -> Record] /\ rec[r] \in Record /\ failures \in Nat
  BY DEF TypeOK, TasksOK, WorldOK
<1>1. CASE LoopTop(r) \/ Check(r) \/ Retry(r) \/ Recheck(r) \/ ChildExits(r)
  <2>1. rec[r].pc \in Capturing /\ UNCHANGED disk
    BY <1>1 DEF LoopTop, Check, Retry, Recheck, ChildExits, Capturing, TaskFrame
  <2>2. {"spawn", "check", "retry", "recheck", "top"} \subseteq Capturing
    BY DEF Capturing
  <2>3. CASE LoopTop(r)
    BY <2>1, <2>2, <2>3, Ends DEF LoopTop
  <2>4. CASE Check(r)
    BY <2>1, <2>2, <2>4, Ends DEF Check
  <2>5. CASE Retry(r)
    BY <2>1, <2>2, <2>5, Ends DEF Retry
  <2>6. CASE Recheck(r)
    BY <2>1, <2>2, <2>6, Ends DEF Recheck
  <2>7. CASE ChildExits(r)
    BY <2>1, <2>2, <2>7, Ends DEF ChildExits
  <2>. QED  BY <1>1, <2>3, <2>4, <2>5, <2>6, <2>7
<1>2. CASE Spawned(r) \/ LeaseEnds(r) \/ TaskDies(r)
  BY <1>0, <1>2 DEF Spawned, LeaseEnds, TaskDies, TaskFrame, Goto, GoesOn, Capturing, Record, maps, disk
<1>3. CASE SinkAnswers(r)
  BY <1>0, <1>3 DEF SinkAnswers, Accepts, Goto, Commits, Record, maps
<1>4. CASE SinkRefuses(r) \/ SinkFails(r)
  BY <1>0, <1>4 DEF SinkRefuses, SinkFails, Retained, Retains, Accepts, Record, disk
<1>5. CASE Complete(r) \/ JournalFails(r)
  BY <1>0, <1>5 DEF Complete, JournalFails, Completes, Sealed, Record, maps
<1>. QED  BY <1>1, <1>2, <1>3, <1>4, <1>5 DEF CaptureTask, TaskStep

-----------------------------------------------------------------------------
(***************************************************************************)
(* The other steps.                                                        *)
(***************************************************************************)
\* Messages come and are handled, time passes, leases are restored.
Quiet ==
  /\ \A r \in Recordings : /\ rec'[r].key = rec[r].key /\ rec'[r].pc = rec[r].pc
                           /\ rec'[r].published = rec[r].published /\ rec'[r].stop = rec[r].stop
                           /\ rec'[r].late = rec[r].late
  /\ failures' >= failures
  /\ UNCHANGED <<crashes, piped, state, recordings, recoverable, workspace, evidence, barrier>>
  /\ phase' = phase \/ (phase = "recovering" /\ phase' = "resuming")
  /\ phase = "down" => leases' = leases

QuietStep ==
  \/ \E e \in Episodes : OnLeaseExpired(e) \/ Event(e) \/ EventFails(e)
  \/ \E k \in Keys : NoSource(k) \/ (OnEvent(k) /\ recordings[k] # None)
  \/ ChangeGrace \/ Resume \/ Tick \/ UNCHANGED vars

\* Leases are set by an Event, a change of the grace, or when capture is resumed.
LEMMA LeaseSteps ==
  ASSUME TypeOK, (\E e \in Episodes : Event(e)) \/ ChangeGrace \/ Resume
  PROVE  \E S \in SUBSET Episodes, number \in 0 .. MaxRevision, until \in [Episodes -> Time] :
           SetLeases(S, number, until)
<1>0. revision \in 0 .. MaxRevision /\ horizon \in [Episodes -> Time] /\ 0 \in 0 .. MaxRevision
  BY DEF TypeOK, MessagesOK, RowsOK
<1>1. ASSUME NEW e \in Episodes, Event(e)
      PROVE  \E S \in SUBSET Episodes, number \in 0 .. MaxRevision, until \in [Episodes -> Time] :
               SetLeases(S, number, until)
  <2>1. PICK until \in Time : SetLeases({e}, revision, [x \in Episodes |-> until])
    BY <1>1 DEF Event
  <2>2. [x \in Episodes |-> until] \in [Episodes -> Time] /\ {e} \in SUBSET Episodes
    OBVIOUS
  <2>. QED  BY <1>0, <2>1, <2>2
<1>2. CASE ChangeGrace
  <2>1. revision + 1 \in 0 .. MaxRevision
    BY <1>0, <1>2 DEF ChangeGrace
  <2>2. PICK until \in [Episodes -> Time], remembered \in SUBSET Episodes :
          SetLeases(remembered, revision + 1, until)
    BY <1>2 DEF ChangeGrace
  <2>. QED  BY <2>1, <2>2
<1>3. CASE Resume
  BY <1>0, <1>3 DEF Resume
<1>. QED  BY <1>1, <1>2, <1>3

LEMMA QuietSteps ==
  ASSUME TypeOK, QuietStep
  PROVE  Quiet
<1>. USE DEF Quiet, world, rows, messages, maps, disk
<1>0. rec \in [Recordings -> Record] /\ (\A r \in Recordings : rec[r] \in Record) /\ failures \in Nat
  BY DEF TypeOK, TasksOK, WorldOK
<1>1. CASE (\E e \in Episodes : Event(e)) \/ ChangeGrace \/ Resume
  <2>1. \A r \in Recordings : /\ rec'[r].key = rec[r].key /\ rec'[r].pc = rec[r].pc
                              /\ rec'[r].published = rec[r].published /\ rec'[r].stop = rec[r].stop
                              /\ rec'[r].late = rec[r].late
    BY <1>1, LeaseSteps, LeaseType
  <2>2. /\ UNCHANGED <<failures, crashes, piped, state, recordings, recoverable, workspace, evidence, barrier>>
        /\ phase' = phase \/ (phase = "recovering" /\ phase' = "resuming")
        /\ phase # "down"
    BY <1>1 DEF Event, ChangeGrace, Resume, Running
  <2>. QED  BY <1>0, <2>1, <2>2
<1>2. ASSUME NEW e \in Episodes, EventFails(e)
      PROVE  Quiet
  BY <1>0, <1>2 DEF EventFails
<1>3. ASSUME NEW e \in Episodes, OnLeaseExpired(e)
      PROVE  Quiet
  <2>1. ASSUME NEW r \in Recordings
        PROVE  /\ rec'[r].key = rec[r].key /\ rec'[r].pc = rec[r].pc
               /\ rec'[r].published = rec[r].published /\ rec'[r].stop = rec[r].stop
               /\ rec'[r].late = rec[r].late
    <3>1. rec[r] \in Record
      BY <1>0
    <3>2. rec'[r] = [rec[r] EXCEPT !.expired = TRUE, !.signalled = Signalled(r)] \/ rec'[r] = rec[r]
      BY <1>3 DEF OnLeaseExpired
    <3>. QED  BY ONLY <3>1, <3>2 DEF Record
  <2>2. UNCHANGED <<failures, crashes, piped, phase, state, leases, recordings, recoverable, workspace, evidence, barrier>>
    BY <1>3 DEF OnLeaseExpired
  <2>. QED  BY <1>0, <2>1, <2>2
<1>6. ASSUME NEW k \in Keys, NoSource(k) \/ (OnEvent(k) /\ recordings[k] # None)
      PROVE  Quiet
  BY <1>0, <1>6 DEF NoSource, OnEvent
<1>7. CASE Tick \/ UNCHANGED vars
  BY <1>0, <1>7 DEF Tick, vars
<1>. QED  BY <1>1, <1>2, <1>3, <1>6, <1>7 DEF QuietStep

\* A recording starts under a key that has none.
Starts(k, r) ==
  /\ Running /\ recordings[k] = None /\ r \in Candidate(k)
  /\ Start(k, r)
  /\ UNCHANGED <<failures, crashes, piped, phase, state, leases>>

LEMMA StartSteps ==
  ASSUME TypeOK, NEW k \in Keys, (OnEvent(k) /\ recordings[k] = None) \/ ResumeTarget(k)
  PROVE  \E r \in Recordings : Starts(k, r)
<1>0. \A r \in Candidate(k) : r \in Recordings
  BY DEF Candidate, Fresh, TypeOK, TasksOK, None, Recordings
<1>1. CASE OnEvent(k) /\ recordings[k] = None
  BY <1>0, <1>1 DEF OnEvent, Starts, world, rows
<1>2. CASE ResumeTarget(k)
  BY <1>0, <1>2 DEF ResumeTarget, Running, Starts, world, rows
<1>. QED  BY <1>1, <1>2

LEMMA StepKinds ==
  ASSUME TypeOK, [Next]_vars
  PROVE  \/ \E r \in Recordings : CaptureTask(r)
         \/ QuietStep
         \/ \E k \in Keys, r \in Recordings : Starts(k, r)
         \/ \E b \in Barriers : Drain(b) \/ BarrierSink(b) \/ BarrierComplete(b)
         \/ \E e \in Episodes : \/ FinalizeEpisode(e) \/ Join(e) \/ FinalizeReturns(e) \/ Close(e)
                               \/ OnClosed(e) \/ BarrierFails(e) \/ Expire(e)
         \/ Shutdown \/ Die \/ Recover \/ ResumeRest \/ ResumeDone
<1>1. ASSUME NEW k \in Keys, OnEvent(k) \/ ResumeTarget(k)
      PROVE  QuietStep \/ \E x \in Keys, r \in Recordings : Starts(x, r)
  BY <1>1, StartSteps DEF QuietStep
<1>. QED  BY <1>1 DEF Next, QuietStep, CaptureTask, EngineStep, BarrierStep, Crash, ResumeFails

\* A start changes one barrier at most, which waits for its Episode's tasks.
Same(b) == /\ barrier'[b].at = barrier[b].at /\ barrier'[b].owed = barrier[b].owed
           /\ barrier'[b].current = barrier[b].current
LEMMA StartBarriers ==
  ASSUME TypeOK, NEW k \in Keys, NEW r \in Recordings, Starts(k, r)
  PROVE  \A b \in Barriers :
           \/ barrier'[b] = barrier[b]
           \/ b = k[1] /\ At(b, "join") /\ Same(b) /\ barrier'[b].todo = barrier[b].todo \ {r}
<1>1. k[1] \in Barriers /\ barrier \in [Barriers -> Barrier]
  BY KeyParts DEF Barriers, TypeOK, BarriersOK
<1>2. barrier[k[1]] \in Barrier
  BY <1>1
<1>3. [barrier[k[1]] EXCEPT !.todo = @] = barrier[k[1]]
  BY <1>2 DEF Barrier
<1>4. LET one == [barrier[k[1]] EXCEPT !.todo = @ \ {r}] IN
      /\ one.at = barrier[k[1]].at /\ one.owed = barrier[k[1]].owed /\ one.current = barrier[k[1]].current
      /\ one.todo = barrier[k[1]].todo \ {r}
  BY <1>2 DEF Barrier
<1>5. \A b \in Barriers \ {k[1]} : Unawaited(k[1], r)[b] = barrier[b]
  BY <1>1 DEF Unawaited
<1>6. Unawaited(k[1], r)[k[1]] = IF At(k[1], "join") THEN [barrier[k[1]] EXCEPT !.todo = @ \ {r}]
                                 ELSE barrier[k[1]]
  BY <1>1, <1>3 DEF Unawaited
<1>7. barrier' \in {barrier, Unawaited(k[1], r)}
  BY DEF Starts, Start
<1>. QED  BY <1>4, <1>5, <1>6, <1>7 DEF Same

\* The types the steps below need, without their ranges.
LEMMA Types ==
  ASSUME TypeOK
  PROVE  /\ rec \in [Recordings -> Record] /\ None \notin Recordings
         /\ recordings \in [Keys -> Recordings \union {None}]
         /\ recoverable \in [Keys -> Recordings \union {None}]
         /\ workspace \in [Recordings -> {"none", "open", "sealed"}] /\ evidence \in [Recordings -> BOOLEAN]
         /\ barrier \in [Barriers -> Barrier]
         /\ \A r \in Recordings : rec[r].key \in Keys /\ EpisodeOf(r) \in Episodes
         /\ \A b \in Barriers : barrier[b].todo \subseteq Recordings /\ barrier[b].owed \subseteq Recordings
         /\ \A e \in Episodes : e \in Barriers /\ e # Startup
         /\ Startup \in Barriers
<1>1. 0 .. MaxRecordings = Recordings \union {None} /\ None \notin Recordings
  BY DEF Recordings, None
<1>2. \A r \in Recordings : rec[r].key \in Keys /\ EpisodeOf(r) \in Episodes
  BY KeyParts DEF TypeOK, TasksOK, Record, EpisodeOf
<1>3. \A b \in Barriers : barrier[b].todo \subseteq Recordings /\ barrier[b].owed \subseteq Recordings
  BY DEF TypeOK, BarriersOK, Barrier
<1>. QED  BY <1>1, <1>2, <1>3 DEF TypeOK, TasksOK, DiskOK, BarriersOK, Barriers

\* What a stop, a barrier that fails and a process that dies leave of the records.
LEMMA StopAllOutcome ==
  ASSUME TypeOK, NEW S, NEW shutdown \in BOOLEAN, StopAll(S, shutdown)
  PROVE  /\ \A r \in Recordings :
              /\ rec'[r].key = rec[r].key /\ rec'[r].pc = rec[r].pc /\ rec'[r].published = rec[r].published
              /\ rec'[r].deadline = rec[r].deadline /\ rec'[r].stop \in {rec[r].stop, shutdown}
              /\ rec'[r].late = rec[r].late
         /\ \A k \in Keys : recordings'[k] = IF recordings[k] \in S THEN None ELSE recordings[k]
<1>1. rec \in [Recordings -> Record]
  BY DEF TypeOK, TasksOK
<1>2. ASSUME NEW r \in Recordings
      PROVE  /\ rec'[r].key = rec[r].key /\ rec'[r].pc = rec[r].pc /\ rec'[r].published = rec[r].published
             /\ rec'[r].deadline = rec[r].deadline /\ rec'[r].stop \in {rec[r].stop, shutdown}
             /\ rec'[r].late = rec[r].late
  <2>1. rec[r] \in Record
    BY <1>1
  <2>. QED  BY <2>1 DEF StopAll, Record
<1>. QED  BY <1>2 DEF StopAll

LEMMA FailsOutcome ==
  ASSUME TypeOK, NEW e \in Episodes, BarrierFails(e)
  PROVE  /\ \A r \in Recordings :
              /\ rec'[r].key = rec[r].key /\ rec'[r].pc = rec[r].pc
              /\ rec'[r].deadline = rec[r].deadline /\ rec'[r].stop = rec[r].stop
              /\ rec'[r].late = rec[r].late
              /\ \/ rec'[r].published = rec[r].published
                 \/ rec'[r].published = TRUE /\ At(e, "committed") /\ r = barrier[e].current
              /\ workspace'[r] = workspace[r] \/ workspace'[r] = "sealed"
         /\ barrier' = [barrier EXCEPT ![e] = IdleBarrier] /\ failures' > 0
         /\ UNCHANGED <<crashes, phase, piped, state, leases, recordings, recoverable, evidence>>
<1>1. rec \in [Recordings -> Record] /\ failures \in Nat
  BY DEF TypeOK, TasksOK, WorldOK
<1>2. ASSUME NEW r \in Recordings
      PROVE  /\ rec'[r].key = rec[r].key /\ rec'[r].pc = rec[r].pc
             /\ rec'[r].deadline = rec[r].deadline /\ rec'[r].stop = rec[r].stop
             /\ rec'[r].late = rec[r].late
             /\ \/ rec'[r].published = rec[r].published
                \/ rec'[r].published = TRUE /\ At(e, "committed") /\ r = barrier[e].current
  <2>1. rec[r] \in Record
    BY <1>1
  <2>. QED  BY <1>1, <2>1 DEF BarrierFails, Record
<1>3. \A r \in Recordings : workspace'[r] = workspace[r] \/ workspace'[r] = "sealed"
  BY Types DEF BarrierFails, Sealed, disk
<1>4. UNCHANGED <<crashes, phase, piped, state, leases, recordings, recoverable, evidence>>
  BY DEF BarrierFails, Sealed, rows, messages, maps, disk
<1>5. barrier' = [barrier EXCEPT ![e] = IdleBarrier] /\ failures' > 0
  BY <1>1 DEF BarrierFails, Becomes
<1>. QED  BY <1>2, <1>3, <1>4, <1>5

\* The maps stay by key.
LEMMA MapsStep ==
  ASSUME TypeOK, MapsInv, WorkspaceInv, DownInv, BarrierInv, [Next]_vars
  PROVE  MapsInv'
<1>. USE DEF Capturing, Holding, AtRest, MapsInv
<1>. USE Types
<1>1. ASSUME NEW r \in Recordings, CaptureTask(r)
      PROVE  MapsInv'
  <2>1. TaskKeeps(r)
    BY <1>1, TaskFrameStep
  <2>. USE <2>1 DEF TaskKeeps
  <2>2. CASE GoesOn(r)
    BY <2>2 DEF GoesOn
  <2>0. CASE Leaves(r)
    <3>1. \A x \in Keys : recordings[x] = None
      BY <2>0 DEF Leaves, Stopping, Running, DownInv, WorkspaceInv
    <3>. QED  BY <2>0, <3>1 DEF Leaves
  <2>3. CASE Parks(r)
    <3>1. \A x \in Keys, s \in Recordings : recordings'[x] = s => recordings[x] = s
      BY <2>3 DEF Parks
    <3>2. \A x \in Keys, s \in Recordings : recoverable'[x] = s => recoverable[x] = s \/ (s = r /\ x = rec[r].key)
      BY <2>3 DEF Parks
    <3>. QED  BY <2>3, <3>1, <3>2 DEF Parks, WorkspaceInv
  <2>4. CASE Publishes(r)
    <3>1. \A x \in Keys, s \in Recordings : recordings'[x] = s => recordings[x] = s /\ s # r
      BY <2>4 DEF Publishes, Mapped
    <3>. QED  BY <2>4, <3>1 DEF Publishes
  <2>5. CASE Commits(r)
    BY <2>5 DEF Commits
  <2>6. CASE Retains(r)
    <3>1. \A x \in Keys, s \in Recordings : recordings'[x] = s => recordings[x] = s
      BY <2>6 DEF Retains
    <3>2. \A x \in Keys, s \in Recordings : recoverable'[x] = s => recoverable[x] = s \/ (s = r /\ x = rec[r].key)
      BY <2>6 DEF Retains
    <3>. QED  BY <2>6, <3>1, <3>2 DEF Retains, WorkspaceInv
  <2>7. CASE Completes(r)
    BY <2>7 DEF Completes
  <2>. QED  BY <1>1, <2>0, <2>2, <2>3, <2>4, <2>5, <2>6, <2>7, TaskOutcome
<1>2. CASE QuietStep
  BY <1>2, QuietSteps DEF Quiet
<1>3. ASSUME NEW k \in Keys, NEW r \in Recordings, Starts(k, r)
      PROVE  MapsInv'
  <2>1. \A s \in Recordings \ {r} : rec'[s] = rec[s]
    BY <1>3 DEF Starts, Start
  <2>2. rec'[r].key = k /\ rec'[r].pc = "starting" /\ workspace'[r] # "none"
    BY <1>3 DEF Starts, Start, Started
  <2>3. /\ \A s \in Recordings \ {r} : workspace'[s] = workspace[s]
        /\ recoverable[k] = r \/ (workspace[r] = "none" /\ rec[r].pc = "none")
    BY <1>3 DEF Starts, Start, Candidate, Fresh
  <2>4. recordings' = [recordings EXCEPT ![k] = r] /\ recoverable' = [recoverable EXCEPT ![k] = None]
    BY <1>3 DEF Starts, Start
  <2>. QED  BY <2>1, <2>2, <2>3, <2>4
<1>4. ASSUME NEW b \in Barriers, Drain(b)
      PROVE  MapsInv'
  BY <1>4 DEF Drain, Take, world, rows, messages, maps, disk
<1>5. ASSUME NEW b \in Barriers, BarrierSink(b)
      PROVE  MapsInv'
  BY <1>5 DEF BarrierSink, world, rows, messages, maps, disk
<1>6. ASSUME NEW b \in Barriers, BarrierComplete(b)
      PROVE  MapsInv'
  BY <1>6 DEF BarrierComplete, Forget, Sealed, world, rows, messages, maps, disk
<1>7. ASSUME NEW e \in Episodes, FinalizeEpisode(e)
      PROVE  MapsInv'
  <2>1. recoverable' = recoverable /\ workspace' = workspace
    BY <1>7 DEF FinalizeEpisode, disk
  <2>2. /\ \A r \in Recordings : rec'[r].key = rec[r].key /\ rec'[r].pc = rec[r].pc
        /\ \A x \in Keys : recordings'[x] \in {recordings[x], None}
    <3>1. StopAll(Active(e), FALSE)
      BY <1>7 DEF FinalizeEpisode
    <3>. QED  BY ONLY <3>1, TypeOK, StopAllOutcome
  <2>. QED  BY <2>1, <2>2
<1>8. ASSUME NEW e \in Episodes, Join(e)
      PROVE  MapsInv'
  <2>1. UNCHANGED <<rec, recordings, workspace>>
    BY <1>8 DEF Join, disk
  <2>2. ASSUME NEW x \in Keys, NEW s \in Recordings, recoverable'[x] = s, recoverable[x] # s
        PROVE  rec[s].key = x /\ rec[s].pc = "dead"
    <3>1. PICK y \in Crashed(e) : rec[y].key = x
      BY <1>8, <2>2 DEF Join
    <3>2. s = (CHOOSE r \in Crashed(e) : rec[r].key = x)
      BY <1>8, <2>2 DEF Join
    <3>3. s \in Crashed(e) /\ rec[s].key = x
      BY <3>1, <3>2
    <3>. QED  BY <3>3 DEF Crashed
  <2>. QED  BY <2>1, <2>2 DEF WorkspaceInv
<1>9. ASSUME NEW e \in Episodes, FinalizeReturns(e) \/ Close(e) \/ Expire(e)
      PROVE  MapsInv'
  BY <1>9 DEF FinalizeReturns, Close, Expire, world, rows, messages, maps, disk
<1>10. ASSUME NEW e \in Episodes, OnClosed(e)
      PROVE  MapsInv'
  <2>1. recoverable' = recoverable /\ workspace' = workspace
    BY <1>10 DEF OnClosed, disk
  <2>2. /\ \A r \in Recordings : rec'[r].key = rec[r].key /\ rec'[r].pc = rec[r].pc
        /\ \A x \in Keys : recordings'[x] \in {recordings[x], None}
    <3>1. StopAll(Active(e), FALSE)
      BY <1>10 DEF OnClosed
    <3>. QED  BY ONLY <3>1, TypeOK, StopAllOutcome
  <2>. QED  BY <2>1, <2>2
<1>11. ASSUME NEW e \in Episodes, BarrierFails(e)
      PROVE  MapsInv'
  <2>1. /\ \A r \in Recordings : /\ rec'[r].key = rec[r].key /\ rec'[r].pc = rec[r].pc
                                 /\ workspace'[r] = workspace[r] \/ workspace'[r] = "sealed"
        /\ UNCHANGED <<recordings, recoverable>>
    BY ONLY <1>11, TypeOK, FailsOutcome
  <2>2. ASSUME NEW x \in Keys, NEW s \in Recordings
        PROVE  /\ recordings'[x] = s => rec'[s].key = x /\ rec'[s].pc \in Capturing \union {"dead"}
               /\ recoverable'[x] = s => rec'[s].key = x /\ rec'[s].pc \in AtRest /\ workspace'[s] # "none"
    BY ONLY <2>1, <2>2, MapsInv DEF MapsInv
  <2>. QED  BY <2>2
<1>12. CASE Shutdown
  <2>1. recoverable' = recoverable /\ workspace' = workspace
    BY <1>12 DEF Shutdown, disk
  <2>2. /\ \A r \in Recordings : rec'[r].key = rec[r].key /\ rec'[r].pc = rec[r].pc
        /\ \A x \in Keys : recordings'[x] \in {recordings[x], None}
    <3>1. StopAll(UNION {Active(e) : e \in Episodes}, TRUE)
      BY <1>12 DEF Shutdown
    <3>. QED  BY ONLY <3>1, TypeOK, StopAllOutcome
  <2>. QED  BY <2>1, <2>2
<1>13. CASE Die
  BY <1>13 DEF Die, Unused, world, rows, messages, maps, disk
<1>14. CASE Recover
  <2>1. UNCHANGED <<rec, recordings>> /\ \A r \in Recordings : workspace'[r] = "none" => workspace[r] = "none"
    BY <1>14 DEF Recover
  <2>2. ASSUME NEW x \in Keys, NEW s \in Recordings, recoverable'[x] = s
        PROVE  rec[s].key = x /\ rec[s].pc = "none" /\ workspace[s] = "open" /\ ~evidence[s]
    <3>1. s \in {r \in Unsealed(x) : ~evidence[r]}
      BY <1>14, <2>2 DEF Recover
    <3>. QED  BY <1>14, <3>1 DEF Unsealed, Recover, DownInv
  <2>3. \A s \in Recordings : workspace[s] = "open" /\ ~evidence[s] => workspace'[s] = "open"
    BY <1>14 DEF Recover
  <2>. QED  BY <2>1, <2>2, <2>3
<1>15. CASE ResumeRest
  <2>1. UNCHANGED <<rec, recordings, workspace>>
    BY <1>15 DEF ResumeRest, disk
  <2>2. \A x \in Keys, s \in Recordings : recoverable'[x] = s => recoverable[x] = s
    <3>1. recoverable' = recoverable \/ \E x : recoverable' = [recoverable EXCEPT ![x] = None]
      BY <1>15 DEF ResumeRest
    <3>. QED  BY <3>1
  <2>. QED  BY <2>1, <2>2
<1>16. CASE ResumeDone
  BY <1>16 DEF ResumeDone, world, rows, messages, maps, disk
<1>. QED
  BY <1>1, <1>2, <1>3, <1>4, <1>5, <1>6, <1>7, <1>8, <1>9, <1>10, <1>11, <1>12, <1>13, <1>14,
     <1>15, <1>16, StepKinds

\* A capture task touches the maps at its own key, and maps nothing.
LEMMA TaskMaps ==
  ASSUME TypeOK, NEW r \in Recordings, CaptureTask(r)
  PROVE  /\ recordings' = recordings \/ recordings' = [recordings EXCEPT ![rec[r].key] = None]
         /\ recoverable' = recoverable \/ recoverable' = [recoverable EXCEPT ![rec[r].key] = r]
         /\ \A k \in Keys : recordings'[k] \in {recordings[k], None}
         /\ rec[r].pc \in Capturing \union Holding
<1>1. /\ recordings' = recordings \/ recordings' = [recordings EXCEPT ![rec[r].key] = None]
      /\ recoverable' = recoverable \/ recoverable' = [recoverable EXCEPT ![rec[r].key] = r]
      /\ rec[r].pc \in Capturing \union Holding
  BY TaskOutcome DEF GoesOn, Leaves, Parks, Publishes, Commits, Retains, Completes, Holding
<1>. QED  BY <1>1, Types

Stays ==
  /\ \A r \in Recordings : workspace[r] # "none" => workspace'[r] # "none" /\ rec'[r].key = rec[r].key
  /\ \A r \in Recordings : evidence[r] => evidence'[r]
  /\ \A e \in Episodes : /\ state[e] = "closed" => state'[e] = "closed"
                         /\ state'[e] = "open" => state[e] = "open"
  /\ piped' = piped /\ failures' >= failures /\ crashes' >= crashes /\ failures \in Nat /\ crashes \in Nat

\* A workspace keeps its key, Evidence is not lost, an Episode does not open again.
LEMMA RecordsStay ==
  ASSUME TypeOK, MapsInv, [Next]_vars
  PROVE  Stays
<1>. USE DEF Stays
<1>. USE Types
<1>0. failures \in Nat /\ crashes \in Nat /\ state \in [Episodes -> {"open", "finalizing", "closed"}]
  BY DEF TypeOK, WorldOK, RowsOK
<1>. USE <1>0
<1>1. ASSUME NEW r \in Recordings, CaptureTask(r)
      PROVE  Stays
  <2>1. TaskKeeps(r)
    BY <1>1, TaskFrameStep
  <2>2. /\ \A s \in Recordings : workspace'[s] = workspace[s] \/ workspace'[s] = "sealed"
        /\ \A s \in Recordings : evidence[s] => evidence'[s]
    BY <1>1, TaskOutcome DEF GoesOn, Leaves, Parks, Publishes, Commits, Retains, Completes
  <2>. QED  BY <2>1, <2>2 DEF TaskKeeps
<1>2. CASE QuietStep
  BY <1>2, QuietSteps DEF Quiet
<1>3. ASSUME NEW k \in Keys, NEW r \in Recordings, Starts(k, r)
      PROVE  Stays
  <2>1. /\ \A s \in Recordings \ {r} : rec'[s] = rec[s] /\ workspace'[s] = workspace[s]
        /\ rec'[r].key = k /\ (workspace[r] # "none" => rec[r].key = k)
        /\ workspace'[r] # "none" /\ evidence' = evidence
    BY <1>3 DEF Starts, Start, Started, Candidate, Fresh, MapsInv
  <2>. QED  BY <1>3, <2>1 DEF Starts
<1>4. ASSUME NEW b \in Barriers, Drain(b)
      PROVE  Stays
  BY <1>4 DEF Drain, Take, world, rows, messages, maps, disk
<1>5. ASSUME NEW b \in Barriers, BarrierSink(b)
      PROVE  Stays
  BY <1>5 DEF BarrierSink, world, rows, messages, maps, disk
<1>6. ASSUME NEW b \in Barriers, BarrierComplete(b)
      PROVE  Stays
  <2>1. \A r \in Recordings : rec'[r].key = rec[r].key /\ workspace'[r] \in {workspace[r], "sealed"}
    <3>1. \A r \in Recordings : rec[r] \in Record
      OBVIOUS
    <3>. QED  BY <1>6, <3>1 DEF BarrierComplete, Sealed, Record
  <2>. QED  BY <1>6, <2>1 DEF BarrierComplete, Sealed, world, rows
<1>7. ASSUME NEW e \in Episodes, FinalizeEpisode(e)
      PROVE  Stays
  <2>1. /\ \A r \in Recordings : rec'[r].key = rec[r].key
        /\ UNCHANGED <<workspace, evidence, piped, failures, crashes, state>>
    BY <1>7, StopAllOutcome DEF FinalizeEpisode, disk, rows, world
  <2>. QED  BY <2>1
<1>8. ASSUME NEW e \in Episodes, Join(e)
      PROVE  Stays
  BY <1>8 DEF Join, world, rows, messages, maps, disk
<1>9. ASSUME NEW e \in Episodes, FinalizeReturns(e) \/ Close(e) \/ Expire(e)
      PROVE  Stays
  BY <1>9 DEF FinalizeReturns, Close, Expire, world, rows, messages, maps, disk
<1>10. ASSUME NEW e \in Episodes, OnClosed(e)
      PROVE  Stays
  <2>1. /\ \A r \in Recordings : rec'[r].key = rec[r].key
        /\ UNCHANGED <<workspace, evidence, piped, failures, crashes, state>>
    BY <1>10, StopAllOutcome DEF OnClosed, disk, rows, world
  <2>. QED  BY <2>1
<1>11. ASSUME NEW e \in Episodes, BarrierFails(e)
      PROVE  Stays
  <2>1. /\ \A r \in Recordings : rec'[r].key = rec[r].key /\ workspace'[r] \in {workspace[r], "sealed"}
        /\ UNCHANGED <<evidence, piped, crashes, state>>
    BY <1>11, FailsOutcome
  <2>2. failures' = failures + 1
    BY <1>11 DEF BarrierFails
  <2>. QED  BY <2>1, <2>2
<1>12. CASE Shutdown
  <2>1. /\ \A r \in Recordings : rec'[r].key = rec[r].key
        /\ UNCHANGED <<workspace, evidence, piped, failures, crashes, state>>
    BY <1>12, StopAllOutcome DEF Shutdown, disk, rows, world
  <2>. QED  BY <2>1
<1>13. CASE Die
  <2>1. \A r \in Recordings : rec'[r].key = rec[r].key
    BY <1>13 DEF Die, Unused
  <2>. QED  BY <1>13, <2>1 DEF Die, rows, disk
<1>14. CASE Recover
  BY <1>14 DEF Recover, world, rows, messages, maps, disk
<1>15. CASE ResumeRest
  <2>1. UNCHANGED <<rec, workspace, evidence, piped, failures, crashes, state>>
    BY <1>15 DEF ResumeRest, world, rows, disk
  <2>. QED  BY <2>1
<1>16. CASE ResumeDone
  BY <1>16 DEF ResumeDone, world, rows, messages, maps, disk
<1>. QED
  BY <1>1, <1>2, <1>3, <1>4, <1>5, <1>6, <1>7, <1>8, <1>9, <1>10, <1>11, <1>12, <1>13, <1>14,
     <1>15, <1>16, StepKinds

\* A barrier publishes a workspace of its list.
LEMMA HoldingFacts ==
  ASSUME TypeOK, BarrierInv, NEW b \in Barriers, barrier[b].at \in Holding
  PROVE  /\ barrier[b].current \in Recordings /\ barrier[b].current \in barrier[b].todo
         /\ workspace[barrier[b].current] # "none"
<1>1. barrier[b].current \in barrier[b].todo /\ \A r \in barrier[b].todo : workspace[r] # "none"
  BY DEF BarrierInv, BarrierFits
<1>. QED  BY <1>1, Types

\* What was published has its Evidence.
LEMMA WorkspaceStep ==
  ASSUME TypeOK, MapsInv, WorkspaceInv, DownInv, BarrierInv, [Next]_vars
  PROVE  WorkspaceInv'
<1>. USE DEF WorkspaceInv, Capturing, Holding
<1>. USE Types
<1>1. ASSUME NEW r \in Recordings, CaptureTask(r)
      PROVE  WorkspaceInv'
  <2>1. TaskKeeps(r)
    BY <1>1, TaskFrameStep
  <2>2. CASE GoesOn(r)
    BY <2>1, <2>2 DEF GoesOn, TaskKeeps
  <2>3. CASE Leaves(r)
    BY <2>1, <2>3 DEF Leaves, TaskKeeps
  <2>4. CASE Parks(r)
    BY <2>1, <2>4 DEF Parks, TaskKeeps
  <2>5. CASE Publishes(r)
    BY <2>1, <2>5 DEF Publishes, TaskKeeps
  <2>6. CASE Commits(r)
    BY <2>1, <2>6 DEF Commits, TaskKeeps
  <2>7. CASE Retains(r)
    BY <2>1, <2>7 DEF Retains, TaskKeeps
  <2>8. CASE Completes(r)
    BY <2>1, <2>8 DEF Completes, TaskKeeps
  <2>. QED  BY <1>1, <2>2, <2>3, <2>4, <2>5, <2>6, <2>7, <2>8, TaskOutcome
<1>2. CASE QuietStep
  BY <1>2, QuietSteps DEF Quiet
<1>3. ASSUME NEW k \in Keys, NEW r \in Recordings, Starts(k, r)
      PROVE  WorkspaceInv'
  <2>1. /\ \A s \in Recordings \ {r} : rec'[s] = rec[s] /\ workspace'[s] = workspace[s]
        /\ workspace'[r] # "none" /\ rec'[r].pc = "starting" /\ rec'[r].published = rec[r].published
        /\ rec'[r].stop = FALSE /\ UNCHANGED <<evidence, phase>>
    BY <1>3 DEF Starts, Start, Started
  <2>. QED  BY <2>1
<1>4. ASSUME NEW b \in Barriers, Drain(b)
      PROVE  WorkspaceInv'
  BY <1>4 DEF Drain, Take, world, rows, messages, maps, disk
<1>5. ASSUME NEW b \in Barriers, BarrierSink(b)
      PROVE  WorkspaceInv'
  <2>1. barrier[b].current \in Recordings /\ workspace[barrier[b].current] # "none"
    BY <1>5, HoldingFacts DEF BarrierSink, At
  <2>2. UNCHANGED <<rec, workspace, phase>> /\ evidence' = [evidence EXCEPT ![barrier[b].current] = TRUE]
    BY <1>5 DEF BarrierSink, world
  <2>. QED  BY <2>1, <2>2
<1>6. ASSUME NEW b \in Barriers, BarrierComplete(b)
      PROVE  WorkspaceInv'
  <2>1. evidence[barrier[b].current] /\ workspace[barrier[b].current] # "none"
    BY <1>6 DEF BarrierComplete, BarrierInv, BarrierFits, Holding, At
  <2>2. \A r \in Recordings : /\ rec'[r].pc = rec[r].pc /\ rec'[r].stop = rec[r].stop
                             /\ (rec'[r].published = rec[r].published \/ r = barrier[b].current)
                             /\ workspace'[r] \in {workspace[r], "sealed"}
    <3>1. \A r \in Recordings : rec[r] \in Record
      OBVIOUS
    <3>. QED  BY <1>6, <3>1 DEF BarrierComplete, Sealed, Record
  <2>3. UNCHANGED <<evidence, phase>>
    BY <1>6 DEF BarrierComplete, Sealed, world
  <2>. QED  BY <2>1, <2>2, <2>3
<1>7. ASSUME NEW e \in Episodes, FinalizeEpisode(e)
      PROVE  WorkspaceInv'
  <2>1. /\ \A r \in Recordings : /\ rec'[r].pc = rec[r].pc /\ rec'[r].published = rec[r].published
                                 /\ rec'[r].stop \in {rec[r].stop, FALSE}
        /\ UNCHANGED <<workspace, evidence, phase>>
    BY <1>7, StopAllOutcome DEF FinalizeEpisode, disk, world
  <2>. QED  BY <2>1
<1>8. ASSUME NEW e \in Episodes, Join(e)
      PROVE  WorkspaceInv'
  BY <1>8 DEF Join, world, rows, messages, maps, disk
<1>9. ASSUME NEW e \in Episodes, FinalizeReturns(e) \/ Close(e) \/ Expire(e)
      PROVE  WorkspaceInv'
  BY <1>9 DEF FinalizeReturns, Close, Expire, world, rows, messages, maps, disk
<1>10. ASSUME NEW e \in Episodes, OnClosed(e)
      PROVE  WorkspaceInv'
  <2>1. /\ \A r \in Recordings : /\ rec'[r].pc = rec[r].pc /\ rec'[r].published = rec[r].published
                                 /\ rec'[r].stop \in {rec[r].stop, FALSE}
        /\ UNCHANGED <<workspace, evidence, phase>>
    BY <1>10, StopAllOutcome DEF OnClosed, disk, world
  <2>. QED  BY <2>1
<1>11. ASSUME NEW e \in Episodes, BarrierFails(e)
      PROVE  WorkspaceInv'
  <2>1. UNCHANGED <<evidence, phase>> /\ (At(e, "committed") => evidence[barrier[e].current])
    BY <1>11, FailsOutcome DEF BarrierInv, BarrierFits
  <2>2. \A r \in Recordings :
                             /\ rec'[r].pc = rec[r].pc /\ rec'[r].stop = rec[r].stop
                             /\ \/ rec'[r].published = rec[r].published
                                \/ At(e, "committed") /\ r = barrier[e].current
                             /\ workspace'[r] = workspace[r] \/ workspace'[r] = "sealed"
    BY ONLY <1>11, TypeOK, FailsOutcome
  <2>3. At(e, "committed") => workspace[barrier[e].current] # "none"
    BY HoldingFacts DEF Holding, At
  <2>4. ASSUME NEW r \in Recordings
        PROVE  /\ workspace'[r] = "none" => rec'[r].pc = "none" /\ ~rec'[r].published /\ ~evidence'[r]
               /\ rec'[r].published => evidence'[r]
               /\ rec'[r].pc = "committed" => evidence'[r]
               /\ rec'[r].stop => phase' = "stopping"
    <3>1. CASE rec'[r].published = rec[r].published
      BY <2>1, <2>2, <3>1
    <3>2. CASE At(e, "committed") /\ r = barrier[e].current
      BY <2>1, <2>2, <2>3, <3>2
    <3>. QED  BY <2>2, <3>1, <3>2
  <2>. QED  BY <2>4
<1>12. CASE Shutdown
  <2>1. /\ \A r \in Recordings : rec'[r].pc = rec[r].pc /\ rec'[r].published = rec[r].published
        /\ UNCHANGED <<workspace, evidence>> /\ phase' = "stopping"
    BY <1>12, StopAllOutcome DEF Shutdown, disk
  <2>. QED  BY <2>1
<1>13. CASE Die
  <2>1. \A r \in Recordings : rec'[r].pc = "none" /\ ~rec'[r].stop /\ ~rec'[r].published
    BY <1>13 DEF Die, Unused
  <2>. QED  BY <1>13, <2>1 DEF Die, disk
<1>14. CASE Recover
  BY <1>14 DEF Recover, world, rows, messages, maps, disk
<1>15. CASE ResumeRest
  <2>1. UNCHANGED <<rec, workspace, evidence, phase>>
    BY <1>15 DEF ResumeRest, world, disk
  <2>. QED  BY <2>1
<1>16. CASE ResumeDone
  BY <1>16 DEF ResumeDone, world, rows, messages, maps, disk
<1>. QED
  BY <1>1, <1>2, <1>3, <1>4, <1>5, <1>6, <1>7, <1>8, <1>9, <1>10, <1>11, <1>12, <1>13, <1>14,
     <1>15, <1>16, StepKinds

\* A process that is down remembers nothing.
LEMMA DownStep ==
  ASSUME TypeOK, DownInv, [Next]_vars
  PROVE  DownInv'
<1>. USE DEF DownInv, Capturing, Holding, At
<1>. USE Types
<1>. USE DEF Barriers
<1>1. ASSUME NEW r \in Recordings, CaptureTask(r)
      PROVE  DownInv'
  <2>1. rec[r].pc # "none" /\ phase' = phase /\ crashes' = crashes
    BY <1>1, TaskOutcome, TaskFrameStep DEF GoesOn, Leaves, Parks, Publishes, Commits, Retains, Completes, TaskKeeps
  <2>2. \A x \in Keys : recordings'[x] \in {recordings[x], None}
    BY <1>1, TaskMaps
  <2>. QED  BY <2>1, <2>2 DEF Running
<1>2. CASE QuietStep
  BY <1>2, QuietSteps DEF Quiet, Running
<1>3. ASSUME NEW k \in Keys, NEW r \in Recordings, Starts(k, r)
      PROVE  DownInv'
  <2>1. Running /\ UNCHANGED <<phase, crashes>>
    BY <1>3 DEF Starts
  <2>. QED  BY <2>1 DEF Running
<1>4. ASSUME NEW b \in Barriers, Drain(b)
      PROVE  DownInv'
  <2>1. phase # "down" /\ UNCHANGED <<phase, crashes, recordings>>
    BY <1>4 DEF Drain, world, maps
  <2>. QED  BY <2>1 DEF Running
<1>5. ASSUME NEW b \in Barriers, BarrierSink(b)
      PROVE  DownInv'
  <2>1. phase # "down" /\ UNCHANGED <<phase, crashes, recordings>>
    BY <1>5 DEF BarrierSink, world, maps
  <2>. QED  BY <2>1 DEF Running
<1>6. ASSUME NEW b \in Barriers, BarrierComplete(b)
      PROVE  DownInv'
  <2>1. phase # "down" /\ UNCHANGED <<phase, crashes, recordings>>
    BY <1>6 DEF BarrierComplete, world, maps
  <2>. QED  BY <2>1 DEF Running
<1>7. ASSUME NEW e \in Episodes, FinalizeEpisode(e)
      PROVE  DownInv'
  <2>1. phase # "down" /\ UNCHANGED <<phase, crashes>>
    BY <1>7 DEF FinalizeEpisode, world, Serving
  <2>2. \A x \in Keys : recordings[x] = None => recordings'[x] = None
    BY <1>7, StopAllOutcome DEF FinalizeEpisode
  <2>. QED  BY <2>1, <2>2 DEF Running
<1>8. ASSUME NEW e \in Episodes, Join(e)
      PROVE  DownInv'
  <2>1. phase # "down" /\ UNCHANGED <<phase, crashes, recordings>>
    BY <1>8 DEF Join, world, maps
  <2>. QED  BY <2>1 DEF Running
<1>9. ASSUME NEW e \in Episodes, FinalizeReturns(e) \/ Close(e) \/ Expire(e)
      PROVE  DownInv'
  <2>1. phase # "down" /\ UNCHANGED <<phase, crashes, recordings>>
    BY <1>9 DEF FinalizeReturns, Close, Expire, world, maps, Serving
  <2>. QED  BY <2>1 DEF Running
<1>10. ASSUME NEW e \in Episodes, OnClosed(e)
      PROVE  DownInv'
  <2>1. phase # "down" /\ UNCHANGED <<phase, crashes>>
    BY <1>10 DEF OnClosed, world, Running
  <2>2. \A x \in Keys : recordings[x] = None => recordings'[x] = None
    BY <1>10, StopAllOutcome DEF OnClosed
  <2>. QED  BY <2>1, <2>2 DEF Running
<1>11. ASSUME NEW e \in Episodes, BarrierFails(e)
      PROVE  DownInv'
  <2>1. phase # "down" /\ UNCHANGED <<phase, crashes, recordings>>
    BY <1>11, FailsOutcome DEF BarrierFails
  <2>. QED  BY <2>1 DEF Running
<1>12. CASE Shutdown
  <2>1. phase' = "stopping"
    BY <1>12 DEF Shutdown
  <2>2. ASSUME NEW x \in Keys
        PROVE  recordings'[x] = None
    <3>1. recordings[x] # None => recordings[x] \in UNION {Active(e) : e \in Episodes}
      BY KeyParts DEF Active
    <3>. QED  BY <1>12, <3>1, StopAllOutcome DEF Shutdown
  <2>. QED  BY <2>1, <2>2
<1>13. CASE Die
  <2>1. \A r \in Recordings : rec'[r].pc = "none"
    BY <1>13 DEF Die, Unused
  <2>2. crashes' > 0
    BY <1>13 DEF Die, TypeOK, WorldOK
  <2>. QED  BY <2>1, <2>2, <1>13 DEF Die, IdleBarrier
<1>14. CASE Recover
  <2>1. phase' = "recovering" /\ phase = "down" /\ UNCHANGED <<crashes, recordings>>
    BY <1>14 DEF Recover
  <2>. QED  BY <2>1 DEF Running
<1>15. CASE ResumeRest
  <2>1. phase # "down" /\ UNCHANGED <<phase, crashes, recordings>>
    BY <1>15 DEF ResumeRest, world
  <2>. QED  BY <2>1 DEF Running
<1>16. CASE ResumeDone
  <2>1. phase' = "running"
    BY <1>16 DEF ResumeDone
  <2>. QED  BY <2>1 DEF Running
<1>. QED
  BY <1>1, <1>2, <1>3, <1>4, <1>5, <1>6, <1>7, <1>8, <1>9, <1>10, <1>11, <1>12, <1>13, <1>14,
     <1>15, <1>16, StepKinds

\* Who begins late: a task whose Episode is sealed when it starts.
LEMMA LateOutcome ==
  ASSUME TypeOK, [Next]_vars, NEW r \in Recordings
  PROVE  \/ rec'[r].late = rec[r].late
         \/ \E k \in Keys : Starts(k, r) /\ rec'[r].late = (state[k[1]] # "open")
         \/ Die /\ rec'[r].late = FALSE
<1>. USE Types
<1>1. ASSUME NEW s \in Recordings, CaptureTask(s)
      PROVE  rec'[r].late = rec[r].late
  BY <1>1, TaskFrameStep DEF TaskKeeps
<1>2. CASE QuietStep
  BY <1>2, QuietSteps DEF Quiet
<1>3. ASSUME NEW k \in Keys, NEW s \in Recordings, Starts(k, s)
      PROVE  \/ rec'[r].late = rec[r].late
             \/ s = r /\ rec'[r].late = (state[k[1]] # "open")
  BY <1>3 DEF Starts, Start, Started
<1>4. ASSUME NEW b \in Barriers, Drain(b) \/ BarrierSink(b)
      PROVE  rec'[r].late = rec[r].late
  BY <1>4 DEF Drain, BarrierSink
<1>5. ASSUME NEW b \in Barriers, BarrierComplete(b)
      PROVE  rec'[r].late = rec[r].late
  <2>1. rec[r] \in Record
    OBVIOUS
  <2>. QED  BY <1>5, <2>1 DEF BarrierComplete, Record
<1>6. ASSUME NEW e \in Episodes, FinalizeEpisode(e)
      PROVE  rec'[r].late = rec[r].late
  <2>1. StopAll(Active(e), FALSE)
    BY <1>6 DEF FinalizeEpisode
  <2>. QED  BY ONLY <2>1, TypeOK, StopAllOutcome, r \in Recordings
<1>7. ASSUME NEW e \in Episodes, OnClosed(e)
      PROVE  rec'[r].late = rec[r].late
  <2>1. StopAll(Active(e), FALSE)
    BY <1>7 DEF OnClosed
  <2>. QED  BY ONLY <2>1, TypeOK, StopAllOutcome, r \in Recordings
<1>8. ASSUME NEW e \in Episodes, Join(e) \/ FinalizeReturns(e) \/ Close(e) \/ Expire(e)
      PROVE  rec'[r].late = rec[r].late
  BY <1>8 DEF Join, FinalizeReturns, Close, Expire
<1>9. ASSUME NEW e \in Episodes, BarrierFails(e)
      PROVE  rec'[r].late = rec[r].late
  BY <1>9, FailsOutcome
<1>10. CASE Shutdown
  <2>1. StopAll(UNION {Active(e) : e \in Episodes}, TRUE)
    BY <1>10 DEF Shutdown
  <2>. QED  BY ONLY <2>1, TypeOK, StopAllOutcome, r \in Recordings
<1>11. CASE Die
  BY <1>11 DEF Die, Unused
<1>12. CASE Recover \/ ResumeRest \/ ResumeDone
  BY <1>12 DEF Recover, ResumeRest, ResumeDone
<1>. QED
  BY <1>1, <1>2, <1>3, <1>4, <1>5, <1>6, <1>7, <1>8, <1>9, <1>10, <1>11, <1>12, StepKinds

\* Who starts under a key and has a workspace was recoverable under it.
LEMMA StartsRecoverable ==
  ASSUME TypeOK, MapsInv, NEW k \in Keys, NEW r \in Recordings, Starts(k, r), workspace[r] # "none"
  PROVE  recoverable[k] = r /\ rec[r].key = k
BY DEF Starts, Candidate, Fresh, MapsInv

\* A task that began late is of a sealed Episode, and has a workspace.
LEMMA LateStep ==
  ASSUME TypeOK, MapsInv, BarrierInv, LateInv, [Next]_vars
  PROVE  LateInv'
<1>. USE Types
<1>1. Stays
  BY RecordsStay
<1>2. SUFFICES ASSUME NEW r \in Recordings, rec'[r].late
               PROVE  state'[EpisodeOf(r)'] # "open" /\ workspace'[r] # "none"
  BY DEF LateInv
<1>3. CASE rec'[r].late = rec[r].late
  <2>1. state[EpisodeOf(r)] # "open" /\ workspace[r] # "none"
    BY <1>2, <1>3 DEF LateInv
  <2>2. EpisodeOf(r)' = EpisodeOf(r) /\ workspace'[r] # "none"
    BY <1>1, <2>1 DEF Stays, EpisodeOf
  <2>. QED  BY <1>1, <2>1, <2>2 DEF Stays
<1>4. ASSUME NEW k \in Keys, Starts(k, r), state[k[1]] # "open"
      PROVE  state'[EpisodeOf(r)'] # "open" /\ workspace'[r] # "none"
  <2>1. rec'[r].key = k /\ workspace'[r] # "none" /\ state' = state
    BY <1>4 DEF Starts, Start, Started
  <2>. QED  BY <1>4, <2>1 DEF EpisodeOf
<1>. QED  BY <1>2, <1>3, <1>4, LateOutcome

StillLate(k) == \E x \in Recordings : rec'[x].key = k /\ rec'[x].late

\* A late workspace stays so while the process lives: its key is excused.
LEMMA LateForStays ==
  ASSUME TypeOK, MapsInv, LateInv, [Next]_vars, ~Die, NEW k \in Keys, LateFor(k)
  PROVE  StillLate(k)
<1>. USE Types
<1>1. PICK x \in Recordings : rec[x].key = k /\ rec[x].late
  BY DEF LateFor
<1>2. state[k[1]] # "open" /\ workspace[x] # "none"
  BY <1>1 DEF LateInv, EpisodeOf
<1>3. rec'[x].key = k
  BY <1>1, <1>2, RecordsStay DEF Stays
<1>4. ASSUME NEW l \in Keys, Starts(l, x)
      PROVE  l = k
  BY <1>1, <1>2, <1>4, StartsRecoverable
<1>5. rec'[x].late
  BY <1>1, <1>2, <1>4, LateOutcome
<1>. QED  BY <1>3, <1>5 DEF StillLate

\* Who starts for a sealed Episode is late.
LEMMA StartsLate ==
  ASSUME TypeOK, NEW k \in Keys, NEW r \in Recordings, Starts(k, r), state[k[1]] # "open"
  PROVE  StillLate(k)
<1>1. rec'[r].key = k /\ rec'[r].late
  BY Types DEF Starts, Start, Started
<1>. QED  BY <1>1 DEF StillLate

\* A recording that is mapped has the deadline of its Episode's lease.
LEMMA LeaseStep ==
  ASSUME TypeOK, MapsInv, LeaseInv, [Next]_vars
  PROVE  LeaseInv'
<1>. USE DEF LeaseInv
<1>. USE Types
<1>1. ASSUME NEW r \in Recordings, CaptureTask(r)
      PROVE  LeaseInv'
  <2>1. TaskKeeps(r)
    BY <1>1, TaskFrameStep
  <2>2. \A x \in Keys : recordings'[x] \in {recordings[x], None}
    BY <1>1, TaskMaps
  <2>. QED  BY <2>1, <2>2 DEF TaskKeeps
<1>2. CASE QuietStep
  <2>. USE DEF rows, messages, maps, disk, world
  <2>0. \A r \in Recordings, lease \in Lease : Extended(r, lease).deadline = lease.until
    BY ExtendedType DEF TypeOK
  <2>1. recordings' = recordings
    BY <1>2, QuietSteps DEF Quiet
  <2>2. leases \in [Episodes -> Lease \union {NoLease}] /\ \A r \in Recordings : rec[r] \in Record
    BY DEF TypeOK, LeasesOK
  <2>3. ASSUME NEW S \in SUBSET Episodes, NEW number \in 0 .. MaxRevision,
               NEW until \in [Episodes -> Time], SetLeases(S, number, until)
        PROVE  LeaseInv'
    <3>1. \A e \in S : leases'[e] \in Lease
      <4>1. ASSUME NEW e \in S
            PROVE  leases'[e] \in Lease
        <5>1. [revision |-> number, until |-> EndOf(until[e])] \in Lease
          BY EndOfType DEF Lease
        <5>. QED  BY <2>2, <2>3, <4>1, <5>1, AcceptedType DEF SetLeases
      <4>. QED  BY <4>1
    <3>2. ASSUME NEW k \in Keys, NEW r \in Recordings, recordings[k] = r, leases'[k[1]] # NoLease
          PROVE  rec'[r].deadline = leases'[k[1]].until
      <4>1. k[1] \in Episodes /\ EpisodeOf(r) = k[1] /\ r \in Followers(k[1])
        BY <3>2, KeyParts DEF MapsInv, EpisodeOf, Active, Followers
      <4>2. CASE k[1] \in S
        <5>1. rec'[r] = Extended(r, leases'[k[1]])
          BY <2>3, <4>1, <4>2 DEF SetLeases
        <5>. QED  BY <2>0, <3>1, <4>2, <5>1
      <4>3. CASE k[1] \notin S
        <5>1. leases'[k[1]] = leases[k[1]] /\ rec'[r] = rec[r]
          BY <2>3, <4>1, <4>3 DEF SetLeases
        <5>. QED  BY <3>2, <5>1
      <4>. QED  BY <4>2, <4>3
    <3>. QED  BY <2>1, <3>2
  <2>4. ASSUME NEW e \in Episodes, OnLeaseExpired(e) \/ EventFails(e)
        PROVE  LeaseInv'
    <3>1. leases' = leases /\ \A r \in Recordings : rec'[r].deadline = rec[r].deadline
      <4>1. CASE EventFails(e)
        BY <4>1 DEF EventFails
      <4>2. ASSUME OnLeaseExpired(e), NEW r \in Recordings
            PROVE  rec'[r].deadline = rec[r].deadline
        <5>1. rec'[r] = [rec[r] EXCEPT !.expired = TRUE, !.signalled = Signalled(r)] \/ rec'[r] = rec[r]
          BY <4>2 DEF OnLeaseExpired
        <5>2. rec[r] \in Record
          BY <2>2, <4>2
        <5>. QED  BY ONLY <5>1, <5>2 DEF Record
      <4>3. OnLeaseExpired(e) => leases' = leases
        BY DEF OnLeaseExpired
      <4>. QED  BY <2>4, <4>1, <4>2, <4>3
    <3>. QED  BY <2>1, <3>1
  <2>5. ASSUME NEW k \in Keys, NoSource(k) \/ (OnEvent(k) /\ recordings[k] # None)
        PROVE  LeaseInv'
    BY <2>1, <2>5 DEF NoSource, OnEvent
  <2>6. CASE (\E e \in Episodes : Event(e)) \/ ChangeGrace \/ Resume
    BY <2>3, <2>6, LeaseSteps
  <2>7. CASE Tick \/ UNCHANGED vars
    BY <2>1, <2>7 DEF Tick, vars
  <2>. QED  BY <1>2, <2>4, <2>5, <2>6, <2>7 DEF QuietStep
<1>3. ASSUME NEW k \in Keys, NEW r \in Recordings, Starts(k, r)
      PROVE  LeaseInv'
  <2>1. ASSUME NEW x \in Keys, NEW s \in Recordings, recordings'[x] = s, leases[x[1]] # NoLease
        PROVE  rec'[s].deadline = leases[x[1]].until
    <3>1. CASE x = k
      BY <1>3, <2>1, <3>1 DEF Starts, Start, Started
    <3>2. CASE x # k
      <4>1. recordings[x] = s /\ rec[s].key = x
        BY <1>3, <2>1, <3>2 DEF Starts, Start, MapsInv
      <4>2. s # r
        BY <1>3, <3>2, <4>1 DEF Starts, Candidate, Fresh, MapsInv, Capturing, AtRest
      <4>. QED  BY <1>3, <2>1, <4>1, <4>2 DEF Starts, Start
    <3>. QED  BY <3>1, <3>2
  <2>. QED  BY <1>3, <2>1 DEF Starts
<1>4. ASSUME NEW b \in Barriers, Drain(b)
      PROVE  LeaseInv'
  BY <1>4 DEF Drain, Take, world, rows, messages, maps, disk
<1>5. ASSUME NEW b \in Barriers, BarrierSink(b)
      PROVE  LeaseInv'
  BY <1>5 DEF BarrierSink, world, rows, messages, maps, disk
<1>6. ASSUME NEW b \in Barriers, BarrierComplete(b)
      PROVE  LeaseInv'
  <2>1. \A r \in Recordings : rec'[r].deadline = rec[r].deadline
    <3>1. \A r \in Recordings : rec[r] \in Record
      OBVIOUS
    <3>. QED  BY <1>6, <3>1 DEF BarrierComplete, Record
  <2>2. UNCHANGED <<recordings, leases>>
    BY <1>6 DEF BarrierComplete
  <2>. QED  BY <2>1, <2>2
<1>7. ASSUME NEW e \in Episodes, FinalizeEpisode(e)
      PROVE  LeaseInv'
  <2>1. \A r \in Recordings : rec'[r].deadline = rec[r].deadline
    BY <1>7, StopAllOutcome DEF FinalizeEpisode
  <2>2. \A x \in Keys : recordings'[x] \in {recordings[x], None}
    BY <1>7, StopAllOutcome DEF FinalizeEpisode
  <2>3. leases' = leases
    BY <1>7 DEF FinalizeEpisode, TypeOK, LeasesOK
  <2>. QED  BY <2>1, <2>2, <2>3, KeyParts
<1>8. ASSUME NEW e \in Episodes, Join(e)
      PROVE  LeaseInv'
  BY <1>8 DEF Join, world, rows, messages, maps, disk
<1>9. ASSUME NEW e \in Episodes, FinalizeReturns(e) \/ Close(e) \/ Expire(e)
      PROVE  LeaseInv'
  BY <1>9 DEF FinalizeReturns, Close, Expire, world, rows, messages, maps, disk
<1>10. ASSUME NEW e \in Episodes, OnClosed(e)
      PROVE  LeaseInv'
  <2>1. \A r \in Recordings : rec'[r].deadline = rec[r].deadline
    BY <1>10, StopAllOutcome DEF OnClosed
  <2>2. \A x \in Keys : recordings'[x] \in {recordings[x], None}
    BY <1>10, StopAllOutcome DEF OnClosed
  <2>3. leases' = [leases EXCEPT ![e] = NoLease] /\ leases \in [Episodes -> Lease \union {NoLease}]
    BY <1>10 DEF OnClosed, TypeOK, LeasesOK
  <2>. QED  BY <2>1, <2>2, <2>3, KeyParts
<1>11. ASSUME NEW e \in Episodes, BarrierFails(e)
      PROVE  LeaseInv'
  <2>1. UNCHANGED <<recordings, leases>> /\ \A r \in Recordings : rec'[r].deadline = rec[r].deadline
    BY <1>11, FailsOutcome
  <2>. QED  BY <2>1
<1>12. CASE Shutdown
  <2>1. \A r \in Recordings : rec'[r].deadline = rec[r].deadline
    BY <1>12, StopAllOutcome DEF Shutdown
  <2>2. \A x \in Keys : recordings'[x] \in {recordings[x], None}
    BY <1>12, StopAllOutcome DEF Shutdown
  <2>3. leases' = leases
    BY <1>12 DEF Shutdown, TypeOK, LeasesOK
  <2>. QED  BY <2>1, <2>2, <2>3, KeyParts
<1>13. CASE Die
  BY <1>13 DEF Die, Unused, world, rows, messages, maps, disk
<1>14. CASE Recover
  BY <1>14 DEF Recover, world, rows, messages, maps, disk
<1>15. CASE ResumeRest
  <2>1. UNCHANGED <<rec, recordings, leases>>
    BY <1>15 DEF ResumeRest
  <2>. QED  BY <2>1
<1>16. CASE ResumeDone
  BY <1>16 DEF ResumeDone, world, rows, messages, maps, disk
<1>. QED
  BY <1>1, <1>2, <1>3, <1>4, <1>5, <1>6, <1>7, <1>8, <1>9, <1>10, <1>11, <1>12, <1>13, <1>14,
     <1>15, <1>16, StepKinds

\* What is mapped and what is recoverable under the keys of an Episode.
LEMMA MappedFacts ==
  ASSUME TypeOK, MapsInv, WorkspaceInv, NEW e \in Episodes
  PROVE  /\ \A r \in Active(e) : /\ r \in Recordings /\ EpisodeOf(r) = e /\ Mapped(r)
                                 /\ rec[r].pc # "none" /\ workspace[r] # "none"
         /\ \A r \in Parked(e) : /\ r \in Recordings /\ EpisodeOf(r) = e /\ recoverable[rec[r].key] = r
                                 /\ rec[r].pc \in AtRest /\ workspace[r] # "none"
         /\ Idle(e) \subseteq Parked(e)
         /\ \A r \in Recordings : EpisodeOf(r) = e /\ Mapped(r) => r \in Active(e)
         /\ \A r \in Recordings : EpisodeOf(r) = e /\ recoverable[rec[r].key] = r => r \in Parked(e)
<1>. USE Types
<1>1. ASSUME NEW r \in Active(e)
      PROVE  /\ r \in Recordings /\ EpisodeOf(r) = e /\ Mapped(r)
             /\ rec[r].pc # "none" /\ workspace[r] # "none"
  <2>1. PICK k \in Keys : k[1] = e /\ recordings[k] = r
    BY DEF Active
  <2>2. r \in Recordings
    BY <2>1 DEF Active
  <2>. QED  BY <2>1, <2>2 DEF MapsInv, WorkspaceInv, EpisodeOf, Mapped, Capturing
<1>2. ASSUME NEW r \in Parked(e)
      PROVE  /\ r \in Recordings /\ EpisodeOf(r) = e /\ recoverable[rec[r].key] = r
             /\ rec[r].pc \in AtRest /\ workspace[r] # "none"
  <2>1. PICK k \in Keys : k[1] = e /\ recoverable[k] = r
    BY DEF Parked
  <2>2. r \in Recordings
    BY <2>1 DEF Parked
  <2>. QED  BY <2>1, <2>2 DEF MapsInv, EpisodeOf
<1>3. Idle(e) \subseteq Parked(e)
  BY DEF Idle, Parked
<1>4. ASSUME NEW r \in Recordings, EpisodeOf(r) = e
      PROVE  (Mapped(r) => r \in Active(e)) /\ (recoverable[rec[r].key] = r => r \in Parked(e))
  BY <1>4 DEF Active, Parked, Mapped, EpisodeOf
<1>. QED  BY <1>1, <1>2, <1>3, <1>4

\* A barrier that is idle fits.
LEMMA IdleFits ==
  ASSUME TypeOK, NEW b \in Barriers, barrier'[b] = IdleBarrier
  PROVE  BarrierFits(b)'
BY DEF BarrierFits, At, Holding, IdleBarrier

\* A barrier that a step leaves alone still fits.
LEMMA FitsStill ==
  ASSUME TypeOK, Stays, NEW b \in Barriers, BarrierFits(b), barrier'[b] = barrier[b],
         b \in Episodes /\ state[b] # "open" => state'[b] = state[b],
         b = Startup /\ ~At(b, "idle") => phase' = phase
  PROVE  BarrierFits(b)'
<1>1. /\ \A r \in barrier[b].todo \union barrier[b].owed : workspace'[r] # "none" /\ EpisodeOf(r)' = EpisodeOf(r)
  BY Types DEF BarrierFits, Stays, EpisodeOf
<1>2. At(b, "committed") => evidence'[barrier[b].current]
  BY Types DEF BarrierFits, Stays, At, Holding
<1>. QED  BY <1>1, <1>2 DEF BarrierFits, At, Holding

\* A barrier fits its Episode after every step.
LEMMA BarriersFit ==
  ASSUME TypeOK, MapsInv, WorkspaceInv, BarrierInv, [Next]_vars
  PROVE  BarrierInv'
<1>. USE Types
<1>0. Stays
  BY RecordsStay
<1>. USE <1>0
<1>1. ASSUME NEW r \in Recordings, CaptureTask(r)
      PROVE  BarrierInv'
  <2>1. \A b \in Barriers : BarrierFits(b)
    BY DEF BarrierInv
  <2>2. barrier' = barrier /\ state' = state /\ phase' = phase
    BY <1>1, TaskFrameStep DEF TaskKeeps
  <2>. QED  BY <2>1, <2>2, FitsStill DEF BarrierInv, BarrierFits
<1>2. CASE QuietStep
  <2>1. \A b \in Barriers : BarrierFits(b)
    BY DEF BarrierInv
  <2>2. barrier' = barrier /\ state' = state /\ (phase = "resuming" => phase' = phase)
    BY <1>2, QuietSteps DEF Quiet
  <2>. QED  BY <2>1, <2>2, FitsStill DEF BarrierInv, BarrierFits
<1>3. ASSUME NEW k \in Keys, NEW r \in Recordings, Starts(k, r)
      PROVE  BarrierInv'
  <2>1. \A b \in Barriers : BarrierFits(b)
    BY DEF BarrierInv
  <2>2. state' = state /\ phase' = phase
    BY <1>3 DEF Starts
  <2>3. ASSUME NEW b \in Barriers, barrier'[b] = barrier[b]
        PROVE  BarrierFits(b)'
    BY <2>1, <2>2, <2>3, FitsStill
  <2>4. ASSUME NEW b \in Barriers, b = k[1], At(b, "join"), Same(b), barrier'[b].todo = barrier[b].todo \ {r}
        PROVE  BarrierFits(b)'
    <3>1. \A x \in barrier'[b].todo \union barrier'[b].owed : workspace'[x] # "none" /\ EpisodeOf(x)' = EpisodeOf(x)
      BY <2>1, <2>4 DEF BarrierFits, Stays, EpisodeOf, Same
    <3>2. b \in Episodes /\ b # Startup
      BY <2>4, KeyParts
    <3>. QED  BY <2>1, <2>2, <2>4, <3>1, <3>2 DEF BarrierFits, At, Holding, Same
  <2>. QED  BY <1>3, <2>3, <2>4, StartBarriers DEF BarrierInv
<1>4. ASSUME NEW b \in Barriers, Drain(b)
      PROVE  BarrierInv'
  <2>1. \A x \in Barriers : BarrierFits(x)
    BY DEF BarrierInv
  <2>2. (\A x \in Barriers \ {b} : barrier'[x] = barrier[x]) /\ state' = state /\ phase' = phase
    BY <1>4 DEF Drain, Becomes, Moves, rows, world
  <2>3. ASSUME NEW x \in Barriers \ {b}
        PROVE  BarrierFits(x)'
    BY <2>1, <2>2, FitsStill
  <2>4. /\ At(b, "drain") /\ barrier[b].todo \subseteq Recordings
        /\ \A r \in barrier[b].todo \union barrier[b].owed :
             workspace[r] # "none" /\ (b \in Episodes => EpisodeOf(r) = b)
    BY <1>4, <2>1 DEF Drain, BarrierFits
  <2>5. UNCHANGED <<workspace, rec>>
    BY <1>4 DEF Drain, disk
  <2>6. /\ barrier'[b].at \in {"drain", "publishing"} /\ barrier'[b].todo \subseteq barrier[b].todo
        /\ barrier'[b].owed = barrier[b].owed
        /\ IF barrier'[b].at = "publishing" THEN barrier'[b].current \in barrier'[b].todo
           ELSE barrier'[b].current = barrier[b].current
    <3>1. barrier[b] \in Barrier
      OBVIOUS
    <3>2. PICK r \in barrier[b].todo :
            \/ barrier' = [barrier EXCEPT ![b].todo = @ \ {r}]
            \/ barrier' = [barrier EXCEPT ![b].at = "publishing", ![b].current = r]
      BY <1>4 DEF Drain
    <3>. QED  BY <2>4, <3>1, <3>2 DEF Barrier, At
  <2>7. BarrierFits(b)'
    BY <2>1, <2>2, <2>4, <2>5, <2>6 DEF BarrierFits, At, Holding, EpisodeOf
  <2>. QED  BY <2>3, <2>7 DEF BarrierInv
<1>5. ASSUME NEW b \in Barriers, BarrierSink(b)
      PROVE  BarrierInv'
  <2>1. \A x \in Barriers : BarrierFits(x)
    BY DEF BarrierInv
  <2>2. (\A x \in Barriers \ {b} : barrier'[x] = barrier[x]) /\ state' = state /\ phase' = phase
    BY <1>5 DEF BarrierSink, Becomes, Moves, rows, world
  <2>3. ASSUME NEW x \in Barriers \ {b}
        PROVE  BarrierFits(x)'
    BY <2>1, <2>2, FitsStill
  <2>4. UNCHANGED <<workspace, rec>> /\ evidence' = [evidence EXCEPT ![barrier[b].current] = TRUE]
    BY <1>5 DEF BarrierSink
  <2>5. barrier'[b] = [barrier[b] EXCEPT !.at = "committed"] /\ barrier[b] \in Barrier /\ At(b, "publishing")
    BY <1>5 DEF BarrierSink, Moves
  <2>6. barrier[b].current \in Recordings /\ barrier[b].current \in barrier[b].todo
    BY <2>5, HoldingFacts DEF Holding, At
  <2>7. /\ barrier'[b].at = "committed" /\ barrier'[b].todo = barrier[b].todo /\ barrier'[b].owed = barrier[b].owed
        /\ barrier'[b].current = barrier[b].current /\ evidence'[barrier[b].current]
    BY <2>4, <2>5, <2>6 DEF Barrier
  <2>8. BarrierFits(b)'
    BY <2>1, <2>2, <2>4, <2>5, <2>6, <2>7 DEF BarrierFits, At, Holding, EpisodeOf
  <2>. QED  BY <2>3, <2>8 DEF BarrierInv
<1>6. ASSUME NEW b \in Barriers, BarrierComplete(b)
      PROVE  BarrierInv'
  <2>1. \A x \in Barriers : BarrierFits(x)
    BY DEF BarrierInv
  <2>2. (\A x \in Barriers \ {b} : barrier'[x] = barrier[x]) /\ state' = state /\ phase' = phase
    BY <1>6 DEF BarrierComplete, Becomes, Moves, rows, world
  <2>3. ASSUME NEW x \in Barriers \ {b}
        PROVE  BarrierFits(x)'
    BY <2>1, <2>2, FitsStill
  <2>4. barrier'[b] = [barrier[b] EXCEPT !.at = "drain", !.todo = @ \ {barrier[b].current}, !.current = None]
    BY <1>6 DEF BarrierComplete, Becomes
  <2>5. barrier[b] \in Barrier /\ At(b, "committed")
    BY <1>6 DEF BarrierComplete
  <2>6. /\ barrier'[b].at = "drain" /\ barrier'[b].todo \subseteq barrier[b].todo /\ barrier'[b].current = None
        /\ barrier'[b].owed = barrier[b].owed
    BY <2>4, <2>5 DEF Barrier
  <2>7. \A r \in barrier[b].todo \union barrier[b].owed : workspace'[r] # "none" /\ EpisodeOf(r)' = EpisodeOf(r)
    BY <2>1 DEF BarrierFits, Stays, EpisodeOf
  <2>8. BarrierFits(b)'
    BY <2>1, <2>2, <2>5, <2>6, <2>7 DEF BarrierFits, At, Holding
  <2>. QED  BY <2>3, <2>8 DEF BarrierInv
<1>7. ASSUME NEW e \in Episodes, FinalizeEpisode(e)
      PROVE  BarrierInv'
  <2>1. \A b \in Barriers : BarrierFits(b)
    BY DEF BarrierInv
  <2>2. (\A x \in Barriers \ {e} : barrier'[x] = barrier[x]) /\ state' = state /\ phase' = phase
    BY <1>7 DEF FinalizeEpisode, Becomes, Moves, rows, world
  <2>3. ASSUME NEW x \in Barriers \ {e}
        PROVE  BarrierFits(x)'
    BY <2>1, <2>2, FitsStill
  <2>4. UNCHANGED workspace /\ state[e] = "finalizing" /\ \A r \in Recordings : EpisodeOf(r)' = EpisodeOf(r)
    BY <1>7, StopAllOutcome DEF FinalizeEpisode, disk, EpisodeOf
  <2>5. /\ barrier'[e].at \in {"drain", "join"} /\ barrier'[e].todo \in {Active(e), Parked(e)}
        /\ barrier'[e].owed = Active(e) \union Idle(e) /\ barrier'[e].current = None
    BY <1>7 DEF FinalizeEpisode, Becomes
  <2>6. \A r \in barrier'[e].todo \union barrier'[e].owed :
          r \in Recordings /\ workspace[r] # "none" /\ EpisodeOf(r) = e
    BY <2>5, MappedFacts
  <2>7. BarrierFits(e)'
    BY <2>2, <2>4, <2>5, <2>6 DEF BarrierFits, At, Holding
  <2>. QED  BY <2>3, <2>7 DEF BarrierInv
<1>8. ASSUME NEW e \in Episodes, Join(e)
      PROVE  BarrierInv'
  <2>1. \A b \in Barriers : BarrierFits(b)
    BY DEF BarrierInv
  <2>2. (\A x \in Barriers \ {e} : barrier'[x] = barrier[x]) /\ state' = state /\ phase' = phase
    BY <1>8 DEF Join, Becomes, Moves, rows, world
  <2>3. ASSUME NEW x \in Barriers \ {e}
        PROVE  BarrierFits(x)'
    BY <2>1, <2>2, FitsStill
  <2>4. UNCHANGED <<workspace, rec>> /\ At(e, "join") /\ barrier[e] \in Barrier
    BY <1>8 DEF Join, disk
  <2>5. barrier'[e] = IdleBarrier \/ barrier'[e] = [barrier[e] EXCEPT !.at = "drain", !.todo = Parked(e)]
    BY <1>8 DEF Join, Becomes
  <2>6. CASE barrier'[e] = IdleBarrier
    BY <2>3, <2>6, IdleFits DEF BarrierInv
  <2>7. CASE barrier'[e] = [barrier[e] EXCEPT !.at = "drain", !.todo = Parked(e)]
    <3>1. /\ barrier'[e].at = "drain" /\ barrier'[e].todo = Parked(e) /\ barrier'[e].owed = barrier[e].owed
          /\ barrier'[e].current = barrier[e].current
      BY <2>4, <2>7 DEF Barrier
    <3>2. \A r \in Parked(e) : workspace[r] # "none" /\ EpisodeOf(r) = e
      BY MappedFacts
    <3>3. state[e] = "finalizing" /\ barrier[e].current = None /\ \A r \in barrier[e].owed : workspace[r] # "none" /\ EpisodeOf(r) = e
      BY <2>1, <2>4 DEF BarrierFits, At, Holding
    <3>4. BarrierFits(e)'
      BY <2>2, <2>4, <3>1, <3>2, <3>3 DEF BarrierFits, At, Holding, EpisodeOf
    <3>. QED  BY <2>3, <3>4 DEF BarrierInv
  <2>. QED  BY <2>3, <2>5, <2>6, <2>7 DEF BarrierInv
<1>9. ASSUME NEW e \in Episodes, FinalizeReturns(e) \/ Close(e) \/ Expire(e)
      PROVE  BarrierInv'
  <2>1. \A b \in Barriers : BarrierFits(b)
    BY DEF BarrierInv
  <2>2. UNCHANGED <<rec, workspace, phase>> /\ \A x \in Barriers \ {e} : barrier'[x] = barrier[x]
    BY <1>9 DEF FinalizeReturns, Close, Expire, Moves, disk, world
  <2>3. state \in [Episodes -> {"open", "finalizing", "closed"}] /\ barrier[e] \in Barrier
    BY DEF TypeOK, RowsOK
  <2>4. \A x \in Episodes : x # e \/ FinalizeReturns(e) => state'[x] = state[x]
    BY <1>9, <2>3 DEF FinalizeReturns, Close, Expire, rows
  <2>5. ASSUME NEW x \in Barriers \ {e}
        PROVE  BarrierFits(x)'
    BY <2>1, <2>2, <2>4, FitsStill
  <2>6. ASSUME FinalizeReturns(e) \/ Close(e)
        PROVE  /\ barrier'[e].todo = barrier[e].todo /\ barrier'[e].owed = barrier[e].owed
               /\ barrier'[e].current = barrier[e].current
               /\ barrier'[e].at = IF FinalizeReturns(e) THEN "returned" ELSE "closed"
    BY <2>3, <2>6 DEF FinalizeReturns, Close, Moves, Barrier, At
  <2>7. CASE FinalizeReturns(e)
    <3>1. /\ barrier'[e].at = "returned" /\ state' = state /\ state[e] = "finalizing" /\ barrier'[e].todo = {}
          /\ barrier[e].current = None
      BY <2>1, <2>4, <2>6, <2>7 DEF FinalizeReturns, BarrierFits, At, rows, Holding
    <3>2. \A r \in barrier[e].owed : workspace[r] # "none" /\ EpisodeOf(r) = e
      BY <2>1 DEF BarrierFits
    <3>3. BarrierFits(e)'
      BY <2>2, <2>6, <2>7, <3>1, <3>2 DEF BarrierFits, At, Holding, EpisodeOf
    <3>. QED  BY <2>5, <3>3 DEF BarrierInv
  <2>8. CASE Close(e)
    <3>1. barrier'[e].at = "closed" /\ state'[e] = "closed" /\ barrier[e].current = None
      BY <2>1, <2>3, <2>8 DEF Close, Moves, Barrier, BarrierFits, At, Holding
    <3>2. \A r \in barrier[e].todo \union barrier[e].owed : workspace[r] # "none" /\ EpisodeOf(r) = e
      BY <2>1 DEF BarrierFits
    <3>3. BarrierFits(e)'
      BY <2>2, <2>6, <2>8, <3>1, <3>2 DEF BarrierFits, At, Holding, EpisodeOf
    <3>. QED  BY <2>5, <3>3 DEF BarrierInv
  <2>9. CASE Expire(e)
    <3>1. barrier'[e] = barrier[e] /\ state[e] = "open" /\ state'[e] = "finalizing"
      BY <2>3, <2>9 DEF Expire
    <3>2. barrier[e].at \in {"idle"} /\ (At(e, "idle") => barrier[e] = IdleBarrier)
      BY <2>1, <2>3, <3>1 DEF BarrierFits, At
    <3>. QED  BY <2>5, <3>1, <3>2, IdleFits DEF BarrierInv, At
  <2>. QED  BY <1>9, <2>5, <2>7, <2>8, <2>9 DEF BarrierInv
<1>10. ASSUME NEW e \in Episodes, OnClosed(e)
      PROVE  BarrierInv'
  <2>1. \A b \in Barriers : BarrierFits(b)
    BY DEF BarrierInv
  <2>2. (\A x \in Barriers \ {e} : barrier'[x] = barrier[x]) /\ state' = state /\ phase' = phase
    BY <1>10 DEF OnClosed, Becomes, Moves, rows, world
  <2>3. ASSUME NEW x \in Barriers \ {e}
        PROVE  BarrierFits(x)'
    BY <2>1, <2>2, FitsStill
  <2>4. barrier'[e] = IdleBarrier
    BY <1>10 DEF OnClosed, Becomes
  <2>5. BarrierFits(e)'
    BY <2>2, <2>4 DEF BarrierFits, At, Holding, IdleBarrier
  <2>. QED  BY <2>3, <2>5 DEF BarrierInv
<1>11. ASSUME NEW e \in Episodes, BarrierFails(e)
      PROVE  BarrierInv'
  <2>1. \A b \in Barriers : BarrierFits(b)
    BY DEF BarrierInv
  <2>2. (\A x \in Barriers \ {e} : barrier'[x] = barrier[x]) /\ state' = state /\ phase' = phase
    BY <1>11 DEF BarrierFails, Becomes, Moves, rows, world
  <2>3. ASSUME NEW x \in Barriers \ {e}
        PROVE  BarrierFits(x)'
    BY <2>1, <2>2, FitsStill
  <2>4. barrier'[e] = IdleBarrier
    BY <1>11, FailsOutcome
  <2>5. BarrierFits(e)'
    BY <2>2, <2>4 DEF BarrierFits, At, Holding, IdleBarrier
  <2>. QED  BY <2>3, <2>5 DEF BarrierInv
<1>12. CASE Shutdown
  <2>1. \A b \in Barriers : BarrierFits(b)
    BY DEF BarrierInv
  <2>2. barrier' = barrier /\ state' = state /\ phase # "resuming"
    BY <1>12 DEF Shutdown, rows
  <2>. QED  BY <2>1, <2>2, FitsStill DEF BarrierInv, BarrierFits
<1>13. CASE Die
  <2>1. \A b \in Barriers : barrier'[b] = IdleBarrier
    BY <1>13 DEF Die
  <2>. QED  BY <2>1, IdleFits DEF BarrierInv
<1>14. CASE Recover
  <2>1. \A b \in Barriers : BarrierFits(b)
    BY DEF BarrierInv
  <2>2. barrier' = barrier /\ state' = state /\ phase # "resuming"
    BY <1>14 DEF Recover, rows
  <2>. QED  BY <2>1, <2>2, FitsStill DEF BarrierInv, BarrierFits
<1>15. CASE ResumeRest
  <2>1. \A b \in Barriers : BarrierFits(b)
    BY DEF BarrierInv
  <2>2. (\A x \in Barriers \ {Startup} : barrier'[x] = barrier[x]) /\ state' = state /\ phase' = phase
    BY <1>15 DEF ResumeRest, Becomes, Moves, rows, world
  <2>3. ASSUME NEW x \in Barriers \ {Startup}
        PROVE  BarrierFits(x)'
    BY <2>1, <2>2, FitsStill
  <2>4. barrier[Startup] = IdleBarrier /\ UNCHANGED <<rec, workspace>> /\ phase = "resuming"
    BY <1>15, <2>1 DEF ResumeRest, BarrierFits, disk
  <2>5. \A r \in UNION {Parked(e) : e \in Episodes} : workspace[r] # "none"
    BY MappedFacts
  <2>6. /\ barrier'[Startup].at \in {"drain", "publishing"} /\ barrier'[Startup].owed = {}
        /\ barrier'[Startup].todo \subseteq UNION {Parked(e) : e \in Episodes}
        /\ IF barrier'[Startup].at = "publishing" THEN barrier'[Startup].current \in barrier'[Startup].todo
           ELSE barrier'[Startup].current = None
    <3>. DEFINE rest == UNION {Parked(e) : e \in Episodes}
    <3>1. \/ barrier'[Startup] = [barrier[Startup] EXCEPT !.at = "drain"]
          \/ \E r \in rest : \/ barrier'[Startup] = [IdleBarrier EXCEPT !.at = "drain", !.todo = rest \ {r}]
                           \/ barrier'[Startup] = [IdleBarrier EXCEPT !.at = "publishing", !.todo = rest, !.current = r]
      BY <1>15 DEF ResumeRest, Moves, Becomes
    <3>. HIDE DEF rest
    <3>3. ASSUME NEW r \in rest, barrier'[Startup] = [IdleBarrier EXCEPT !.at = "drain", !.todo = rest \ {r}]
          PROVE  /\ barrier'[Startup].at = "drain" /\ barrier'[Startup].owed = {}
                 /\ barrier'[Startup].todo = rest \ {r} /\ barrier'[Startup].current = None
      BY ONLY <3>3 DEF IdleBarrier
    <3>2. CASE barrier'[Startup] = [barrier[Startup] EXCEPT !.at = "drain"]
      <4>1. /\ barrier'[Startup].at = "drain" /\ barrier'[Startup].owed = {} /\ barrier'[Startup].todo = {}
            /\ barrier'[Startup].current = None
        BY <2>4, <3>2 DEF IdleBarrier
      <4>. QED  BY <4>1 DEF rest
    <3>5. ASSUME NEW r \in rest, barrier'[Startup] = [IdleBarrier EXCEPT !.at = "drain", !.todo = rest \ {r}]
          PROVE  /\ barrier'[Startup].at \in {"drain", "publishing"} /\ barrier'[Startup].owed = {}
                 /\ barrier'[Startup].todo \subseteq rest
                 /\ IF barrier'[Startup].at = "publishing" THEN barrier'[Startup].current \in barrier'[Startup].todo
                    ELSE barrier'[Startup].current = None
      BY ONLY <3>3, <3>5
    <3>6. ASSUME NEW r \in rest,
                 barrier'[Startup] = [IdleBarrier EXCEPT !.at = "publishing", !.todo = rest, !.current = r]
          PROVE  /\ barrier'[Startup].at \in {"drain", "publishing"} /\ barrier'[Startup].owed = {}
                 /\ barrier'[Startup].todo \subseteq rest
                 /\ IF barrier'[Startup].at = "publishing" THEN barrier'[Startup].current \in barrier'[Startup].todo
                    ELSE barrier'[Startup].current = None
      <4>1. /\ barrier'[Startup].at = "publishing" /\ barrier'[Startup].owed = {}
            /\ barrier'[Startup].todo = rest /\ barrier'[Startup].current = r
        BY ONLY <3>6 DEF IdleBarrier
      <4>2. barrier'[Startup].todo \subseteq rest /\ r \in barrier'[Startup].todo
        BY ONLY <3>6, <4>1
      <4>. QED  BY ONLY <4>1, <4>2
    <3>. QED  BY <3>1, <3>2, <3>5, <3>6 DEF rest
  <2>7. BarrierFits(Startup)'
    BY <2>2, <2>4, <2>5, <2>6 DEF BarrierFits, At, Holding
  <2>. QED  BY <2>3, <2>7 DEF BarrierInv
<1>16. CASE ResumeDone
  <2>1. \A b \in Barriers : BarrierFits(b)
    BY DEF BarrierInv
  <2>2. (\A x \in Barriers \ {Startup} : barrier'[x] = barrier[x]) /\ state' = state /\ barrier'[Startup] = IdleBarrier
    BY <1>16 DEF ResumeDone, Becomes, rows
  <2>3. ASSUME NEW x \in Barriers \ {Startup}
        PROVE  BarrierFits(x)'
    BY <2>1, <2>2, FitsStill
  <2>4. BarrierFits(Startup)'
    BY <2>2 DEF BarrierFits, At, Holding, IdleBarrier
  <2>. QED  BY <2>3, <2>4 DEF BarrierInv
<1>. QED
  BY <1>1, <1>2, <1>3, <1>4, <1>5, <1>6, <1>7, <1>8, <1>9, <1>10, <1>11, <1>12, <1>13, <1>14,
     <1>15, <1>16, StepKinds

\* A stop of one Episode's recordings leaves the others mapped.
LEMMA StopsOne ==
  ASSUME TypeOK, MapsInv, WorkspaceInv, NEW e \in Episodes, StopAll(Active(e), FALSE)
  PROVE  \A r \in Recordings : EpisodeOf(r) # e /\ Mapped(r) => Mapped(r)'
<1>1. \A r \in Recordings : rec'[r].key = rec[r].key
  BY StopAllOutcome
<1>2. \A r \in Active(e) : EpisodeOf(r) = e
  BY MappedFacts
<1>3. \A k \in Keys : recordings'[k] = IF recordings[k] \in Active(e) THEN None ELSE recordings[k]
  BY StopAllOutcome
<1>4. \A r \in Recordings : rec[r].key \in Keys
  BY Types
<1>. QED  BY <1>1, <1>2, <1>3, <1>4 DEF Mapped

\* The tasks of an open Episode stay mapped until they end.
LEMMA OpenStep ==
  ASSUME TypeOK, MapsInv, WorkspaceInv, DownInv, BarrierInv, OpenInv, [Next]_vars
  PROVE  OpenInv'
<1>. USE DEF OpenInv, Capturing, Holding
<1>. USE Types
<1>0. Stays
  BY RecordsStay
<1>1. ASSUME NEW r \in Recordings, CaptureTask(r)
      PROVE  OpenInv'
  <2>1. TaskKeeps(r)
    BY <1>1, TaskFrameStep
  <2>2. ASSUME Running, NEW s \in Recordings, state[EpisodeOf(s)] = "open"
        PROVE  /\ rec'[s].pc \in Capturing \union {"dead"} => Mapped(s)'
               /\ rec'[s].pc \in Holding => DeviceOf(s)' \in piped
    <3>. USE <2>2
    <3>0. rec'[s].key = rec[s].key /\ ~Stopping(r)
      BY <2>1 DEF TaskKeeps, Stopping, WorkspaceInv, Running
    <3>. USE <3>0
    <3>1. CASE recordings' = recordings
      <4>3. s # r => rec'[s] = rec[s]
        BY <2>1 DEF TaskKeeps
      <4>4. /\ rec'[r].pc \in Capturing \union {"dead"} => rec[r].pc \in Capturing \union {"dead"}
            /\ rec'[r].pc \in Holding => rec[r].pc \in Holding \/ Publishes(r)
        <5>1. GoesOn(r) \/ Leaves(r) \/ Parks(r) \/ Publishes(r) \/ Commits(r) \/ Retains(r) \/ Completes(r)
          BY <1>1, TaskOutcome
        <5>. QED  BY ONLY <5>1 DEF GoesOn, Leaves, Parks, Publishes, Commits, Retains, Completes, Capturing, Holding
      <4>1. rec'[s].pc \in Capturing \union {"dead"} => rec[s].pc \in Capturing \union {"dead"}
        BY <4>3, <4>4
      <4>2. rec'[s].pc \in Holding => rec[s].pc \in Holding \/ (s = r /\ Publishes(r))
        BY <4>3, <4>4
      <4>. QED  BY <3>1, <4>1, <4>2 DEF Mapped, DeviceOf, Publishes, OpenInv
    <3>2. CASE recordings' # recordings
      <4>1. /\ recordings' = [recordings EXCEPT ![rec[r].key] = None] /\ rec[r].pc \in Capturing
            /\ rec'[r].pc \in {"ended", "publishing"}
            /\ rec'[r].pc = "publishing" => state[EpisodeOf(r)] # "open" \/ DeviceOf(r) \in piped
        BY <1>1, <3>2, TaskOutcome DEF GoesOn, Leaves, Parks, Publishes, Commits, Retains, Completes
      <4>2. CASE s = r
        BY <4>1, <4>2 DEF DeviceOf
      <4>3. CASE s # r
        <5>1. rec[s].pc \in Capturing \union {"dead"} => Mapped(s) /\ rec[s].key # rec[r].key
          BY <4>1, <4>3 DEF OpenInv, Mapped, EpisodeOf
        <5>2. rec'[s] = rec[s]
          BY <2>1, <4>3 DEF TaskKeeps
        <5>. QED  BY <4>1, <5>1, <5>2 DEF OpenInv, Mapped, DeviceOf
      <4>. QED  BY <4>2, <4>3
    <3>. QED  BY <3>1, <3>2
  <2>. QED  BY <2>1, <2>2 DEF TaskKeeps, OpenInv, Running, EpisodeOf
<1>2. CASE QuietStep
  <2>1. (\A r \in Recordings : rec'[r].key = rec[r].key /\ rec'[r].pc = rec[r].pc) /\ UNCHANGED <<recordings, state, piped>> /\ (Running <=> Running')
    BY <1>2, QuietSteps DEF Quiet, Running
  <2>. QED  BY <2>1 DEF EpisodeOf, DeviceOf, Mapped
<1>3. ASSUME NEW k \in Keys, NEW r \in Recordings, Starts(k, r)
      PROVE  OpenInv'
  <2>1. /\ Running /\ UNCHANGED <<state, piped, phase>> /\ recordings[k] = None
        /\ \A s \in Recordings \ {r} : rec'[s] = rec[s]
        /\ recordings' = [recordings EXCEPT ![k] = r]
        /\ rec'[r].key = k /\ rec'[r].pc = "starting"
    BY <1>3 DEF Starts, Start, Started
  <2>2. ASSUME NEW s \in Recordings, s # r, state[EpisodeOf(s)] = "open", rec[s].pc \in Capturing \union {"dead"}
        PROVE  rec[s].key # k /\ Mapped(s)
    BY <2>1, <2>2 DEF OpenInv, Mapped
  <2>3. Mapped(r)' /\ rec'[r].pc \notin Holding
    BY <2>1 DEF Mapped, Holding
  <2>4. ASSUME NEW s \in Recordings, s # r, state[EpisodeOf(s)] = "open"
        PROVE  /\ rec[s].pc \in Capturing \union {"dead"} => Mapped(s)'
               /\ rec[s].pc \in Holding => DeviceOf(s) \in piped
    BY <2>1, <2>2, <2>4 DEF OpenInv, Mapped
  <2>. QED  BY <2>1, <2>3, <2>4 DEF OpenInv, EpisodeOf, DeviceOf
<1>4. ASSUME NEW b \in Barriers, Drain(b)
      PROVE  OpenInv'
  <2>1. UNCHANGED <<rec, recordings, state, phase, piped>>
    BY <1>4 DEF Drain, world, rows, maps
  <2>. QED  BY <2>1 DEF Running, EpisodeOf, DeviceOf, Mapped
<1>5. ASSUME NEW b \in Barriers, BarrierSink(b)
      PROVE  OpenInv'
  <2>1. UNCHANGED <<rec, recordings, state, phase, piped>>
    BY <1>5 DEF BarrierSink, world, rows, maps
  <2>. QED  BY <2>1 DEF Running, EpisodeOf, DeviceOf, Mapped
<1>6. ASSUME NEW b \in Barriers, BarrierComplete(b)
      PROVE  OpenInv'
  <2>1. (\A r \in Recordings : rec'[r].key = rec[r].key /\ rec'[r].pc = rec[r].pc) /\ UNCHANGED <<recordings, state, phase, piped>>
    <3>1. \A r \in Recordings : rec[r] \in Record
      OBVIOUS
    <3>. QED  BY <1>6, <3>1 DEF BarrierComplete, Record, world, rows
  <2>. QED  BY <2>1 DEF Running, EpisodeOf, DeviceOf, Mapped
<1>7. ASSUME NEW e \in Episodes, FinalizeEpisode(e)
      PROVE  OpenInv'
  <2>1. UNCHANGED <<state, phase, piped>> /\ state[e] # "open"
    BY <1>7, Types DEF FinalizeEpisode, rows, world
  <2>2. (\A r \in Recordings : rec'[r].key = rec[r].key /\ rec'[r].pc = rec[r].pc) /\ StopAll(Active(e), FALSE)
    BY <1>7, StopAllOutcome DEF FinalizeEpisode
  <2>3. \A r \in Recordings : EpisodeOf(r) # e /\ Mapped(r) => Mapped(r)'
    BY <2>2, StopsOne
  <2>. QED  BY <2>1, <2>2, <2>3 DEF OpenInv, Running, EpisodeOf, DeviceOf
<1>8. ASSUME NEW e \in Episodes, Join(e)
      PROVE  OpenInv'
  <2>1. UNCHANGED <<rec, recordings, state, phase, piped>>
    BY <1>8 DEF Join, world, rows, maps
  <2>. QED  BY <2>1 DEF Running, EpisodeOf, DeviceOf, Mapped
<1>9. ASSUME NEW e \in Episodes, FinalizeReturns(e) \/ Close(e) \/ Expire(e)
      PROVE  OpenInv'
  <2>1. UNCHANGED <<rec, recordings, phase, piped>>
    BY <1>9 DEF FinalizeReturns, Close, Expire, world, maps
  <2>. QED  BY <1>0, <2>1 DEF Stays, Running, EpisodeOf, DeviceOf, Mapped
<1>10. ASSUME NEW e \in Episodes, OnClosed(e)
      PROVE  OpenInv'
  <2>1. UNCHANGED <<state, phase, piped>> /\ state[e] # "open"
    BY <1>10, Types DEF OnClosed, rows, world, BarrierInv, BarrierFits
  <2>2. (\A r \in Recordings : rec'[r].key = rec[r].key /\ rec'[r].pc = rec[r].pc) /\ StopAll(Active(e), FALSE)
    BY <1>10, StopAllOutcome DEF OnClosed
  <2>3. \A r \in Recordings : EpisodeOf(r) # e /\ Mapped(r) => Mapped(r)'
    BY <2>2, StopsOne
  <2>. QED  BY <2>1, <2>2, <2>3 DEF OpenInv, Running, EpisodeOf, DeviceOf
<1>11. ASSUME NEW e \in Episodes, BarrierFails(e)
      PROVE  OpenInv'
  <2>1. (\A r \in Recordings : rec'[r].key = rec[r].key /\ rec'[r].pc = rec[r].pc) /\ UNCHANGED <<recordings, state, phase, piped>>
    BY <1>11, FailsOutcome
  <2>. QED  BY <2>1 DEF Running, EpisodeOf, DeviceOf, Mapped
<1>12. CASE Shutdown
  BY <1>12 DEF Shutdown, Running
<1>13. CASE Die
  BY <1>13 DEF Die, Running
<1>14. CASE Recover
  <2>1. UNCHANGED rec /\ \A r \in Recordings : rec[r].pc = "none"
    BY <1>14 DEF Recover, DownInv
  <2>. QED  BY <2>1 DEF Capturing, Holding
<1>15. CASE ResumeRest
  <2>1. UNCHANGED <<rec, recordings, state, phase, piped>>
    BY <1>15 DEF ResumeRest, world, rows
  <2>. QED  BY <2>1 DEF Running, EpisodeOf, DeviceOf, Mapped
<1>16. CASE ResumeDone
  <2>1. UNCHANGED <<rec, recordings, state, piped>> /\ phase = "resuming" /\ phase' = "running"
    BY <1>16 DEF ResumeDone, rows, maps
  <2>. QED  BY <2>1 DEF Running, EpisodeOf, DeviceOf, Mapped
<1>. QED
  BY <1>1, <1>2, <1>3, <1>4, <1>5, <1>6, <1>7, <1>8, <1>9, <1>10, <1>11, <1>12, <1>13, <1>14,
     <1>15, <1>16, StepKinds

\* A task that captures stays attended while nothing of its Episode moves.
LEMMA AttendedStill ==
  ASSUME NEW r \in Recordings, Attended(r), rec'[r].key = rec[r].key,
         barrier'[EpisodeOf(r)] = barrier[EpisodeOf(r)], Running' <=> Running,
         Running /\ At(EpisodeOf(r), "idle") /\ Mapped(r) /\ Alone(r) => Mapped(r)' /\ Alone(r)'
  PROVE  Attended(r)'
<1>1. EpisodeOf(r)' = EpisodeOf(r)
  BY DEF EpisodeOf
<1>. QED  BY <1>1 DEF Attended, At

\* It stays alone under its key while no other task begins.
LEMMA AloneStill ==
  ASSUME NEW r \in Recordings, Alone(r), rec'[r].key = rec[r].key,
         \A s \in Recordings : /\ rec'[s].pc \in Capturing => rec[s].pc \in Capturing
                               /\ rec'[s].key = rec[s].key
  PROVE  Alone(r)'
BY DEF Alone

\* Every task that captures is mapped, or a barrier waits for it.
LEMMA CaptureStep ==
  ASSUME TypeOK, MapsInv, WorkspaceInv, DownInv, LateInv, BarrierInv, CaptureInv, [Next]_vars
  PROVE  CaptureInv'
<1>. USE Types
<1>1. ASSUME NEW t \in Recordings, CaptureTask(t)
      PROVE  CaptureInv'
  <2>1. TaskKeeps(t)
    BY <1>1, TaskFrameStep
  <2>2. ASSUME NEW r \in Recordings, rec'[r].pc \in Capturing, ~rec'[r].late
        PROVE  Attended(r)'
    <3>1. rec[r].pc \in Capturing /\ (r = t => GoesOn(t))
      BY <1>1, <2>1, <2>2, TaskOutcome
         DEF TaskKeeps, GoesOn, Leaves, Parks, Publishes, Commits, Retains, Completes, Capturing
    <3>2. Attended(r) /\ rec'[r].key = rec[r].key /\ barrier' = barrier /\ phase' = phase
      BY <2>1, <2>2, <3>1 DEF TaskKeeps, CaptureInv
    <3>3. ASSUME Running, At(EpisodeOf(r), "idle"), Mapped(r), Alone(r)
          PROVE  Mapped(r)'
      <4>1. CASE recordings' = recordings
        BY <3>2, <3>3, <4>1 DEF Mapped
      <4>2. CASE recordings' # recordings
        <5>1. recordings' = [recordings EXCEPT ![rec[t].key] = None] /\ rec[t].pc \in Capturing /\ r # t
          BY <1>1, <3>1, <4>2, TaskOutcome DEF GoesOn, Leaves, Parks, Publishes, Commits, Retains, Completes
        <5>2. rec[t].key # rec[r].key
          BY <3>3, <5>1 DEF Alone
        <5>. QED  BY <3>2, <3>3, <5>1, <5>2 DEF Mapped
      <4>. QED  BY <4>1, <4>2
    <3>4. \A s \in Recordings : /\ rec'[s].pc \in Capturing => rec[s].pc \in Capturing
                                /\ rec'[s].key = rec[s].key
      BY <1>1, <2>1, TaskMaps, TaskOutcome
         DEF TaskKeeps, GoesOn, Leaves, Parks, Publishes, Commits, Retains, Completes, Capturing
    <3>. QED  BY <3>2, <3>3, <3>4, AttendedStill, AloneStill DEF Running
  <2>. QED  BY <2>2 DEF CaptureInv
<1>2. CASE QuietStep
  <2>1. /\ \A r \in Recordings : rec'[r].key = rec[r].key /\ rec'[r].pc = rec[r].pc /\ rec'[r].late = rec[r].late
        /\ UNCHANGED <<recordings, barrier>> /\ (Running' <=> Running)
    BY <1>2, QuietSteps DEF Quiet, Running
  <2>. QED  BY <2>1, AttendedStill, AloneStill DEF CaptureInv, Mapped
<1>3. ASSUME NEW k \in Keys, NEW t \in Recordings, Starts(k, t)
      PROVE  CaptureInv'
  <2>1. /\ Running /\ UNCHANGED phase /\ recordings[k] = None
        /\ \A s \in Recordings \ {t} : rec'[s] = rec[s]
        /\ recordings' = [recordings EXCEPT ![k] = t] /\ rec'[t].key = k
        /\ rec'[t].late = (state[k[1]] # "open")
    BY <1>3 DEF Starts, Start, Started
  <2>2. ASSUME ~rec'[t].late
        PROVE  Attended(t)'
    <3>1. At(k[1], "idle") /\ barrier'[k[1]] = barrier[k[1]]
      <4>1. k[1] \in Episodes /\ BarrierFits(k[1]) /\ state[k[1]] = "open"
        BY <2>1, <2>2, KeyParts DEF BarrierInv
      <4>2. At(k[1], "idle")
        BY <4>1 DEF BarrierFits, At
      <4>. QED  BY <1>3, <4>1, <4>2, StartBarriers DEF At
    <3>2. ASSUME NEW s \in Recordings \ {t}, rec[s].key = k, rec[s].pc \in Capturing
          PROVE  FALSE
      <4>1. ~rec[s].late
        BY <2>1, <2>2, <3>2 DEF LateInv, EpisodeOf
      <4>2. Mapped(s)
        BY <2>1, <3>1, <3>2, <4>1 DEF CaptureInv, Attended, EpisodeOf, At
      <4>. QED  BY <2>1, <3>2, <4>2 DEF Mapped
    <3>3. Alone(t)'
      BY <2>1, <3>2 DEF Alone
    <3>. QED  BY <2>1, <3>1, <3>3 DEF Attended, At, EpisodeOf, Mapped, Running
  <2>3. ASSUME NEW r \in Recordings \ {t}, rec'[r].pc \in Capturing, ~rec'[r].late
        PROVE  Attended(r)'
    <3>1. Attended(r) /\ EpisodeOf(r)' = EpisodeOf(r)
      BY <2>1, <2>3 DEF CaptureInv, EpisodeOf
    <3>2. CASE At(EpisodeOf(r), "join") /\ r \in barrier[EpisodeOf(r)].todo
      <4>1. At(EpisodeOf(r), "join")' /\ r \in barrier'[EpisodeOf(r)].todo
        BY <1>3, <2>3, <3>1, <3>2, StartBarriers DEF Same, At
      <4>. QED  BY <3>1, <4>1 DEF Attended, At
    <3>3. CASE At(EpisodeOf(r), "idle") /\ Mapped(r) /\ Alone(r)
      <4>1. barrier'[EpisodeOf(r)] = barrier[EpisodeOf(r)]
        BY <1>3, <3>3, StartBarriers DEF At
      <4>2. rec[r].key # k /\ Mapped(r)'
        BY <2>1, <3>3 DEF Mapped
      <4>3. Alone(r)'
        BY <2>1, <3>3, <4>2 DEF Alone
      <4>. QED  BY <2>1, <3>1, <3>3, <4>1, <4>2, <4>3 DEF Attended, At, Running
    <3>. QED  BY <2>1, <3>1, <3>2, <3>3 DEF Attended
  <2>. QED  BY <2>2, <2>3 DEF CaptureInv
<1>4. ASSUME NEW b \in Barriers, Drain(b) \/ BarrierSink(b) \/ BarrierComplete(b)
      PROVE  CaptureInv'
  <2>1. /\ \A r \in Recordings : rec'[r].key = rec[r].key /\ rec'[r].pc = rec[r].pc /\ rec'[r].late = rec[r].late
        /\ UNCHANGED <<recordings, phase>> /\ \A x \in Barriers \ {b} : barrier'[x] = barrier[x]
    <3>1. \A r \in Recordings : rec[r] \in Record
      OBVIOUS
    <3>2. UNCHANGED <<recordings, phase>> /\ \A x \in Barriers \ {b} : barrier'[x] = barrier[x]
      BY <1>4 DEF Drain, BarrierSink, BarrierComplete, Becomes, Moves, world, maps
    <3>3. rec' = rec \/ \E r : rec' = [rec EXCEPT ![r].published = TRUE]
      BY <1>4 DEF Drain, BarrierSink, BarrierComplete
    <3>4. \A r \in Recordings : rec'[r].key = rec[r].key /\ rec'[r].pc = rec[r].pc /\ rec'[r].late = rec[r].late
      BY ONLY <3>1, <3>3, Types, TypeOK DEF Record
    <3>. QED  BY <3>2, <3>4
  <2>2. barrier[b].at \in {"drain"} \union Holding
    BY <1>4 DEF Drain, BarrierSink, BarrierComplete, At, Holding
  <2>3. barrier'[b].todo \subseteq barrier[b].todo
    <3>1. barrier[b] \in Barrier
      OBVIOUS
    <3>2. CASE Drain(b)
      <4>1. PICK r \in barrier[b].todo :
              \/ barrier'[b] = [barrier[b] EXCEPT !.todo = @ \ {r}]
              \/ barrier'[b] = [barrier[b] EXCEPT !.at = "publishing", !.current = r]
        BY <3>2 DEF Drain
      <4>2. CASE barrier'[b] = [barrier[b] EXCEPT !.todo = @ \ {r}]
        BY ONLY <3>1, <4>2 DEF Barrier
      <4>3. CASE barrier'[b] = [barrier[b] EXCEPT !.at = "publishing", !.current = r]
        BY ONLY <3>1, <4>3 DEF Barrier
      <4>. QED  BY <4>1, <4>2, <4>3
    <3>3. CASE BarrierSink(b)
      <4>1. barrier'[b] = [barrier[b] EXCEPT !.at = "committed"]
        BY <3>3 DEF BarrierSink, Moves
      <4>. QED  BY <3>1, <4>1 DEF Barrier
    <3>4. CASE BarrierComplete(b)
      <4>1. barrier'[b] = [barrier[b] EXCEPT !.at = "drain", !.todo = @ \ {barrier[b].current}, !.current = None]
        BY <3>4 DEF BarrierComplete, Becomes
      <4>. QED  BY <3>1, <4>1 DEF Barrier
    <3>. QED  BY <1>4, <3>2, <3>3, <3>4
  <2>4. ASSUME NEW r \in Recordings, rec'[r].pc \in Capturing, ~rec'[r].late
        PROVE  Attended(r)'
    <3>1. Attended(r)
      BY <2>1, <2>4 DEF CaptureInv
    <3>2. CASE EpisodeOf(r) = b
      <4>1. ~Running /\ r \notin barrier[b].todo
        BY <2>2, <3>1, <3>2 DEF Attended, At, Holding
      <4>. QED  BY <2>1, <2>3, <3>2, <4>1 DEF Attended, EpisodeOf, Running
    <3>3. CASE EpisodeOf(r) # b
      BY <2>1, <3>1, <3>3, AttendedStill, AloneStill DEF Mapped, Running
    <3>. QED  BY <3>2, <3>3
  <2>. QED  BY <2>4 DEF CaptureInv
<1>5. ASSUME NEW e \in Episodes, FinalizeEpisode(e)
      PROVE  CaptureInv'
  <2>0. UNCHANGED phase /\ \A x \in Barriers \ {e} : barrier'[x] = barrier[x]
    BY <1>5 DEF FinalizeEpisode, Becomes, world
  <2>1. \A r \in Recordings : rec'[r].key = rec[r].key /\ rec'[r].pc = rec[r].pc /\ rec'[r].late = rec[r].late
    BY <1>5, StopAllOutcome DEF FinalizeEpisode
  <2>2. /\ barrier'[e].at = IF Active(e) = {} THEN "drain" ELSE "join"
        /\ barrier'[e].todo = IF Active(e) = {} THEN Parked(e) ELSE Active(e)
        /\ At(e, "idle") /\ StopAll(Active(e), FALSE)
    BY <1>5 DEF FinalizeEpisode, Becomes
  <2>3. ASSUME NEW r \in Recordings, rec'[r].pc \in Capturing, ~rec'[r].late
        PROVE  Attended(r)'
    <3>1. Attended(r)
      BY <2>1, <2>3 DEF CaptureInv
    <3>2. CASE EpisodeOf(r) = e /\ Running
      <4>1. Mapped(r)
        BY <2>2, <3>1, <3>2 DEF Attended, At
      <4>2. r \in Active(e)
        BY <3>2, <4>1, MappedFacts
      <4>. QED  BY <2>0, <2>1, <2>2, <3>2, <4>2 DEF Attended, EpisodeOf, At
    <3>3. CASE EpisodeOf(r) = e /\ ~Running
      <4>1. Active(e) = {}
        BY <3>3 DEF DownInv, Active
      <4>2. r \notin Parked(e)
        BY <2>1, <2>3, MappedFacts DEF AtRest, Capturing
      <4>. QED  BY <2>0, <2>1, <2>2, <3>3, <4>1, <4>2 DEF Attended, EpisodeOf, Running
    <3>4. CASE EpisodeOf(r) # e
      BY <2>0, <2>1, <2>2, <3>1, <3>4, AttendedStill, AloneStill, StopsOne DEF Running
    <3>. QED  BY <3>2, <3>3, <3>4
  <2>. QED  BY <2>3 DEF CaptureInv
<1>6. ASSUME NEW e \in Episodes, Join(e)
      PROVE  CaptureInv'
  <2>1. UNCHANGED <<rec, recordings, phase>> /\ \A x \in Barriers \ {e} : barrier'[x] = barrier[x]
    BY <1>6 DEF Join, Becomes, world
  <2>2. /\ At(e, "join") /\ \A r \in barrier[e].todo : rec[r].pc \in {"ended", "dead"}
        /\ barrier'[e].todo \in {{}, Parked(e)}
    <3>1. barrier[e] \in Barrier
      OBVIOUS
    <3>. QED  BY <1>6, <3>1 DEF Join, Becomes, IdleBarrier, Barrier
  <2>3. ASSUME NEW r \in Recordings, rec'[r].pc \in Capturing, ~rec'[r].late
        PROVE  Attended(r)'
    <3>1. Attended(r) /\ rec[r].pc \in Capturing
      BY <2>1, <2>3 DEF CaptureInv
    <3>2. CASE EpisodeOf(r) = e
      <4>1. ~Running
        BY <2>2, <3>1, <3>2 DEF Attended, At, Capturing
      <4>2. r \notin Parked(e)
        BY <3>1, MappedFacts DEF AtRest, Capturing
      <4>. QED  BY <2>1, <2>2, <3>2, <4>1, <4>2 DEF Attended, EpisodeOf, Running
    <3>3. CASE EpisodeOf(r) # e
      BY <2>1, <3>1, <3>3, AttendedStill, AloneStill DEF Mapped, Running
    <3>. QED  BY <3>2, <3>3
  <2>. QED  BY <2>3 DEF CaptureInv
<1>7. ASSUME NEW e \in Episodes, FinalizeReturns(e) \/ Close(e) \/ Expire(e)
      PROVE  CaptureInv'
  <2>1. UNCHANGED <<rec, recordings, phase>> /\ \A x \in Barriers \ {e} : barrier'[x] = barrier[x]
    BY <1>7 DEF FinalizeReturns, Close, Expire, Moves, world, maps
  <2>2. barrier' = barrier \/ (barrier[e].at \in {"drain", "returned"} /\ barrier'[e].todo = barrier[e].todo)
    <3>1. barrier[e] \in Barrier
      OBVIOUS
    <3>. QED  BY <1>7, <3>1 DEF FinalizeReturns, Close, Expire, Moves, At, Barrier
  <2>3. ASSUME NEW r \in Recordings, rec'[r].pc \in Capturing, ~rec'[r].late
        PROVE  Attended(r)'
    <3>1. Attended(r)
      BY <2>1, <2>3 DEF CaptureInv
    <3>2. CASE EpisodeOf(r) = e /\ barrier' # barrier
      <4>1. ~Running /\ r \notin barrier[e].todo
        BY <2>2, <3>1, <3>2 DEF Attended, At
      <4>. QED  BY <2>1, <2>2, <3>2, <4>1 DEF Attended, EpisodeOf, Running
    <3>3. CASE EpisodeOf(r) # e \/ barrier' = barrier
      BY <2>1, <3>1, <3>3, AttendedStill, AloneStill DEF Mapped, Running
    <3>. QED  BY <3>2, <3>3
  <2>. QED  BY <2>3 DEF CaptureInv
<1>8. ASSUME NEW e \in Episodes, OnClosed(e)
      PROVE  CaptureInv'
  <2>1. /\ UNCHANGED phase /\ \A x \in Barriers \ {e} : barrier'[x] = barrier[x]
        /\ At(e, "closed") /\ Running /\ StopAll(Active(e), FALSE)
    BY <1>8 DEF OnClosed, Becomes, world
  <2>2. \A r \in Recordings : rec'[r].key = rec[r].key /\ rec'[r].pc = rec[r].pc /\ rec'[r].late = rec[r].late
    BY <2>1, StopAllOutcome
  <2>3. ASSUME NEW r \in Recordings, rec'[r].pc \in Capturing, ~rec'[r].late
        PROVE  Attended(r)'
    <3>1. Attended(r)
      BY <2>2, <2>3 DEF CaptureInv
    <3>2. EpisodeOf(r) # e
      BY <2>1, <3>1 DEF Attended, At
    <3>. QED  BY <2>1, <2>2, <3>1, <3>2, AttendedStill, AloneStill, StopsOne DEF Running
  <2>. QED  BY <2>3 DEF CaptureInv
<1>9. ASSUME NEW e \in Episodes, BarrierFails(e)
      PROVE  CaptureInv'
  <2>1. /\ \A r \in Recordings : rec'[r].key = rec[r].key /\ rec'[r].pc = rec[r].pc /\ rec'[r].late = rec[r].late
        /\ UNCHANGED <<recordings, phase>> /\ barrier' = [barrier EXCEPT ![e] = IdleBarrier]
        /\ barrier[e].at \in Holding
    BY <1>9, FailsOutcome DEF BarrierFails, Holding
  <2>2. ASSUME NEW r \in Recordings, rec'[r].pc \in Capturing, ~rec'[r].late
        PROVE  Attended(r)'
    <3>1. Attended(r)
      BY <2>1, <2>2 DEF CaptureInv
    <3>2. CASE EpisodeOf(r) = e
      <4>1. ~Running
        BY <2>1, <3>1, <3>2 DEF Attended, At, Holding
      <4>. QED  BY <2>1, <3>2, <4>1 DEF Attended, EpisodeOf, Running, IdleBarrier
    <3>3. CASE EpisodeOf(r) # e
      BY <2>1, <3>1, <3>3, AttendedStill, AloneStill DEF Mapped, Running
    <3>. QED  BY <3>2, <3>3
  <2>. QED  BY <2>2 DEF CaptureInv
<1>10. CASE Shutdown
  <2>1. /\ \A r \in Recordings : rec'[r].key = rec[r].key /\ rec'[r].pc = rec[r].pc /\ rec'[r].late = rec[r].late
        /\ barrier' = barrier /\ phase = "running" /\ phase' = "stopping"
    BY <1>10, StopAllOutcome DEF Shutdown
  <2>2. \A b \in Barriers : At(b, "idle") => barrier[b].todo = {}
    BY DEF BarrierInv, BarrierFits, IdleBarrier
  <2>. QED  BY <2>1, <2>2 DEF CaptureInv, Attended, EpisodeOf, At, Running
<1>11. CASE Die
  <2>1. \A r \in Recordings : rec'[r].pc = "none"
    BY <1>11 DEF Die, Unused
  <2>. QED  BY <2>1 DEF CaptureInv, Capturing
<1>12. CASE Recover
  <2>1. UNCHANGED rec /\ \A r \in Recordings : rec[r].pc = "none"
    BY <1>12 DEF Recover, DownInv
  <2>. QED  BY <2>1 DEF CaptureInv, Capturing
<1>13. CASE ResumeRest \/ ResumeDone
  <2>1. /\ UNCHANGED <<rec, recordings>> /\ (Running' <=> Running)
        /\ \A e \in Episodes : barrier'[e] = barrier[e]
    BY <1>13 DEF ResumeRest, ResumeDone, Becomes, Moves, Running, maps, world
  <2>. QED  BY <2>1, AttendedStill, AloneStill DEF CaptureInv, Mapped
<1>. QED
  BY <1>1, <1>2, <1>3, <1>4, <1>5, <1>6, <1>7, <1>8, <1>9, <1>10, <1>11, <1>12, <1>13, StepKinds

\* A contender has a workspace.
LEMMA ContenderFacts ==
  ASSUME TypeOK, MapsInv, WorkspaceInv, BarrierInv, NEW r \in Recordings, Contends(r)
  PROVE  workspace[r] # "none"
<1>. USE Types
<1>1. Mapped(r) => rec[r].pc \in Capturing \union {"dead"}
  BY DEF Mapped, MapsInv
<1>2. recoverable[rec[r].key] = r => workspace[r] # "none"
  BY DEF MapsInv
<1>3. rec[r].pc \in Capturing \union Holding \union {"dead"} => workspace[r] # "none"
  BY DEF WorkspaceInv, Capturing, Holding
<1>4. Listed(r) => workspace[r] # "none"
  BY DEF Listed, BarrierInv, BarrierFits
<1>. QED  BY <1>1, <1>2, <1>3, <1>4 DEF Contends

LEMMA Sum == \A a, b \in Nat : (a > 0 => a + b > 0) /\ (b > 0 => a + b > 0)
OBVIOUS

\* How a workspace comes to contend for its key in a step.
Newly(r) ==
  \/ Contends(r) \/ Excused(r)' \/ state'[EpisodeOf(r)'] = "closed"
  \/ \E k \in Keys : Starts(k, r)
  \/ Recover

LEMMA ContendsStill ==
  ASSUME NEW r \in Recordings, Contends(r)', rec'[r].key = rec[r].key, rec'[r].pc = rec[r].pc, piped' = piped,
         Mapped(r)' => Mapped(r), recoverable'[rec[r].key] = r => Contends(r), Listed(r)' => Contends(r)
  PROVE  Newly(r)
BY DEF Newly, Contends, DeviceOf

\* A task that died is all that Join makes recoverable.
LEMMA JoinOutcome ==
  ASSUME TypeOK, NEW e \in Episodes, Join(e)
  PROVE  /\ \A k \in Keys, r \in Recordings :
              recoverable'[k] = r /\ recoverable[k] # r => r \in Crashed(e) /\ rec[r].key = k /\ rec[r].pc = "dead"
         /\ \A k \in Keys : Crashed(e) = {} => recoverable'[k] = recoverable[k]
         /\ \A k \in Keys : recoverable'[k] = recoverable[k] \/ \E r \in Crashed(e) : rec[r].key = k
<1>. USE Types
<1>1. ASSUME NEW k \in Keys, recoverable'[k] # recoverable[k]
      PROVE  /\ \E r \in Crashed(e) : rec[r].key = k
             /\ recoverable'[k] = CHOOSE r \in Crashed(e) : rec[r].key = k
  BY <1>1 DEF Join
<1>2. ASSUME NEW k \in Keys, NEW r \in Recordings, recoverable'[k] = r, recoverable[k] # r
      PROVE  r \in Crashed(e) /\ rec[r].key = k /\ rec[r].pc = "dead"
  <2>1. r \in Crashed(e) /\ rec[r].key = k
    BY <1>1, <1>2
  <2>. QED  BY <2>1 DEF Crashed
<1>. QED  BY <1>1, <1>2

\* What startup lists was recoverable, and the key it takes first is no more.
LEMMA RestOutcome ==
  ASSUME TypeOK, ResumeRest, barrier[Startup] = IdleBarrier
  PROVE  /\ barrier'[Startup].todo \subseteq UNION {Parked(e) : e \in Episodes}
         /\ \/ recoverable' = recoverable
            \/ \E r \in UNION {Parked(e) : e \in Episodes} :
                 /\ recoverable' = [recoverable EXCEPT ![rec[r].key] = None]
                 /\ r \notin barrier'[Startup].todo \ {barrier'[Startup].current}
                 /\ rec[r].published \/ (barrier'[Startup].at = "publishing" /\ barrier'[Startup].current = r)
<1>. USE Types
<1>. DEFINE rest == UNION {Parked(e) : e \in Episodes}
<1>1. \/ recoverable' = recoverable /\ barrier' = [barrier EXCEPT ![Startup].at = "drain"]
      \/ \E r \in rest : /\ recoverable' = [recoverable EXCEPT ![rec[r].key] = None]
                         /\ barrier'[Startup] = IF rec[r].published
                                                THEN [IdleBarrier EXCEPT !.at = "drain", !.todo = rest \ {r}]
                                                ELSE [IdleBarrier EXCEPT !.at = "publishing", !.todo = rest, !.current = r]
  BY DEF ResumeRest, Moves, Becomes
<1>. HIDE DEF rest
<1>2. CASE recoverable' = recoverable /\ barrier' = [barrier EXCEPT ![Startup].at = "drain"]
  <2>1. barrier'[Startup] = [IdleBarrier EXCEPT !.at = "drain"]
    BY <1>2
  <2>2. barrier'[Startup].todo = {}
    BY ONLY <2>1 DEF IdleBarrier
  <2>. QED  BY <1>2, <2>2
<1>3. ASSUME NEW r \in rest, rec[r].published, recoverable' = [recoverable EXCEPT ![rec[r].key] = None],
             barrier'[Startup] = [IdleBarrier EXCEPT !.at = "drain", !.todo = rest \ {r}]
      PROVE  barrier'[Startup].todo = rest \ {r}
  BY ONLY <1>3 DEF IdleBarrier
<1>4. ASSUME NEW r \in rest, recoverable' = [recoverable EXCEPT ![rec[r].key] = None],
             barrier'[Startup] = [IdleBarrier EXCEPT !.at = "publishing", !.todo = rest, !.current = r]
      PROVE  /\ barrier'[Startup].todo = rest /\ barrier'[Startup].current = r
             /\ barrier'[Startup].at = "publishing"
  BY ONLY <1>4 DEF IdleBarrier
<1>5. CASE \E r \in rest : /\ recoverable' = [recoverable EXCEPT ![rec[r].key] = None] /\ rec[r].published
                           /\ barrier'[Startup] = [IdleBarrier EXCEPT !.at = "drain", !.todo = rest \ {r}]
  <2>1. PICK r \in rest : /\ recoverable' = [recoverable EXCEPT ![rec[r].key] = None] /\ rec[r].published
                          /\ barrier'[Startup] = [IdleBarrier EXCEPT !.at = "drain", !.todo = rest \ {r}]
    BY <1>5
  <2>2. barrier'[Startup].todo = rest \ {r}
    BY ONLY <1>3, <2>1
  <2>. QED  BY ONLY <2>1, <2>2 DEF rest
<1>6. CASE \E r \in rest : /\ recoverable' = [recoverable EXCEPT ![rec[r].key] = None]
                           /\ barrier'[Startup] = [IdleBarrier EXCEPT !.at = "publishing", !.todo = rest, !.current = r]
  <2>1. PICK r \in rest : /\ recoverable' = [recoverable EXCEPT ![rec[r].key] = None]
                          /\ barrier'[Startup] = [IdleBarrier EXCEPT !.at = "publishing", !.todo = rest, !.current = r]
    BY <1>6
  <2>2. /\ barrier'[Startup].todo = rest /\ barrier'[Startup].current = r
        /\ barrier'[Startup].at = "publishing"
    BY ONLY <1>4, <2>1
  <2>. QED  BY ONLY <2>1, <2>2 DEF rest
<1>. QED  BY <1>1, <1>2, <1>5, <1>6

\* Startup lists what is recoverable.
LEMMA ListedBefore ==
  ASSUME TypeOK, MapsInv, WorkspaceInv, BarrierInv, [Next]_vars,
         NEW t \in Recordings
  PROVE  Listed(t)' => Listed(t) \/ recoverable[rec[t].key] = t
<1>. USE Types
<1>1. ASSUME NEW r \in Recordings, CaptureTask(r)
      PROVE  Listed(t)' => Listed(t) \/ recoverable[rec[t].key] = t
  BY <1>1, TaskFrameStep DEF TaskKeeps, Listed
<1>2. CASE QuietStep
  BY <1>2, QuietSteps DEF Quiet, Listed
<1>3. ASSUME NEW k \in Keys, NEW r \in Recordings, Starts(k, r)
      PROVE  Listed(t)' => Listed(t) \/ recoverable[rec[t].key] = t
  <2>1. barrier'[Startup] = barrier[Startup]
    BY <1>3, KeyParts, StartBarriers
  <2>. QED  BY <2>1 DEF Listed
<1>4. ASSUME NEW b \in Barriers, Drain(b)
      PROVE  Listed(t)' => Listed(t) \/ recoverable[rec[t].key] = t
  <2>1. CASE b = Startup
    <3>1. barrier[b].current = None /\ barrier[b] \in Barrier
      BY <1>4 DEF Drain, BarrierInv, BarrierFits, At, Holding
    <3>2. PICK r \in barrier[b].todo :
            \/ barrier' = [barrier EXCEPT ![b].todo = @ \ {r}]
            \/ barrier' = [barrier EXCEPT ![b].at = "publishing", ![b].current = r]
      BY <1>4 DEF Drain
    <3>3. barrier'[b].todo \subseteq barrier[b].todo
      BY <3>1, <3>2 DEF Barrier
    <3>. QED  BY <2>1, <3>1, <3>3 DEF Listed
  <2>2. CASE b # Startup
    BY <1>4, <2>2 DEF Drain, Listed
  <2>. QED  BY <2>1, <2>2
<1>5. ASSUME NEW b \in Barriers, BarrierSink(b)
      PROVE  Listed(t)' => Listed(t) \/ recoverable[rec[t].key] = t
  <2>1. \A x \in Barriers : barrier[x] \in Barrier
    OBVIOUS
  <2>. QED  BY <1>5, <2>1 DEF BarrierSink, Moves, Listed, Barrier
<1>6. ASSUME NEW b \in Barriers, BarrierComplete(b)
      PROVE  Listed(t)' => Listed(t) \/ recoverable[rec[t].key] = t
  <2>1. /\ barrier[b] \in Barrier
        /\ barrier' = [barrier EXCEPT ![b] = [barrier[b] EXCEPT !.at = "drain",
                                           !.todo = @ \ {barrier[b].current}, !.current = None]]
    BY <1>6 DEF BarrierComplete, Becomes
  <2>2. b = Startup => barrier'[Startup].todo = barrier[Startup].todo \ {barrier[Startup].current}
    BY <2>1 DEF Barrier
  <2>3. b # Startup => barrier'[Startup] = barrier[Startup]
    BY <2>1
  <2>. QED  BY <2>2, <2>3 DEF Listed
<1>7. ASSUME NEW e \in Episodes, FinalizeEpisode(e)
      PROVE  Listed(t)' => Listed(t) \/ recoverable[rec[t].key] = t
  BY <1>7 DEF FinalizeEpisode, Becomes, Listed
<1>8. ASSUME NEW e \in Episodes, Join(e)
      PROVE  Listed(t)' => Listed(t) \/ recoverable[rec[t].key] = t
  BY <1>8 DEF Join, Becomes, Listed
<1>9. ASSUME NEW e \in Episodes, FinalizeReturns(e) \/ Close(e) \/ Expire(e)
      PROVE  Listed(t)' => Listed(t) \/ recoverable[rec[t].key] = t
  BY <1>9 DEF FinalizeReturns, Close, Expire, Moves, Listed
<1>10. ASSUME NEW e \in Episodes, OnClosed(e)
      PROVE  Listed(t)' => Listed(t) \/ recoverable[rec[t].key] = t
  BY <1>10 DEF OnClosed, Becomes, Listed
<1>11. ASSUME NEW e \in Episodes, BarrierFails(e)
      PROVE  Listed(t)' => Listed(t) \/ recoverable[rec[t].key] = t
  <2>1. barrier' = [barrier EXCEPT ![e] = IdleBarrier]
    BY <1>11, FailsOutcome
  <2>. QED  BY <2>1 DEF Listed
<1>12. CASE Shutdown
  BY <1>12 DEF Shutdown, Becomes, Listed
<1>13. CASE Die
  BY <1>13 DEF Die, IdleBarrier, Listed
<1>14. CASE Recover
  BY <1>14 DEF Recover, Listed
<1>15. CASE ResumeRest
  <2>1. barrier[Startup] = IdleBarrier
    BY <1>15 DEF ResumeRest, BarrierInv, BarrierFits
  <2>2. Listed(t)' => t \in UNION {Parked(e) : e \in Episodes}
    BY <1>15, <2>1, RestOutcome DEF Listed
  <2>. QED  BY <2>2, MappedFacts
<1>16. CASE ResumeDone
  BY <1>16 DEF ResumeDone, Becomes, IdleBarrier, Listed
<1>. QED
  BY <1>1, <1>2, <1>3, <1>4, <1>5, <1>6, <1>7, <1>8, <1>9, <1>10, <1>11, <1>12, <1>13, <1>14,
     <1>15, <1>16, StepKinds

\* Only a start, recovery, a failure behind a plugin source and a closed Episode
\* make a workspace contend.
LEMMA ContendsBefore ==
  ASSUME TypeOK, MapsInv, WorkspaceInv, BarrierInv, [Next]_vars,
         NEW t \in Recordings, Contends(t)'
  PROVE  Newly(t)
<1>. USE Types
<1>0. failures' \in Nat /\ crashes' \in Nat
  BY TypeStep DEF TypeOK, WorldOK
<1>a. Listed(t)' => Contends(t)
  BY ListedBefore DEF Contends
<1>. USE <1>a
<1>1. ASSUME NEW r \in Recordings, CaptureTask(r)
      PROVE  Newly(t)
  <2>1. TaskKeeps(r)
    BY <1>1, TaskFrameStep
  <2>2. (Mapped(t)' => Mapped(t)) /\ rec'[t].key = rec[t].key
    BY <1>1, <2>1, TaskMaps DEF TaskKeeps, Mapped
  <2>3. recoverable' = recoverable \/ recoverable' = [recoverable EXCEPT ![rec[r].key] = r]
    BY <1>1, TaskOutcome DEF GoesOn, Leaves, Parks, Publishes, Commits, Retains, Completes
  <2>4. CASE t # r
    <3>1. recoverable'[rec[t].key] = t => recoverable[rec[t].key] = t
      BY <2>3, <2>4
    <3>2. rec'[t] = rec[t] /\ piped' = piped
      BY <2>1, <2>4 DEF TaskKeeps
    <3>. QED  BY <2>2, <3>1, <3>2, ContendsStill DEF Contends
  <2>5. CASE t = r /\ rec[r].pc \in Capturing
    BY <2>5 DEF Newly, Contends
  <2>6. CASE t = r /\ rec[r].pc \notin Capturing /\ DeviceOf(r) \notin piped
    <3>1. rec[r].pc \in Holding
      BY <1>1, <2>6, TaskOutcome DEF GoesOn, Leaves, Parks, Publishes, Commits, Retains, Completes, Holding
    <3>. QED  BY <2>6, <3>1 DEF Newly, Contends
  <2>7. CASE t = r /\ rec[r].pc \notin Capturing /\ DeviceOf(r) \in piped
    <3>1. \/ recoverable' = recoverable \/ failures' > 0 \/ state[EpisodeOf(r)] = "closed"
      BY <1>1, <2>7, TaskOutcome DEF GoesOn, Leaves, Parks, Publishes, Commits, Retains, Completes
    <3>2. rec'[r].pc \in Holding \union {"ended"}
      BY <1>1, <2>7, TaskOutcome DEF GoesOn, Leaves, Parks, Publishes, Commits, Retains, Completes, Holding
    <3>3. UNCHANGED <<state, piped, crashes>>
      BY <2>1 DEF TaskKeeps
    <3>4. failures' > 0 => Excused(r)'
      <4>1. failures' > 0 => failures' + crashes' > 0
        BY <1>0, Sum
      <4>2. DeviceOf(r)' \in piped'
        BY <2>2, <2>7, <3>3 DEF DeviceOf
      <4>. QED  BY <4>1, <4>2 DEF Excused
    <3>5. recoverable' = recoverable => Newly(r)
      BY <2>2, <2>7, <3>2, <3>3 DEF Newly, Contends, DeviceOf, Capturing, Holding
    <3>. QED  BY <2>2, <2>7, <3>1, <3>3, <3>4, <3>5 DEF Newly, EpisodeOf
  <2>. QED  BY <2>4, <2>5, <2>6, <2>7
<1>2. CASE QuietStep
  <2>1. /\ rec'[t].key = rec[t].key /\ rec'[t].pc = rec[t].pc
        /\ UNCHANGED <<recordings, recoverable, piped, barrier>>
    BY <1>2, QuietSteps DEF Quiet
  <2>. QED  BY <2>1, ContendsStill DEF Contends, Mapped, Listed
<1>3. ASSUME NEW k \in Keys, NEW r \in Recordings, Starts(k, r)
      PROVE  Newly(t)
  <2>1. CASE t = r
    BY <1>3, <2>1 DEF Newly
  <2>2. CASE t # r
    <3>1. /\ recordings' = [recordings EXCEPT ![k] = r] /\ recoverable' = [recoverable EXCEPT ![k] = None]
          /\ rec'[t] = rec[t] /\ piped' = piped
      BY <1>3, <2>2 DEF Starts, Start
    <3>. QED  BY <2>2, <3>1, ContendsStill DEF Contends, Mapped
  <2>. QED  BY <2>1, <2>2
<1>4. ASSUME NEW b \in Barriers, Drain(b)
      PROVE  Newly(t)
  <2>1. /\ UNCHANGED <<rec, recordings, piped>>
        /\ recoverable'[rec[t].key] = t => recoverable[rec[t].key] = t
    BY <1>4 DEF Drain, Take, world
  <2>. QED  BY <2>1, ContendsStill DEF Contends, Mapped
<1>5. ASSUME NEW b \in Barriers, BarrierSink(b)
      PROVE  Newly(t)
  <2>1. UNCHANGED <<rec, recordings, recoverable, piped>>
    BY <1>5 DEF BarrierSink, world, maps
  <2>. QED  BY <2>1, ContendsStill DEF Contends, Mapped
<1>6. ASSUME NEW b \in Barriers, BarrierComplete(b)
      PROVE  Newly(t)
  <2>1. /\ rec'[t].key = rec[t].key /\ rec'[t].pc = rec[t].pc /\ UNCHANGED <<recordings, piped>>
        /\ recoverable'[rec[t].key] = t => recoverable[rec[t].key] = t
    <3>1. \A r \in Recordings : rec[r] \in Record
      OBVIOUS
    <3>2. recoverable' = recoverable \/ \E x : recoverable' = [recoverable EXCEPT ![x] = None]
      BY <1>6 DEF BarrierComplete, Forget
    <3>3. recoverable'[rec[t].key] = t => recoverable[rec[t].key] = t
      BY <3>2
    <3>. QED  BY <1>6, <3>1, <3>3 DEF BarrierComplete, Record, world
  <2>. QED  BY <2>1, ContendsStill DEF Contends, Mapped
<1>7. ASSUME NEW e \in Episodes, FinalizeEpisode(e)
      PROVE  Newly(t)
  <2>1. /\ rec'[t].key = rec[t].key /\ rec'[t].pc = rec[t].pc /\ UNCHANGED <<recoverable, piped>>
        /\ \A x \in Keys : recordings'[x] \in {recordings[x], None}
    BY <1>7, StopAllOutcome DEF FinalizeEpisode, world
  <2>. QED  BY <2>1, ContendsStill DEF Contends, Mapped
<1>8. ASSUME NEW e \in Episodes, Join(e)
      PROVE  Newly(t)
  <2>1. UNCHANGED <<rec, recordings, piped>>
    BY <1>8 DEF Join, world
  <2>3. recoverable'[rec[t].key] = t /\ recoverable[rec[t].key] # t => rec[t].pc = "dead"
    <3>1. rec[t].key \in Keys
      OBVIOUS
    <3>. QED  BY ONLY <1>8, <3>1, TypeOK, JoinOutcome
  <2>4. recoverable'[rec[t].key] = t => Contends(t)
    BY <2>3 DEF Contends
  <2>5. (Mapped(t)' => Mapped(t)) /\ rec'[t] = rec[t]
    BY <2>1 DEF Mapped
  <2>. QED  BY ONLY t \in Recordings, Contends(t)', <1>a, <2>1, <2>4, <2>5, ContendsStill
<1>9. ASSUME NEW e \in Episodes, FinalizeReturns(e) \/ Close(e) \/ Expire(e)
      PROVE  Newly(t)
  <2>1. UNCHANGED <<rec, recordings, recoverable, piped>>
    BY <1>9 DEF FinalizeReturns, Close, Expire, world, maps
  <2>. QED  BY <2>1, ContendsStill DEF Contends, Mapped
<1>10. ASSUME NEW e \in Episodes, OnClosed(e)
      PROVE  Newly(t)
  <2>1. /\ rec'[t].key = rec[t].key /\ rec'[t].pc = rec[t].pc /\ UNCHANGED <<recoverable, piped>>
        /\ \A x \in Keys : recordings'[x] \in {recordings[x], None}
    BY <1>10, StopAllOutcome DEF OnClosed, world
  <2>. QED  BY <2>1, ContendsStill DEF Contends, Mapped
<1>11. ASSUME NEW e \in Episodes, BarrierFails(e)
      PROVE  Newly(t)
  <2>1. /\ rec'[t].key = rec[t].key /\ rec'[t].pc = rec[t].pc /\ UNCHANGED <<recordings, recoverable, piped>>
    BY <1>11, FailsOutcome
  <2>. QED  BY <2>1, ContendsStill DEF Contends, Mapped
<1>12. CASE Shutdown
  <2>1. /\ rec'[t].key = rec[t].key /\ rec'[t].pc = rec[t].pc /\ UNCHANGED <<recoverable, piped>>
        /\ \A x \in Keys : recordings'[x] \in {recordings[x], None}
    BY <1>12, StopAllOutcome DEF Shutdown, world
  <2>. QED  BY <2>1, ContendsStill DEF Contends, Mapped
<1>13. CASE Die
  <2>1. rec'[t].pc = "none" /\ recordings' = [k \in Keys |-> None] /\ recoverable' = [k \in Keys |-> None]
    BY <1>13 DEF Die, Unused
  <2>2. rec'[t].key \in Keys
    BY <1>13 DEF Die, Unused
  <2>3. ~Listed(t)'
    BY <1>13 DEF Die, IdleBarrier, Listed
  <2>. QED  BY <2>1, <2>2, <2>3 DEF Contends, Mapped, Capturing, Holding
<1>14. CASE Recover
  BY <1>14 DEF Newly
<1>15. CASE ResumeRest
  <2>1. /\ UNCHANGED <<rec, recordings, piped>>
        /\ recoverable'[rec[t].key] = t => recoverable[rec[t].key] = t
    <3>1. recoverable' = recoverable \/ \E x : recoverable' = [recoverable EXCEPT ![x] = None]
      BY <1>15 DEF ResumeRest
    <3>2. recoverable'[rec[t].key] = t => recoverable[rec[t].key] = t
      BY <3>1
    <3>. QED  BY <1>15, <3>2 DEF ResumeRest, world
  <2>. QED  BY <2>1, ContendsStill DEF Contends, Mapped
<1>16. CASE ResumeDone
  <2>1. UNCHANGED <<rec, recordings, recoverable, piped>>
    BY <1>16 DEF ResumeDone, maps
  <2>. QED  BY <2>1, ContendsStill DEF Contends, Mapped
<1>. QED
  BY <1>1, <1>2, <1>3, <1>4, <1>5, <1>6, <1>7, <1>8, <1>9, <1>10, <1>11, <1>12, <1>13, <1>14,
     <1>15, <1>16, StepKinds

LEMMA SumGrows == \A a, b, c, d \in Nat : c >= a /\ d >= b /\ a + b > 0 => c + d > 0
OBVIOUS

\* The exception stays one.
LEMMA ExcusedStays ==
  ASSUME TypeOK, TypeOK', Stays, NEW r \in Recordings, rec'[r].key = rec[r].key, Excused(r)
  PROVE  Excused(r)'
<1>1. /\ failures \in Nat /\ crashes \in Nat /\ failures' \in Nat /\ crashes' \in Nat
      /\ failures' >= failures /\ crashes' >= crashes
  BY DEF TypeOK, WorldOK, Stays
<1>2. failures + crashes > 0 /\ DeviceOf(r)' \in piped'
  BY DEF Excused, DeviceOf, Stays
<1>3. failures' + crashes' > 0
  BY <1>1, <1>2, SumGrows
<1>. QED  BY <1>2, <1>3 DEF Excused

\* A recording starts when no other workspace contends for its key.
LEMMA StartsAlone ==
  ASSUME TypeOK, MapsInv, OpenInv, ListedInv, NEW k \in Keys, NEW r \in Recordings, Starts(k, r),
         NEW s \in Recordings, s # r, Contends(s), rec[s].key = k, state[k[1]] = "open"
  PROVE  Excused(s)
<1>. USE Types
<1>1. /\ Running /\ state[EpisodeOf(s)] = "open" /\ recordings[k] = None
      /\ recoverable[k] # None => recoverable[k] = r
  BY DEF Starts, Candidate, EpisodeOf
<1>2. ~Mapped(s) /\ recoverable[k] # s
  BY <1>1 DEF Mapped
<1>3. rec[s].pc \notin Capturing \union {"dead"} /\ (rec[s].pc \in Holding => DeviceOf(s) \in piped)
  BY <1>1, <1>2 DEF OpenInv
<1>4. Listed(s)
  BY <1>2, <1>3 DEF Contends
<1>. QED  BY <1>1, <1>2, <1>4 DEF ListedInv

\* What contends for one key is one workspace, but behind a plugin source and
\* when a task began late.

LEMMA UniqueStep ==
  ASSUME TypeOK, MapsInv, WorkspaceInv, DownInv, LateInv, BarrierInv, OpenInv, UniqueInv, ListedInv, [Next]_vars
  PROVE  UniqueInv'
<1>. USE Types
<1>0. TypeOK' /\ Stays
  BY TypeStep, RecordsStay
<1>. USE <1>0
<1>1. SUFFICES ASSUME NEW r \in Recordings, NEW s \in Recordings,
                      rec'[r].key = rec'[s].key, Contends(r)', Contends(s)', r # s
               PROVE  Excused(r)' \/ StillLate(rec'[r].key) \/ state'[EpisodeOf(r)'] = "closed"
  BY DEF UniqueInv, LateFor, StillLate
<1>. DEFINE Given(t) == Excused(t)' \/ StillLate(rec'[t].key) \/ state'[EpisodeOf(t)'] = "closed"
<1>2. Given(r) <=> Given(s)
  BY <1>1 DEF Excused, DeviceOf, EpisodeOf
<1>d. ~Die
  <2>. SUFFICES ASSUME Die PROVE FALSE
    OBVIOUS
  <2>1. /\ rec'[r].pc = "none" /\ recordings' = [k \in Keys |-> None] /\ recoverable' = [k \in Keys |-> None]
        /\ rec'[r].key \in Keys
    BY DEF Die, Unused
  <2>2. ~Listed(r)'
    BY DEF Die, IdleBarrier, Listed
  <2>. QED  BY <1>1, <2>1, <2>2 DEF Contends, Mapped, Capturing, Holding
<1>3. \A t \in {r, s} : Given(t) \/ Contends(t) \/ (\E k \in Keys : Starts(k, t)) \/ Recover
  BY <1>1, ContendsBefore DEF Newly
<1>4. \A t \in {r, s} : Contends(t) => workspace[t] # "none" /\ rec'[t].key = rec[t].key
  BY ContenderFacts DEF Stays
<1>5. CASE Contends(r) /\ Contends(s)
  <2>1. rec[r].key = rec[s].key /\ rec'[r].key = rec[r].key
    BY <1>1, <1>4, <1>5
  <2>2. Excused(r) \/ LateFor(rec[r].key) \/ state[EpisodeOf(r)] = "closed"
    BY <1>1, <1>5, <2>1 DEF UniqueInv
  <2>5. LateFor(rec[r].key) => StillLate(rec'[r].key)
    BY <1>d, <2>1, LateForStays
  <2>3. Excused(r) => Excused(r)'
    BY <2>1, ExcusedStays
  <2>4. state[EpisodeOf(r)] = "closed" => state'[EpisodeOf(r)'] = "closed"
    BY <2>1 DEF Stays, EpisodeOf
  <2>. QED  BY <2>2, <2>3, <2>4, <2>5
<1>6. ASSUME NEW k \in Keys, NEW t \in {r, s}, NEW u \in {r, s}, t # u, Starts(k, t)
      PROVE  Given(u)
  <2>1. /\ rec'[t].key = k /\ rec'[u] = rec[u] /\ recordings' = [recordings EXCEPT ![k] = t]
    BY <1>6 DEF Starts, Start, Started
  <2>2. rec[u].key = k /\ rec'[u].key = k
    BY <1>1, <1>6, <2>1
  <2>3. CASE Contends(u)
    <3>1. CASE state[k[1]] = "open"
      BY <1>6, <2>2, <2>3, <3>1, StartsAlone, ExcusedStays
    <3>2. CASE state[k[1]] # "open"
      BY <1>6, <2>2, <3>2, StartsLate
    <3>. QED  BY <3>1, <3>2
  <2>4. ASSUME NEW x \in Keys, Starts(x, u)
        PROVE  FALSE
    <3>1. recordings' = [recordings EXCEPT ![x] = u] /\ rec'[u].key = x
      BY <2>4 DEF Starts, Start, Started
    <3>. QED  BY <1>6, <2>1, <2>2, <3>1
  <2>5. CASE Recover
    BY <1>6, <2>5 DEF Starts, Recover, Running
  <2>. QED  BY <1>3, <2>3, <2>4, <2>5
<1>7. CASE Recover
  <2>1. /\ \A k \in Keys : recordings'[k] = None
        /\ \A t \in Recordings : rec'[t].pc = "none"
        /\ barrier'[Startup] = IdleBarrier
    BY <1>7 DEF Recover, DownInv, BarrierInv, BarrierFits, Running
  <2>2. rec' \in [Recordings -> Record] /\ \A t \in Recordings : rec'[t].key \in Keys
    BY <1>7 DEF Recover
  <2>3. \A t \in {r, s} : recoverable'[rec'[t].key] = t
    BY <1>1, <2>1, <2>2 DEF Contends, Mapped, Capturing, Holding, Listed, IdleBarrier
  <2>. QED  BY <1>1, <2>3
<1>. QED  BY <1>1, <1>2, <1>3, <1>5, <1>6, <1>7

\* A workspace of the list of a barrier belongs to its Episode, which is not open.
LEMMA TodoFacts ==
  ASSUME TypeOK, BarrierInv, NEW e \in Episodes, NEW r \in barrier[e].todo \union barrier[e].owed
  PROVE  r \in Recordings /\ EpisodeOf(r) = e /\ workspace[r] # "none" /\ state[e] # "open"
<1>1. ~At(e, "idle")
  BY Types DEF BarrierInv, BarrierFits, IdleBarrier
<1>. QED  BY <1>1, Types DEF BarrierInv, BarrierFits, At

\* What startup lists stays where it is: nothing else contends for its key.
LEMMA ListedStays ==
  ASSUME TypeOK, MapsInv, WorkspaceInv, BarrierInv, [Next]_vars,
         NEW t \in Recordings, Listed(t)', state[EpisodeOf(t)] = "open", phase' = "resuming",
         rec'[t].key = rec[t].key, DeviceOf(t) \notin piped, Mapped(t) \/ recoverable[rec[t].key] = t,
         \A u \in Recordings : Contends(u) /\ rec[u].key = rec[t].key => u = t
  PROVE  Mapped(t)' \/ recoverable'[rec[t].key] = t
<1>. USE Types
<1>0. (\A u \in Recordings : Contends(u) /\ rec[u].key = rec[t].key => u = t) /\ rec'[t].key = rec[t].key
  OBVIOUS
<1>. USE <1>0
<1>1. ASSUME NEW r \in Recordings, CaptureTask(r)
      PROVE  Mapped(t)' \/ recoverable'[rec[t].key] = t
  <2>1. TaskKeeps(r)
    BY <1>1, TaskFrameStep
  <2>2. CASE t = r
    <3>1. recordings' # recordings => recoverable'[rec[t].key] = t
      BY <1>1, <2>2, TaskOutcome DEF GoesOn, Leaves, Parks, Publishes, Commits, Retains, Completes, Mapped
    <3>2. recoverable' = recoverable \/ recoverable'[rec[t].key] = t
      BY <1>1, <2>2, TaskMaps
    <3>. QED  BY <3>1, <3>2 DEF Mapped
  <2>3. CASE t # r
    <3>1. rec[r].pc \in Capturing \union Holding
      BY <1>1, TaskMaps
    <3>2. rec[r].key # rec[t].key
      BY <2>3, <3>1 DEF Contends, DeviceOf
    <3>3. recordings'[rec[t].key] = recordings[rec[t].key] /\ recoverable'[rec[t].key] = recoverable[rec[t].key]
      BY <1>1, <3>2, TaskMaps
    <3>. QED  BY <3>3 DEF Mapped
  <2>. QED  BY <2>2, <2>3
<1>2. CASE QuietStep
  <2>1. UNCHANGED <<recordings, recoverable>>
    BY <1>2, QuietSteps DEF Quiet
  <2>. QED  BY <2>1 DEF Mapped
<1>3. ASSUME NEW k \in Keys, NEW r \in Recordings, Starts(k, r)
      PROVE  Mapped(t)' \/ recoverable'[rec[t].key] = t
  <2>1. /\ recordings' = [recordings EXCEPT ![k] = r] /\ recoverable' = [recoverable EXCEPT ![k] = None]
        /\ recordings[k] = None /\ (recoverable[k] # None => recoverable[k] = r)
    BY <1>3 DEF Starts, Start, Candidate
  <2>. QED  BY <2>1 DEF Mapped
<1>4. ASSUME NEW b \in Barriers, Drain(b)
      PROVE  Mapped(t)' \/ recoverable'[rec[t].key] = t
  <2>1. PICK r \in barrier[b].todo :
          \/ recoverable' = recoverable
          \/ /\ recoverable' = [recoverable EXCEPT ![rec[r].key] = None]
             /\ \/ barrier' = [barrier EXCEPT ![b].todo = @ \ {r}]
                \/ barrier' = [barrier EXCEPT ![b].at = "publishing", ![b].current = r]
    BY <1>4 DEF Drain, Take
  <2>2. recordings' = recordings /\ barrier[b] \in Barrier /\ r \in Recordings
    BY <1>4 DEF Drain
  <2>3. CASE b \in Episodes
    <3>1. rec[r].key # rec[t].key
      BY <2>3, TodoFacts DEF EpisodeOf
    <3>. QED  BY <2>1, <2>2, <3>1 DEF Mapped
  <2>4. CASE b = Startup /\ recoverable' # recoverable
    <3>1. barrier[b].current = None
      BY <1>4 DEF Drain, BarrierInv, BarrierFits, At, Holding
    <3>2. r # t
      BY <2>1, <2>2, <2>4 DEF Listed, Barrier
    <3>3. rec[r].key # rec[t].key
      BY <2>1, <2>2, <2>4, <3>1, <3>2 DEF Contends, Listed
    <3>. QED  BY <2>1, <2>2, <3>3 DEF Mapped
  <2>5. CASE recoverable' = recoverable
    BY <2>2, <2>5 DEF Mapped
  <2>. QED  BY <2>3, <2>4, <2>5 DEF Barriers
<1>5. ASSUME NEW b \in Barriers, BarrierSink(b)
      PROVE  Mapped(t)' \/ recoverable'[rec[t].key] = t
  BY <1>5 DEF BarrierSink, maps, Mapped
<1>6. ASSUME NEW b \in Barriers, BarrierComplete(b)
      PROVE  Mapped(t)' \/ recoverable'[rec[t].key] = t
  <2>1. recordings' = recordings /\ At(b, "committed")
    BY <1>6 DEF BarrierComplete
  <2>2. CASE b = Startup
    BY <1>6, <2>1, <2>2 DEF BarrierComplete, Forget, Mapped
  <2>3. CASE b \in Episodes
    <3>1. barrier[b].current \in barrier[b].todo
      BY <2>1, HoldingFacts DEF At, Holding
    <3>2. rec[barrier[b].current].key # rec[t].key
      BY <2>3, <3>1, TodoFacts DEF EpisodeOf
    <3>3. recoverable'[rec[t].key] = recoverable[rec[t].key]
      BY <1>6, <2>3, <3>2 DEF BarrierComplete, Forget
    <3>. QED  BY <2>1, <3>3 DEF Mapped
  <2>. QED  BY <2>2, <2>3 DEF Barriers
<1>7. ASSUME NEW e \in Episodes, FinalizeEpisode(e)
      PROVE  Mapped(t)' \/ recoverable'[rec[t].key] = t
  <2>1. recoverable' = recoverable /\ state[e] # "open" /\ StopAll(Active(e), FALSE)
    BY <1>7 DEF FinalizeEpisode
  <2>. QED  BY <2>1, StopsOne
<1>8. ASSUME NEW e \in Episodes, Join(e)
      PROVE  Mapped(t)' \/ recoverable'[rec[t].key] = t
  <2>1. UNCHANGED recordings
    BY <1>8 DEF Join
  <2>2. \A r \in Crashed(e) : rec[r].key # rec[t].key
    BY TodoFacts DEF Crashed, EpisodeOf
  <2>3. recoverable'[rec[t].key] = recoverable[rec[t].key]
    BY <1>8, <2>2, JoinOutcome
  <2>. QED  BY <2>1, <2>3 DEF Mapped
<1>9. ASSUME NEW e \in Episodes, FinalizeReturns(e) \/ Close(e) \/ Expire(e)
      PROVE  Mapped(t)' \/ recoverable'[rec[t].key] = t
  BY <1>9 DEF FinalizeReturns, Close, Expire, maps, Mapped
<1>10. ASSUME NEW e \in Episodes, OnClosed(e)
      PROVE  Mapped(t)' \/ recoverable'[rec[t].key] = t
  <2>1. recoverable' = recoverable /\ state[e] # "open" /\ StopAll(Active(e), FALSE)
    BY <1>10 DEF OnClosed, BarrierInv, BarrierFits
  <2>. QED  BY <2>1, StopsOne
<1>11. ASSUME NEW e \in Episodes, BarrierFails(e)
      PROVE  Mapped(t)' \/ recoverable'[rec[t].key] = t
  <2>1. UNCHANGED <<recordings, recoverable>>
    BY <1>11, FailsOutcome
  <2>. QED  BY <2>1 DEF Mapped
<1>12. CASE Shutdown
  BY <1>12 DEF Shutdown
<1>13. CASE Die
  BY <1>13 DEF Die
<1>14. CASE Recover
  BY <1>14 DEF Recover
<1>15. CASE ResumeRest
  <2>1. barrier[Startup] = IdleBarrier /\ recordings' = recordings
    BY <1>15 DEF ResumeRest, BarrierInv, BarrierFits
  <2>2. CASE recoverable' = recoverable
    BY <2>1, <2>2 DEF Mapped
  <2>3. CASE recoverable' # recoverable
    <3>1. PICK r \in UNION {Parked(e) : e \in Episodes} :
            /\ recoverable' = [recoverable EXCEPT ![rec[r].key] = None]
            /\ r \notin barrier'[Startup].todo \ {barrier'[Startup].current}
      BY <1>15, <2>1, <2>3, RestOutcome
    <3>2. r \in Recordings /\ Contends(r) /\ r # t
      BY <3>1, MappedFacts DEF Contends, Listed
    <3>3. rec[r].key # rec[t].key
      BY <3>2
    <3>. QED  BY <2>1, <3>1, <3>3 DEF Mapped
  <2>. QED  BY <2>2, <2>3
<1>16. CASE ResumeDone
  BY <1>16 DEF ResumeDone
<1>. QED
  BY <1>1, <1>2, <1>3, <1>4, <1>5, <1>6, <1>7, <1>8, <1>9, <1>10, <1>11, <1>12, <1>13, <1>14,
     <1>15, <1>16, StepKinds

LEMMA ListedStep ==
  ASSUME TypeOK, MapsInv, WorkspaceInv, DownInv, LateInv, BarrierInv, OpenInv, UniqueInv, ListedInv, [Next]_vars
  PROVE  ListedInv'
<1>. USE Types
<1>0. TypeOK' /\ Stays /\ BarrierInv' /\ DownInv'
  BY TypeStep, RecordsStay, BarriersFit, DownStep
<1>. USE <1>0
<1>1. SUFFICES ASSUME NEW t \in Recordings, Listed(t)', state'[EpisodeOf(t)'] = "open"
               PROVE  Excused(t)' \/ Mapped(t)' \/ recoverable'[rec'[t].key] = t
  BY DEF ListedInv
<1>2. Listed(t) \/ recoverable[rec[t].key] = t
  BY <1>1, ListedBefore
<1>3. Contends(t) /\ rec'[t].key = rec[t].key
  BY <1>2, ContenderFacts DEF Contends, Stays
<1>4. state[EpisodeOf(t)] = "open" /\ (Excused(t) => Excused(t)')
  BY <1>1, <1>3, ExcusedStays DEF Stays, EpisodeOf
<1>5. phase' = "resuming" /\ crashes' > 0
  <2>1. ~At(Startup, "idle")'
    BY <1>1 DEF BarrierInv, BarrierFits, Listed, IdleBarrier
  <2>2. phase' = "resuming"
    BY <2>1 DEF BarrierInv, BarrierFits
  <2>. QED  BY <2>2 DEF DownInv
<1>6. CASE DeviceOf(t) \in piped
  <2>1. failures' \in Nat /\ crashes' \in Nat
    BY DEF TypeOK, WorldOK
  <2>2. failures' + crashes' > 0
    BY <1>5, <2>1, Sum
  <2>. QED  BY <1>3, <1>6, <2>2 DEF Excused, DeviceOf, Stays
<1>7. CASE DeviceOf(t) \notin piped
  <2>1. Mapped(t) \/ recoverable[rec[t].key] = t
    <3>1. Listed(t) => phase = "resuming"
      BY DEF BarrierInv, BarrierFits, Listed, IdleBarrier
    <3>. QED  BY <1>2, <1>4, <1>7, <3>1 DEF ListedInv, Running, Excused
  <2>2. \A u \in Recordings : Contends(u) /\ rec[u].key = rec[t].key => u = t
    <3>1. ~LateFor(rec[t].key)
      BY <1>4 DEF LateFor, LateInv, EpisodeOf
    <3>. QED  BY <1>3, <1>4, <1>7, <3>1 DEF UniqueInv, Excused
  <2>. QED  BY <1>1, <1>3, <1>4, <1>5, <1>7, <2>1, <2>2, ListedStays
<1>. QED  BY <1>6, <1>7

LEMMA OwedKept ==
  ASSUME TypeOK, NEW e \in Barriers, NEW b \in Barriers,
         \/ barrier' = barrier
         \/ \E r : barrier' = [barrier EXCEPT ![b].todo = @ \ {r}]
         \/ \E r : barrier' = [barrier EXCEPT ![b].at = "publishing", ![b].current = r]
         \/ \E a : barrier' = [barrier EXCEPT ![b].at = a]
  PROVE  barrier'[e].owed = barrier[e].owed
<1>1. \A v \in Barrier : \A a, r : /\ [v EXCEPT !.todo = @ \ {r}].owed = v.owed
                                   /\ [v EXCEPT !.at = a, !.current = r].owed = v.owed
                                   /\ [v EXCEPT !.at = a].owed = v.owed
  BY DEF Barrier
<1>2. barrier \in [Barriers -> Barrier] /\ barrier[e] \in Barrier /\ barrier[b] \in Barrier
  BY Types
<1>3. \A v : barrier' = [barrier EXCEPT ![b] = v] => barrier'[e] = IF e = b THEN v ELSE barrier[e]
  BY ONLY <1>2
<1>4. CASE \E r : barrier' = [barrier EXCEPT ![b].todo = @ \ {r}]
  <2>1. PICK r : barrier' = [barrier EXCEPT ![b] = [barrier[b] EXCEPT !.todo = @ \ {r}]]
    BY <1>4
  <2>. QED  BY ONLY <2>1, <1>1, <1>2, <1>3
<1>5. CASE \E r : barrier' = [barrier EXCEPT ![b].at = "publishing", ![b].current = r]
  <2>1. PICK r : barrier' = [barrier EXCEPT ![b] = [barrier[b] EXCEPT !.at = "publishing", !.current = r]]
    BY <1>2, <1>5
  <2>. QED  BY ONLY <2>1, <1>1, <1>2, <1>3
<1>6. CASE \E a : barrier' = [barrier EXCEPT ![b].at = a]
  <2>1. PICK a : barrier' = [barrier EXCEPT ![b] = [barrier[b] EXCEPT !.at = a]]
    BY <1>6
  <2>. QED  BY ONLY <2>1, <1>1, <1>2, <1>3
<1>. QED  BY <1>4, <1>5, <1>6

\* A barrier owes from finalize_episode on what it took on then.
LEMMA OwedBefore ==
  ASSUME TypeOK, [Next]_vars,
         NEW e \in Episodes, NEW t \in barrier'[e].owed, phase' # "stopping"
  PROVE  FinalizeEpisode(e) \/ (t \in barrier[e].owed /\ phase # "stopping")
<1>. USE Types
<1>1. ASSUME NEW r \in Recordings, CaptureTask(r)
      PROVE  FinalizeEpisode(e) \/ (t \in barrier[e].owed /\ phase # "stopping")
  <2>1. UNCHANGED <<barrier, phase>>
    BY <1>1, TaskFrameStep DEF TaskKeeps
  <2>. QED  BY <2>1
<1>2. CASE QuietStep
  <2>1. barrier' = barrier /\ (phase = "stopping" => phase' = "stopping")
    BY <1>2, QuietSteps DEF Quiet
  <2>. QED  BY <2>1
<1>3. ASSUME NEW k \in Keys, NEW r \in Recordings, Starts(k, r)
      PROVE  FinalizeEpisode(e) \/ (t \in barrier[e].owed /\ phase # "stopping")
  <2>1. phase' = phase
    BY <1>3 DEF Starts
  <2>2. barrier'[e].owed = barrier[e].owed
    BY <1>3, StartBarriers DEF Same
  <2>. QED  BY <2>1, <2>2
<1>4. ASSUME NEW b \in Barriers, Drain(b)
      PROVE  FinalizeEpisode(e) \/ (t \in barrier[e].owed /\ phase # "stopping")
  <2>1. phase' = phase /\ \E r : \/ barrier' = [barrier EXCEPT ![b].todo = @ \ {r}]
                                \/ barrier' = [barrier EXCEPT ![b].at = "publishing", ![b].current = r]
    BY <1>4 DEF Drain, world
  <2>2. barrier'[e].owed = barrier[e].owed
    BY <2>1, OwedKept
  <2>. QED  BY <2>1, <2>2
<1>5. ASSUME NEW b \in Barriers, BarrierSink(b)
      PROVE  FinalizeEpisode(e) \/ (t \in barrier[e].owed /\ phase # "stopping")
  <2>1. phase' = phase /\ barrier' = [barrier EXCEPT ![b].at = "committed"]
    BY <1>5 DEF BarrierSink, Moves, world
  <2>2. barrier'[e].owed = barrier[e].owed
    BY <2>1, OwedKept
  <2>. QED  BY <2>1, <2>2
<1>6. ASSUME NEW b \in Barriers, BarrierComplete(b)
      PROVE  FinalizeEpisode(e) \/ (t \in barrier[e].owed /\ phase # "stopping")
  <2>1. /\ phase' = phase
        /\ barrier' = [barrier EXCEPT ![b] = [barrier[b] EXCEPT !.at = "drain", !.todo = @ \ {barrier[b].current},
                                                           !.current = None]]
    BY <1>6 DEF BarrierComplete, Becomes, world
  <2>2. barrier'[e].owed = barrier[e].owed
    BY <2>1 DEF Barrier
  <2>. QED  BY <2>1, <2>2
<1>7. ASSUME NEW x \in Episodes, FinalizeEpisode(x)
      PROVE  FinalizeEpisode(e) \/ (t \in barrier[e].owed /\ phase # "stopping")
  <2>1. phase' = phase /\ (x # e => barrier'[e] = barrier[e])
    BY <1>7 DEF FinalizeEpisode, Becomes, world
  <2>. QED  BY <1>7, <2>1
<1>8. ASSUME NEW x \in Episodes, Join(x)
      PROVE  FinalizeEpisode(e) \/ (t \in barrier[e].owed /\ phase # "stopping")
  <2>1. /\ phase' = phase
        /\ \/ barrier' = [barrier EXCEPT ![x] = IdleBarrier]
           \/ barrier' = [barrier EXCEPT ![x] = [barrier[x] EXCEPT !.at = "drain", !.todo = Parked(x)]]
    BY <1>8 DEF Join, Becomes, world
  <2>2. barrier[x] \in Barrier /\ barrier \in [Barriers -> Barrier] /\ x \in Barriers /\ e \in Barriers
    BY DEF Barriers
  <2>3. \A v \in Barrier : \A s : [v EXCEPT !.at = "drain", !.todo = s].owed = v.owed
    BY DEF Barrier
  <2>4. IdleBarrier.owed = {}
    BY DEF IdleBarrier
  <2>5. \A v : barrier' = [barrier EXCEPT ![x] = v] => barrier'[e] = IF e = x THEN v ELSE barrier[e]
    BY ONLY <2>2
  <2>6. CASE barrier' = [barrier EXCEPT ![x] = IdleBarrier]
    <3>1. barrier'[e] = IF e = x THEN IdleBarrier ELSE barrier[e]
      BY ONLY <2>5, <2>6
    <3>2. t \in IF e = x THEN {} ELSE barrier[e].owed
      BY ONLY <3>1, <2>4, t \in barrier'[e].owed
    <3>. QED  BY <3>2, <2>1
  <2>7. CASE barrier' = [barrier EXCEPT ![x] = [barrier[x] EXCEPT !.at = "drain", !.todo = Parked(x)]]
    <3>1. barrier'[e].owed = barrier[e].owed
      BY ONLY <2>2, <2>3, <2>5, <2>7
    <3>. QED  BY <3>1, <2>1
  <2>. QED  BY <2>1, <2>6, <2>7
<1>9. ASSUME NEW x \in Episodes, FinalizeReturns(x) \/ Close(x) \/ Expire(x)
      PROVE  FinalizeEpisode(e) \/ (t \in barrier[e].owed /\ phase # "stopping")
  <2>1. phase' = phase /\ (barrier' = barrier \/ \E a : barrier' = [barrier EXCEPT ![x].at = a])
    BY <1>9 DEF FinalizeReturns, Close, Expire, Moves, world
  <2>2. barrier'[e].owed = barrier[e].owed
    BY <2>1, OwedKept
  <2>. QED  BY <2>1, <2>2
<1>10. ASSUME NEW x \in Episodes, OnClosed(x)
      PROVE  FinalizeEpisode(e) \/ (t \in barrier[e].owed /\ phase # "stopping")
  <2>1. phase' = phase /\ barrier' = [barrier EXCEPT ![x] = IdleBarrier]
    BY <1>10 DEF OnClosed, Becomes, world
  <2>2. barrier'[e].owed \in {barrier[e].owed, {}}
    BY <2>1 DEF IdleBarrier
  <2>. QED  BY <2>1, <2>2
<1>11. ASSUME NEW x \in Episodes, BarrierFails(x)
      PROVE  FinalizeEpisode(e) \/ (t \in barrier[e].owed /\ phase # "stopping")
  <2>1. phase' = phase /\ barrier' = [barrier EXCEPT ![x] = IdleBarrier]
    BY <1>11, FailsOutcome
  <2>2. barrier'[e].owed \in {barrier[e].owed, {}}
    BY <2>1 DEF IdleBarrier
  <2>. QED  BY <2>1, <2>2
<1>12. CASE Shutdown
  BY <1>12 DEF Shutdown
<1>13. CASE Die
  BY <1>13 DEF Die, IdleBarrier
<1>14. CASE Recover
  BY <1>14 DEF Recover
<1>15. CASE ResumeRest
  <2>1. phase' = phase /\ barrier'[e] = barrier[e]
    BY <1>15 DEF ResumeRest, Moves, Becomes, world
  <2>. QED  BY <2>1
<1>16. CASE ResumeDone
  <2>1. phase = "resuming" /\ barrier'[e] = barrier[e]
    BY <1>16 DEF ResumeDone, Becomes
  <2>. QED  BY <2>1
<1>. QED
  BY <1>1, <1>2, <1>3, <1>4, <1>5, <1>6, <1>7, <1>8, <1>9, <1>10, <1>11, <1>12, <1>13, <1>14,
     <1>15, <1>16, StepKinds

\* What a step that leaves the barriers alone must keep of a pursued workspace.
LEMMA PursuedStill ==
  ASSUME NEW e \in Episodes, NEW t \in Recordings, Pursued(e, t), rec'[t].key = rec[t].key,
         evidence[t] => evidence'[t], barrier'[e] = barrier[e], barrier'[Startup] = barrier[Startup],
         At(e, "join") /\ recoverable[rec[t].key] = t => evidence'[t] \/ recoverable'[rec[t].key] = t,
         At(e, "join") /\ rec[t].pc \in Capturing \union Holding \union {"dead"} =>
           \/ evidence'[t] \/ recoverable'[rec[t].key] = t
           \/ rec'[t].pc \in Capturing \union Holding \union {"dead"}
  PROVE  Pursued(e, t)'
BY DEF Pursued, At

\* What a barrier pursues it pursues on, or it has its Evidence.
LEMMA OwedStays ==
  ASSUME TypeOK, MapsInv, WorkspaceInv, DownInv, LateInv, BarrierInv, UniqueInv, [Next]_vars,
         NEW e \in Episodes, NEW t \in barrier[e].owed, t \in barrier'[e].owed,
         phase # "stopping", phase' # "stopping", Pursued(e, t), ~Excused(t), ~Excused(t)',
         ~LateFor(rec[t].key), ~StillLate(rec[t].key)
  PROVE  Pursued(e, t)'
<1>. USE Types
<1>a. /\ t \in Recordings /\ EpisodeOf(t) = e /\ workspace[t] # "none" /\ state[e] # "open"
      /\ rec'[t].key = rec[t].key /\ (evidence[t] => evidence'[t]) /\ ~Excused(t)
  BY TodoFacts, RecordsStay DEF Stays
<1>b. failures' \in Nat /\ crashes' \in Nat
  BY TypeStep DEF TypeOK, WorldOK
<1>. USE <1>a
<1>1. ASSUME NEW r \in Recordings, CaptureTask(r)
      PROVE  Pursued(e, t)'
  <2>1. TaskKeeps(r)
    BY <1>1, TaskFrameStep
  <2>2. CASE t = r
    <3>1. recoverable[rec[t].key] = t => recoverable'[rec[t].key] = t
      BY <1>1, <2>2, TaskMaps
    <3>2. ~Leaves(r)
      BY DEF Leaves, Stopping, WorkspaceInv, DownInv, Running, Capturing, TypeOK, WorldOK
    <3>3. \/ evidence'[t] \/ recoverable'[rec[t].key] = t
          \/ rec'[t].pc \in Capturing \union Holding \union {"dead"}
      BY <1>1, <2>2, <3>2, TaskOutcome DEF GoesOn, Parks, Publishes, Commits, Retains, Completes, WorkspaceInv, Holding
    <3>. QED  BY <2>1, <3>1, <3>3, PursuedStill DEF TaskKeeps
  <2>3. CASE t # r
    <3>1. rec'[t] = rec[t] /\ barrier' = barrier /\ UNCHANGED <<piped, crashes>>
      BY <2>1, <2>3 DEF TaskKeeps
    <3>2. ASSUME At(e, "join"), recoverable[rec[t].key] = t, recoverable'[rec[t].key] # t
          PROVE  FALSE
      <4>1. /\ recoverable' = [recoverable EXCEPT ![rec[r].key] = r] /\ rec[r].key = rec[t].key
            /\ rec[r].pc \in Capturing \union Holding
        BY <1>1, <3>2, TaskMaps
      <4>2. Contends(t) /\ state[e] = "finalizing"
        BY <3>2 DEF Contends, BarrierInv, BarrierFits, At
      <4>3. ~Contends(r)
        BY <2>3, <4>1, <4>2 DEF UniqueInv
      <4>4. rec[r].pc \in Holding /\ DeviceOf(r) \in piped
        BY <4>1, <4>3 DEF Contends
      <4>5. failures' > 0
        BY <1>1, <3>2, <4>1, <4>2, <4>4, TaskOutcome DEF GoesOn, Leaves, Parks, Publishes, Commits, Retains, Completes,
              Holding, Capturing, EpisodeOf
      <4>6. failures' + crashes' > 0
        BY <1>b, <4>5, Sum
      <4>. QED  BY <3>1, <4>1, <4>4, <4>6 DEF Excused, DeviceOf
    <3>. QED  BY <3>1, <3>2, PursuedStill
  <2>. QED  BY <2>2, <2>3
<1>2. CASE QuietStep
  <2>1. /\ rec'[t].key = rec[t].key /\ rec'[t].pc = rec[t].pc /\ UNCHANGED <<recoverable, barrier>>
    BY <1>2, QuietSteps DEF Quiet
  <2>. QED  BY <2>1, PursuedStill
<1>3. ASSUME NEW k \in Keys, NEW r \in Recordings, Starts(k, r)
      PROVE  Pursued(e, t)'
  <2>2. rec[t].key # k
    BY <1>3, StartsLate DEF EpisodeOf
  <2>3. t # r
    BY <1>3, <2>2, StartsRecoverable
  <2>9. rec'[t] = rec[t] /\ recoverable'[rec[t].key] = recoverable[rec[t].key]
    BY <1>3, <2>2, <2>3 DEF Starts, Start
  <2>10. Startup # k[1]
    BY KeyParts
  <2>11. barrier'[Startup] = barrier[Startup]
    BY <1>3, <2>10, StartBarriers
  <2>4. /\ rec'[t] = rec[t] /\ recoverable'[rec[t].key] = recoverable[rec[t].key]
        /\ barrier'[Startup] = barrier[Startup]
    BY <2>9, <2>11
  <2>5. CASE barrier'[e] = barrier[e]
    BY <2>4, <2>5, PursuedStill
  <2>6. CASE At(e, "join") /\ Same(e) /\ barrier'[e].todo = barrier[e].todo \ {r}
    BY <2>3, <2>4, <2>6 DEF Pursued, At, Same
  <2>. QED  BY <1>3, <2>5, <2>6, StartBarriers
<1>4. ASSUME NEW b \in Barriers, Drain(b)
      PROVE  Pursued(e, t)'
  <2>1. PICK r \in barrier[b].todo :
          \/ /\ rec[r].published /\ recoverable' = [recoverable EXCEPT ![rec[r].key] = None]
             /\ barrier' = [barrier EXCEPT ![b].todo = @ \ {r}]
          \/ /\ recoverable' = recoverable \/ recoverable' = [recoverable EXCEPT ![rec[r].key] = None]
             /\ barrier' = [barrier EXCEPT ![b].at = "publishing", ![b].current = r]
    BY <1>4 DEF Drain, Take
  <2>2. rec' = rec /\ barrier[b] \in Barrier /\ r \in Recordings /\ At(b, "drain")
    BY <1>4 DEF Drain
  <2>3. CASE b = e
    <3>1. /\ ~At(e, "join") /\ ~At(e, "join")' /\ barrier'[Startup] = barrier[Startup]
          /\ t \in barrier[e].todo => t \in barrier'[e].todo \/ rec[t].published
      BY <2>1, <2>2, <2>3 DEF At, Barrier
    <3>. QED  BY <3>1 DEF Pursued, WorkspaceInv
  <2>4. CASE b \in Episodes /\ b # e
    <3>1. rec[r].key # rec[t].key
      BY <2>4, TodoFacts DEF EpisodeOf
    <3>2. recoverable'[rec[t].key] = recoverable[rec[t].key]
      BY <2>1, <3>1
    <3>3. barrier'[e] = barrier[e] /\ barrier'[Startup] = barrier[Startup]
      BY <2>1, <2>4
    <3>. QED  BY <2>2, <3>2, <3>3, PursuedStill
  <2>5. CASE b = Startup
    <3>1. barrier'[e] = barrier[e] /\ barrier[b].at \notin Holding /\ barrier[b].current = None
      BY <2>1, <2>2, <2>5 DEF At, Holding, BarrierInv, BarrierFits
    <3>2. ASSUME At(e, "join"), recoverable[rec[t].key] = t, recoverable'[rec[t].key] # t
          PROVE  evidence[t] \/ (barrier'[Startup].at \in Holding /\ barrier'[Startup].current = t)
      <4>1. rec[r].key = rec[t].key
        BY <2>1, <3>2
      <4>2. Contends(r) /\ Contends(t) /\ state[e] = "finalizing"
        BY <2>2, <2>5, <3>1, <3>2 DEF Contends, Listed, BarrierInv, BarrierFits, At
      <4>3. r = t
        BY <2>2, <4>1, <4>2 DEF UniqueInv
      <4>4. CASE rec[r].published
        BY <4>3, <4>4 DEF WorkspaceInv
      <4>5. CASE ~rec[r].published
        BY <2>1, <2>2, <2>5, <4>3, <4>5 DEF Barrier, Holding
      <4>. QED  BY <4>4, <4>5
    <3>. QED  BY <2>2, <2>5, <3>1, <3>2 DEF Pursued, At
  <2>. QED  BY <2>3, <2>4, <2>5 DEF Barriers
<1>5. ASSUME NEW b \in Barriers, BarrierSink(b)
      PROVE  Pursued(e, t)'
  <2>1. UNCHANGED <<rec, recoverable>> /\ barrier' = [barrier EXCEPT ![b].at = "committed"] /\ At(b, "publishing")
    BY <1>5 DEF BarrierSink, Moves, maps
  <2>2. \A y \in Barriers : /\ barrier'[y].todo = barrier[y].todo /\ barrier'[y].current = barrier[y].current
                            /\ At(y, "join")' <=> At(y, "join")
                            /\ barrier[y].at \in Holding => barrier'[y].at \in Holding
    <3>1. \A y \in Barriers : barrier[y] \in Barrier
      OBVIOUS
    <3>. QED  BY <2>1, <3>1 DEF Barrier, At, Holding
  <2>. QED  BY <2>1, <2>2 DEF Pursued
<1>6. ASSUME NEW b \in Barriers, BarrierComplete(b)
      PROVE  Pursued(e, t)'
  <2>1. /\ At(b, "committed") /\ evidence' = evidence
        /\ barrier' = [barrier EXCEPT ![b] = [barrier[b] EXCEPT !.at = "drain", !.todo = @ \ {barrier[b].current},
                                                           !.current = None]]
    BY <1>6 DEF BarrierComplete, Becomes, Sealed
  <2>2. evidence[barrier[b].current] /\ barrier[b].current \in barrier[b].todo /\ barrier[b] \in Barrier
    BY <2>1, HoldingFacts DEF BarrierInv, BarrierFits, At, Holding
  <2>3. rec'[t].key = rec[t].key /\ rec'[t].pc = rec[t].pc
    <3>1. rec[t] \in Record
      OBVIOUS
    <3>. QED  BY <1>6, <3>1 DEF BarrierComplete, Record
  <2>4. CASE b = e
    <3>1. /\ ~At(e, "join") /\ ~At(e, "join")' /\ barrier'[Startup] = barrier[Startup]
          /\ barrier'[e].todo = barrier[e].todo \ {barrier[e].current}
      BY <2>1, <2>2, <2>4 DEF At, Barrier
    <3>. QED  BY <2>1, <2>2, <2>4, <3>1 DEF Pursued
  <2>5. CASE b \in Episodes /\ b # e
    <3>1. rec[barrier[b].current].key # rec[t].key
      BY <2>2, <2>5, TodoFacts DEF EpisodeOf
    <3>2. recoverable'[rec[t].key] = recoverable[rec[t].key]
      BY <1>6, <3>1 DEF BarrierComplete, Forget
    <3>3. barrier'[e] = barrier[e] /\ barrier'[Startup] = barrier[Startup]
      BY <2>1, <2>5
    <3>. QED  BY <2>1, <2>3, <3>2, <3>3, PursuedStill
  <2>6. CASE b = Startup
    <3>1. recoverable' = recoverable /\ barrier'[e] = barrier[e]
      BY <1>6, <2>1, <2>6 DEF BarrierComplete, Forget
    <3>. QED  BY <2>1, <2>2, <2>3, <2>6, <3>1 DEF Pursued, At
  <2>. QED  BY <2>4, <2>5, <2>6 DEF Barriers
<1>7. ASSUME NEW x \in Episodes, FinalizeEpisode(x)
      PROVE  Pursued(e, t)'
  <2>1. x # e
    BY <1>7 DEF FinalizeEpisode, BarrierInv, BarrierFits, IdleBarrier
  <2>2. rec'[t].key = rec[t].key /\ rec'[t].pc = rec[t].pc
    <3>1. StopAll(Active(x), FALSE)
      BY <1>7 DEF FinalizeEpisode
    <3>. QED  BY ONLY <3>1, <1>a, TypeOK, StopAllOutcome
  <2>3. recoverable' = recoverable /\ evidence' = evidence
    BY <1>7 DEF FinalizeEpisode, disk
  <2>4. barrier'[e] = barrier[e] /\ barrier'[Startup] = barrier[Startup]
    BY <1>7, <2>1 DEF FinalizeEpisode, Becomes
  <2>. QED  BY <2>2, <2>3, <2>4, PursuedStill
<1>8. ASSUME NEW x \in Episodes, Join(x)
      PROVE  Pursued(e, t)'
  <2>1. rec' = rec /\ barrier'[Startup] = barrier[Startup] /\ barrier[e] \in Barrier
    BY <1>8 DEF Join, Becomes
  <2>2. CASE x = e
    <3>1. /\ At(e, "join") /\ \A r \in barrier[e].todo : rec[r].pc \in {"ended", "dead"}
          /\ barrier'[e] = IF Crashed(e) # {} THEN IdleBarrier ELSE [barrier[e] EXCEPT !.at = "drain", !.todo = Parked(e)]
      BY <1>8, <2>2 DEF Join, Becomes
    <3>2. Crashed(e) = {} /\ barrier'[e].at = "drain" /\ barrier'[e].todo = Parked(e)
      BY <2>1, <3>1 DEF IdleBarrier, Barrier
    <3>3. recoverable[rec[t].key] = t => t \in Parked(e)
      BY MappedFacts
    <3>4. t \in barrier[e].todo => rec[t].pc = "ended"
      BY <3>1, <3>2 DEF Crashed
    <3>. QED  BY <2>1, <3>1, <3>2, <3>3, <3>4 DEF Pursued, At, Capturing, Holding
  <2>3. CASE x # e
    <3>1. \A r \in Crashed(x) : rec[r].key # rec[t].key
      BY <2>3, TodoFacts DEF Crashed, EpisodeOf
    <3>2. recoverable'[rec[t].key] = recoverable[rec[t].key]
      BY <1>8, <3>1, JoinOutcome
    <3>3. barrier'[e] = barrier[e]
      BY <1>8, <2>3 DEF Join, Becomes
    <3>. QED  BY <2>1, <3>2, <3>3, PursuedStill
  <2>. QED  BY <2>2, <2>3
<1>9. ASSUME NEW x \in Episodes, FinalizeReturns(x) \/ Close(x) \/ Expire(x)
      PROVE  Pursued(e, t)'
  <2>1. UNCHANGED <<rec, recoverable, evidence>> /\ barrier'[Startup] = barrier[Startup]
    BY <1>9 DEF FinalizeReturns, Close, Expire, Moves, maps, disk
  <2>2. CASE barrier'[e] = barrier[e]
    BY <2>1, <2>2, PursuedStill
  <2>3. CASE barrier'[e] # barrier[e]
    <3>1. ~At(e, "join") /\ \E a \in {"returned", "closed"} : barrier'[e] = [barrier[e] EXCEPT !.at = a]
      BY <1>9, <2>3 DEF FinalizeReturns, Close, Expire, Moves, At
    <3>2. ~At(e, "join")' /\ barrier'[e].todo = barrier[e].todo
      <4>1. barrier[e] \in Barrier
        OBVIOUS
      <4>. QED  BY <3>1, <4>1 DEF Barrier, At
    <3>. QED  BY <2>1, <3>1, <3>2 DEF Pursued
  <2>. QED  BY <2>2, <2>3
<1>10. ASSUME NEW x \in Episodes, OnClosed(x)
      PROVE  Pursued(e, t)'
  <2>1. x # e
    BY <1>10 DEF OnClosed, Becomes, IdleBarrier
  <2>2. rec'[t].key = rec[t].key /\ rec'[t].pc = rec[t].pc
    <3>1. StopAll(Active(x), FALSE)
      BY <1>10 DEF OnClosed
    <3>. QED  BY ONLY <3>1, <1>a, TypeOK, StopAllOutcome
  <2>3. recoverable' = recoverable /\ evidence' = evidence
    BY <1>10 DEF OnClosed, disk
  <2>4. barrier'[e] = barrier[e] /\ barrier'[Startup] = barrier[Startup]
    BY <1>10, <2>1 DEF OnClosed, Becomes
  <2>. QED  BY <2>2, <2>3, <2>4, PursuedStill
<1>11. ASSUME NEW x \in Episodes, BarrierFails(x)
      PROVE  Pursued(e, t)'
  <2>1. /\ rec'[t].key = rec[t].key /\ rec'[t].pc = rec[t].pc /\ recoverable' = recoverable
        /\ barrier' = [barrier EXCEPT ![x] = IdleBarrier]
    BY <1>11, FailsOutcome
  <2>2. x # e
    BY <2>1 DEF IdleBarrier
  <2>3. barrier'[e] = barrier[e] /\ barrier'[Startup] = barrier[Startup]
    BY <2>1, <2>2
  <2>. QED  BY <2>1, <2>3, PursuedStill
<1>12. CASE Shutdown
  BY <1>12 DEF Shutdown
<1>13. CASE Die
  BY <1>13 DEF Die, IdleBarrier
<1>14. CASE Recover
  BY <1>14 DEF Recover, DownInv, BarrierInv, BarrierFits, IdleBarrier
<1>15. CASE ResumeRest
  <2>1. barrier[Startup] = IdleBarrier /\ rec' = rec /\ barrier'[e] = barrier[e]
    BY <1>15 DEF ResumeRest, BarrierInv, BarrierFits, Moves, Becomes
  <2>2. barrier[Startup].at \notin Holding
    BY <2>1 DEF IdleBarrier, Holding
  <2>3. ASSUME recoverable[rec[t].key] = t, recoverable'[rec[t].key] # t
        PROVE  evidence[t] \/ (barrier'[Startup].at \in Holding /\ barrier'[Startup].current = t)
    <3>1. PICK r \in UNION {Parked(y) : y \in Episodes} :
            /\ recoverable' = [recoverable EXCEPT ![rec[r].key] = None]
            /\ rec[r].published \/ (barrier'[Startup].at = "publishing" /\ barrier'[Startup].current = r)
      BY <1>15, <2>1, <2>3, RestOutcome
    <3>2. r = t
      BY <2>3, <3>1, MappedFacts
    <3>. QED  BY <3>1, <3>2 DEF WorkspaceInv, Holding
  <2>. QED  BY <2>1, <2>2, <2>3 DEF Pursued, At
<1>16. CASE ResumeDone
  <2>1. UNCHANGED <<rec, recoverable>> /\ barrier'[e] = barrier[e] /\ barrier[Startup].at \notin Holding
    BY <1>16 DEF ResumeDone, Becomes, maps, At, Holding
  <2>. QED  BY <2>1 DEF Pursued, At
<1>. QED
  BY <1>1, <1>2, <1>3, <1>4, <1>5, <1>6, <1>7, <1>8, <1>9, <1>10, <1>11, <1>12, <1>13, <1>14,
     <1>15, <1>16, StepKinds

LEMMA OwedStep ==
  ASSUME TypeOK, MapsInv, WorkspaceInv, DownInv, LateInv, BarrierInv, UniqueInv, OwedInv, [Next]_vars
  PROVE  OwedInv'
<1>. USE Types
<1>0. TypeOK' /\ Stays
  BY TypeStep, RecordsStay
<1>1. SUFFICES ASSUME phase' # "stopping", NEW e \in Episodes, NEW t \in barrier'[e].owed, ~Excused(t)',
                      ~StillLate(rec'[t].key)
               PROVE  Pursued(e, t)'
  BY DEF OwedInv, LateFor, StillLate
<1>2. CASE t \in barrier[e].owed /\ phase # "stopping"
  <2>1. t \in Recordings /\ rec'[t].key = rec[t].key
    BY <1>0, <1>2, TodoFacts DEF Stays
  <2>2. ~Excused(t)
    BY <1>0, <1>1, <2>1, ExcusedStays
  <2>3. ~Die
    BY <1>1 DEF Die, IdleBarrier
  <2>4. ~LateFor(rec[t].key)
    BY <1>1, <2>1, <2>3, LateForStays
  <2>5. Pursued(e, t)
    BY <1>2, <2>2, <2>4 DEF OwedInv
  <2>. QED  BY <1>1, <1>2, <2>1, <2>2, <2>4, <2>5, OwedStays
<1>3. CASE FinalizeEpisode(e)
  <2>1. /\ \A r \in Recordings : rec'[r].key = rec[r].key /\ rec'[r].pc = rec[r].pc
        /\ recoverable' = recoverable
    BY <1>3, StopAllOutcome DEF FinalizeEpisode
  <2>2. barrier'[e] = [at   |-> IF Active(e) = {} THEN "drain" ELSE "join",
                       todo |-> IF Active(e) = {} THEN Parked(e) ELSE Active(e),
                       owed |-> Active(e) \union Idle(e), current |-> None]
    BY <1>3 DEF FinalizeEpisode, Becomes
  <2>3. CASE Active(e) = {}
    <3>1. barrier'[e].at = "drain" /\ barrier'[e].todo = Parked(e) /\ t \in Idle(e)
      BY <1>1, <2>2, <2>3
    <3>. QED  BY <3>1, MappedFacts DEF Pursued, At
  <2>4. CASE Active(e) # {}
    <3>1. barrier'[e].at = "join" /\ barrier'[e].todo = Active(e) /\ t \in Active(e) \union Idle(e)
      BY <1>1, <2>2, <2>4
    <3>2. CASE t \in Active(e)
      <4>1. t \in Recordings /\ rec[t].pc \in Capturing \union {"dead"}
        BY <3>2, MappedFacts DEF MapsInv, Mapped
      <4>. QED  BY <2>1, <3>1, <3>2, <4>1 DEF Pursued, At
    <3>3. CASE t \in Idle(e)
      <4>1. t \in Recordings /\ recoverable[rec[t].key] = t
        BY <3>3, MappedFacts
      <4>. QED  BY <2>1, <3>1, <4>1 DEF Pursued, At
    <3>. QED  BY <3>1, <3>2, <3>3
  <2>. QED  BY <2>3, <2>4
<1>. QED  BY <1>1, <1>2, <1>3, OwedBefore

-----------------------------------------------------------------------------
(***************************************************************************)
(* The invariant, and the properties it gives.                             *)
(***************************************************************************)
LEMMA RecorderInit == Init => RecorderInv
<1>. SUFFICES ASSUME Init PROVE RecorderInv
  OBVIOUS
<1>1. TypeOK
  BY InitType
<1>2. /\ \A r \in Recordings : rec[r].pc = "none" /\ ~rec[r].published /\ ~rec[r].stop /\ workspace[r] = "none"
      /\ \A r \in Recordings : ~evidence[r]
      /\ \A k \in Keys : recordings[k] = None /\ recoverable[k] = None
      /\ \A b \in Barriers : barrier[b] = IdleBarrier
      /\ None \notin Recordings /\ phase = "running"
  BY DEF Init, Unused, None, Recordings
<1>3. MapsInv /\ WorkspaceInv /\ DownInv /\ LeaseInv
  BY <1>2 DEF MapsInv, WorkspaceInv, DownInv, LeaseInv, Running
<1>4. LateInv
  BY DEF Init, Unused, LateInv
<1>5. BarrierInv
  BY <1>2, Types, <1>1 DEF BarrierInv, BarrierFits, At, IdleBarrier, Holding
<1>6. OpenInv /\ CaptureInv /\ ListedInv /\ UniqueInv
  <2>1. barrier[Startup].todo = {}
    BY <1>2 DEF IdleBarrier, Barriers
  <2>2. \A r \in Recordings : ~Contends(r)
    BY <1>1, <1>2, <2>1, Types DEF Contends, Mapped, Listed, Capturing, Holding
  <2>. QED  BY <1>2, <2>1, <2>2 DEF OpenInv, CaptureInv, ListedInv, UniqueInv, Listed, Capturing, Holding
<1>7. OwedInv
  BY <1>2 DEF OwedInv, IdleBarrier, Barriers
<1>. QED  BY <1>1, <1>3, <1>4, <1>5, <1>6, <1>7 DEF RecorderInv

LEMMA RecorderNext == RecorderInv /\ [Next]_vars => RecorderInv'
<1>. SUFFICES ASSUME RecorderInv, [Next]_vars PROVE RecorderInv'
  OBVIOUS
<1>. USE DEF RecorderInv
<1>1. TypeOK' /\ MapsInv' /\ WorkspaceInv' /\ DownInv'
  BY TypeStep, MapsStep, WorkspaceStep, DownStep
<1>2. LateInv' /\ LeaseInv' /\ BarrierInv' /\ OpenInv' /\ CaptureInv'
  BY LateStep, LeaseStep, BarriersFit, OpenStep, CaptureStep
<1>3. UniqueInv' /\ ListedInv' /\ OwedInv'
  BY UniqueStep, ListedStep, OwedStep
<1>. QED  BY <1>1, <1>2, <1>3

\* Every state of the recorder satisfies the inductive invariant.
THEOREM RecorderInvariance == Spec => []RecorderInv
  BY RecorderInit, RecorderNext, PTL DEF Spec

\* Every running recording stops at the lease its Episode has now.
THEOREM FollowsLease == Spec => []CaptureFollowsLease
<1>1. RecorderInv => CaptureFollowsLease
  <2>. SUFFICES ASSUME RecorderInv, NEW e \in Episodes, NEW r \in Active(e), leases[e] # NoLease
                PROVE  rec[r].deadline = leases[e].until
    BY DEF CaptureFollowsLease
  <2>1. PICK k \in Keys : k[1] = e /\ recordings[k] = r
    BY DEF Active
  <2>2. r \in Recordings
    BY <2>1, Types DEF RecorderInv, Active
  <2>. QED  BY <2>1, <2>2 DEF RecorderInv, LeaseInv
<1>. QED  BY <1>1, RecorderInvariance, PTL

\* finalize_episode returns with Evidence for all it took on.
THEOREM PublishesWhatItOwes == Spec => []BarrierPublishes
<1>1. RecorderInv => BarrierPublishes
  <2>. SUFFICES ASSUME RecorderInv, NEW e \in Episodes, At(e, "returned"), Running, At(Startup, "idle"),
                       NEW r \in barrier[e].owed
                PROVE  evidence[r] \/ Excused(r) \/ LateFor(rec[r].key)
    BY DEF BarrierPublishes
  <2>1. barrier[e].todo = {}
    BY Types DEF RecorderInv, BarrierInv, BarrierFits
  <2>2. Excused(r) \/ LateFor(rec[r].key) \/ Pursued(e, r)
    BY DEF RecorderInv, OwedInv, Running
  <2>. QED  BY <2>1, <2>2 DEF Pursued, At, Holding
<1>. QED  BY <1>1, RecorderInvariance, PTL

\* A task is started by a start alone.
LEMMA TaskGoesOn ==
  ASSUME TypeOK, NEW r \in Recordings, CaptureTask(r), rec'[r].pc = "starting"
  PROVE  rec[r].pc = "starting"
<1>1. rec \in [Recordings -> Record] /\ rec[r] \in Record
  BY DEF TypeOK, TasksOK
<1>2. \A step : Goto(r, step) => rec'[r].pc = step
  BY <1>1 DEF Goto, Record
<1>3. CASE LoopTop(r) \/ Check(r) \/ Retry(r) \/ Recheck(r) \/ ChildExits(r)
  <2>1. \/ \E step \in Steps \ {"starting"} : Goto(r, step)
        \/ rec' = [rec EXCEPT ![r].pc = "ended", ![r].expired = TRUE, ![r].signalled = FALSE]
    BY <1>3 DEF LoopTop, Check, Retry, Recheck, ChildExits, Leave, Park, Finalize, Publish, Steps, Live
  <2>. QED  BY <1>1, <1>2, <2>1 DEF Record
<1>4. CASE Spawned(r) \/ LeaseEnds(r)
  BY <1>1, <1>2, <1>4 DEF Spawned, LeaseEnds, Record
<1>5. CASE SinkAnswers(r) \/ TaskDies(r) \/ SinkRefuses(r) \/ SinkFails(r)
  BY <1>1, <1>2, <1>5 DEF SinkAnswers, TaskDies, SinkRefuses, SinkFails, Retained, Record
<1>6. CASE Complete(r) \/ JournalFails(r)
  BY <1>1, <1>6 DEF Complete, JournalFails, Record
<1>. QED  BY <1>3, <1>4, <1>5, <1>6 DEF CaptureTask, TaskStep

LEMMA OthersKeepSteps ==
  ASSUME TypeOK, NEW r \in Recordings, rec'[r].pc = "starting",
         \/ \E b \in Barriers : Drain(b) \/ BarrierSink(b) \/ BarrierComplete(b)
         \/ \E e \in Episodes : \/ FinalizeEpisode(e) \/ Join(e) \/ FinalizeReturns(e) \/ Close(e)
                               \/ OnClosed(e) \/ BarrierFails(e) \/ Expire(e)
         \/ Shutdown \/ Die \/ Recover \/ ResumeRest \/ ResumeDone
  PROVE  rec[r].pc = "starting"
<1>. USE DEF maps, disk, world, rows, messages
<1>1. rec \in [Recordings -> Record] /\ \A s \in Recordings : rec[s] \in Record
  BY DEF TypeOK, TasksOK
<1>2. ASSUME NEW b \in Barriers, Drain(b) \/ BarrierSink(b) \/ BarrierComplete(b)
      PROVE  rec'[r].pc = rec[r].pc
  <2>1. rec' = rec \/ \E s : rec' = [rec EXCEPT ![s].published = TRUE]
    BY <1>2 DEF Drain, BarrierSink, BarrierComplete
  <2>. QED  BY ONLY <1>1, <2>1 DEF Record
<1>3. ASSUME NEW e \in Episodes, FinalizeEpisode(e) \/ OnClosed(e) \/ BarrierFails(e)
      PROVE  rec'[r].pc = rec[r].pc
  BY <1>3, StopAllOutcome, FailsOutcome DEF FinalizeEpisode, OnClosed
<1>4. ASSUME NEW e \in Episodes, Join(e) \/ FinalizeReturns(e) \/ Close(e) \/ Expire(e)
      PROVE  rec' = rec
  BY <1>4 DEF Join, FinalizeReturns, Close, Expire
<1>5. CASE Shutdown
  BY <1>5, StopAllOutcome DEF Shutdown
<1>6. CASE Die
  BY <1>6 DEF Die, Unused
<1>7. CASE Recover \/ ResumeRest \/ ResumeDone
  BY <1>7 DEF Recover, ResumeRest, ResumeDone
<1>. QED  BY <1>2, <1>3, <1>4, <1>5, <1>6, <1>7

\* No workspace is handed to a second task while its first one runs.
THEOREM TasksTakeTurns == Spec => OneTaskPerWorkspace
<1>1. ASSUME RecorderInv, [Next]_vars, NEW r \in Recordings, rec'[r].pc = "starting", rec[r].pc # "starting"
      PROVE  rec[r].pc \in {"none", "ended", "dead"}
  <2>. USE <1>1, Types DEF RecorderInv
  <2>1. ASSUME NEW s \in Recordings, CaptureTask(s)
        PROVE  FALSE
    <3>1. TaskKeeps(s)
      BY <2>1, TaskFrameStep
    <3>. QED  BY <2>1, <3>1, TaskGoesOn DEF TaskKeeps
  <2>2. ~QuietStep
    BY QuietSteps DEF Quiet
  <2>3. PICK k \in Keys, s \in Recordings : Starts(k, s)
    BY <2>1, <2>2, OthersKeepSteps, StepKinds
  <2>4. s = r
    BY <2>3 DEF Starts, Start
  <2>. QED  BY <2>3, <2>4 DEF Starts, Candidate, Fresh, MapsInv, AtRest
<1>2. RecorderInv /\ [Next]_vars =>
        [\A r \in Recordings :
           rec'[r].pc = "starting" /\ rec[r].pc # "starting" => rec[r].pc \in {"none", "ended", "dead"}]_vars
  BY <1>1
<1>. QED  BY <1>2, RecorderInvariance, PTL DEF Spec, OneTaskPerWorkspace

\* A lease that replaces another is of a newer setting, or of the same and later.
Advances(old, new) ==
  new.revision > old.revision \/ (new.revision = old.revision /\ new.until >= old.until)

LEMMA AcceptedAdvances ==
  ASSUME NEW old \in Lease, NEW new \in Lease
  PROVE  Advances(old, Accepted(old, new)) /\ Advances(old, old)
<1>1. old # NoLease
  BY DEF Lease, NoLease
<1>. QED  BY <1>1 DEF Advances, Accepted, Lease, Time

THEOREM LeasesAdvance == Spec => LeaseOnlyAdvances
<1>1. ASSUME RecorderInv, [Next]_vars, NEW e \in Episodes, leases[e] # NoLease, leases'[e] # NoLease
      PROVE  Advances(leases[e], leases'[e])
  <2>. USE <1>1, Types DEF RecorderInv
  <2>1. leases \in [Episodes -> Lease \union {NoLease}] /\ leases[e] \in Lease
    BY DEF TypeOK, LeasesOK
  <2>2. Advances(leases[e], leases[e]) /\ \A new \in Lease : Advances(leases[e], Accepted(leases[e], new))
    BY <2>1, AcceptedAdvances
  <2>3. ASSUME (\E x \in Episodes : Event(x)) \/ ChangeGrace \/ Resume
        PROVE  leases'[e] = leases[e] \/ \E new \in Lease : leases'[e] = Accepted(leases[e], new)
    <3>1. PICK S \in SUBSET Episodes, number \in 0 .. MaxRevision, until \in [Episodes -> Time] :
            SetLeases(S, number, until)
      BY <2>3, LeaseSteps
    <3>2. [revision |-> number, until |-> EndOf(until[e])] \in Lease
      BY EndOfType DEF Lease
    <3>. QED  BY <3>1, <3>2 DEF SetLeases
  <2>4. QuietStep /\ ~((\E x \in Episodes : Event(x)) \/ ChangeGrace \/ Resume) => leases' = leases
    BY DEF QuietStep, OnLeaseExpired, EventFails, NoSource, OnEvent, Tick, vars
  <2>6. ASSUME NEW x \in Episodes, OnClosed(x)
        PROVE  leases'[e] = leases[e]
    BY <2>1, <2>6 DEF OnClosed
  <2>7. ~Die
    BY DEF Die
  <2>8. (\E r \in Recordings : CaptureTask(r)) \/ (\E k \in Keys, r \in Recordings : Starts(k, r)) => leases' = leases
    BY TaskFrameStep DEF TaskKeeps, Starts
  <2>9. ASSUME \/ \E b \in Barriers : Drain(b) \/ BarrierSink(b) \/ BarrierComplete(b)
               \/ \E x \in Episodes : \/ FinalizeEpisode(x) \/ Join(x) \/ FinalizeReturns(x) \/ Close(x)
                                     \/ Expire(x) \/ BarrierFails(x)
               \/ Shutdown \/ Recover \/ ResumeRest \/ ResumeDone
        PROVE  leases' = leases
    BY <2>9 DEF Drain, BarrierSink, BarrierComplete, FinalizeEpisode, Join, FinalizeReturns, Close, Expire, BarrierFails,
           Shutdown, Recover, ResumeRest, ResumeDone
  <2>10. leases'[e] = leases[e] \/ \E new \in Lease : leases'[e] = Accepted(leases[e], new)
    BY <2>3, <2>4, <2>6, <2>7, <2>8, <2>9, StepKinds
  <2>. QED  BY <2>2, <2>10
<1>2. RecorderInv /\ [Next]_vars =>
        [\A e \in Episodes : NoLease \notin {leases[e], leases'[e]} =>
           \/ leases'[e].revision > leases[e].revision
           \/ leases'[e].revision = leases[e].revision /\ leases'[e].until >= leases[e].until]_vars
  BY <1>1 DEF Advances
<1>. QED  BY <1>2, RecorderInvariance, PTL DEF Spec, LeaseOnlyAdvances

-----------------------------------------------------------------------------
(***************************************************************************)
(* The recorder implements RecordingLifecycle.  Every step is one of the   *)
(* abstract recorder, or changes nothing that it sees.                     *)
(***************************************************************************)
Abstract == [Lifecycle!Next]_(Lifecycle!vars)

Tasks  == [r \in Recordings |-> TaskOf(r)]
Stored == [r \in Recordings |-> Saved(r)]

Lates  == {r \in Recordings : rec[r].late}

KeysStay     == \A r \in Recordings : rec'[r].key = rec[r].key
RequestsStay == UNCHANGED <<Due, Lates>>

\* What a step makes of the mapped functions, from what it makes of one recording.
LEMMA MappedKeys ==
  ASSUME KeysStay
  PROVE  [r \in Recordings |-> rec[r].key]' = [r \in Recordings |-> rec[r].key]
  BY DEF KeysStay

LEMMA MappedRequests ==
  ASSUME UNCHANGED <<events, resumed, targets>>, \A r \in Recordings : rec'[r].late = rec[r].late
  PROVE  RequestsStay
  BY DEF RequestsStay, Due, Lates

LEMMA MappedTask ==
  ASSUME NEW r \in Recordings, \A s \in Recordings \ {r} : TaskOf(s)' = TaskOf(s)
  PROVE  Tasks' = [Tasks EXCEPT ![r] = TaskOf(r)']
  BY DEF Tasks

LEMMA MappedStored ==
  ASSUME NEW r \in Recordings, \A s \in Recordings \ {r} : Saved(s)' = Saved(s)
  PROVE  Stored' = [Stored EXCEPT ![r] = Saved(r)']
  BY DEF Stored

\* A step the abstract recorder does not see.
LEMMA Unseen ==
  ASSUME KeysStay, RequestsStay, Mode' = Mode, state' = state,
         \A r \in Recordings : TaskOf(r)' = TaskOf(r) /\ Saved(r)' = Saved(r)
  PROVE  Abstract
<1>1. Tasks' = Tasks /\ Stored' = Stored
  BY DEF Tasks, Stored
<1>. QED  BY <1>1, MappedKeys DEF Abstract, Lifecycle!vars, Tasks, Stored, RequestsStay, Lates

\* Requests for capture come, while the Episode is open, or go.
LEMMA Asks ==
  ASSUME TypeOK', KeysStay, Lates' = Lates, Mode' = Mode, state' = state,
         \A k \in Due' : k \in Due \/ state[k[1]] = "open",
         \A r \in Recordings : TaskOf(r)' = TaskOf(r) /\ Saved(r)' = Saved(r)
  PROVE  Abstract
<1>1. Tasks' = Tasks /\ Stored' = Stored
  BY DEF Tasks, Stored
<1>2. Due' \in SUBSET (Due \union {k \in Keys : state[k[1]] = "open"})
  BY DEF Due, TypeOK, MessagesOK
<1>3. Lifecycle!Ask
  BY <1>1, <1>2, MappedKeys DEF Lifecycle!Ask, Lifecycle!Keys, Keys, Tasks, Stored, Lates
<1>. QED  BY <1>3 DEF Abstract, Lifecycle!Next

\* A task ends its capture.
LEMMA EndsCapture ==
  ASSUME KeysStay, RequestsStay, Mode' = Mode, state' = state, NEW r \in Recordings,
         TaskOf(r) = "capturing", TaskOf(r)' \in {"none", "publishing"},
         \A s \in Recordings \ {r} : TaskOf(s)' = TaskOf(s),
         \A s \in Recordings : Saved(s)' = Saved(s)
  PROVE  Abstract
<1>1. Tasks' = [Tasks EXCEPT ![r] = TaskOf(r)'] /\ Stored' = Stored
  BY MappedTask DEF Stored
<1>2. Lifecycle!EndCapture(r)
  BY <1>1, MappedKeys DEF Lifecycle!EndCapture, Tasks, Stored, RequestsStay, Lates
<1>. QED  BY <1>2 DEF Abstract, Lifecycle!Next

\* The sink has a workspace, from its task or from a barrier.
LEMMA Persists ==
  ASSUME KeysStay, RequestsStay, Mode' = Mode, state' = state, NEW r \in Recordings, Saved(r) = "workspace",
         Saved(r)' = "evidence", state[EpisodeOf(r)] # "closed",
         TaskOf(r) = "capturing" => Mode = "starting" \/ rec[r].late,
         \A s \in Recordings \ {r} : Saved(s)' = Saved(s),
         \A s \in Recordings : TaskOf(s)' = TaskOf(s)
  PROVE  Abstract
<1>1. Stored' = [Stored EXCEPT ![r] = Saved(r)'] /\ Tasks' = Tasks
  BY MappedStored DEF Tasks
<1>2. Lifecycle!Persist(r)
  BY <1>1, MappedKeys DEF Lifecycle!Persist, Lifecycle!EpisodeOf, EpisodeOf, Tasks, Stored, RequestsStay, Lates
<1>. QED  BY <1>2 DEF Abstract, Lifecycle!Next

\* Workspaces with Evidence are sealed.
LEMMA Seals ==
  ASSUME KeysStay, RequestsStay, Mode' = Mode, state' = state, NEW S \in SUBSET Recordings,
         \A r \in S : Saved(r) \in {"evidence", "sealed"} /\ Saved(r)' = "sealed",
         \A r \in Recordings \ S : Saved(r)' = Saved(r),
         \A r \in Recordings : TaskOf(r)' = TaskOf(r)
  PROVE  Abstract
<1>1. Stored' = [r \in Recordings |-> IF r \in S THEN "sealed" ELSE Stored[r]] /\ Tasks' = Tasks
  BY DEF Tasks, Stored
<1>2. \A r \in S : Stored[r] \in {"evidence", "sealed"}
  BY DEF Stored
<1>3. Lifecycle!Seal(S)
  BY <1>1, <1>2, MappedKeys DEF Lifecycle!Seal, Tasks, Stored, RequestsStay, Lates
<1>. QED  BY <1>3 DEF Abstract, Lifecycle!Next

\* The task that publishes ends, with the workspace sealed or retained.
LEMMA EndsPublication ==
  ASSUME KeysStay, RequestsStay, Mode' = Mode, state' = state, NEW r \in Recordings,
         TaskOf(r) = "publishing", TaskOf(r)' = "none",
         \A s \in Recordings \ {r} : TaskOf(s)' = TaskOf(s) /\ Saved(s)' = Saved(s),
         Saved(r)' = Saved(r) \/ (Saved(r) \in {"evidence", "sealed"} /\ Saved(r)' = "sealed")
  PROVE  Abstract
<1>1. Tasks' = [Tasks EXCEPT ![r] = TaskOf(r)'] /\ Stored' = [Stored EXCEPT ![r] = Saved(r)']
  BY MappedTask, MappedStored
<1>2. Stored' = Stored \/ (Stored[r] \in {"evidence", "sealed"} /\ Stored' = [Stored EXCEPT ![r] = "sealed"])
  BY <1>1 DEF Stored
<1>3. Lifecycle!EndPublication(r)
  BY <1>1, <1>2, MappedKeys DEF Lifecycle!EndPublication, Tasks, Stored, RequestsStay, Lates
<1>. QED  BY <1>3 DEF Abstract, Lifecycle!Next

\* A step of a capture task.
LEMMA TaskRefines ==
  ASSUME RecorderInv, NEW r \in Recordings, CaptureTask(r)
  PROVE  Abstract
<1>. USE Types DEF RecorderInv
<1>1. TaskKeeps(r)
  BY TaskFrameStep
<1>2. /\ KeysStay /\ RequestsStay /\ Mode' = Mode /\ state' = state
      /\ \A s \in Recordings \ {r} : TaskOf(s)' = TaskOf(s)
  <2>1. RequestsStay
    BY <1>1, MappedRequests DEF TaskKeeps
  <2>. QED  BY <1>1, <2>1 DEF TaskKeeps, KeysStay, Mode, TaskOf
<1>3. CASE GoesOn(r) \/ Leaves(r) \/ Parks(r) \/ Publishes(r)
  <2>0. rec[r].pc \in Capturing /\ UNCHANGED <<workspace, evidence>>
    BY <1>3 DEF GoesOn, Leaves, Parks, Publishes
  <2>1. TaskOf(r) = "capturing" /\ \A s \in Recordings : Saved(s)' = Saved(s)
    BY <2>0 DEF TaskOf, Capturing, Holding, Saved
  <2>2. TaskOf(r)' \in {"capturing", "none", "publishing"}
    BY DEF TaskOf
  <2>3. CASE TaskOf(r)' = "capturing"
    BY <1>2, <2>1, <2>3, Unseen
  <2>. QED  BY <1>2, <2>1, <2>2, <2>3, EndsCapture
<1>4. CASE Commits(r)
  <2>1. /\ TaskOf(r) = "publishing" /\ TaskOf(r)' = "publishing"
        /\ \A s \in Recordings \ {r} : Saved(s)' = Saved(s)
        /\ Saved(r)' = IF Saved(r) = "workspace" THEN "evidence" ELSE Saved(r)
    BY <1>4 DEF Commits, TaskOf, Saved, Capturing, Holding
  <2>2. CASE Saved(r) = "workspace"
    BY <1>2, <1>4, <2>1, <2>2, Persists DEF Commits
  <2>3. CASE Saved(r) # "workspace"
    BY <1>2, <2>1, <2>3, Unseen
  <2>. QED  BY <2>2, <2>3
<1>5. CASE Retains(r)
  <2>1. /\ TaskOf(r) = "publishing" /\ TaskOf(r)' = "none" /\ \A s \in Recordings : Saved(s)' = Saved(s)
    BY <1>5 DEF Retains, TaskOf, Saved, Capturing, Holding
  <2>. QED  BY <1>2, <2>1, EndsPublication
<1>6. CASE Completes(r)
  <2>1. /\ TaskOf(r) = "publishing" /\ TaskOf(r)' = "none" /\ Saved(r)' = "sealed"
        /\ \A s \in Recordings \ {r} : Saved(s)' = Saved(s)
    BY <1>6 DEF Completes, TaskOf, Saved, Capturing, Holding
  <2>2. evidence[r] /\ workspace[r] # "none"
    BY <1>6 DEF Completes, WorkspaceInv
  <2>3. Saved(r) \in {"evidence", "sealed"}
    BY <2>2 DEF Saved
  <2>. QED  BY <1>2, <2>1, <2>3, EndsPublication
<1>. QED  BY <1>3, <1>4, <1>5, <1>6, TaskOutcome

\* A start begins a recording, or continues it.
LEMMA StartRefines ==
  ASSUME RecorderInv, NEW k \in Keys, (OnEvent(k) /\ recordings[k] = None) \/ ResumeTarget(k)
  PROVE  Abstract
<1>. USE Types DEF RecorderInv
<1>0. PICK r \in Recordings : Starts(k, r)
  BY StartSteps
<1>1. /\ Running /\ UNCHANGED <<phase, state, evidence>> /\ recordings[k] = None
      /\ rec' = [rec EXCEPT ![r] = Started(k, r)]
      /\ workspace' = [workspace EXCEPT ![r] = IF @ = "none" THEN "open" ELSE @]
  BY <1>0 DEF Starts, Start
<1>2. /\ rec'[r].key = k /\ rec'[r].pc = "starting" /\ rec'[r].late = (state[k[1]] # "open")
      /\ \A s \in Recordings \ {r} : rec'[s] = rec[s]
  BY <1>1 DEF Started
<1>3. TaskOf(r) = "none" /\ (workspace[r] # "none" => rec[r].key = k)
  <2>1. rec[r].pc \in AtRest /\ (workspace[r] # "none" => rec[r].key = k)
    BY <1>0 DEF Starts, Candidate, Fresh, MapsInv, AtRest
  <2>. QED  BY <2>1 DEF TaskOf, AtRest, Capturing, Holding
<1>4. ASSUME state[k[1]] = "open", NEW s \in Recordings, TaskOf(s) = "capturing", rec[s].key = k
      PROVE  FALSE
  <2>1. rec[s].pc \in Capturing
    BY <1>4 DEF TaskOf
  <2>2. Mapped(s)
    BY <1>1, <1>4, <2>1 DEF OpenInv, EpisodeOf
  <2>. QED  BY <1>1, <1>4, <2>2 DEF Mapped
<1>5. Tasks' = [Tasks EXCEPT ![r] = "capturing"]
  <2>1. TaskOf(r)' = "capturing"
    BY <1>2 DEF TaskOf, Capturing, Holding
  <2>2. \A s \in Recordings \ {r} : TaskOf(s)' = TaskOf(s)
    BY <1>2 DEF TaskOf
  <2>. QED  BY <2>1, <2>2, MappedTask
<1>6. Stored' = [Stored EXCEPT ![r] = IF @ = "nothing" THEN "workspace" ELSE @]
  <2>1. /\ \A s \in Recordings \ {r} : Saved(s)' = Saved(s)
        /\ Saved(r)' = IF Saved(r) = "nothing" THEN "workspace" ELSE Saved(r)
    BY <1>1 DEF Saved, WorkspaceInv
  <2>. QED  BY <2>1, MappedStored DEF Stored
<1>7. [s \in Recordings |-> rec[s].key]' = [[s \in Recordings |-> rec[s].key] EXCEPT ![r] = k]
  BY <1>2
<1>8. Mode # "stopping" /\ Mode' = Mode
  BY <1>1 DEF Mode, Running
<1>9. Stored[r] = "nothing" \/ rec[r].key = k
  BY <1>3 DEF Stored, Saved
<1>10. k \in Due /\ Due' \in SUBSET Due
  <2>0. events \in [Keys -> Nat]
    BY DEF TypeOK, MessagesOK
  <2>1. CASE OnEvent(k)
    <3>1. events[k] > 0 /\ Handled(k) /\ UNCHANGED <<resumed, targets>>
      BY <2>1 DEF OnEvent, rows
    <3>2. \A x \in Keys : events'[x] > 0 => events[x] > 0
      BY <2>0, <3>1 DEF Handled
    <3>. QED  BY <3>1, <3>2 DEF Due
  <2>2. CASE ResumeTarget(k)
    BY <2>2 DEF ResumeTarget, Due, rows
  <2>. QED  BY <2>1, <2>2
<1>11. Lates' = IF state[k[1]] = "open" THEN Lates \ {r} ELSE Lates \union {r}
  BY <1>2 DEF Lates
<1>12. k \in Lifecycle!Keys
  BY DEF Lifecycle!Keys, Keys
<1>13. Lifecycle!Begin(r, k)
  BY <1>1, <1>3, <1>4, <1>5, <1>6, <1>7, <1>8, <1>9, <1>10, <1>11 DEF Lifecycle!Begin, Tasks, Stored, Lates
<1>. QED  BY <1>12, <1>13 DEF Abstract, Lifecycle!Next

\* A barrier publishes nothing that is captured, but for the one of startup.
LEMMA BarrierRefines ==
  ASSUME RecorderInv, NEW b \in Barriers, Drain(b) \/ BarrierSink(b) \/ BarrierComplete(b)
  PROVE  Abstract
<1>. USE Types DEF RecorderInv
<1>1. /\ UNCHANGED <<phase, state>> /\ Mode' = Mode
      /\ \A s \in Recordings : /\ rec'[s].key = rec[s].key /\ rec'[s].pc = rec[s].pc
                              /\ rec'[s].late = rec[s].late
  <2>1. \A s \in Recordings : rec[s] \in Record
    OBVIOUS
  <2>2. rec' = rec \/ \E s : rec' = [rec EXCEPT ![s].published = TRUE]
    BY DEF Drain, BarrierSink, BarrierComplete
  <2>3. UNCHANGED <<phase, state>>
    BY DEF Drain, BarrierSink, BarrierComplete, world, rows
  <2>. QED  BY <2>1, <2>2, <2>3 DEF Record, Mode
<1>2. KeysStay /\ RequestsStay /\ \A s \in Recordings : TaskOf(s)' = TaskOf(s)
  <2>1. UNCHANGED <<events, resumed, targets>>
    BY DEF Drain, BarrierSink, BarrierComplete, rows, messages
  <2>. QED  BY <1>1, <2>1, MappedRequests DEF KeysStay, TaskOf
<1>3. CASE Drain(b)
  <2>1. \A s \in Recordings : Saved(s)' = Saved(s)
    BY <1>3 DEF Drain, disk, Saved
  <2>. QED  BY <1>1, <1>2, <2>1, Unseen
<1>4. CASE BarrierSink(b)
  <2>0. PICK r \in Recordings : r = barrier[b].current
    BY <1>4, HoldingFacts DEF BarrierSink, At, Holding
  <2>1. r \in barrier[b].todo /\ At(b, "publishing") /\ state[EpisodeOf(r)] # "closed"
    BY <1>4, <2>0, HoldingFacts DEF BarrierSink, At, Holding, Accepts
  <2>2. UNCHANGED workspace /\ evidence' = [evidence EXCEPT ![r] = TRUE]
    BY <1>4, <2>0 DEF BarrierSink
  <2>3. /\ \A s \in Recordings \ {r} : Saved(s)' = Saved(s)
        /\ Saved(r)' = IF Saved(r) = "workspace" THEN "evidence" ELSE Saved(r)
    BY <2>1, <2>2 DEF Saved
  <2>4. TaskOf(r) = "capturing" => Mode = "starting" \/ rec[r].late
    <3>1. CASE b = Startup
      BY <2>1, <3>1 DEF BarrierInv, BarrierFits, At, Mode
    <3>2. CASE b \in Episodes
      <4>1. EpisodeOf(r) = b
        BY <2>1, <3>2, TodoFacts
      <4>2. ~Attended(r)
        BY <2>1, <4>1 DEF Attended, At
      <4>. QED  BY <2>1, <4>2 DEF CaptureInv, TaskOf
    <3>. QED  BY <3>1, <3>2 DEF Barriers
  <2>5. CASE Saved(r) = "workspace"
    BY <1>1, <1>2, <2>1, <2>3, <2>4, <2>5, Persists
  <2>6. CASE Saved(r) # "workspace"
    BY <1>1, <1>2, <2>1, <2>3, <2>6, Unseen
  <2>. QED  BY <2>5, <2>6
<1>5. CASE BarrierComplete(b)
  <2>0. PICK r \in Recordings : r = barrier[b].current
    BY <1>5, HoldingFacts DEF BarrierComplete, At, Holding
  <2>1. workspace[r] # "none" /\ evidence[r]
    BY <1>5, <2>0, HoldingFacts DEF BarrierComplete, At, Holding, BarrierInv, BarrierFits
  <2>2. UNCHANGED evidence /\ workspace' = [workspace EXCEPT ![r] = "sealed"]
    BY <1>5, <2>0 DEF BarrierComplete, Sealed
  <2>3. /\ \A s \in Recordings \ {r} : Saved(s)' = Saved(s)
        /\ Saved(r) \in {"evidence", "sealed"} /\ Saved(r)' = "sealed"
    BY <2>1, <2>2 DEF Saved
  <2>4. {r} \in SUBSET Recordings
    OBVIOUS
  <2>. QED  BY <1>1, <1>2, <2>3, <2>4, Seals
<1>. QED  BY <1>3, <1>4, <1>5

\* A step of the Episode engine.
LEMMA EngineRefines ==
  ASSUME RecorderInv, NEW e \in Episodes,
         \/ FinalizeEpisode(e) \/ Join(e) \/ FinalizeReturns(e) \/ Close(e)
         \/ OnClosed(e) \/ BarrierFails(e) \/ Expire(e)
  PROVE  Abstract
<1>. USE Types DEF RecorderInv
<1>0. state \in [Episodes -> {"open", "finalizing", "closed"}]
  BY DEF TypeOK, RowsOK
<1>1. CASE FinalizeEpisode(e) \/ OnClosed(e)
  <2>1. /\ UNCHANGED <<phase, state, workspace, evidence, events, resumed, targets>>
        /\ \A r \in Recordings : /\ rec'[r].key = rec[r].key /\ rec'[r].pc = rec[r].pc
                                /\ rec'[r].late = rec[r].late
    <3>1. StopAll(Active(e), FALSE)
      BY <1>1 DEF FinalizeEpisode, OnClosed
    <3>2. UNCHANGED <<phase, state, workspace, evidence, events, resumed, targets>>
      BY <1>1 DEF FinalizeEpisode, OnClosed, world, rows, messages, disk
    <3>. QED  BY ONLY <3>1, <3>2, TypeOK, StopAllOutcome
  <2>2. KeysStay /\ RequestsStay
    BY <2>1, MappedRequests DEF KeysStay
  <2>. QED  BY <2>1, <2>2, Unseen DEF Mode, TaskOf, Saved
<1>2. CASE Join(e) \/ FinalizeReturns(e)
  <2>1. UNCHANGED <<rec, phase, state, workspace, evidence, events, resumed, targets>>
    BY <1>2 DEF Join, FinalizeReturns, world, rows, messages, disk
  <2>2. KeysStay /\ RequestsStay
    BY <2>1, MappedRequests DEF KeysStay
  <2>. QED  BY <2>1, <2>2, Unseen DEF Mode, TaskOf, Saved
<1>3. CASE Close(e)
  <2>1. /\ UNCHANGED <<rec, phase, workspace, evidence>> /\ state' = [state EXCEPT ![e] = "closed"]
        /\ At(e, "returned") /\ Serving /\ UNCHANGED <<events, resumed, targets>>
    BY <1>3 DEF Close, world, messages, disk
  <2>2. state[e] = "finalizing"
    BY <2>1 DEF BarrierInv, BarrierFits, At
  <2>3. Tasks' = Tasks /\ Stored' = Stored /\ KeysStay /\ RequestsStay /\ Mode' = Mode
    BY <2>1, MappedRequests DEF Tasks, Stored, TaskOf, Saved, KeysStay, Mode
  <2>4. ASSUME Mode # "stopping", NEW r \in Recordings \ Lates, TaskOf(r) = "capturing", EpisodeOf(r) = e
        PROVE  FALSE
    <3>1. Running
      BY <2>1, <2>4 DEF Mode, Serving, Running
    <3>2. Attended(r)
      BY <2>4 DEF TaskOf, CaptureInv, Lates
    <3>. QED  BY <2>1, <2>4, <3>1, <3>2 DEF Attended, At
  <2>5. Lifecycle!Close(e)
    BY <2>1, <2>2, <2>3, <2>4, MappedKeys
       DEF Lifecycle!Close, Lifecycle!EpisodeOf, EpisodeOf, Tasks, Stored, RequestsStay, Lates
  <2>. QED  BY <2>5 DEF Abstract, Lifecycle!Next
<1>4. CASE Expire(e)
  <2>1. /\ UNCHANGED <<rec, phase, workspace, evidence>> /\ state' = [state EXCEPT ![e] = "finalizing"]
        /\ state[e] = "open" /\ UNCHANGED <<events, resumed, targets>>
    BY <1>4 DEF Expire, world, messages, disk
  <2>2. Tasks' = Tasks /\ Stored' = Stored /\ KeysStay /\ RequestsStay /\ Mode' = Mode
    BY <2>1, MappedRequests DEF Tasks, Stored, TaskOf, Saved, KeysStay, Mode
  <2>3. Lifecycle!Expire(e)
    BY <2>1, <2>2, MappedKeys DEF Lifecycle!Expire, Tasks, Stored, RequestsStay, Lates
  <2>. QED  BY <2>3 DEF Abstract, Lifecycle!Next
<1>5. CASE BarrierFails(e)
  <2>1. /\ UNCHANGED <<phase, state, evidence>> /\ Mode' = Mode
        /\ \A s \in Recordings : /\ rec'[s].key = rec[s].key /\ rec'[s].pc = rec[s].pc
                                /\ rec'[s].late = rec[s].late
        /\ UNCHANGED <<events, resumed, targets>>
    BY <1>5, FailsOutcome DEF Mode, BarrierFails, rows, messages
  <2>2. KeysStay /\ RequestsStay /\ \A s \in Recordings : TaskOf(s)' = TaskOf(s)
    BY <2>1, MappedRequests DEF KeysStay, TaskOf
  <2>3. CASE ~At(e, "committed")
    <3>1. \A s \in Recordings : Saved(s)' = Saved(s)
      BY <1>5, <2>3 DEF BarrierFails, disk, Saved
    <3>. QED  BY <2>1, <2>2, <3>1, Unseen
  <2>4. CASE At(e, "committed")
    <3>0. PICK r \in Recordings : r = barrier[e].current
      BY <2>4, HoldingFacts DEF At, Holding
    <3>1. workspace[r] # "none" /\ evidence[r]
      BY <2>4, <3>0, HoldingFacts DEF At, Holding, BarrierInv, BarrierFits
    <3>2. UNCHANGED evidence /\ workspace' = [workspace EXCEPT ![r] = "sealed"]
      BY <1>5, <2>4, <3>0 DEF BarrierFails, Sealed
    <3>3. /\ \A s \in Recordings \ {r} : Saved(s)' = Saved(s)
          /\ Saved(r) \in {"evidence", "sealed"} /\ Saved(r)' = "sealed"
      BY <3>1, <3>2 DEF Saved
    <3>4. {r} \in SUBSET Recordings
      OBVIOUS
    <3>. QED  BY <2>1, <2>2, <3>3, <3>4, Seals
  <2>. QED  BY <2>3, <2>4
<1>. QED  BY <1>1, <1>2, <1>3, <1>4, <1>5

\* The process stops, dies and starts again.
LEMMA ProcessRefines ==
  ASSUME RecorderInv, TypeOK', Shutdown \/ Die \/ Recover \/ ResumeRest \/ ResumeDone
  PROVE  Abstract
<1>. USE Types DEF RecorderInv
<1>1. CASE Shutdown
  <2>1. /\ UNCHANGED <<state, workspace, evidence, events, resumed, targets>>
        /\ phase = "running" /\ phase' = "stopping"
        /\ \A r \in Recordings : /\ rec'[r].key = rec[r].key /\ rec'[r].pc = rec[r].pc
                                /\ rec'[r].late = rec[r].late
    <3>1. StopAll(UNION {Active(e) : e \in Episodes}, TRUE)
      BY <1>1 DEF Shutdown
    <3>2. /\ UNCHANGED <<state, workspace, evidence, events, resumed, targets>>
          /\ phase = "running" /\ phase' = "stopping"
      BY <1>1 DEF Shutdown, rows, messages, disk
    <3>. QED  BY ONLY <3>1, <3>2, TypeOK, StopAllOutcome
  <2>2. /\ Tasks' = Tasks /\ Stored' = Stored /\ KeysStay /\ RequestsStay
        /\ Mode = "serving" /\ Mode' = "stopping"
    BY <2>1, MappedRequests DEF Tasks, Stored, TaskOf, Saved, KeysStay, Mode
  <2>3. Lifecycle!Shutdown
    BY <2>1, <2>2, MappedKeys DEF Lifecycle!Shutdown, Tasks, Stored, RequestsStay, Lates
  <2>. QED  BY <2>3 DEF Abstract, Lifecycle!Next
<1>2. CASE Die
  <2>1. /\ UNCHANGED <<state, workspace, evidence>> /\ phase' = "down"
        /\ \A r \in Recordings : rec'[r].key = rec[r].key /\ rec'[r].pc = "none" /\ ~rec'[r].late
        /\ events' = [k \in Keys |-> 0] /\ resumed' = {}
    BY <1>2 DEF Die, Unused, rows, disk
  <2>2. Stored' = Stored /\ KeysStay /\ Mode' = "starting"
    BY <2>1 DEF Stored, Saved, KeysStay, Mode
  <2>3. Tasks' = [r \in Recordings |-> "none"]
    BY <2>1 DEF Tasks, TaskOf, Capturing, Holding
  <2>4. Due' = {} /\ Lates' = {}
    BY <2>1 DEF Due, Lates
  <2>5. Lifecycle!Crash
    BY <2>1, <2>2, <2>3, <2>4, MappedKeys DEF Lifecycle!Crash, Tasks, Stored, Lates
  <2>. QED  BY <2>5 DEF Abstract, Lifecycle!Next
<1>3. CASE Recover
  <2>. DEFINE S == {r \in Recordings : workspace[r] = "open" /\ evidence[r] /\ state[EpisodeOf(r)] # "closed"}
  <2>1. /\ UNCHANGED <<state, rec, evidence>> /\ phase = "down" /\ phase' = "recovering"
        /\ workspace' = [r \in Recordings |-> IF r \in S THEN "sealed" ELSE workspace[r]]
    BY <1>3 DEF Recover, rows
  <2>5. UNCHANGED <<events, resumed, targets>>
    BY <1>3 DEF Recover, rows, messages
  <2>2. KeysStay /\ RequestsStay /\ Mode' = Mode /\ \A r \in Recordings : TaskOf(r)' = TaskOf(r)
    BY <2>1, <2>5, MappedRequests DEF KeysStay, Mode, TaskOf
  <2>3. /\ \A r \in S : Saved(r) \in {"evidence", "sealed"} /\ Saved(r)' = "sealed"
        /\ \A r \in Recordings \ S : Saved(r)' = Saved(r)
    BY <2>1 DEF Saved
  <2>4. S \in SUBSET Recordings
    OBVIOUS
  <2>. HIDE DEF S
  <2>. QED  BY <2>1, <2>2, <2>3, <2>4, Seals
<1>4. CASE ResumeRest
  <2>1. UNCHANGED <<rec, phase, state, workspace, evidence, events>> /\ resumed' = {}
    BY <1>4 DEF ResumeRest, world, rows, disk
  <2>2. Lates' = Lates /\ \A k \in Due' : k \in Due
    BY <2>1 DEF Lates, Due
  <2>. QED  BY <2>1, <2>2, Asks DEF KeysStay, Mode, TaskOf, Saved
<1>5. CASE ResumeDone
  <2>1. /\ UNCHANGED <<rec, state, workspace, evidence, events, resumed, targets>>
        /\ phase = "resuming" /\ phase' = "running"
    BY <1>5 DEF ResumeDone, rows, messages, disk
  <2>2. /\ Tasks' = Tasks /\ Stored' = Stored /\ KeysStay /\ RequestsStay
        /\ Mode = "starting" /\ Mode' = "serving"
    BY <2>1, MappedRequests DEF Tasks, Stored, TaskOf, Saved, KeysStay, Mode
  <2>3. Lifecycle!Resumed
    BY <2>1, <2>2, MappedKeys DEF Lifecycle!Resumed, Tasks, Stored, RequestsStay, Lates
  <2>. QED  BY <2>3 DEF Abstract, Lifecycle!Next
<1>. QED  BY <1>1, <1>2, <1>3, <1>4, <1>5

\* Capture is asked for by Events of open Episodes and when it is resumed.
LEMMA QuietRequests ==
  ASSUME TypeOK, QuietStep
  PROVE  \A k \in Due' : k \in Due \/ state[k[1]] = "open"
<1>0. events \in [Keys -> Nat]
  BY DEF TypeOK, MessagesOK
<1>1. ASSUME NEW e \in Episodes, Event(e)
      PROVE  \A k \in Due' : k \in Due \/ state[k[1]] = "open"
  <2>1. PICK wanted \in SUBSET Devices :
          /\ events' = [k \in Keys |-> IF k \in {e} \X wanted THEN events[k] + 1 ELSE events[k]]
          /\ targets' = targets \union ({e} \X wanted)
    BY <1>1 DEF Event, Joins
  <2>2. state[e] = "open" /\ resumed' = resumed
    BY <1>1 DEF Event
  <2>3. \A k \in {e} \X wanted : k[1] = e
    OBVIOUS
  <2>. QED  BY <2>1, <2>2, <2>3 DEF Due
<1>2. ASSUME NEW e \in Episodes, EventFails(e)
      PROVE  \A k \in Due' : k \in Due \/ state[k[1]] = "open"
  <2>1. PICK wanted \in SUBSET Devices : targets' = targets \union ({e} \X wanted)
    BY <1>2 DEF EventFails, Joins
  <2>2. state[e] = "open" /\ UNCHANGED <<events, resumed>>
    BY <1>2 DEF EventFails, messages
  <2>3. \A k \in {e} \X wanted : k[1] = e
    OBVIOUS
  <2>. QED  BY <2>1, <2>2, <2>3 DEF Due
<1>3. ASSUME NEW k \in Keys, NoSource(k) \/ (OnEvent(k) /\ recordings[k] # None)
      PROVE  \A x \in Due' : x \in Due
  <2>1. events[k] > 0 /\ Handled(k) /\ UNCHANGED <<resumed, targets>>
    BY <1>3 DEF NoSource, OnEvent, rows
  <2>2. \A x \in Keys : events'[x] > 0 => events[x] > 0
    BY <1>0, <2>1 DEF Handled
  <2>. QED  BY <2>1, <2>2 DEF Due
<1>4. CASE Resume
  <2>1. resumed' = {k \in Keys : state[k[1]] = "open" /\ horizon[k[1]] >= now} /\ events' = events
    BY <1>4 DEF Resume
  <2>. QED  BY <2>1 DEF Due
<1>5. CASE ChangeGrace \/ Tick \/ UNCHANGED vars \/ \E e \in Episodes : OnLeaseExpired(e)
  <2>1. UNCHANGED <<events, resumed, targets>>
    BY <1>5 DEF ChangeGrace, Tick, vars, OnLeaseExpired, rows, messages
  <2>. QED  BY <2>1 DEF Due
<1>. QED  BY <1>1, <1>2, <1>3, <1>4, <1>5 DEF QuietStep

LEMMA RecorderRefines ==
  ASSUME RecorderInv, [Next]_vars
  PROVE  Abstract
<1>0. TypeOK'
  BY TypeStep DEF RecorderInv
<1>1. CASE QuietStep
  <2>1. /\ UNCHANGED <<state, workspace, evidence>> /\ Mode' = Mode
        /\ \A r \in Recordings : /\ rec'[r].key = rec[r].key /\ rec'[r].pc = rec[r].pc
                                /\ rec'[r].late = rec[r].late
    BY <1>1, QuietSteps DEF RecorderInv, Quiet, Mode
  <2>2. Lates' = Lates /\ \A k \in Due' : k \in Due \/ state[k[1]] = "open"
    BY <1>1, <2>1, QuietRequests DEF Lates, RecorderInv
  <2>. QED  BY <1>0, <2>1, <2>2, Asks DEF KeysStay, TaskOf, Saved
<1>2. ASSUME NEW k \in Keys, OnEvent(k) \/ ResumeTarget(k), ~QuietStep
      PROVE  Abstract
  BY <1>2, StartRefines DEF QuietStep
<1>3. ASSUME NEW r \in Recordings, CaptureTask(r)
      PROVE  Abstract
  BY <1>3, TaskRefines
<1>. QED  BY <1>0, <1>1, <1>2, <1>3, BarrierRefines, EngineRefines, ProcessRefines
          DEF Next, QuietStep, CaptureTask, EngineStep, BarrierStep, Crash, ResumeFails

\* The recorder, with its maps, leases, barriers and restarts, implements what
\* RecordingLifecycle promises about recordings.
THEOREM RecorderImplementsLifecycle == Spec => RecorderImplements
<1>1. Init => Lifecycle!Init
  <2>. SUFFICES ASSUME Init PROVE Lifecycle!Init
    OBVIOUS
  <2>1. /\ \A r \in Recordings : rec[r].key \in Keys /\ rec[r].pc = "none" /\ workspace[r] = "none"
        /\ phase = "running" /\ state = [e \in Episodes |-> "open"]
        /\ events = [k \in Keys |-> 0] /\ resumed = {} /\ \A r \in Recordings : ~rec[r].late
    BY InitType, Types DEF Init, Unused
  <2>2. Tasks = [r \in Recordings |-> "none"] /\ Stored = [r \in Recordings |-> "nothing"] /\ Mode = "serving"
    BY <2>1 DEF Tasks, Stored, TaskOf, Saved, Mode, Capturing, Holding
  <2>3. Due = {} /\ Lates = {}
    BY <2>1 DEF Due, Lates
  <2>. QED  BY <2>1, <2>2, <2>3 DEF Lifecycle!Init, Lifecycle!Keys, Keys, Tasks, Stored, Lates
<1>2. RecorderInv /\ [Next]_vars => [Lifecycle!Next]_(Lifecycle!vars)
  BY RecorderRefines DEF Abstract
<1>. QED  BY <1>1, <1>2, RecorderInvariance, PTL DEF Spec, RecorderImplements, Lifecycle!Spec
==============================================================================
