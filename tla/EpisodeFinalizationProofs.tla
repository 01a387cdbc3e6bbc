---------------------- MODULE EpisodeFinalizationProofs ----------------------
(***************************************************************************)
(* Proofs about finalization, for every set of Episodes and of tasks that  *)
(* add to their bundles, and for every bound.                              *)
(***************************************************************************)
EXTENDS EpisodeFinalizationProperties, TLAPS

USE TaskAssumption, BoundAssumption

\* Changing a task's locals keeps them locals.
LEMMA LocalsChange ==
  ASSUME TasksOK, NEW t \in Tasks, NEW j \in Job, job' = [job EXCEPT ![t] = j]
  PROVE  job' \in [Tasks -> Job]
BY DEF TasksOK

\* A document read under the bundle lock is kept in the task's locals.
LEMMA Snapshot ==
  ASSUME TasksOK, NEW t \in Tasks, NEW document \in Document,
         job' = [job EXCEPT ![t].snapshot = document]
  PROVE  job' \in [Tasks -> Job]
<1>1. job[t] \in Job
  BY DEF TasksOK
<1>2. [job[t] EXCEPT !.snapshot = document] \in Job
  BY <1>1 DEF Job
<1>. QED  BY <1>2, LocalsChange

\* A task that notes which manifest to write keeps its locals well typed.
LEMMA RefreshLater ==
  ASSUME TasksOK, NEW t \in Tasks, NEW ep \in Episodes, NEW step \in Steps, RefreshThen(t, ep, step)
  PROVE  job' \in [Tasks -> Job]
<1>1. job[t] \in Job
  BY DEF TasksOK
<1>2. [job[t] EXCEPT !.episode = ep, !.closing = FALSE, !.after = step] \in Job
  BY <1>1 DEF Job
<1>3. job' = [job EXCEPT ![t] = [job[t] EXCEPT !.episode = ep, !.closing = FALSE, !.after = step]]
  BY DEF RefreshThen, TasksOK
<1>. QED  BY <1>2, <1>3, LocalsChange

\* So does a pass that takes the next Episode to settle from its list.
LEMMA SettlingJob ==
  ASSUME NEW j \in Job, NEW S \in SUBSET Episodes, NEW ep \in Episodes
  PROVE  [j EXCEPT !.settled = S, !.episode = ep, !.after = "settle"] \in Job
BY DEF Job, Steps

\* The locals a task starts with are locals.
LEMMA IdleIsJob == IdleJob \in Job
BY DEF IdleJob, Job, Unread, Document, Steps, NoTime

-----------------------------------------------------------------------------
(***************************************************************************)
(* Every action preserves the inductive invariant: one lemma for each, one *)
(* step for each conjunct.                                                 *)
(***************************************************************************)
\* ReadState takes the bundle lock and reads the state.
LEMMA ReadStateInv ==
  ASSUME IndInv, NEW t \in Tasks, ReadState(t)
  PROVE  IndInv'
<1>. USE DEF IndInv, TypeOK, ReadState, Move, environment, rows, bundle, locks
<1>1. EnvironmentOK'
  BY DEF EnvironmentOK
<1>2. RowsOK'
  BY DEF RowsOK
<1>3. BundleOK'
  BY DEF BundleOK
<1>4. TasksOK'
  <2>1. job[t].episode \in Episodes
    BY DEF TaskInv, Working, Refreshing
  <2>2. [state |-> StateRead(t),
         end |-> IF job[t].closing THEN job[t].end ELSE dbEnd[job[t].episode],
         items |-> {}] \in Document
    BY <2>1 DEF StateRead, Document, RowsOK, TasksOK, Job
  <2>3. job' \in [Tasks -> Job]
    BY <2>2, Snapshot
  <2>. QED  BY <2>1, <2>3 DEF TasksOK, Steps, Refreshing
<1>5. ClaimInv'
  BY DEF ClaimInv, TasksOK, Tasks, Job
<1>6. TaskInv'
  BY DEF TaskInv, TasksOK, Working, Refreshing, Job
<1>7. SealInv'
  BY DEF SealInv, TasksOK, Tasks, Job
<1>. QED  BY <1>1, <1>2, <1>3, <1>4, <1>5, <1>6, <1>7

\* ReadItems reads the rows of the Episode.
LEMMA ReadItemsInv ==
  ASSUME IndInv, NEW t \in Tasks, ReadItems(t)
  PROVE  IndInv'
<1>. USE DEF IndInv, TypeOK, ReadItems, Move, environment, rows, bundle, locks
<1>1. EnvironmentOK'
  BY DEF EnvironmentOK
<1>2. RowsOK'
  BY DEF RowsOK
<1>3. BundleOK'
  BY DEF BundleOK
<1>4. TasksOK'
  <2>1. job[t].episode \in Episodes
    BY DEF TaskInv, Working, Refreshing
  <2>2. [job[t].snapshot EXCEPT !.items = items[job[t].episode]] \in Document
    <3>1. job[t].snapshot \in Document /\ items[job[t].episode] \in SUBSET Writers
      BY <2>1 DEF RowsOK, TasksOK, Job
    <3>. QED  BY ONLY <3>1 DEF Document
  <2>3. [job[t] EXCEPT !.snapshot = [job[t].snapshot EXCEPT !.items = items[job[t].episode]]] \in Job
    <3>1. job[t] \in Job
      BY DEF TasksOK
    <3>. QED  BY ONLY <2>2, <3>1 DEF Job
  <2>4. job' \in [Tasks -> Job]
    BY <2>3, LocalsChange
  <2>. QED  BY <2>4 DEF TasksOK, Steps, Refreshing
<1>5. ClaimInv'
  BY DEF ClaimInv, TasksOK, Tasks, Job
<1>6. TaskInv'
  BY DEF TaskInv, TasksOK, Working, Refreshing, Job
<1>7. SealInv'
  BY DEF SealInv, TasksOK, Tasks, Job
<1>. QED  BY <1>1, <1>2, <1>3, <1>4, <1>5, <1>6, <1>7

\* WriteManifest replaces the file and frees the lock.
LEMMA WriteManifestInv ==
  ASSUME IndInv, NEW t \in Tasks, WriteManifest(t)
  PROVE  IndInv'
<1>. USE DEF IndInv, TypeOK, WriteManifest, Move, environment, rows, bundle, locks
<1>1. EnvironmentOK'
  BY DEF EnvironmentOK
<1>2. RowsOK'
  BY DEF RowsOK
<1>3. BundleOK'
  <2>1. job[t].episode \in Episodes /\ job[t].snapshot \in Document
    BY DEF TaskInv, Working, Refreshing, TasksOK, Job
  <2>. QED  BY <2>1 DEF BundleOK
<1>4. TasksOK'
  BY DEF TasksOK, Job, Steps, Refreshing, Freed
<1>5. ClaimInv'
  BY DEF ClaimInv, TasksOK, Tasks
<1>6. TaskInv'
  BY DEF TaskInv, TasksOK, Working, Refreshing
<1>7. SealInv'
  BY DEF SealInv, TasksOK, TaskInv, Tasks, Refreshing
<1>. QED  BY <1>1, <1>2, <1>3, <1>4, <1>5, <1>6, <1>7

\* AssociateEvent links an Event to an open Episode.
LEMMA AssociateEventInv ==
  ASSUME IndInv, NEW t \in Writers, NEW ep \in Episodes, AssociateEvent(t, ep)
  PROVE  IndInv'
<1>. USE DEF IndInv, TypeOK, AssociateEvent, Move, environment, rows, bundle, locks, RefreshThen
<1>1. EnvironmentOK'
  BY DEF EnvironmentOK
<1>2. RowsOK'
  BY DEF RowsOK
<1>3. BundleOK'
  BY DEF BundleOK
<1>4. TasksOK'
  <2>1. "done" \in Steps /\ "refresh" \in Steps /\ t \in Tasks
    BY DEF Steps, Refreshing, Tasks
  <2>2. job' \in [Tasks -> Job]
    BY <2>1, RefreshLater
  <2>. QED  BY <2>1, <2>2 DEF TasksOK
<1>5. ClaimInv'
  BY DEF ClaimInv, TasksOK, Tasks, Job
<1>6. TaskInv'
  BY DEF TaskInv, TasksOK, Tasks, Working, Refreshing, Job
<1>7. SealInv'
  BY DEF SealInv, TasksOK, Tasks, Job
<1>. QED  BY <1>1, <1>2, <1>3, <1>4, <1>5, <1>6, <1>7

\* LinkReceipt links a receipt to an Episode in any state.
LEMMA LinkReceiptInv ==
  ASSUME IndInv, NEW t \in Writers, NEW ep \in Episodes, LinkReceipt(t, ep)
  PROVE  IndInv'
<1>. USE DEF IndInv, TypeOK, LinkReceipt, Move, environment, rows, bundle, locks, RefreshThen
<1>1. EnvironmentOK'
  BY DEF EnvironmentOK
<1>2. RowsOK'
  BY DEF RowsOK
<1>3. BundleOK'
  BY DEF BundleOK
<1>4. TasksOK'
  <2>1. "done" \in Steps /\ "refresh" \in Steps /\ t \in Tasks
    BY DEF Steps, Refreshing, Tasks
  <2>2. job' \in [Tasks -> Job]
    BY <2>1, RefreshLater
  <2>. QED  BY <2>1, <2>2 DEF TasksOK
<1>5. ClaimInv'
  BY DEF ClaimInv, TasksOK, Tasks, Job
<1>6. TaskInv'
  BY DEF TaskInv, TasksOK, Tasks, Working, Refreshing, Job
<1>7. SealInv'
  BY DEF SealInv, TasksOK, Tasks, Job
<1>. QED  BY <1>1, <1>2, <1>3, <1>4, <1>5, <1>6, <1>7

\* CheckRecording takes the lifecycle lock, unless the Episode is closed.
LEMMA CheckRecordingInv ==
  ASSUME IndInv, NEW t \in Writers, NEW ep \in Episodes, CheckRecording(t, ep)
  PROVE  IndInv'
<1>. USE DEF IndInv, TypeOK, CheckRecording, Move, environment, rows, bundle, locks, RefreshThen
<1>1. EnvironmentOK'
  BY DEF EnvironmentOK
<1>2. RowsOK'
  BY DEF RowsOK
<1>3. BundleOK'
  BY DEF BundleOK
<1>4. TasksOK'
  <2>1. {"done", "commit", "unlock"} \subseteq Steps /\ t \in Tasks
    BY DEF Steps, Tasks
  <2>2. job' \in [Tasks -> Job]
    BY <2>1, RefreshLater DEF TasksOK
  <2>. QED  BY <2>1, <2>2 DEF TasksOK
<1>5. ClaimInv'
  BY DEF ClaimInv, TasksOK, Tasks, Job
<1>6. TaskInv'
  BY DEF TaskInv, TasksOK, Tasks, Working, Refreshing, Job
<1>7. SealInv'
  BY DEF SealInv, TasksOK, Tasks, Job
<1>. QED  BY <1>1, <1>2, <1>3, <1>4, <1>5, <1>6, <1>7

\* LinkRecording adds a row and goes on to the manifest.
LEMMA LinkRecordingInv ==
  ASSUME IndInv, NEW t \in Writers, LinkRecording(t)
  PROVE  IndInv'
<1>. USE DEF IndInv, TypeOK, LinkRecording, Move, environment, rows, bundle, locks
<1>1. EnvironmentOK'
  BY DEF EnvironmentOK
<1>2. RowsOK'
  BY DEF RowsOK
<1>3. BundleOK'
  BY DEF BundleOK
<1>4. TasksOK'
  BY DEF TasksOK, Tasks, Steps, Refreshing
<1>5. ClaimInv'
  BY DEF ClaimInv, TasksOK, Tasks
<1>6. TaskInv'
  BY DEF TaskInv, TasksOK, Tasks, Working, Refreshing
<1>7. SealInv'
  BY DEF SealInv, TasksOK, Tasks
<1>. QED  BY <1>1, <1>2, <1>3, <1>4, <1>5, <1>6, <1>7

\* Unlock leaves the lifecycle lock.
LEMMA UnlockInv ==
  ASSUME IndInv, NEW t \in Writers, Unlock(t)
  PROVE  IndInv'
<1>. USE DEF IndInv, TypeOK, Unlock, Move, environment, rows, bundle, locks
<1>1. EnvironmentOK'
  BY DEF EnvironmentOK
<1>2. RowsOK'
  BY DEF RowsOK
<1>3. BundleOK'
  BY DEF BundleOK
<1>4. TasksOK'
  BY DEF TasksOK, Tasks, Steps, Refreshing, Left
<1>5. ClaimInv'
  BY DEF ClaimInv, TasksOK, Tasks
<1>6. TaskInv'
  BY DEF TaskInv, TasksOK, Tasks, Working, Refreshing
<1>7. SealInv'
  BY DEF SealInv, TasksOK, Tasks
<1>. QED  BY <1>1, <1>2, <1>3, <1>4, <1>5, <1>6, <1>7

\* RequestPass starts the pass of a changed grace.
LEMMA RequestPassInv ==
  ASSUME IndInv, RequestPass
  PROVE  IndInv'
<1>. USE DEF IndInv, TypeOK, RequestPass, Move, environment, rows, bundle, locks
<1>1. EnvironmentOK'
  BY DEF EnvironmentOK
<1>2. RowsOK'
  BY DEF RowsOK
<1>3. BundleOK'
  BY DEF BundleOK
<1>4. TasksOK'
  BY DEF TasksOK, Tasks, Passes, Steps, Refreshing
<1>5. ClaimInv'
  BY DEF ClaimInv, TasksOK, Tasks
<1>6. TaskInv'
  BY DEF TaskInv, TasksOK, Working, Refreshing
<1>7. SealInv'
  BY DEF SealInv, TasksOK, Tasks
<1>. QED  BY <1>1, <1>2, <1>3, <1>4, <1>5, <1>6, <1>7

\* CompleteStartup starts the pass of startup.
LEMMA CompleteStartupInv ==
  ASSUME IndInv, CompleteStartup
  PROVE  IndInv'
<1>. USE DEF IndInv, TypeOK, CompleteStartup, Move, environment, rows, bundle, locks
<1>1. EnvironmentOK'
  BY DEF EnvironmentOK
<1>2. RowsOK'
  BY DEF RowsOK
<1>3. BundleOK'
  BY DEF BundleOK
<1>4. TasksOK'
  BY DEF TasksOK, Tasks, Passes, Steps, Refreshing
<1>5. ClaimInv'
  BY DEF ClaimInv, TasksOK, Tasks
<1>6. TaskInv'
  BY DEF TaskInv, TasksOK, Working, Refreshing
<1>7. SealInv'
  BY DEF SealInv, TasksOK, Tasks
<1>. QED  BY <1>1, <1>2, <1>3, <1>4, <1>5, <1>6, <1>7

\* Transition makes the list of a pass, which claims nothing yet.
LEMMA TransitionInv ==
  ASSUME IndInv, NEW p \in Passes, Transition(p)
  PROVE  IndInv'
<1>. USE DEF IndInv, TypeOK, Transition, Move, environment, rows, bundle, locks
<1>1. EnvironmentOK'
  BY DEF EnvironmentOK
<1>2. RowsOK'
  BY DEF RowsOK
<1>3. BundleOK'
  BY DEF BundleOK
<1>4. TasksOK'
  <2>1. PICK expired \in SUBSET Open, settled \in SUBSET Open :
          job' = [job EXCEPT ![p] = [IdleJob EXCEPT !.todo = WorkList(expired),
                                                   !.settled = settled, !.entered = expired]]
    OBVIOUS
  <2>2. [IdleJob EXCEPT !.todo = WorkList(expired), !.settled = settled, !.entered = expired] \in Job
    BY DEF IdleJob, Job, WorkList, Open, Unread, Document, Steps, NoTime
  <2>. QED  BY <2>1, <2>2 DEF TasksOK, Tasks, Passes, Steps
<1>5. ClaimInv'
  BY DEF ClaimInv, TasksOK, Tasks, IdleJob
<1>6. TaskInv'
  BY DEF TaskInv, TasksOK, Tasks, Working, Refreshing, IdleJob
<1>7. SealInv'
  <2>1. \A ep \in Episodes : dbState'[ep] = "closed" => dbState[ep] = "closed"
    BY DEF RowsOK
  <2>2. \A q \in Passes : pc'[q] = "close" => pc[q] = "close" /\ job'[q] = job[q]
    BY DEF TasksOK, Tasks
  <2>. QED  BY <2>1, <2>2 DEF SealInv
<1>. QED  BY <1>1, <1>2, <1>3, <1>4, <1>5, <1>6, <1>7

\* NothingToDo ends a pass that found no Episode.
LEMMA NothingToDoInv ==
  ASSUME IndInv, NEW p \in Passes, NothingToDo(p)
  PROVE  IndInv'
<1>. USE DEF IndInv, TypeOK, NothingToDo, Move, environment, rows, bundle, locks, Ready
<1>1. EnvironmentOK'
  BY DEF EnvironmentOK
<1>2. RowsOK'
  BY DEF RowsOK
<1>3. BundleOK'
  BY DEF BundleOK
<1>4. TasksOK'
  BY DEF TasksOK, Tasks, Steps
<1>5. ClaimInv'
  BY DEF ClaimInv, TasksOK, Tasks
<1>6. TaskInv'
  BY DEF TaskInv, TasksOK, Tasks, Working, Refreshing
<1>7. SealInv'
  BY DEF SealInv, TasksOK, Tasks
<1>. QED  BY <1>1, <1>2, <1>3, <1>4, <1>5, <1>6, <1>7

\* SettleNext chooses an Episode for its manifest.
LEMMA SettleNextInv ==
  ASSUME IndInv, NEW p \in Passes, SettleNext(p)
  PROVE  IndInv'
<1>. USE DEF IndInv, TypeOK, SettleNext, Move, environment, rows, bundle, locks
<1>1. EnvironmentOK'
  BY DEF EnvironmentOK
<1>2. RowsOK'
  BY DEF RowsOK
<1>3. BundleOK'
  BY DEF BundleOK
<1>4. TasksOK'
  <2>1. {"settle", "refresh"} \subseteq Steps /\ p \in Tasks
    BY DEF Steps, Refreshing, Tasks
  <2>2. PICK ep \in job[p].settled :
          job' = [job EXCEPT ![p].settled = @ \ {ep}, ![p].episode = ep, ![p].after = "settle"]
    OBVIOUS
  <2>3. ep \in Episodes /\ job[p].settled \ {ep} \in SUBSET Episodes
    BY <2>1 DEF TasksOK, Job
  <2>4. [job[p] EXCEPT !.settled = job[p].settled \ {ep}, !.episode = ep, !.after = "settle"] \in Job
    BY <2>1, <2>3, SettlingJob DEF TasksOK
  <2>5. job' = [job EXCEPT ![p] = [job[p] EXCEPT !.settled = job[p].settled \ {ep}, !.episode = ep,
                                                 !.after = "settle"]]
    BY <2>1, <2>2 DEF TasksOK
  <2>6. job' \in [Tasks -> Job]
    BY <2>1, <2>4, <2>5, LocalsChange
  <2>. QED  BY <2>1, <2>6 DEF TasksOK
<1>5. ClaimInv'
  BY DEF ClaimInv, TasksOK, Tasks, Job
<1>6. TaskInv'
  <2>1. PICK ep \in job[p].settled :
          job' = [job EXCEPT ![p].settled = @ \ {ep}, ![p].episode = ep, ![p].after = "settle"]
    OBVIOUS
  <2>2. ep \in Episodes /\ p \in Tasks
    BY DEF TasksOK, Tasks, Job
  <2>3. job'[p].after = "settle" /\ job'[p].episode = ep
    BY <2>1, <2>2 DEF TasksOK, Job
  <2>4. \A t \in Tasks \ {p} : job'[t] = job[t] /\ pc'[t] = pc[t]
    BY <2>1 DEF TasksOK
  <2>5. pc'[p] = "refresh"
    BY <2>2 DEF TasksOK
  <2>. QED  BY <2>2, <2>3, <2>4, <2>5 DEF TaskInv, Working, Refreshing
<1>7. SealInv'
  BY DEF SealInv, TasksOK, Tasks, Job
<1>. QED  BY <1>1, <1>2, <1>3, <1>4, <1>5, <1>6, <1>7

\* JournalFinalizing adds to journals and takes nothing away.
LEMMA JournalFinalizingInv ==
  ASSUME IndInv, NEW p \in Passes, JournalFinalizing(p)
  PROVE  IndInv'
<1>. USE DEF IndInv, TypeOK, JournalFinalizing, Move, environment, rows, bundle, locks
<1>1. EnvironmentOK'
  BY DEF EnvironmentOK
<1>2. RowsOK'
  BY DEF RowsOK
<1>3. BundleOK'
  BY DEF BundleOK
<1>4. TasksOK'
  BY DEF TasksOK, Tasks, Job
<1>5. ClaimInv'
  BY DEF ClaimInv, TasksOK, Tasks, Job
<1>6. TaskInv'
  BY DEF TaskInv, TasksOK, Tasks, Working, Refreshing, Job
<1>7. SealInv'
  <2>1. \A ep \in Episodes : journal[ep] \subseteq journal'[ep]
    OBVIOUS
  <2>2. \A q \in Passes : job'[q].episode = job[q].episode
    BY DEF TasksOK, Tasks, Job
  <2>3. \A q \in Passes : pc[q] = "close" => job[q].episode \in Episodes
    BY DEF TaskInv, Working, Tasks
  <2>. QED  BY <2>1, <2>2, <2>3 DEF SealInv
<1>. QED  BY <1>1, <1>2, <1>3, <1>4, <1>5, <1>6, <1>7

\* LeaveLock leaves the lifecycle lock.
LEMMA LeaveLockInv ==
  ASSUME IndInv, NEW p \in Passes, LeaveLock(p)
  PROVE  IndInv'
<1>. USE DEF IndInv, TypeOK, LeaveLock, Move, environment, rows, bundle, locks
<1>1. EnvironmentOK'
  BY DEF EnvironmentOK
<1>2. RowsOK'
  BY DEF RowsOK
<1>3. BundleOK'
  BY DEF BundleOK
<1>4. TasksOK'
  BY DEF TasksOK, Tasks, Steps
<1>5. ClaimInv'
  BY DEF ClaimInv, TasksOK, Tasks
<1>6. TaskInv'
  BY DEF TaskInv, TasksOK, Tasks, Working, Refreshing
<1>7. SealInv'
  BY DEF SealInv, TasksOK, Tasks
<1>. QED  BY <1>1, <1>2, <1>3, <1>4, <1>5, <1>6, <1>7

\* What a pass gives up is not what another pass has claimed.
LEMMA HeldByOthersKept ==
  ASSUME IndInv, NEW p \in Passes
  PROVE  \A q \in Passes \ {p} : job[q].after = "seal" => job[q].episode \in HeldByOthers(p)
BY DEF IndInv, ClaimInv, HeldByOthers, Released

\* ClaimEpisode gives up its last Episode and claims one no pass holds.
LEMMA ClaimEpisodeInv ==
  ASSUME IndInv, NEW p \in Passes, ClaimEpisode(p)
  PROVE  IndInv'
<1>. USE DEF IndInv, TypeOK, ClaimEpisode, Move, environment, rows, bundle, locks
<1>1. EnvironmentOK'
  BY DEF EnvironmentOK
<1>2. RowsOK'
  BY DEF RowsOK
<1>3. BundleOK'
  BY DEF BundleOK
<1>4. TasksOK'
  <2>1. PICK ep \in job[p].todo, skipped \in SUBSET job[p].todo :
          /\ finalizingIds' = HeldByOthers(p) \union {ep}
          /\ job' = [job EXCEPT ![p] = [IdleJob EXCEPT !.todo = job[p].todo \ (skipped \union {ep}),
                                                      !.episode = ep, !.after = "seal"]]
    OBVIOUS
  <2>2. job[p] \in Job /\ ep \in Episodes
    BY DEF TasksOK, Tasks, Job
  <2>3. [IdleJob EXCEPT !.todo = job[p].todo \ (skipped \union {ep}),
                        !.episode = ep, !.after = "seal"] \in Job
    BY <2>2 DEF IdleJob, Job, Unread, Document, Steps, NoTime
  <2>4. finalizingIds' \subseteq Episodes
    BY <2>1, <2>2 DEF TasksOK, HeldByOthers, Released
  <2>. QED  BY <2>1, <2>3, <2>4 DEF TasksOK, Tasks, Steps, Left
<1>5. ClaimInv'
  <2>1. PICK ep \in job[p].todo, skipped \in SUBSET job[p].todo :
          /\ MayClaim(p, ep)
          /\ finalizingIds' = HeldByOthers(p) \union {ep}
          /\ job' = [job EXCEPT ![p] = [IdleJob EXCEPT !.todo = job[p].todo \ (skipped \union {ep}),
                                                      !.episode = ep, !.after = "seal"]]
    OBVIOUS
  <2>2. job'[p].after = "seal" /\ job'[p].episode = ep
    BY <2>1 DEF TasksOK, Tasks, IdleJob
  <2>3. \A q \in Passes \ {p} : job'[q] = job[q]
    BY <2>1 DEF TasksOK, Tasks
  <2>4. \A q \in Passes \ {p} : job[q].after = "seal" => job[q].episode \in HeldByOthers(p)
    BY HeldByOthersKept
  <2>. QED  BY <2>1, <2>2, <2>3, <2>4 DEF ClaimInv, MayClaim
<1>6. TaskInv'
  <2>1. PICK ep \in Episodes, S \in SUBSET Episodes :
          job' = [job EXCEPT ![p] = [IdleJob EXCEPT !.todo = S, !.episode = ep, !.after = "seal"]]
    BY DEF TasksOK, Tasks, Job
  <2>2. job'[p].after = "seal" /\ job'[p].episode = ep
    BY <2>1 DEF TasksOK, Tasks, IdleJob
  <2>. QED  BY <2>1, <2>2 DEF TaskInv, TasksOK, Tasks, Working, Refreshing
<1>7. SealInv'
  BY DEF SealInv, TasksOK, Tasks
<1>. QED  BY <1>1, <1>2, <1>3, <1>4, <1>5, <1>6, <1>7

\* EndPass gives up the last Episode.
LEMMA EndPassInv ==
  ASSUME IndInv, NEW p \in Passes, EndPass(p)
  PROVE  IndInv'
<1>. USE DEF IndInv, TypeOK, EndPass, Move, environment, rows, bundle, locks
<1>1. EnvironmentOK'
  BY DEF EnvironmentOK
<1>2. RowsOK'
  BY DEF RowsOK
<1>3. BundleOK'
  BY DEF BundleOK
<1>4. TasksOK'
  BY DEF TasksOK, Tasks, Steps, Left, HeldByOthers, Released, IdleJob, Job, Unread, Document, NoTime
<1>5. ClaimInv'
  <2>1. \A q \in Passes \ {p} :
          job'[q] = job[q] /\ (job[q].after = "seal" => job[q].episode \in HeldByOthers(p))
    BY HeldByOthersKept DEF TasksOK, Tasks
  <2>2. job'[p].after = "idle"
    BY DEF TasksOK, Tasks, IdleJob
  <2>. QED  BY <2>1, <2>2 DEF ClaimInv
<1>6. TaskInv'
  BY DEF TaskInv, TasksOK, Tasks, Working, Refreshing, IdleJob
<1>7. SealInv'
  BY DEF SealInv, TasksOK, Tasks
<1>. QED  BY <1>1, <1>2, <1>3, <1>4, <1>5, <1>6, <1>7

\* FinalizerReturns takes the end time.
LEMMA FinalizerReturnsInv ==
  ASSUME IndInv, NEW p \in Passes, FinalizerReturns(p)
  PROVE  IndInv'
<1>. USE DEF IndInv, TypeOK, FinalizerReturns, Move, environment, rows, bundle, locks, ClosedAt
<1>1. EnvironmentOK'
  BY DEF EnvironmentOK
<1>2. RowsOK'
  BY DEF RowsOK
<1>3. BundleOK'
  BY DEF BundleOK
<1>4. TasksOK'
  <2>1. "refresh" \in Steps /\ p \in Tasks /\ now \in Time
    BY DEF Steps, Refreshing, Tasks, EnvironmentOK
  <2>2. [job[p] EXCEPT !.end = now, !.closing = TRUE] \in Job
    <3>1. job[p] \in Job
      BY <2>1 DEF TasksOK
    <3>. QED  BY ONLY <2>1, <3>1 DEF Job
  <2>3. job' = [job EXCEPT ![p] = [job[p] EXCEPT !.end = now, !.closing = TRUE]]
    BY <2>1 DEF TasksOK
  <2>4. job' \in [Tasks -> Job]
    BY <2>1, <2>2, <2>3, LocalsChange
  <2>. QED  BY <2>1, <2>4 DEF TasksOK
<1>5. ClaimInv'
  BY DEF ClaimInv, TasksOK, Tasks, Job
<1>6. TaskInv'
  BY DEF TaskInv, TasksOK, Tasks, Working, Refreshing, Job
<1>7. SealInv'
  BY DEF SealInv, TasksOK, Tasks, Job
<1>. QED  BY <1>1, <1>2, <1>3, <1>4, <1>5, <1>6, <1>7

\* AlreadyClosed leaves an Episode another pass has closed.
LEMMA AlreadyClosedInv ==
  ASSUME IndInv, NEW p \in Passes, AlreadyClosed(p)
  PROVE  IndInv'
<1>. USE DEF IndInv, TypeOK, AlreadyClosed, Move, environment, rows, bundle, locks
<1>1. EnvironmentOK'
  BY DEF EnvironmentOK
<1>2. RowsOK'
  BY DEF RowsOK
<1>3. BundleOK'
  BY DEF BundleOK
<1>4. TasksOK'
  BY DEF TasksOK, Tasks, Steps
<1>5. ClaimInv'
  BY DEF ClaimInv, TasksOK, Tasks
<1>6. TaskInv'
  BY DEF TaskInv, TasksOK, Tasks, Working, Refreshing
<1>7. SealInv'
  BY DEF SealInv, TasksOK, Tasks
<1>. QED  BY <1>1, <1>2, <1>3, <1>4, <1>5, <1>6, <1>7

\* JournalClose writes the journal before the row.
LEMMA JournalCloseInv ==
  ASSUME IndInv, NEW p \in Passes, JournalClose(p)
  PROVE  IndInv'
<1>. USE DEF IndInv, TypeOK, JournalClose, Move, environment, rows, bundle, locks
<1>1. EnvironmentOK'
  BY DEF EnvironmentOK
<1>2. RowsOK'
  BY DEF RowsOK
<1>3. BundleOK'
  BY DEF BundleOK, Journaled, TaskInv, Working, Tasks
<1>4. TasksOK'
  BY DEF TasksOK, Tasks, Steps
<1>5. ClaimInv'
  BY DEF ClaimInv, TasksOK, Tasks
<1>6. TaskInv'
  BY DEF TaskInv, TasksOK, Tasks, Working, Refreshing
<1>7. SealInv'
  <2>1. job[p].episode \in Episodes
    BY DEF TaskInv, Working, Tasks
  <2>2. "closed" \in journal'[job[p].episode] /\ \A ep \in Episodes : journal[ep] \subseteq journal'[ep]
    BY <2>1 DEF BundleOK, Journaled
  <2>3. \A q \in Passes : pc[q] = "close" => job[q].episode \in Episodes
    BY DEF TaskInv, Working, Tasks
  <2>. QED  BY <2>1, <2>2, <2>3 DEF SealInv, TasksOK, Tasks
<1>. QED  BY <1>1, <1>2, <1>3, <1>4, <1>5, <1>6, <1>7

\* CommitClose closes an Episode whose journal says so.
LEMMA CommitCloseInv ==
  ASSUME IndInv, NEW p \in Passes, CommitClose(p)
  PROVE  IndInv'
<1>. USE DEF IndInv, TypeOK, CommitClose, Move, environment, rows, bundle, locks
<1>1. EnvironmentOK'
  BY DEF EnvironmentOK
<1>2. RowsOK'
  BY DEF RowsOK, TasksOK, Tasks, Job
<1>3. BundleOK'
  BY DEF BundleOK
<1>4. TasksOK'
  BY DEF TasksOK, Tasks, Steps
<1>5. ClaimInv'
  BY DEF ClaimInv, TasksOK, Tasks
<1>6. TaskInv'
  BY DEF TaskInv, TasksOK, Tasks, Working, Refreshing
<1>7. SealInv'
  BY DEF SealInv, TasksOK, Tasks, RowsOK
<1>. QED  BY <1>1, <1>2, <1>3, <1>4, <1>5, <1>6, <1>7

\* Fail ends a task, or one Episode of a pass, and frees its locks.
LEMMA FailInv ==
  ASSUME IndInv, NEW t \in Tasks, Fail(t)
  PROVE  IndInv'
<1>. USE DEF IndInv, TypeOK, Fail, Move, environment, rows, bundle, locks
<1>1. EnvironmentOK'
  BY DEF EnvironmentOK
<1>2. RowsOK'
  BY DEF RowsOK
<1>3. BundleOK'
  BY DEF BundleOK
<1>4. TasksOK'
  <2>1. pc' \in [Tasks -> Steps]
    BY DEF TasksOK, Steps
  <2>2. job' \in [Tasks -> Job]
    BY IdleIsJob DEF TasksOK
  <2>3. lifecycleLock' \in Tasks \union {NoTask} /\ bundleLock' \in [Episodes -> Tasks \union {NoTask}]
    BY DEF TasksOK, Left, Freed
  <2>. QED  BY <2>1, <2>2, <2>3 DEF TasksOK
<1>5. ClaimInv'
  BY DEF ClaimInv, TasksOK, Tasks, IdleJob
<1>6. TaskInv'
  BY DEF TaskInv, TasksOK, Tasks, Working, Refreshing, IdleJob
<1>7. SealInv'
  BY DEF SealInv, TasksOK, Tasks, IdleJob
<1>. QED  BY <1>1, <1>2, <1>3, <1>4, <1>5, <1>6, <1>7

\* Boot rewrites the manifests of Episodes that are not closed.
LEMMA BootInv ==
  ASSUME IndInv, Boot
  PROVE  IndInv'
<1>. USE DEF IndInv, TypeOK, Boot, Move, environment, rows, bundle, locks
<1>1. EnvironmentOK'
  BY DEF EnvironmentOK
<1>2. RowsOK'
  BY DEF RowsOK
<1>3. BundleOK'
  BY DEF BundleOK, RowsOK, Document
<1>4. TasksOK'
  BY DEF TasksOK, Tasks, Passes, Steps, Refreshing
<1>5. ClaimInv'
  BY DEF ClaimInv, TasksOK, Tasks
<1>6. TaskInv'
  BY DEF TaskInv, TasksOK, Working, Refreshing
<1>7. SealInv'
  BY DEF SealInv, TasksOK, Tasks
<1>. QED  BY <1>1, <1>2, <1>3, <1>4, <1>5, <1>6, <1>7

\* Crash empties the memory and frees every lock.
LEMMA CrashInv ==
  ASSUME IndInv, Crash
  PROVE  IndInv'
<1>. USE DEF IndInv, TypeOK, Crash, Move, environment, rows, bundle, locks
<1>1. EnvironmentOK'
  BY DEF EnvironmentOK
<1>2. RowsOK'
  BY DEF RowsOK
<1>3. BundleOK'
  BY DEF BundleOK
<1>4. TasksOK'
  BY DEF TasksOK, Tasks, Steps, IdleJob, Job, Unread, Document, NoTime
<1>5. ClaimInv'
  BY DEF ClaimInv, TasksOK, Tasks, IdleJob
<1>6. TaskInv'
  BY DEF TaskInv, TasksOK, Tasks, Working, Refreshing, IdleJob
<1>7. SealInv'
  BY DEF SealInv, TasksOK, Tasks, IdleJob
<1>. QED  BY <1>1, <1>2, <1>3, <1>4, <1>5, <1>6, <1>7

\* Tick moves the clock.
LEMMA TickInv ==
  ASSUME IndInv, Tick
  PROVE  IndInv'
<1>. USE DEF IndInv, TypeOK, Tick, Move, environment, rows, bundle, locks
<1>1. EnvironmentOK'
  BY DEF EnvironmentOK, Time
<1>2. RowsOK'
  BY DEF RowsOK
<1>3. BundleOK'
  BY DEF BundleOK
<1>4. TasksOK'
  BY DEF TasksOK, Tasks, Passes, Steps, Refreshing
<1>5. ClaimInv'
  BY DEF ClaimInv, TasksOK, Tasks
<1>6. TaskInv'
  BY DEF TaskInv, TasksOK, Working, Refreshing
<1>7. SealInv'
  BY DEF SealInv, TasksOK, Tasks
<1>. QED  BY <1>1, <1>2, <1>3, <1>4, <1>5, <1>6, <1>7

-----------------------------------------------------------------------------
\* The initial state satisfies the inductive invariant.
LEMMA InitInv == Init => IndInv
<1>. SUFFICES ASSUME Init PROVE IndInv
  OBVIOUS
<1>1. EnvironmentOK
  BY DEF Init, EnvironmentOK, Time
<1>2. RowsOK
  BY DEF Init, RowsOK
<1>3. BundleOK
  BY DEF Init, BundleOK, Unread, Document
<1>4. TasksOK
  BY IdleIsJob DEF Init, TasksOK, Steps
<1>5. ClaimInv
  BY DEF Init, ClaimInv, IdleJob, Tasks
<1>6. TaskInv
  BY DEF Init, TaskInv, IdleJob, Working, Refreshing
<1>7. SealInv
  BY DEF Init, SealInv, Tasks
<1>. QED  BY <1>1, <1>2, <1>3, <1>4, <1>5, <1>6, <1>7 DEF IndInv, TypeOK

\* A stuttering step preserves it.
LEMMA StutterInv == IndInv /\ UNCHANGED vars => IndInv'
BY DEF vars, environment, rows, bundle, locks, IndInv, TypeOK, EnvironmentOK, RowsOK, BundleOK,
       TasksOK, ClaimInv, TaskInv, SealInv

\* Every step preserves it: one lemma above for each action.
LEMMA NextInv == IndInv /\ [Next]_vars => IndInv'
<1>. SUFFICES ASSUME IndInv, [Next]_vars PROVE IndInv'
  OBVIOUS
<1>1. CASE \E t \in Writers, ep \in Episodes :
             AssociateEvent(t, ep) \/ LinkReceipt(t, ep) \/ CheckRecording(t, ep)
  BY <1>1, AssociateEventInv, LinkReceiptInv, CheckRecordingInv
<1>2. CASE \E t \in Writers : WriterStep(t)
  BY <1>2, LinkRecordingInv, UnlockInv DEF WriterStep
<1>3. CASE \E t \in Tasks : Refresh(t) \/ Fail(t)
  BY <1>3, ReadStateInv, ReadItemsInv, WriteManifestInv, FailInv DEF Refresh
<1>4. CASE \E p \in Passes : Transition(p) \/ NothingToDo(p) \/ PassStep(p)
  BY <1>4, TransitionInv, NothingToDoInv, SettleNextInv, JournalFinalizingInv, LeaveLockInv,
     EndPassInv, ClaimEpisodeInv, FinalizerReturnsInv, AlreadyClosedInv, JournalCloseInv,
     CommitCloseInv
  DEF PassStep
<1>5. CASE RequestPass \/ CompleteStartup \/ Boot \/ Crash \/ Tick
  BY <1>5, RequestPassInv, CompleteStartupInv, BootInv, CrashInv, TickInv
<1>6. CASE UNCHANGED vars
  BY <1>6, StutterInv
<1>. QED  BY <1>1, <1>2, <1>3, <1>4, <1>5, <1>6 DEF Next

(***************************************************************************)
(* The inductive invariant holds always: _finalizing_ids holds what every  *)
(* pass has claimed, and the journal of an Episode is ahead of its row.    *)
(***************************************************************************)
THEOREM Invariance == Spec => []IndInv
<1>1. Init => IndInv
  BY InitInv
<1>2. IndInv /\ [Next]_vars => IndInv'
  BY NextInv
<1>. QED  BY <1>1, <1>2, PTL DEF Spec

(***************************************************************************)
(* However many passes run with lists of their own, no two of them are in  *)
(* the finalization of the same Episode (_finalizing_ids).                 *)
(***************************************************************************)
THEOREM FinalizersExclude == Spec => []OneFinalizerAtATime
<1>1. IndInv => OneFinalizerAtATime
  BY DEF IndInv, ClaimInv, OneFinalizerAtATime, Finalizing
<1>. QED  BY <1>1, Invariance, PTL

(***************************************************************************)
(* Whatever failed or crashed, the journal of a CLOSED Episode says so     *)
(* (mark_episode_closed appends it before it commits the row).             *)
(***************************************************************************)
THEOREM JournalIsAhead == Spec => []JournalPrecedesClose
<1>1. IndInv => JournalPrecedesClose
  BY DEF IndInv, SealInv, JournalPrecedesClose
<1>. QED  BY <1>1, Invariance, PTL

\* Only Transition and CommitClose write the row, and both leave a closed one.
LEMMA ClosedStep ==
  ASSUME IndInv, [Next]_vars, NEW ep \in Episodes, dbState[ep] = "closed"
  PROVE  dbState'[ep] = "closed" /\ dbEnd'[ep] = dbEnd[ep]
<1>. USE DEF IndInv, TypeOK, RowsOK, environment, rows
<1>1. CASE \E t \in Writers, x \in Episodes :
             AssociateEvent(t, x) \/ LinkReceipt(t, x) \/ CheckRecording(t, x)
  BY <1>1 DEF AssociateEvent, LinkReceipt, CheckRecording
<1>2. CASE \E t \in Writers : WriterStep(t)
  BY <1>2 DEF WriterStep, LinkRecording, Unlock
<1>3. CASE \E t \in Tasks : Refresh(t) \/ Fail(t)
  BY <1>3 DEF Refresh, ReadState, ReadItems, WriteManifest, Fail
<1>4. CASE \E p \in Passes : Transition(p)
  BY <1>4 DEF Transition, Open
<1>5. CASE \E p \in Passes : CommitClose(p)
  BY <1>5 DEF CommitClose, StillFinalizing
<1>6. CASE \E p \in Passes : NothingToDo(p) \/ (PassStep(p) /\ ~CommitClose(p))
  BY <1>6 DEF PassStep, NothingToDo, SettleNext, JournalFinalizing, LeaveLock, EndPass, ClaimEpisode,
              FinalizerReturns, AlreadyClosed, JournalClose
<1>7. CASE RequestPass \/ CompleteStartup \/ Boot \/ Crash \/ Tick
  BY <1>7 DEF RequestPass, CompleteStartup, Boot, Crash, Tick
<1>8. CASE UNCHANGED vars
  BY <1>8 DEF vars
<1>. QED  BY <1>1, <1>2, <1>3, <1>4, <1>5, <1>6, <1>7, <1>8 DEF Next

(***************************************************************************)
(* A CLOSED Episode stays closed with the end time it was closed with,     *)
(* whichever passes still have it in their lists.                          *)
(***************************************************************************)
THEOREM ClosedEpisodesAreFinal == Spec => ClosedIsFinal
<1>1. IndInv /\ [Next]_vars =>
        [\A ep \in Episodes :
           dbState[ep] = "closed" => dbState'[ep] = "closed" /\ dbEnd'[ep] = dbEnd[ep]]_vars
  BY ClosedStep
<1>. QED  BY <1>1, Invariance, PTL DEF Spec, ClosedIsFinal

-----------------------------------------------------------------------------
(***************************************************************************)
(* The bundle of a closed Episode is complete.                             *)
(***************************************************************************)
\* An action of one task.
TaskAction(t) ==
  \/ t \in Writers /\ \E ep \in Episodes :
       AssociateEvent(t, ep) \/ LinkReceipt(t, ep) \/ CheckRecording(t, ep)
  \/ t \in Writers /\ WriterStep(t)
  \/ Refresh(t) \/ Fail(t)
  \/ t \in Passes /\ (Transition(t) \/ NothingToDo(t) \/ PassStep(t))
  \/ t = Request /\ RequestPass
  \/ t = Startup /\ CompleteStartup

\* Other tasks stay where they are and keep the bundle locks they hold.
OnlyTask(t) ==
  \A u \in Tasks \ {t} :
    /\ pc'[u] = pc[u] /\ job'[u] = job[u]
    /\ \A ep \in Episodes : bundleLock[ep] = u => bundleLock'[ep] = u

\* Every step is one task's, a start, a crash, or leaves the tasks alone.
LEMMA StepsOfTasks ==
  [Next]_vars =>
    (\E t \in Tasks : TaskAction(t)) \/ Boot \/ Crash \/ Tick \/ UNCHANGED vars
BY DEF Next, TaskAction, Tasks, Passes

\* What one task does leaves the others where they are.
LEMMA OneTaskActs ==
  ASSUME IndInv, NEW t \in Tasks, TaskAction(t)
  PROVE  OnlyTask(t)
<1>. USE DEF IndInv, TypeOK, TasksOK, OnlyTask, Move
<1>1. CASE t \in Writers /\ \E ep \in Episodes :
                AssociateEvent(t, ep) \/ LinkReceipt(t, ep) \/ CheckRecording(t, ep)
  BY <1>1 DEF AssociateEvent, LinkReceipt, CheckRecording, RefreshThen, locks
<1>2. CASE t \in Writers /\ WriterStep(t)
  BY <1>2 DEF WriterStep, LinkRecording, Unlock, locks
<1>3. CASE ReadState(t)
  <2>1. job[t].episode \in Episodes /\ bundleLock[job[t].episode] = NoTask
    BY <1>3 DEF ReadState, TaskInv, Working, Refreshing, MayRefresh
  <2>. QED  BY <1>3, <2>1 DEF ReadState, Tasks
<1>4. CASE ReadItems(t)
  BY <1>4 DEF ReadItems, locks
<1>5. CASE WriteManifest(t)
  BY <1>5 DEF WriteManifest, Freed
<1>6. CASE Fail(t)
  BY <1>6 DEF Fail, Freed
<1>7. CASE t \in Passes /\ (Transition(t) \/ NothingToDo(t))
  BY <1>7 DEF Transition, NothingToDo, locks
<1>8. CASE t \in Passes /\ PassStep(t)
  BY <1>8 DEF PassStep, SettleNext, JournalFinalizing, LeaveLock, EndPass, ClaimEpisode,
              FinalizerReturns, AlreadyClosed, JournalClose, CommitClose, locks
<1>9. CASE (t = Request /\ RequestPass) \/ (t = Startup /\ CompleteStartup)
  BY <1>9 DEF RequestPass, CompleteStartup, locks
<1>. QED  BY <1>1, <1>2, <1>3, <1>4, <1>5, <1>6, <1>7, <1>8, <1>9 DEF TaskAction, Refresh

\* A task goes to a read or to a write only by reading.
LEMMA RefreshSteps ==
  ASSUME IndInv, NEW t \in Tasks, TaskAction(t), ~Refresh(t)
  PROVE  manifest' = manifest /\ pc'[t] \notin {"read", "write"}
<1>. USE DEF IndInv, TypeOK, TasksOK, Move, bundle
<1>1. CASE t \in Writers /\ \E ep \in Episodes :
                AssociateEvent(t, ep) \/ LinkReceipt(t, ep) \/ CheckRecording(t, ep)
  BY <1>1 DEF AssociateEvent, LinkReceipt, CheckRecording
<1>2. CASE t \in Writers /\ WriterStep(t)
  BY <1>2 DEF WriterStep, LinkRecording, Unlock
<1>3. CASE Fail(t)
  BY <1>3 DEF Fail
<1>4. CASE t \in Passes /\ (Transition(t) \/ NothingToDo(t))
  BY <1>4 DEF Transition, NothingToDo
<1>5. CASE t \in Passes /\ PassStep(t)
  BY <1>5 DEF PassStep, SettleNext, JournalFinalizing, LeaveLock, EndPass, ClaimEpisode,
              FinalizerReturns, AlreadyClosed, JournalClose, CommitClose
<1>6. CASE (t = Request /\ RequestPass) \/ (t = Startup /\ CompleteStartup)
  BY <1>6 DEF RequestPass, CompleteStartup
<1>. QED  BY <1>1, <1>2, <1>3, <1>4, <1>5, <1>6 DEF TaskAction

\* Rows are only ever added to an Episode, and each task adds itself.
LEMMA ItemsGrow ==
  ASSUME IndInv, [Next]_vars, NEW ep \in Episodes
  PROVE  /\ items[ep] \subseteq items'[ep]
         /\ dbState[ep] # "open" => dbState'[ep] # "open"
         /\ dbState[ep] # "open" => items'[ep] \intersect Events = items[ep] \intersect Events
<1>. USE DEF IndInv, TypeOK, RowsOK, rows
<1>1. CASE \E t \in Writers, x \in Episodes : AssociateEvent(t, x)
  BY <1>1 DEF AssociateEvent
<1>2. CASE \E t \in Writers, x \in Episodes : LinkReceipt(t, x) \/ CheckRecording(t, x)
  BY <1>2 DEF LinkReceipt, CheckRecording
<1>3. CASE \E t \in Writers : WriterStep(t)
  BY <1>3 DEF WriterStep, LinkRecording, Unlock
<1>4. CASE \E t \in Tasks : Refresh(t) \/ Fail(t)
  BY <1>4 DEF Refresh, ReadState, ReadItems, WriteManifest, Fail
<1>5. CASE \E p \in Passes : Transition(p) \/ CommitClose(p)
  BY <1>5 DEF Transition, CommitClose
<1>6. CASE \E p \in Passes : NothingToDo(p) \/ (PassStep(p) /\ ~CommitClose(p))
  BY <1>6 DEF PassStep, NothingToDo, SettleNext, JournalFinalizing, LeaveLock, EndPass, ClaimEpisode,
              FinalizerReturns, AlreadyClosed, JournalClose
<1>7. CASE RequestPass \/ CompleteStartup \/ Boot \/ Crash \/ Tick
  BY <1>7 DEF RequestPass, CompleteStartup, Boot, Crash, Tick
<1>8. CASE UNCHANGED vars
  BY <1>8 DEF vars
<1>. QED  BY <1>1, <1>2, <1>3, <1>4, <1>5, <1>6, <1>7, <1>8 DEF Next

\* No manifest loses what an earlier one had.
LEMMA ManifestsGrow ==
  ASSUME IndInv, RefreshInv, [Next]_vars, NEW ep \in Episodes
  PROVE  manifest[ep].items \subseteq manifest'[ep].items
<1>. USE DEF IndInv, TypeOK, BundleOK, bundle
<1>1. CASE \E t \in Tasks : TaskAction(t) /\ ~Refresh(t)
  BY <1>1, RefreshSteps
<1>2. CASE \E t \in Tasks : WriteManifest(t)
  BY <1>2 DEF WriteManifest, RefreshInv, Move
<1>3. CASE \E t \in Tasks : ReadState(t) \/ ReadItems(t)
  BY <1>3 DEF ReadState, ReadItems
<1>4. CASE Boot
  BY <1>4 DEF Boot, RefreshInv
<1>5. CASE Crash \/ Tick
  BY <1>5 DEF Crash, Tick
<1>6. CASE UNCHANGED vars
  BY <1>6 DEF vars
<1>. QED  BY <1>1, <1>2, <1>3, <1>4, <1>5, <1>6, StepsOfTasks DEF Refresh

-----------------------------------------------------------------------------
\* Only a process that runs takes steps for its tasks.
LEMMA DownStep ==
  ASSUME BundleInv, [Next]_vars
  PROVE  DownInv'
<1>. USE DEF BundleInv, IndInv, TypeOK, TasksOK, Move, environment
<1>1. CASE Boot \/ Crash \/ Tick \/ UNCHANGED vars
  BY <1>1 DEF DownInv, Boot, Crash, Tick, vars
<1>2. ASSUME NEW t \in Tasks, TaskAction(t)
      PROVE  phase # "down" /\ phase' # "down"
  <2>1. CASE t \in Writers /\ \E ep \in Episodes :
                  AssociateEvent(t, ep) \/ LinkReceipt(t, ep) \/ CheckRecording(t, ep)
    BY <2>1 DEF AssociateEvent, LinkReceipt, CheckRecording
  <2>2. CASE t \in Writers /\ WriterStep(t)
    BY <2>2 DEF WriterStep, LinkRecording, Unlock, DownInv
  <2>3. CASE Refresh(t)
    BY <2>3 DEF Refresh, ReadState, ReadItems, WriteManifest, DownInv
  <2>4. CASE Fail(t)
    BY <2>4 DEF Fail, DownInv, Refreshing
  <2>5. CASE t \in Passes /\ (Transition(t) \/ NothingToDo(t))
    BY <2>5 DEF Transition, NothingToDo
  <2>6. CASE t \in Passes /\ PassStep(t)
    BY <2>6 DEF PassStep, SettleNext, JournalFinalizing, LeaveLock, EndPass, ClaimEpisode, MayAdvance,
                TransitionDone, FinalizerReturns, AlreadyClosed, JournalClose, CommitClose, DownInv
  <2>7. CASE (t = Request /\ RequestPass) \/ (t = Startup /\ CompleteStartup)
    BY <2>7 DEF RequestPass, CompleteStartup
  <2>. QED  BY <1>2, <2>1, <2>2, <2>3, <2>4, <2>5, <2>6, <2>7 DEF TaskAction
<1>3. CASE \E t \in Tasks : TaskAction(t)
  BY <1>2, <1>3 DEF DownInv
<1>. QED  BY <1>1, <1>3, StepsOfTasks

-----------------------------------------------------------------------------
\* The clauses of RefreshInv about one task.
Refreshed(t) ==
  /\ pc[t] \in {"read", "write"} => bundleLock[job[t].episode] = t
  /\ pc[t] = "write" =>
       /\ manifest[job[t].episode].items \subseteq job[t].snapshot.items
       /\ job[t].snapshot.items \subseteq items[job[t].episode]

\* A task at work has chosen an Episode.
LEMMA AtWork ==
  ASSUME IndInv, NEW t \in Tasks, pc[t] \in Working
  PROVE  job[t].episode \in Episodes
BY DEF IndInv, TaskInv

\* A task another one's step leaves alone, while the manifest of its Episode
\* is not written.
LEMMA RefreshedKept ==
  ASSUME IndInv, RefreshInv, [Next]_vars, NEW t \in Tasks,
         pc'[t] = pc[t], job'[t] = job[t],
         \A ep \in Episodes : bundleLock[ep] = t => bundleLock'[ep] = t /\ manifest'[ep] = manifest[ep]
  PROVE  Refreshed(t)'
<1>1. CASE pc[t] \in {"read", "write"}
  <2>1. job[t].episode \in Episodes
    BY <1>1, AtWork DEF Working, Refreshing
  <2>2. items[job[t].episode] \subseteq items'[job[t].episode]
    BY <2>1, ItemsGrow
  <2>3. bundleLock[job[t].episode] = t
    BY <1>1 DEF RefreshInv
  <2>. QED  BY <2>1, <2>2, <2>3 DEF RefreshInv, Refreshed
<1>2. CASE pc[t] \notin {"read", "write"}
  BY <1>2 DEF Refreshed
<1>. QED  BY <1>1, <1>2

\* The first clause of RefreshInv, when no manifest is written.
LEMMA ManifestsBehind ==
  ASSUME IndInv, RefreshInv, [Next]_vars, manifest' = manifest
  PROVE  \A ep \in Episodes : manifest'[ep].items \subseteq items'[ep]
BY ItemsGrow DEF RefreshInv

\* A step that refreshes no manifest.
LEMMA OtherStepsRefresh ==
  ASSUME IndInv, RefreshInv, [Next]_vars, NEW t \in Tasks, TaskAction(t), ~Refresh(t)
  PROVE  RefreshInv'
<1>1. manifest' = manifest /\ pc'[t] \notin {"read", "write"}
  BY RefreshSteps
<1>2. OnlyTask(t)
  BY OneTaskActs
<1>3. \A u \in Tasks \ {t} : Refreshed(u)'
  BY <1>1, <1>2, RefreshedKept DEF OnlyTask
<1>4. Refreshed(t)'
  BY <1>1 DEF Refreshed
<1>. QED  BY <1>1, <1>3, <1>4, ManifestsBehind DEF RefreshInv, Refreshed

\* Reading the state takes the lock.
LEMMA ReadStateRefresh ==
  ASSUME IndInv, RefreshInv, [Next]_vars, NEW t \in Tasks, ReadState(t)
  PROVE  RefreshInv'
<1>1. manifest' = manifest
  BY DEF ReadState, bundle
<1>2. OnlyTask(t)
  BY OneTaskActs DEF TaskAction, Refresh
<1>3. \A u \in Tasks \ {t} : Refreshed(u)'
  BY <1>1, <1>2, RefreshedKept DEF OnlyTask
<1>4. job[t].episode \in Episodes
  BY AtWork DEF ReadState, Move, Working, Refreshing
<1>5. pc'[t] = "read" /\ job'[t].episode = job[t].episode
  BY DEF ReadState, Move, IndInv, TypeOK, TasksOK, Job
<1>6. bundleLock'[job[t].episode] = t
  BY <1>4 DEF ReadState, IndInv, TypeOK, TasksOK
<1>7. Refreshed(t)'
  BY <1>5, <1>6 DEF Refreshed
<1>. QED  BY <1>1, <1>3, <1>7, ManifestsBehind DEF RefreshInv, Refreshed

\* Reading the rows gives at least what the manifest has.
LEMMA ReadItemsRefresh ==
  ASSUME IndInv, RefreshInv, [Next]_vars, NEW t \in Tasks, ReadItems(t)
  PROVE  RefreshInv'
<1>1. manifest' = manifest /\ items' = items /\ bundleLock' = bundleLock
  BY DEF ReadItems, bundle, rows, locks
<1>2. OnlyTask(t)
  BY OneTaskActs DEF TaskAction, Refresh
<1>3. \A u \in Tasks \ {t} : Refreshed(u)'
  BY <1>1, <1>2, RefreshedKept DEF OnlyTask
<1>4. pc[t] = "read" /\ job[t].episode \in Episodes
  BY AtWork DEF ReadItems, Move, Working, Refreshing
<1>5. job'[t].episode = job[t].episode /\ job'[t].snapshot.items = items[job[t].episode]
  BY DEF ReadItems, IndInv, TypeOK, TasksOK, Job, Document
<1>6. bundleLock[job[t].episode] = t /\ manifest[job[t].episode].items \subseteq items[job[t].episode]
  BY <1>4 DEF RefreshInv
<1>7. Refreshed(t)'
  BY <1>1, <1>5, <1>6 DEF Refreshed
<1>. QED  BY <1>1, <1>3, <1>7, ManifestsBehind DEF RefreshInv, Refreshed

\* The lock's holder writes what it read.
LEMMA WriteManifestRefresh ==
  ASSUME IndInv, RefreshInv, [Next]_vars, NEW t \in Tasks, WriteManifest(t)
  PROVE  RefreshInv'
<1>1. pc[t] = "write" /\ job[t].episode \in Episodes
  BY AtWork DEF WriteManifest, Move, Working, Refreshing
<1>2. /\ bundleLock[job[t].episode] = t
      /\ job[t].snapshot.items \subseteq items[job[t].episode]
  BY <1>1 DEF RefreshInv
<1>3. /\ items' = items
      /\ \A ep \in Episodes :
           manifest'[ep] = IF ep = job[t].episode THEN job[t].snapshot ELSE manifest[ep]
  BY DEF WriteManifest, rows, IndInv, TypeOK, BundleOK
<1>4. OnlyTask(t)
  BY OneTaskActs DEF TaskAction, Refresh
<1>5. \A u \in Tasks \ {t} : Refreshed(u)'
  BY <1>2, <1>3, <1>4, RefreshedKept DEF OnlyTask
<1>6. pc'[t] \notin {"read", "write"}
  BY DEF WriteManifest, Move, IndInv, TypeOK, TasksOK, TaskInv
<1>7. Refreshed(t)'
  BY <1>6 DEF Refreshed
<1>8. \A ep \in Episodes : manifest'[ep].items \subseteq items'[ep]
  BY <1>2, <1>3 DEF RefreshInv
<1>. QED  BY <1>5, <1>7, <1>8 DEF RefreshInv, Refreshed

\* Every step preserves RefreshInv.
LEMMA RefreshStep ==
  ASSUME BundleInv, [Next]_vars
  PROVE  RefreshInv'
<1>. USE DEF BundleInv
<1>1. CASE \E t \in Tasks : TaskAction(t) /\ ~Refresh(t)
  BY <1>1, OtherStepsRefresh
<1>2. CASE \E t \in Tasks : Refresh(t)
  BY <1>2, ReadStateRefresh, ReadItemsRefresh, WriteManifestRefresh DEF Refresh
<1>3. CASE Boot
  <2>1. \A t \in Tasks : pc'[t] \notin {"read", "write"}
    BY <1>3 DEF Boot, DownInv
  <2>2. \A ep \in Episodes : manifest'[ep].items \subseteq items'[ep]
    BY <1>3 DEF Boot, RefreshInv, rows
  <2>. QED  BY <2>1, <2>2 DEF RefreshInv
<1>4. CASE Crash
  <2>1. \A t \in Tasks : pc'[t] \notin {"read", "write"}
    BY <1>4 DEF Crash
  <2>2. manifest' = manifest
    BY <1>4 DEF Crash, bundle
  <2>. QED  BY <2>1, <2>2, ManifestsBehind DEF RefreshInv
<1>5. CASE Tick \/ UNCHANGED vars
  BY <1>5 DEF Tick, vars, RefreshInv, rows, bundle, locks
<1>. QED  BY <1>1, <1>2, <1>3, <1>4, <1>5, StepsOfTasks

-----------------------------------------------------------------------------
\* A task adds only itself to an Episode.
LEMMA OwnItems ==
  ASSUME IndInv, NEW t \in Tasks, TaskAction(t), NEW x \in Tasks \ {t}, NEW ep \in Episodes,
         x \in items'[ep]
  PROVE  x \in items[ep]
<1>. USE DEF IndInv, TypeOK, RowsOK, rows
<1>1. CASE t \in Writers /\ \E e \in Episodes :
                AssociateEvent(t, e) \/ LinkReceipt(t, e) \/ CheckRecording(t, e)
  BY <1>1 DEF AssociateEvent, LinkReceipt, CheckRecording
<1>2. CASE t \in Writers /\ WriterStep(t)
  BY <1>2 DEF WriterStep, LinkRecording, Unlock
<1>3. CASE Refresh(t) \/ Fail(t)
  BY <1>3 DEF Refresh, ReadState, ReadItems, WriteManifest, Fail
<1>4. CASE t \in Passes /\ (Transition(t) \/ NothingToDo(t))
  BY <1>4 DEF Transition, NothingToDo
<1>5. CASE t \in Passes /\ PassStep(t)
  BY <1>5 DEF PassStep, SettleNext, JournalFinalizing, LeaveLock, EndPass, ClaimEpisode,
              FinalizerReturns, AlreadyClosed, JournalClose, CommitClose
<1>6. CASE (t = Request /\ RequestPass) \/ (t = Startup /\ CompleteStartup)
  BY <1>6 DEF RequestPass, CompleteStartup
<1>. QED  BY <1>1, <1>2, <1>3, <1>4, <1>5, <1>6 DEF TaskAction

\* What a task linked stays linked while others act.
LEMMA LinkedKept ==
  ASSUME IndInv, RefreshInv, [Next]_vars, NEW x \in Events \union Recordings, Linked(x),
         pc'[x] = pc[x], job'[x] = job[x],
         \A ep \in Episodes : x \in items'[ep] => x \in items[ep]
  PROVE  Linked(x)'
<1>1. x \in Tasks
  BY DEF Tasks, Writers
<1>2. pc[x] \in Refreshing => job[x].episode \in Episodes
  BY <1>1, AtWork DEF Working
<1>3. \A ep \in Episodes : items[ep] \subseteq items'[ep] /\ manifest[ep].items \subseteq manifest'[ep].items
  BY ItemsGrow, ManifestsGrow
<1>. QED  BY <1>2, <1>3 DEF Linked, OwesManifest

\* A task's own steps link it and then write it to the manifest.
LEMMA LinkedByItself ==
  ASSUME BundleInv, [Next]_vars, NEW x \in Events \union Recordings, TaskAction(x)
  PROVE  Linked(x)'
<1>. USE DEF BundleInv
<1>1. x \in Tasks /\ x \in Writers /\ x \notin Passes /\ x \notin Receipts
  BY DEF Tasks, Writers
<1>2. Linked(x)
  BY DEF LinkInv
<1>3. \A ep \in Episodes : items[ep] \subseteq items'[ep] /\ manifest[ep].items \subseteq manifest'[ep].items
  BY ItemsGrow, ManifestsGrow
<1>4. pc[x] \in Working => job[x].episode \in Episodes
  BY <1>1, AtWork
<1>5. pc \in [Tasks -> Steps] /\ job \in [Tasks -> Job] /\ items \in [Episodes -> SUBSET Writers]
  BY DEF IndInv, TypeOK, TasksOK, RowsOK
<1>6. ASSUME NEW ep \in Episodes, AssociateEvent(x, ep)
      PROVE  Linked(x)'
  <2>1. \A e \in Episodes : x \notin items[e]
    BY <1>2, <1>6 DEF AssociateEvent, Move, Linked
  <2>2. pc'[x] = "refresh" /\ job'[x].episode = ep
    BY <1>1, <1>5, <1>6 DEF AssociateEvent, Move, RefreshThen, Job
  <2>3. \A e \in Episodes : x \in items'[e] <=> e = ep
    BY <1>5, <1>6, <2>1 DEF AssociateEvent
  <2>. QED  BY <1>1, <2>2, <2>3 DEF Linked, OwesManifest, Refreshing
<1>7. ASSUME NEW ep \in Episodes, CheckRecording(x, ep)
      PROVE  Linked(x)'
  <2>1. \A e \in Episodes : x \notin items'[e]
    BY <1>2, <1>7 DEF CheckRecording, Move, Linked, rows
  <2>2. pc'[x] \in {"done", "commit"}
    BY <1>1, <1>5, <1>7 DEF CheckRecording, Move
  <2>. QED  BY <2>1, <2>2 DEF Linked, Refreshing
<1>8. CASE LinkRecording(x)
  <2>1. pc[x] = "commit" /\ \A e \in Episodes : x \notin items[e]
    BY <1>2, <1>8 DEF LinkRecording, Move, Linked
  <2>2. job[x].episode \in Episodes /\ pc'[x] = "refresh" /\ job' = job
    BY <1>1, <1>4, <1>5, <1>8, <2>1 DEF LinkRecording, Move, Working
  <2>3. \A e \in Episodes : x \in items'[e] <=> e = job[x].episode
    BY <1>5, <1>8, <2>1, <2>2 DEF LinkRecording
  <2>. QED  BY <1>1, <2>2, <2>3 DEF Linked, OwesManifest, Refreshing
<1>9. CASE Unlock(x)
  <2>1. pc[x] = "unlock" /\ pc'[x] = "done" /\ items' = items
    BY <1>1, <1>5, <1>9 DEF Unlock, Move, rows
  <2>2. \A e \in Episodes : x \in items[e] => x \in manifest[e].items
    BY <1>2, <2>1 DEF Linked, OwesManifest, Refreshing
  <2>. QED  BY <1>3, <2>1, <2>2 DEF Linked, Refreshing
<1>10. CASE ReadState(x)
  <2>1. /\ pc[x] = "refresh" /\ pc'[x] = "read" /\ items' = items
        /\ job'[x].episode = job[x].episode
    BY <1>1, <1>5, <1>10 DEF ReadState, Move, rows, Job
  <2>. QED  BY <1>1, <1>2, <1>3, <2>1 DEF Linked, OwesManifest, Refreshing
<1>11. CASE ReadItems(x)
  <2>1. /\ pc[x] = "read" /\ pc'[x] = "write" /\ items' = items
        /\ job'[x].episode = job[x].episode /\ job'[x].snapshot.items = items[job[x].episode]
    BY <1>1, <1>5, <1>11 DEF ReadItems, Move, rows, Job, Document
  <2>. QED  BY <1>1, <1>2, <1>3, <2>1 DEF Linked, OwesManifest, Refreshing
<1>12. CASE WriteManifest(x)
  <2>1. pc[x] = "write" /\ items' = items /\ pc'[x] = job[x].after
    BY <1>1, <1>5, <1>12 DEF WriteManifest, Move, rows
  <2>2. job[x].after \in {"settle", "seal", "unlock", "done"}
    BY <1>1, <2>1 DEF IndInv, TaskInv
  <2>3. job[x].episode \in Episodes
    BY <1>4, <2>1 DEF Working, Refreshing
  <2>4. manifest'[job[x].episode] = job[x].snapshot
    BY <1>12, <2>3 DEF WriteManifest, IndInv, TypeOK, BundleOK
  <2>5. \A e \in Episodes : x \in items[e] => x \in manifest'[e].items
    BY <1>2, <1>3, <2>1, <2>4 DEF Linked, OwesManifest
  <2>. QED  BY <2>1, <2>2, <2>5 DEF Linked, Refreshing
<1>13. CASE Fail(x)
  <2>1. job[x].after # "seal"
    BY <1>1 DEF IndInv, TaskInv
  <2>2. pc'[x] = "failed"
    BY <1>1, <1>5, <1>13, <2>1 DEF Fail
  <2>. QED  BY <2>2 DEF Linked, Refreshing
<1>14. x # Request /\ x # Startup
  BY <1>1 DEF Passes
<1>15. \A ep \in Episodes : ~LinkReceipt(x, ep)
  BY <1>1 DEF LinkReceipt
<1>. QED  BY <1>1, <1>6, <1>7, <1>8, <1>9, <1>10, <1>11, <1>12, <1>13, <1>14, <1>15
          DEF TaskAction, WriterStep, Refresh

\* Every step preserves LinkInv.
LEMMA LinkStep ==
  ASSUME BundleInv, [Next]_vars
  PROVE  LinkInv'
<1>. SUFFICES ASSUME NEW x \in Events \union Recordings
              PROVE  Linked(x)'
  BY DEF LinkInv
<1>. USE DEF BundleInv
<1>1. x \in Tasks /\ x \in Writers /\ x \notin Passes
  BY DEF Tasks, Writers
<1>2. Linked(x)
  BY DEF LinkInv
<1>3. ASSUME NEW t \in Tasks, TaskAction(t), t # x
      PROVE  Linked(x)'
  <2>1. pc'[x] = pc[x] /\ job'[x] = job[x]
    BY <1>1, <1>3, OneTaskActs DEF OnlyTask
  <2>2. \A ep \in Episodes : x \in items'[ep] => x \in items[ep]
    BY <1>1, <1>3, OwnItems
  <2>. QED  BY <1>2, <2>1, <2>2, LinkedKept
<1>4. CASE TaskAction(x)
  BY <1>4, LinkedByItself
<1>5. CASE Boot \/ Tick \/ UNCHANGED vars
  <2>1. pc' = pc /\ job' = job /\ items' = items
    BY <1>5 DEF Boot, Tick, vars, rows
  <2>. QED  BY <1>2, <2>1, LinkedKept
<1>6. CASE Crash
  <2>1. items' = items /\ manifest' = manifest
    BY <1>6 DEF Crash, rows, bundle
  <2>2. pc'[x] = IF pc[x] \in {"idle", "done"} THEN pc[x] ELSE "failed"
    BY <1>1, <1>6 DEF Crash
  <2>. QED  BY <1>2, <2>1, <2>2 DEF Linked, OwesManifest, Refreshing
<1>. QED  BY <1>3, <1>4, <1>5, <1>6, StepsOfTasks

-----------------------------------------------------------------------------
\* A sealed Episode's manifest keeps every Event.
LEMMA HasEventsKept ==
  ASSUME IndInv, RefreshInv, [Next]_vars, NEW ep \in Episodes, dbState[ep] # "open",
         HasEvents(manifest[ep].items, ep)
  PROVE  HasEvents(manifest[ep].items, ep)'
<1>1. items'[ep] \intersect Events = items[ep] \intersect Events
  BY ItemsGrow
<1>2. manifest[ep].items \subseteq manifest'[ep].items
  BY ManifestsGrow
<1>. QED  BY <1>1, <1>2 DEF HasEvents

\* What a pass has in its hands are Episodes.
LEMMA InHand ==
  ASSUME IndInv, NEW p \in Passes
  PROVE  job[p].todo \subseteq Episodes /\ (job[p].after = "seal" => job[p].episode \in Episodes)
BY DEF IndInv, TypeOK, TasksOK, Tasks, Job, ClaimInv

\* What holds of a pass in another task's step.
LEMMA OrderedKept ==
  ASSUME BundleInv, [Next]_vars, NEW p \in Passes, pc'[p] = pc[p], job'[p] = job[p]
  PROVE  Ordered(p)'
<1>. USE DEF BundleInv
<1>1. Ordered(p)
  BY DEF OrderInv
<1>2. job[p].todo \subseteq Episodes /\ (job[p].after = "seal" => job[p].episode \in Episodes)
  BY InHand
<1>3. \A ep \in Episodes : dbState[ep] # "open" => dbState'[ep] # "open"
  BY ItemsGrow
<1>4. \A ep \in Episodes : dbState[ep] # "open" => items'[ep] \intersect Events = items[ep] \intersect Events
  BY ItemsGrow
<1>5. \A ep \in Episodes :
        dbState[ep] # "open" /\ HasEvents(manifest[ep].items, ep) => HasEvents(manifest[ep].items, ep)'
  BY HasEventsKept
<1>6. ASSUME job[p].after = "seal", pc[p] = "write"
      PROVE  HasEvents(job[p].snapshot.items, job[p].episode)'
  BY <1>1, <1>2, <1>4, <1>6 DEF Ordered, HasEvents
<1>7. ASSUME job[p].after = "seal", pc[p] \in {"seal", "close"}
      PROVE  HasEvents(manifest[job[p].episode].items, job[p].episode)'
  BY <1>1, <1>2, <1>5, <1>7 DEF Ordered, HasEvents
<1>. QED  BY <1>1, <1>2, <1>3, <1>6, <1>7 DEF Ordered

\* A pass that goes on with no more Episodes, and not to seal one.
LEMMA OrderedAside ==
  ASSUME BundleInv, [Next]_vars, NEW p \in Passes,
         job'[p].todo \subseteq job[p].todo,
         job'[p].after = "seal" => job[p].after = "seal" /\ job'[p].episode = job[p].episode,
         pc'[p] \notin {"write", "seal", "close"}
  PROVE  Ordered(p)'
<1>1. Ordered(p)
  BY DEF BundleInv, OrderInv
<1>2. job[p].todo \subseteq Episodes /\ (job[p].after = "seal" => job[p].episode \in Episodes)
  BY InHand DEF BundleInv
<1>3. \A ep \in Episodes : dbState[ep] # "open" => dbState'[ep] # "open"
  BY ItemsGrow DEF BundleInv
<1>. QED  BY <1>1, <1>2, <1>3 DEF Ordered

\* A pass refreshes the manifest of the Episode it seals.
LEMMA OrderedRefresh ==
  ASSUME BundleInv, [Next]_vars, NEW p \in Passes, Refresh(p) \/ Fail(p)
  PROVE  Ordered(p)'
<1>. USE DEF BundleInv
<1>1. Ordered(p) /\ p \in Tasks
  BY DEF OrderInv, Tasks
<1>2. job[p].todo \subseteq Episodes /\ (job[p].after = "seal" => job[p].episode \in Episodes)
  BY InHand
<1>3. pc \in [Tasks -> Steps] /\ job \in [Tasks -> Job]
  BY DEF IndInv, TypeOK, TasksOK
<1>4. CASE ReadState(p)
  <2>1. /\ pc'[p] = "read" /\ job'[p].todo = job[p].todo
        /\ job'[p].after = job[p].after /\ job'[p].episode = job[p].episode
    BY <1>1, <1>3, <1>4 DEF ReadState, Move, Job
  <2>. QED  BY <2>1, OrderedAside
<1>5. CASE ReadItems(p)
  <2>1. /\ job'[p].todo = job[p].todo /\ job'[p].after = job[p].after
        /\ job'[p].episode = job[p].episode /\ job'[p].snapshot.items = items[job[p].episode]
    BY <1>1, <1>3, <1>5 DEF ReadItems, Move, Job, Document
  <2>2. items' = items /\ dbState' = dbState /\ pc'[p] = "write"
    BY <1>1, <1>3, <1>5 DEF ReadItems, rows, Move
  <2>. QED  BY <1>1, <2>1, <2>2 DEF Ordered, HasEvents
<1>6. CASE WriteManifest(p)
  <2>1. job' = job /\ items' = items /\ dbState' = dbState /\ pc[p] = "write" /\ pc'[p] = job[p].after
    BY <1>1, <1>3, <1>6 DEF WriteManifest, rows, Move
  <2>2. job[p].after \in {"settle", "seal", "unlock", "done"}
    BY <1>1, <2>1 DEF IndInv, TaskInv
  <2>3. CASE job[p].after = "seal"
    <3>1. manifest'[job[p].episode] = job[p].snapshot
      BY <1>2, <1>6, <2>3 DEF WriteManifest, IndInv, TypeOK, BundleOK
    <3>. QED  BY <1>1, <2>1, <2>3, <3>1 DEF Ordered, HasEvents
  <2>4. CASE job[p].after # "seal"
    BY <2>1, <2>2, <2>4, OrderedAside
  <2>. QED  BY <2>3, <2>4
<1>7. CASE Fail(p)
  <2>1. pc'[p] \in {"advance", "failed", "idle"}
    BY <1>1, <1>3, <1>7 DEF Fail
  <2>2. job'[p] = job[p] \/ job'[p] = IdleJob
    BY <1>1, <1>3, <1>7 DEF Fail
  <2>. QED  BY <2>1, <2>2, OrderedAside DEF IdleJob
<1>. QED  BY <1>4, <1>5, <1>6, <1>7 DEF Refresh

\* Only sealed Episodes come to a pass's list.
LEMMA OrderedTransition ==
  ASSUME BundleInv, [Next]_vars, NEW p \in Passes, Transition(p)
  PROVE  Ordered(p)'
<1>. USE DEF BundleInv, IndInv, TypeOK
<1>1. PICK expired \in SUBSET Open, settled \in SUBSET Episodes :
        /\ dbState' = [ep \in Episodes |-> IF ep \in expired THEN "finalizing" ELSE dbState[ep]]
        /\ job' = [job EXCEPT ![p] = [IdleJob EXCEPT !.todo = WorkList(expired),
                                                    !.settled = settled, !.entered = expired]]
  BY DEF Transition, Open
<1>2. job'[p].todo = WorkList(expired) /\ job'[p].after = "idle"
  BY <1>1 DEF TasksOK, Tasks, IdleJob
<1>3. \A ep \in WorkList(expired) : dbState'[ep] # "open"
  BY <1>1 DEF WorkList, Open
<1>. QED  BY <1>2, <1>3 DEF Ordered

\* A pass claims an Episode of its list, and seals it when its manifest has
\* every Event.
LEMMA OrderedPassStep ==
  ASSUME BundleInv, [Next]_vars, NEW p \in Passes, NothingToDo(p) \/ PassStep(p)
  PROVE  Ordered(p)'
<1>. USE DEF BundleInv
<1>1. Ordered(p) /\ p \in Tasks
  BY DEF OrderInv, Tasks
<1>2. job[p].todo \subseteq Episodes /\ (job[p].after = "seal" => job[p].episode \in Episodes)
  BY InHand
<1>3. pc \in [Tasks -> Steps] /\ job \in [Tasks -> Job]
  BY DEF IndInv, TypeOK, TasksOK
<1>4. \A ep \in Episodes : dbState[ep] # "open" => dbState'[ep] # "open"
  BY ItemsGrow
<1>5. CASE NothingToDo(p)
  BY <1>1, <1>3, <1>5, OrderedAside DEF NothingToDo, Move
<1>6. CASE SettleNext(p)
  <2>1. PICK ep \in job[p].settled :
          job' = [job EXCEPT ![p].settled = @ \ {ep}, ![p].episode = ep, ![p].after = "settle"]
    BY <1>6 DEF SettleNext
  <2>2. job'[p].todo = job[p].todo /\ job'[p].after = "settle"
    BY <1>1, <1>3, <2>1 DEF Job
  <2>3. pc'[p] = "refresh"
    BY <1>1, <1>3, <1>6 DEF SettleNext, Move
  <2>. QED  BY <2>2, <2>3, OrderedAside
<1>7. CASE JournalFinalizing(p)
  <2>1. /\ job'[p].todo = job[p].todo /\ job'[p].after = job[p].after
        /\ job'[p].episode = job[p].episode
    BY <1>1, <1>3, <1>7 DEF JournalFinalizing, Job
  <2>2. pc'[p] = "settle"
    BY <1>7 DEF JournalFinalizing
  <2>. QED  BY <2>1, <2>2, OrderedAside
<1>8. CASE LeaveLock(p) \/ AlreadyClosed(p) \/ CommitClose(p)
  BY <1>1, <1>3, <1>8, OrderedAside DEF LeaveLock, AlreadyClosed, CommitClose, Move
<1>9. CASE EndPass(p)
  <2>1. job'[p] = IdleJob /\ pc'[p] = "idle"
    BY <1>1, <1>3, <1>9 DEF EndPass
  <2>. QED  BY <2>1, OrderedAside DEF IdleJob
<1>10. CASE ClaimEpisode(p)
  <2>1. PICK ep \in job[p].todo, skipped \in SUBSET job[p].todo :
          job' = [job EXCEPT ![p] = [IdleJob EXCEPT !.todo = job[p].todo \ (skipped \union {ep}),
                                                   !.episode = ep, !.after = "seal"]]
    BY <1>10 DEF ClaimEpisode
  <2>2. /\ job'[p].todo = job[p].todo \ (skipped \union {ep})
        /\ job'[p].episode = ep
    BY <1>1, <1>3, <2>1 DEF IdleJob
  <2>3. pc'[p] = "finalizer"
    BY <1>1, <1>3, <1>10 DEF ClaimEpisode
  <2>. QED  BY <1>1, <1>2, <1>4, <2>2, <2>3 DEF Ordered
<1>11. CASE FinalizerReturns(p)
  <2>1. /\ job'[p].todo = job[p].todo /\ job'[p].after = job[p].after
        /\ job'[p].episode = job[p].episode /\ pc'[p] = "refresh"
    BY <1>1, <1>3, <1>11 DEF FinalizerReturns, Move, Job
  <2>. QED  BY <2>1, OrderedAside
<1>12. CASE JournalClose(p)
  <2>1. /\ pc[p] = "seal" /\ pc'[p] = "close" /\ job' = job /\ manifest' = manifest
        /\ items' = items /\ dbState' = dbState
    BY <1>1, <1>3, <1>12 DEF JournalClose, Move, rows
  <2>. QED  BY <1>1, <2>1 DEF Ordered, HasEvents
<1>. QED  BY <1>5, <1>6, <1>7, <1>8, <1>9, <1>10, <1>11, <1>12 DEF PassStep

\* Only CommitClose closes an Episode, the one its pass has sealed.
LEMMA ClosedByCommit ==
  ASSUME IndInv, [Next]_vars, NEW ep \in Episodes, dbState[ep] # "closed", dbState'[ep] = "closed"
  PROVE  \E p \in Passes : CommitClose(p) /\ ep = job[p].episode
<1>. USE DEF IndInv, TypeOK, RowsOK, environment, rows
<1>1. CASE \E t \in Writers, x \in Episodes :
             AssociateEvent(t, x) \/ LinkReceipt(t, x) \/ CheckRecording(t, x)
  BY <1>1 DEF AssociateEvent, LinkReceipt, CheckRecording
<1>2. CASE \E t \in Writers : WriterStep(t)
  BY <1>2 DEF WriterStep, LinkRecording, Unlock
<1>3. CASE \E t \in Tasks : Refresh(t) \/ Fail(t)
  BY <1>3 DEF Refresh, ReadState, ReadItems, WriteManifest, Fail
<1>4. CASE \E p \in Passes : Transition(p)
  BY <1>4 DEF Transition
<1>5. CASE \E p \in Passes : CommitClose(p)
  BY <1>5 DEF CommitClose
<1>6. CASE \E p \in Passes : NothingToDo(p) \/ (PassStep(p) /\ ~CommitClose(p))
  BY <1>6 DEF PassStep, NothingToDo, SettleNext, JournalFinalizing, LeaveLock, EndPass, ClaimEpisode,
              FinalizerReturns, AlreadyClosed, JournalClose
<1>7. CASE RequestPass \/ CompleteStartup \/ Boot \/ Crash \/ Tick
  BY <1>7 DEF RequestPass, CompleteStartup, Boot, Crash, Tick
<1>8. CASE UNCHANGED vars
  BY <1>8 DEF vars
<1>. QED  BY <1>1, <1>2, <1>3, <1>4, <1>5, <1>6, <1>7, <1>8 DEF Next

\* A pass holds what Ordered says through every step.
LEMMA OrderedStep ==
  ASSUME BundleInv, [Next]_vars, NEW p \in Passes
  PROVE  Ordered(p)'
<1>1. p \in Tasks /\ p \notin Writers /\ pc \in [Tasks -> Steps] /\ job \in [Tasks -> Job]
  BY DEF Tasks, BundleInv, IndInv, TypeOK, TasksOK
<1>2. ASSUME NEW t \in Tasks, TaskAction(t), t # p
      PROVE  Ordered(p)'
  BY <1>1, <1>2, OneTaskActs, OrderedKept DEF OnlyTask, BundleInv
<1>3. CASE Refresh(p) \/ Fail(p)
  BY <1>3, OrderedRefresh
<1>4. CASE Transition(p)
  BY <1>4, OrderedTransition
<1>5. CASE NothingToDo(p) \/ PassStep(p)
  BY <1>5, OrderedPassStep
<1>6. CASE (p = Request /\ RequestPass) \/ (p = Startup /\ CompleteStartup)
  BY <1>1, <1>6, OrderedAside DEF RequestPass, CompleteStartup, Move
<1>7. CASE Boot \/ Tick \/ UNCHANGED vars
  BY <1>7, OrderedKept DEF Boot, Tick, vars
<1>8. CASE Crash
  <2>1. job'[p] = IdleJob /\ pc'[p] = "idle"
    BY <1>1, <1>8 DEF Crash
  <2>. QED  BY <2>1, OrderedAside DEF IdleJob
<1>. QED  BY <1>1, <1>2, <1>3, <1>4, <1>5, <1>6, <1>7, <1>8, StepsOfTasks DEF TaskAction

\* Every step preserves OrderInv.
LEMMA OrderStep ==
  ASSUME BundleInv, [Next]_vars
  PROVE  OrderInv'
<1>. USE DEF BundleInv
<1>1. ASSUME NEW ep \in Episodes, dbState'[ep] = "closed"
      PROVE  HasEvents(manifest[ep].items, ep)'
  <2>1. CASE dbState[ep] = "closed"
    <3>1. HasEvents(manifest[ep].items, ep)
      BY <2>1 DEF OrderInv
    <3>. QED  BY <2>1, <3>1, HasEventsKept
  <2>2. CASE dbState[ep] # "closed"
    <3>1. PICK p \in Passes : CommitClose(p) /\ ep = job[p].episode
      BY <1>1, <2>2, ClosedByCommit
    <3>2. pc[p] = "close" /\ items' = items /\ manifest' = manifest
      BY <3>1 DEF CommitClose, Move, bundle
    <3>3. job[p].after = "seal"
      BY <3>2 DEF IndInv, TaskInv, Tasks
    <3>4. HasEvents(manifest[ep].items, ep)
      BY <3>1, <3>2, <3>3 DEF OrderInv, Ordered
    <3>. QED  BY <3>2, <3>4 DEF HasEvents
  <2>. QED  BY <2>1, <2>2
<1>2. \A p \in Passes : Ordered(p)'
  BY OrderedStep
<1>. QED  BY <1>1, <1>2 DEF OrderInv, HasEvents

\* The rows, manifests and tasks the initial state has.
LEMMA InitBundle == Init => BundleInv
<1>. SUFFICES ASSUME Init PROVE BundleInv
  OBVIOUS
<1>1. IndInv
  BY InitInv
<1>2. DownInv
  BY DEF Init, DownInv
<1>3. RefreshInv
  BY DEF Init, RefreshInv, Unread
<1>4. LinkInv
  BY DEF Init, LinkInv, Linked, Refreshing, Tasks, Writers
<1>5. OrderInv
  BY DEF Init, OrderInv, Ordered, IdleJob, HasEvents, Tasks
<1>. QED  BY <1>1, <1>2, <1>3, <1>4, <1>5 DEF BundleInv

(***************************************************************************)
(* Only the holder of a bundle's lock is in a refresh, a task's rows are   *)
(* in the manifest or it owes one, and an Episode in a pass's hands gets   *)
(* no more Events (EpisodeBundleProjector.refresh, _associate_event).      *)
(***************************************************************************)
THEOREM BundleInvariance == Spec => []BundleInv
<1>1. Init => BundleInv
  BY InitBundle
<1>2. BundleInv /\ [Next]_vars => BundleInv'
  <2>. SUFFICES ASSUME BundleInv, [Next]_vars PROVE BundleInv'
    OBVIOUS
  <2>1. IndInv'
    BY NextInv DEF BundleInv
  <2>. QED  BY <2>1, DownStep, RefreshStep, LinkStep, OrderStep DEF BundleInv
<1>. QED  BY <1>1, <1>2, PTL DEF Spec

(***************************************************************************)
(* A closed bundle, which nothing rebuilds, has every Event and recording  *)
(* of its Episode, unless the task that added one is about to write the    *)
(* manifest or was a recording's and failed.                               *)
(***************************************************************************)
THEOREM ClosedBundlesAreComplete == Spec => []ClosedBundleIsComplete
<1>1. ASSUME BundleInv, NEW ep \in Episodes, dbState[ep] = "closed", NEW x \in items[ep] \ Receipts
      PROVE  \/ x \in manifest[ep].items \/ OwesManifest(x, ep)
             \/ x \in Recordings /\ pc[x] = "failed"
  <2>1. x \in Events \union Recordings
    BY <1>1 DEF BundleInv, IndInv, TypeOK, RowsOK, Writers
  <2>2. x \in manifest[ep].items \/ OwesManifest(x, ep) \/ pc[x] = "failed"
    BY <1>1, <2>1 DEF BundleInv, LinkInv, Linked
  <2>3. x \in Events => x \in manifest[ep].items
    BY <1>1 DEF BundleInv, OrderInv, HasEvents
  <2>. QED  BY <2>1, <2>2, <2>3
<1>2. BundleInv => ClosedBundleIsComplete
  BY <1>1 DEF ClosedBundleIsComplete
<1>. QED  BY <1>2, BundleInvariance, PTL
=============================================================================
