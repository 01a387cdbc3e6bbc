---------------------------- MODULE EvidenceFiles ----------------------------
(***************************************************************************)
(* Where the bytes of Evidence and of Event payloads lie, and where their  *)
(* rows say they lie.  The engine links an Item to an Episode and moves    *)
(* its file into the bundle in several commits; the retention sweep        *)
(* removes old files and marks their rows, without a lock in common;       *)
(* startup finishes the moves a crash interrupted.                         *)
(***************************************************************************)
EXTENDS Integers, FiniteSets

CONSTANTS
  Items,             \* visual Evidence, and Events whose payload embeds a picture
  Pictures,          \* those of the second kind
  Failing,           \* Items whose association may raise or be cancelled
  Episodes, MaxCrashes

Nobody   == "nobody"
Inbox    == "inbox"        \* orphans/..., where a delivery is preserved
Bundle   == "bundle"       \* episodes/<owner>/...
Gone     == "gone"         \* no such file; as a path: blank, or expired:<id>

VARIABLES
  process, crashCount,
  life,              \* Episode rows: open, finalizing, closed
  stored,            \* Items that have a row
  owner,             \* episode_id of the row
  receiptLinked,     \* Items whose receipt names the Episode
  rowPath, artifactPath, file,
  old, expired,      \* Items past the cutoff, Items with an expiration row
  assoc,             \* the association under the lifecycle lock
  torn,              \* Items whose association ended with the file moved, or about to be
  sweep,             \* the retention sweep: Items listed, and the one in hand
  toReconcile        \* startup: Items whose artifact, then row, is to be repaired

machine  == <<process, crashCount>>
rows     == <<stored, owner, receiptLinked>>
places   == <<rowPath, artifactPath, file>>
ages     == <<old, expired>>
fileVars == <<machine, life, rows, places, ages, assoc, torn, sweep, toReconcile>>

NoAssoc == [item |-> Nobody, at |-> "idle", read |-> Gone]
NoSweep == [todo |-> {}, item |-> Nobody, at |-> "idle", paths |-> {}, events |-> FALSE]

Init ==
  /\ process = "up" /\ crashCount = 0
  /\ life = [e \in Episodes |-> "open"]
  /\ stored = {} /\ old = {} /\ expired = {} /\ receiptLinked = {}
  /\ owner = [i \in Items |-> Nobody]
  /\ rowPath = [i \in Items |-> Inbox] /\ artifactPath = [i \in Items |-> Inbox]
  /\ file = [i \in Items |-> Inbox]
  /\ assoc = NoAssoc /\ torn = {} /\ sweep = NoSweep /\ toReconcile = [artifacts |-> {}, rows |-> {}]

Associating(i) == assoc.item = i
Sweeping(i)    == sweep.item = i

\* The row of a new Evidence or Event names the preserved file.
CreateRow(i) ==
  /\ process = "up" /\ i \notin stored
  /\ stored' = stored \union {i}
  /\ UNCHANGED <<machine, life, owner, receiptLinked, places, ages, assoc, torn, sweep, toReconcile>>

-----------------------------------------------------------------------------
\* An orphan is listed and matched under the lifecycle lock; its path is read here.
Match(i) ==
  /\ process = "up" /\ assoc = NoAssoc
  /\ i \in stored \ expired /\ owner[i] = Nobody
  /\ assoc' = [item |-> i, at |-> "link", read |-> rowPath[i]]
  /\ UNCHANGED <<machine, life, rows, places, ages, torn, sweep, toReconcile>>

\* UPDATE ... WHERE episode_id IS NULL: expiry is not looked at again.
Link(e) ==
  /\ process = "up" /\ assoc.at = "link" /\ life[e] = "open"
  /\ owner' = [owner EXCEPT ![assoc.item] = e]
  /\ assoc' = [assoc EXCEPT !.at = "receipts"]
  /\ UNCHANGED <<machine, life, stored, receiptLinked, places, ages, torn, sweep, toReconcile>>

\* No mutable Episode covers the Item: it stays unassigned.
NoMatch ==
  /\ process = "up" /\ assoc.at = "link" /\ \A e \in Episodes : life[e] # "open"
  /\ assoc' = NoAssoc
  /\ UNCHANGED <<machine, life, rows, places, ages, torn, sweep, toReconcile>>

LinkReceipts ==
  /\ process = "up" /\ assoc.at = "receipts"
  /\ receiptLinked' = receiptLinked \union {assoc.item}
  /\ assoc' = [assoc EXCEPT !.at = "move"]
  /\ UNCHANGED <<machine, life, stored, owner, places, ages, torn, sweep, toReconcile>>

\* move_to_episode leaves the path alone when there is no file to move.
Move ==
  /\ process = "up" /\ assoc.at = "move"
  /\ IF file[assoc.item] = assoc.read
     THEN /\ file' = [file EXCEPT ![assoc.item] = Bundle]
          /\ assoc' = [assoc EXCEPT !.at = "artifact"]
     ELSE assoc' = NoAssoc /\ UNCHANGED file
  /\ UNCHANGED <<machine, life, rows, rowPath, artifactPath, ages, torn, sweep, toReconcile>>

UpdateArtifactPath ==
  /\ process = "up" /\ assoc.at = "artifact"
  /\ artifactPath' = [artifactPath EXCEPT ![assoc.item] = Bundle]
  /\ assoc' = [assoc EXCEPT !.at = "row"]
  /\ UNCHANGED <<machine, life, rows, rowPath, file, ages, torn, sweep, toReconcile>>

UpdateRowPath ==
  /\ process = "up" /\ assoc.at = "row"
  /\ rowPath' = [rowPath EXCEPT ![assoc.item] = Bundle]
  /\ assoc' = NoAssoc
  /\ UNCHANGED <<machine, life, rows, artifactPath, file, ages, torn, sweep, toReconcile>>

\* A step of the association raises, or its task is cancelled.  The Item keeps
\* what was committed: with its episode_id set, no association takes it up again.
AssociationFails ==
  /\ process = "up" /\ assoc.item \in Failing
  /\ torn' = IF assoc.at \in {"move", "artifact", "row"} THEN torn \union {assoc.item} ELSE torn
  /\ assoc' = NoAssoc
  /\ UNCHANGED <<machine, life, rows, places, ages, sweep, toReconcile>>

\* The thread that moves the file does not end with the task that awaits it.
MoveLate(i) ==
  /\ process = "up" /\ i \in torn /\ file[i] = Inbox
  /\ file' = [file EXCEPT ![i] = Bundle]
  /\ UNCHANGED <<machine, life, rows, rowPath, artifactPath, ages, assoc, torn, sweep, toReconcile>>

\* The lifecycle lock keeps a pass out while an association is made, closing does not take it.
Finalize(e) ==
  /\ process = "up" /\ assoc = NoAssoc /\ life[e] = "open"
  /\ life' = [life EXCEPT ![e] = "finalizing"]
  /\ UNCHANGED <<machine, rows, places, ages, assoc, torn, sweep, toReconcile>>

Close(e) ==
  /\ process = "up" /\ life[e] = "finalizing"
  /\ life' = [life EXCEPT ![e] = "closed"]
  /\ UNCHANGED <<machine, rows, places, ages, assoc, torn, sweep, toReconcile>>

Age(i) ==
  /\ i \in stored \ old
  /\ old' = old \union {i}
  /\ UNCHANGED <<machine, life, rows, places, expired, assoc, torn, sweep, toReconcile>>

-----------------------------------------------------------------------------
(***************************************************************************)
(* The retention sweep (run_once), one Item after the other.               *)
(***************************************************************************)
Listed(S) == {[item |-> i, path |-> rowPath[i]] : i \in S \intersect (old \ expired)}

SweepList ==
  /\ process = "up" /\ sweep = NoSweep /\ old \ expired # {}
  /\ sweep' = [NoSweep EXCEPT !.at = "next", !.todo = Listed(Items \ Pictures)]
  /\ UNCHANGED <<machine, life, rows, places, ages, assoc, torn, toReconcile>>

\* The paths to remove: the one that was listed, and those of the artifacts now.
SweepRead ==
  /\ process = "up" /\ sweep.at = "next"
  /\ \E listed \in sweep.todo :
       sweep' = [sweep EXCEPT
         !.todo = @ \ {listed}, !.item = listed.item, !.at = "remove",
         !.paths = {listed.path, artifactPath[listed.item]} \ {Gone}]
  /\ UNCHANGED <<machine, life, rows, places, ages, assoc, torn, toReconcile>>

FaultyTolerates(i) == file[i] \in sweep.paths

\* FileNotFoundError is ignored.
Tolerates(i) == TRUE

SweepRemove ==
  /\ process = "up" /\ sweep.at = "remove"
  /\ LET i == sweep.item IN
     IF Tolerates(i)
     THEN /\ file' = [file EXCEPT ![i] = IF @ \in sweep.paths THEN Gone ELSE @]
          /\ sweep' = [sweep EXCEPT !.at = "mark"]
     ELSE /\ sweep' = [sweep EXCEPT !.at = "next", !.item = Nobody, !.paths = {}]
          /\ UNCHANGED file
  /\ UNCHANGED <<machine, life, rows, rowPath, artifactPath, ages, assoc, torn, toReconcile>>

SweepMark ==
  /\ process = "up" /\ sweep.at = "mark"
  /\ LET i == sweep.item IN
     /\ expired' = expired \union {i}
     /\ rowPath' = [rowPath EXCEPT ![i] = Gone]
     /\ artifactPath' = [artifactPath EXCEPT ![i] = Gone]
  /\ sweep' = [sweep EXCEPT !.at = "next", !.item = Nobody, !.paths = {}]
  /\ UNCHANGED <<machine, life, rows, file, old, assoc, torn, toReconcile>>

\* Embedded pictures are looked for when the Evidence is done.
SweepEvents ==
  /\ process = "up" /\ sweep.at = "next" /\ sweep.todo = {} /\ ~sweep.events
  /\ sweep' = [sweep EXCEPT !.events = TRUE, !.todo = Listed(Pictures)]
  /\ UNCHANGED <<machine, life, rows, places, ages, assoc, torn, toReconcile>>

SweepEnd ==
  /\ process = "up" /\ sweep.at = "next" /\ sweep.todo = {} /\ sweep.events
  /\ sweep' = NoSweep
  /\ UNCHANGED <<machine, life, rows, places, ages, assoc, torn, toReconcile>>

-----------------------------------------------------------------------------
(***************************************************************************)
(* A crash, and reconcile_episode_paths for what unsealed Episodes own.    *)
(***************************************************************************)
Crash ==
  /\ process # "down" /\ crashCount < MaxCrashes
  /\ process' = "down" /\ crashCount' = crashCount + 1
  /\ torn' = {i \in torn : file[i] # Inbox}
  /\ assoc' = NoAssoc /\ sweep' = NoSweep /\ toReconcile' = [artifacts |-> {}, rows |-> {}]
  /\ UNCHANGED <<life, rows, places, ages>>

Unsealed == {i \in stored \ expired : owner[i] # Nobody /\ life[owner[i]] # "closed"}

Restart ==
  /\ process = "down"
  /\ process' = "reconciling"
  /\ toReconcile' = [artifacts |-> Unsealed, rows |-> Unsealed]
  /\ UNCHANGED <<crashCount, life, rows, places, ages, assoc, torn, sweep>>

FaultyRecovered(i, recorded) ==
  IF recorded = file[i] THEN [path |-> Bundle, file |-> Bundle] ELSE [path |-> Gone, file |-> file[i]]

\* _recover_path: a file still at its recorded place is moved; otherwise one
\* with its name and checksum is looked for in the bundle.
Recovered(i, recorded) ==
  IF file[i] # Gone /\ (recorded = file[i] \/ file[i] = Bundle)
  THEN [path |-> Bundle, file |-> Bundle]
  ELSE [path |-> Gone, file |-> file[i]]

ReconcileArtifact(i) ==
  /\ process = "reconciling" /\ i \in toReconcile.artifacts
  /\ toReconcile' = [toReconcile EXCEPT !.artifacts = @ \ {i}]
  /\ receiptLinked' = receiptLinked \union {i}
  /\ LET found == Recovered(i, artifactPath[i]) IN
     /\ file' = [file EXCEPT ![i] = found.file]
     /\ artifactPath' = [artifactPath EXCEPT ![i] = IF found.path = Gone THEN @ ELSE found.path]
  /\ UNCHANGED <<machine, life, stored, owner, rowPath, ages, assoc, torn, sweep>>

\* A row whose file is missing is left as it is, with a warning.
ReconcileRow(i) ==
  /\ process = "reconciling" /\ toReconcile.artifacts = {} /\ i \in toReconcile.rows
  /\ toReconcile' = [toReconcile EXCEPT !.rows = @ \ {i}]
  /\ LET found == Recovered(i, artifactPath[i]) IN
     /\ file' = [file EXCEPT ![i] = found.file]
     /\ artifactPath' = [artifactPath EXCEPT ![i] = IF found.path = Gone THEN @ ELSE found.path]
     /\ rowPath' = [rowPath EXCEPT ![i] = IF found.path = Gone THEN @ ELSE found.path]
  /\ torn' = torn \ {i}
  /\ UNCHANGED <<machine, life, rows, ages, assoc, sweep>>

Initialized ==
  /\ process = "reconciling" /\ toReconcile.artifacts = {} /\ toReconcile.rows = {}
  /\ process' = "up"
  /\ UNCHANGED <<crashCount, life, rows, places, ages, assoc, torn, sweep, toReconcile>>

Engine == NoMatch \/ LinkReceipts \/ Move \/ UpdateArtifactPath \/ UpdateRowPath \/ AssociationFails
          \/ \E i \in Items : MoveLate(i)
          \/ \E e \in Episodes : Link(e) \/ Finalize(e) \/ Close(e)
SweepStep == SweepList \/ SweepEvents \/ SweepRead \/ SweepRemove \/ SweepMark \/ SweepEnd
Startup == Restart \/ Initialized \/ \E i \in Items : ReconcileArtifact(i) \/ ReconcileRow(i)

Next ==
  \/ Engine \/ SweepStep \/ Startup \/ Crash
  \/ \E i \in Items : CreateRow(i) \/ Match(i) \/ Age(i)

Spec == Init /\ [][Next]_fileVars

\* Sweeps run every hour and a stopped process is started again.
FairSpec == Spec /\ WF_fileVars(SweepStep) /\ WF_fileVars(Startup)

-----------------------------------------------------------------------------
\* Between two associations a row and its artifact name the place where the
\* file is, also after a crash between the move and the commits that follow it.
\* Only an association that failed in between leaves them behind the file, and
\* the next startup repairs it unless the Episode is sealed by then
\* (add_evidence_to_episode, add_event_to_episode, reconcile_episode_paths).
RowsFollowFiles ==
  \A i \in stored \ expired :
    process = "up" /\ ~Associating(i) /\ file[i] # Gone =>
      {rowPath[i], artifactPath[i]} = {file[i]} \/ (i \in torn /\ file[i] = Bundle)

\* Whatever is older than the policy allows becomes a tombstone, also when a
\* crash fell between the removal of its file and the commit of its expiry.
\* Items only grow older, so once is always.
ExpiryCompletes == \A i \in Items : []<>(i \in old => i \in expired)

\* ARCHITECTURE.md: cleanup removes managed visual bytes and records their expiry.
ExpiredBytesAreGone == \A i \in expired : ~Associating(i) /\ ~Sweeping(i) => file[i] = Gone
=============================================================================
