-------------------- MODULE EpisodeFinalizationProperties --------------------
(***************************************************************************)
(* What closing an Episode promises, and what its documentation says of    *)
(* the bundle it leaves.                                                   *)
(***************************************************************************)
EXTENDS EpisodeFinalization

\* A pass between claiming an Episode and the end of its "try" block.
Finalizing(p) == job[p].after = "seal" /\ pc[p] # "advance"

\* A task that changed the rows of ep and has yet to write its manifest.
OwesManifest(t, ep) == t \in Writers /\ pc[t] \in Refreshing /\ job[t].episode = ep

\* Steps at which a task works on an Episode it has chosen.
Working == Refreshing \union {"finalizer", "seal", "close", "commit"}

(***************************************************************************)
(* The inductive invariant behind the proofs.  ClaimInv: whatever a pass   *)
(* has claimed is in _finalizing_ids, and no two passes claim the same.    *)
(* TaskInv: a task at work has an Episode, and after a manifest it goes on *)
(* to one of few steps.  SealInv: the journal is ahead of the row.         *)
(***************************************************************************)
ClaimInv ==
  /\ \A p \in Passes : job[p].after = "seal" => job[p].episode \in finalizingIds
  /\ \A p, q \in Passes :
       p # q /\ job[p].after = "seal" /\ job[q].after = "seal" => job[p].episode # job[q].episode

TaskInv ==
  \A t \in Tasks :
    /\ pc[t] \in Working => job[t].episode \in Episodes
    /\ job[t].after \in {"idle", "settle", "seal", "unlock", "done"}
    /\ pc[t] \in {"refresh", "read", "write", "finalizer", "commit"} => job[t].after # "idle"
    /\ job[t].after = "seal" => t \in Passes /\ pc[t] \in Working \union {"advance"}
    /\ pc[t] \in {"seal", "close"} => job[t].after = "seal"

SealInv ==
  /\ \A ep \in Episodes : dbState[ep] = "closed" => "closed" \in journal[ep]
  /\ \A p \in Passes : pc[p] = "close" => "closed" \in journal[job[p].episode]

IndInv == TypeOK /\ ClaimInv /\ TaskInv /\ SealInv

(***************************************************************************)
(* What makes a closed bundle complete.  DownInv: a stopped process has no *)
(* task at work.  RefreshInv: only the holder of a bundle's lock is in a   *)
(* refresh, so no manifest loses what an earlier one had.  LinkInv: what a *)
(* task linked is in the manifest, unless the task failed or is about to   *)
(* write it.  OrderInv: an Episode in a pass's hands is sealed, and after  *)
(* the final refresh its manifest has every Event.                         *)
(***************************************************************************)
DownInv == phase = "down" => \A t \in Tasks : pc[t] \in {"idle", "done", "failed"}

RefreshInv ==
  /\ \A ep \in Episodes : manifest[ep].items \subseteq items[ep]
  /\ \A t \in Tasks :
       /\ pc[t] \in {"read", "write"} => bundleLock[job[t].episode] = t
       /\ pc[t] = "write" =>
            /\ manifest[job[t].episode].items \subseteq job[t].snapshot.items
            /\ job[t].snapshot.items \subseteq items[job[t].episode]

Linked(x) ==
  /\ pc[x] \in Refreshing => x \in items[job[x].episode]
  /\ pc[x] = "write" => x \in job[x].snapshot.items
  /\ \A ep \in Episodes : x \in items[ep] =>
       /\ pc[x] \notin {"idle", "commit"}
       /\ x \in manifest[ep].items \/ OwesManifest(x, ep) \/ pc[x] = "failed"

LinkInv == \A x \in Events \union Recordings : Linked(x)

\* Every Event of ep is in S.
HasEvents(S, ep) == items[ep] \intersect Events \subseteq S

Ordered(p) ==
  /\ \A ep \in job[p].todo : dbState[ep] # "open"
  /\ job[p].after = "seal" =>
       /\ dbState[job[p].episode] # "open"
       /\ pc[p] = "write" => HasEvents(job[p].snapshot.items, job[p].episode)
       /\ pc[p] \in {"seal", "close"} => HasEvents(manifest[job[p].episode].items, job[p].episode)

OrderInv ==
  /\ \A p \in Passes : Ordered(p)
  /\ \A ep \in Episodes : dbState[ep] = "closed" => HasEvents(manifest[ep].items, ep)

BundleInv == IndInv /\ DownInv /\ RefreshInv /\ LinkInv /\ OrderInv

(***************************************************************************)
(* Three tasks run lifecycle passes and each works through a list made     *)
(* under a lock it has since released; _finalizing_ids alone keeps two of  *)
(* them from stopping the same recordings and closing the same Episode.    *)
(***************************************************************************)
OneFinalizerAtATime ==
  \A p, q \in Passes :
    p # q /\ Finalizing(p) /\ Finalizing(q) => job[p].episode # job[q].episode

(***************************************************************************)
(* A CLOSED Episode stays closed with the end_time it was closed with,     *)
(* whichever passes still hold it in their lists.                          *)
(***************************************************************************)
ClosedIsFinal ==
  [][\A ep \in Episodes :
       dbState[ep] = "closed" => dbState'[ep] = "closed" /\ dbEnd'[ep] = dbEnd[ep]]_vars

(***************************************************************************)
(* A closed bundle is never rebuilt, so it must be complete: every Event   *)
(* and recording of a CLOSED Episode is in its manifest, unless the task   *)
(* that added it is still about to write it.  Only a recording that came   *)
(* after the final manifest and whose own refresh failed may be missing.   *)
(***************************************************************************)
ClosedBundleIsComplete ==
  \A ep \in Episodes :
    dbState[ep] = "closed" =>
      \A x \in items[ep] \ Receipts :
        \/ x \in manifest[ep].items \/ OwesManifest(x, ep)
        \/ x \in Recordings /\ pc[x] = "failed"

(***************************************************************************)
(* "The portable journal is appended before the database state changes so  *)
(* a journal failure leaves the Episode recoverably FINALIZING": a CLOSED  *)
(* row is in the journal, whatever failed or crashed on the way.           *)
(***************************************************************************)
JournalPrecedesClose ==
  \A ep \in Episodes : dbState[ep] = "closed" => "closed" \in journal[ep]

(***************************************************************************)
(* A failure leaves an Episode FINALIZING so that a later pass can retry:  *)
(* no failure, crash or competing pass strands it there.                   *)
(***************************************************************************)
FinalizingCloses ==
  \A ep \in Episodes : dbState[ep] = "finalizing" ~> dbState[ep] = "closed"

=============================================================================
