------------------------- MODULE EvidenceFilesProofs -------------------------
(***************************************************************************)
(* Rows follow files, for any set of Items and Episodes and any number of  *)
(* crashes and failed associations, while the retention sweep removes and  *)
(* marks what it likes.                                                    *)
(***************************************************************************)
EXTENDS EvidenceFiles, TLAPS

\* No Item and no Episode has the name that stands for none.
Named == Nobody \notin Items \union Episodes

Places == {Inbox, Bundle, Gone}

EpisodesOK ==
  /\ process \in {"up", "down", "reconciling"}
  /\ life \in [Episodes -> {"open", "finalizing", "closed"}]

ItemsOK ==
  /\ stored \subseteq Items /\ old \subseteq stored /\ expired \subseteq Items
  /\ torn \subseteq Items
  /\ owner \in [Items -> Episodes \union {Nobody}]
  /\ rowPath \in [Items -> Places] /\ artifactPath \in [Items -> Places]
  /\ file \in [Items -> Places]

TasksOK ==
  /\ assoc \in [item : Items \union {Nobody},
                at : {"idle", "link", "receipts", "move", "artifact", "row"},
                read : Places]
  /\ sweep \in [todo : SUBSET [item : Items, path : Places], item : Items \union {Nobody},
                at : {"idle", "next", "remove", "mark"}, paths : SUBSET Places, events : BOOLEAN]
  /\ toReconcile \in [artifacts : SUBSET Items, rows : SUBSET Items]

TypeInv == Named /\ EpisodesOK /\ ItemsOK /\ TasksOK

(***************************************************************************)
(* What the tasks hold.  An association's Episode stays open until it is   *)
(* done, so that a crash in its middle is found by reconciliation, which   *)
(* looks at unsealed Episodes only; the sweep handles stored Items.        *)
(***************************************************************************)
SweepInv ==
  /\ \A listed \in sweep.todo : listed.item \in old
  /\ sweep.at \in {"remove", "mark"} => sweep.item \in old

AssocInv ==
  /\ assoc.item = Nobody <=> assoc.at = "idle"
  /\ assoc.at # "idle" => assoc.item \in stored /\ assoc.read = Inbox
  /\ assoc.at = "link" => owner[assoc.item] = Nobody
  /\ assoc.at \in {"receipts", "move", "artifact", "row"} =>
       owner[assoc.item] # Nobody /\ life[owner[assoc.item]] = "open"

\* An association that failed after the link is not made again.
TornInv == \A i \in torn : owner[i] # Nobody /\ ~Associating(i)

StartupInv ==
  /\ process # "up" => assoc = NoAssoc /\ sweep = NoSweep
  /\ process = "reconciling" =>
       toReconcile.artifacts \subseteq toReconcile.rows /\ toReconcile.rows \subseteq Unsealed

At(i) == IF assoc.item = i THEN assoc.at ELSE "idle"

Settled(i) == rowPath[i] = file[i] /\ artifactPath[i] = file[i]

\* Somebody is to finish what an association of i began.
Pending(i) ==
  /\ process = "up" => At(i) \in {"artifact", "row"}
  /\ process = "reconciling" => i \in toReconcile.rows
  /\ process = "down" => i \in stored /\ owner[i] # Nobody /\ life[owner[i]] # "closed"

\* Or the association has failed.
Unfinished(i) == i \in torn \/ Pending(i)

Halfway(i) == (artifactPath[i] = file[i] \/ file[i] = Bundle) /\ Unfinished(i)

(***************************************************************************)
(* Where an Item that has not expired is: in the inbox until it belongs to *)
(* an Episode and is moved; then row and artifact follow, or somebody is   *)
(* to finish the move, or its association failed.                          *)
(***************************************************************************)
Placed(i) ==
  /\ i \notin stored => owner[i] = Nobody
  /\ owner[i] = Nobody \/ At(i) \in {"link", "receipts", "move"} =>
       rowPath[i] = Inbox /\ artifactPath[i] = Inbox /\ file[i] \in {Inbox, Gone}
  /\ file[i] # Gone =>
       /\ At(i) = "artifact" => file[i] = Bundle
       /\ At(i) = "row" => file[i] = Bundle /\ artifactPath[i] = Bundle
       /\ file[i] = Inbox => Settled(i)
       /\ Settled(i) \/ Halfway(i)

IndInv ==
  TypeInv /\ SweepInv /\ AssocInv /\ TornInv /\ StartupInv /\ \A i \in Items \ expired : Placed(i)

\* The sweep lists Items past the cutoff, with the paths their rows have.
LEMMA ListedItems ==
  ASSUME ItemsOK, NEW S
  PROVE  /\ Listed(S) \in SUBSET [item : Items, path : Places]
         /\ \A listed \in Listed(S) : listed.item \in old
BY DEF Listed, ItemsOK

\* The row of a new Item names the preserved file.
LEMMA CreateRowInv ==
  ASSUME IndInv, NEW x \in Items, CreateRow(x)
  PROVE  IndInv'
<1>. USE DEF IndInv, TypeInv, CreateRow, machine, rows, places, ages
<1>1. EpisodesOK'
  BY DEF EpisodesOK
<1>2. ItemsOK'
  BY DEF ItemsOK, Places
<1>3. TasksOK'
  BY DEF TasksOK, ItemsOK, NoAssoc, NoSweep, Places
<1>4. SweepInv'
  BY DEF SweepInv, NoSweep, TasksOK
<1>5. AssocInv'
  BY DEF AssocInv, NoAssoc, TasksOK, ItemsOK, Named
<1>6. StartupInv'
  BY DEF StartupInv, Unsealed
<1>7. ASSUME NEW i \in Items \ expired'
      PROVE  Placed(i)'
  BY <1>7 DEF Placed, Halfway, Unfinished, Pending, Settled, At, ItemsOK, TasksOK, AssocInv, StartupInv,
              NoAssoc, Named, Places
<1>8. TornInv'
  BY DEF TornInv, Associating, AssocInv, ItemsOK, TasksOK, NoAssoc, Named
<1>. QED  BY <1>1, <1>2, <1>3, <1>4, <1>5, <1>6, <1>7, <1>8 DEF Named

\* An orphan is matched; its path is the one it was preserved at.
LEMMA MatchInv ==
  ASSUME IndInv, NEW x \in Items, Match(x)
  PROVE  IndInv'
<1>. USE DEF IndInv, TypeInv, Match, machine, rows, places, ages
<1>1. EpisodesOK'
  BY DEF EpisodesOK
<1>2. ItemsOK'
  BY DEF ItemsOK, Places
<1>3. TasksOK'
  BY DEF TasksOK, ItemsOK, NoAssoc, NoSweep, Places
<1>4. SweepInv'
  BY DEF SweepInv, NoSweep, TasksOK
<1>5. AssocInv'
  <2>1. Placed(x) /\ owner[x] = Nobody
    BY DEF ItemsOK
  <2>2. rowPath[x] = Inbox
    BY <2>1 DEF Placed
  <2>. QED  BY <2>1, <2>2 DEF AssocInv, NoAssoc, TasksOK, ItemsOK, Named
<1>6. StartupInv'
  BY DEF StartupInv, Unsealed
<1>7. ASSUME NEW i \in Items \ expired'
      PROVE  Placed(i)'
  BY <1>7 DEF Placed, Halfway, Unfinished, Pending, Settled, At, ItemsOK, TasksOK, AssocInv, StartupInv,
              NoAssoc, Named, Places
<1>8. TornInv'
  BY DEF TornInv, Associating, AssocInv, ItemsOK, TasksOK, NoAssoc, Named
<1>. QED  BY <1>1, <1>2, <1>3, <1>4, <1>5, <1>6, <1>7, <1>8 DEF Named

\* It is linked to an open Episode.
LEMMA LinkInv ==
  ASSUME IndInv, NEW e \in Episodes, Link(e)
  PROVE  IndInv'
<1>. USE DEF IndInv, TypeInv, Link, machine, rows, places, ages
<1>1. EpisodesOK'
  BY DEF EpisodesOK
<1>2. ItemsOK'
  BY DEF ItemsOK, Places
<1>3. TasksOK'
  BY DEF TasksOK, ItemsOK, NoAssoc, NoSweep, Places
<1>4. SweepInv'
  BY DEF SweepInv, NoSweep, TasksOK
<1>5. AssocInv'
  BY DEF AssocInv, NoAssoc, TasksOK, ItemsOK, Named
<1>6. StartupInv'
  BY DEF StartupInv, Unsealed
<1>7. ASSUME NEW i \in Items \ expired'
      PROVE  Placed(i)'
  BY <1>7 DEF Placed, Halfway, Unfinished, Pending, Settled, At, ItemsOK, TasksOK, AssocInv, StartupInv,
              NoAssoc, Named, Places
<1>8. TornInv'
  BY DEF TornInv, Associating, AssocInv, ItemsOK, TasksOK, NoAssoc, Named
<1>. QED  BY <1>1, <1>2, <1>3, <1>4, <1>5, <1>6, <1>7, <1>8 DEF Named

\* It stays where it is.
LEMMA NoMatchInv ==
  ASSUME IndInv, NoMatch
  PROVE  IndInv'
<1>. USE DEF IndInv, TypeInv, NoMatch, machine, rows, places, ages
<1>1. EpisodesOK'
  BY DEF EpisodesOK
<1>2. ItemsOK'
  BY DEF ItemsOK, Places
<1>3. TasksOK'
  BY DEF TasksOK, ItemsOK, NoAssoc, NoSweep, Places
<1>4. SweepInv'
  BY DEF SweepInv, NoSweep, TasksOK
<1>5. AssocInv'
  BY DEF AssocInv, NoAssoc, TasksOK, ItemsOK, Named
<1>6. StartupInv'
  BY DEF StartupInv, Unsealed
<1>7. ASSUME NEW i \in Items \ expired'
      PROVE  Placed(i)'
  BY <1>7 DEF Placed, Halfway, Unfinished, Pending, Settled, At, ItemsOK, TasksOK, AssocInv, StartupInv,
              NoAssoc, Named, Places
<1>8. TornInv'
  BY DEF TornInv, Associating, AssocInv, ItemsOK, TasksOK, NoAssoc, Named
<1>. QED  BY <1>1, <1>2, <1>3, <1>4, <1>5, <1>6, <1>7, <1>8 DEF Named

\* Its receipts follow.
LEMMA LinkReceiptsInv ==
  ASSUME IndInv, LinkReceipts
  PROVE  IndInv'
<1>. USE DEF IndInv, TypeInv, LinkReceipts, machine, rows, places, ages
<1>1. EpisodesOK'
  BY DEF EpisodesOK
<1>2. ItemsOK'
  BY DEF ItemsOK, Places
<1>3. TasksOK'
  BY DEF TasksOK, ItemsOK, NoAssoc, NoSweep, Places
<1>4. SweepInv'
  BY DEF SweepInv, NoSweep, TasksOK
<1>5. AssocInv'
  BY DEF AssocInv, NoAssoc, TasksOK, ItemsOK, Named
<1>6. StartupInv'
  BY DEF StartupInv, Unsealed
<1>7. ASSUME NEW i \in Items \ expired'
      PROVE  Placed(i)'
  BY <1>7 DEF Placed, Halfway, Unfinished, Pending, Settled, At, ItemsOK, TasksOK, AssocInv, StartupInv,
              NoAssoc, Named, Places
<1>8. TornInv'
  BY DEF TornInv, Associating, AssocInv, ItemsOK, TasksOK, NoAssoc, Named
<1>. QED  BY <1>1, <1>2, <1>3, <1>4, <1>5, <1>6, <1>7, <1>8 DEF Named

\* Its file is moved, when it is still there.
LEMMA MoveInv ==
  ASSUME IndInv, Move
  PROVE  IndInv'
<1>. USE DEF IndInv, TypeInv, Move, machine, rows, places, ages
<1>1. EpisodesOK'
  BY DEF EpisodesOK
<1>2. ItemsOK'
  BY DEF ItemsOK, Places
<1>3. TasksOK'
  BY DEF TasksOK, ItemsOK, NoAssoc, NoSweep, Places
<1>4. SweepInv'
  BY DEF SweepInv, NoSweep, TasksOK
<1>5. AssocInv'
  BY DEF AssocInv, NoAssoc, TasksOK, ItemsOK, Named
<1>6. StartupInv'
  BY DEF StartupInv, Unsealed
<1>7. ASSUME NEW i \in Items \ expired'
      PROVE  Placed(i)'
  BY <1>7 DEF Placed, Halfway, Unfinished, Pending, Settled, At, ItemsOK, TasksOK, AssocInv, StartupInv,
              NoAssoc, Named, Places
<1>8. TornInv'
  BY DEF TornInv, Associating, AssocInv, ItemsOK, TasksOK, NoAssoc, Named
<1>. QED  BY <1>1, <1>2, <1>3, <1>4, <1>5, <1>6, <1>7, <1>8 DEF Named

\* The artifact's path is committed.
LEMMA UpdateArtifactPathInv ==
  ASSUME IndInv, UpdateArtifactPath
  PROVE  IndInv'
<1>. USE DEF IndInv, TypeInv, UpdateArtifactPath, machine, rows, places, ages
<1>1. EpisodesOK'
  BY DEF EpisodesOK
<1>2. ItemsOK'
  BY DEF ItemsOK, Places
<1>3. TasksOK'
  BY DEF TasksOK, ItemsOK, NoAssoc, NoSweep, Places
<1>4. SweepInv'
  BY DEF SweepInv, NoSweep, TasksOK
<1>5. AssocInv'
  BY DEF AssocInv, NoAssoc, TasksOK, ItemsOK, Named
<1>6. StartupInv'
  BY DEF StartupInv, Unsealed
<1>7. ASSUME NEW i \in Items \ expired'
      PROVE  Placed(i)'
  BY <1>7 DEF Placed, Halfway, Unfinished, Pending, Settled, At, ItemsOK, TasksOK, AssocInv, StartupInv,
              NoAssoc, Named, Places
<1>8. TornInv'
  BY DEF TornInv, Associating, AssocInv, ItemsOK, TasksOK, NoAssoc, Named
<1>. QED  BY <1>1, <1>2, <1>3, <1>4, <1>5, <1>6, <1>7, <1>8 DEF Named

\* The row's path is committed, and the association is done.
LEMMA UpdateRowPathInv ==
  ASSUME IndInv, UpdateRowPath
  PROVE  IndInv'
<1>. USE DEF IndInv, TypeInv, UpdateRowPath, machine, rows, places, ages
<1>1. EpisodesOK'
  BY DEF EpisodesOK
<1>2. ItemsOK'
  BY DEF ItemsOK, Places
<1>3. TasksOK'
  BY DEF TasksOK, ItemsOK, NoAssoc, NoSweep, Places
<1>4. SweepInv'
  BY DEF SweepInv, NoSweep, TasksOK
<1>5. AssocInv'
  BY DEF AssocInv, NoAssoc, TasksOK, ItemsOK, Named
<1>6. StartupInv'
  BY DEF StartupInv, Unsealed
<1>7. ASSUME NEW i \in Items \ expired'
      PROVE  Placed(i)'
  BY <1>7 DEF Placed, Halfway, Unfinished, Pending, Settled, At, ItemsOK, TasksOK, AssocInv, StartupInv,
              NoAssoc, Named, Places
<1>8. TornInv'
  BY DEF TornInv, Associating, AssocInv, ItemsOK, TasksOK, NoAssoc, Named
<1>. QED  BY <1>1, <1>2, <1>3, <1>4, <1>5, <1>6, <1>7, <1>8 DEF Named

\* It fails, or its task is cancelled.
LEMMA AssociationFailsInv ==
  ASSUME IndInv, AssociationFails
  PROVE  IndInv'
<1>. USE DEF IndInv, TypeInv, AssociationFails, machine, rows, places, ages
<1>1. EpisodesOK'
  BY DEF EpisodesOK
<1>2. ItemsOK'
  BY DEF ItemsOK, Places, AssocInv
<1>3. TasksOK'
  BY DEF TasksOK, ItemsOK, NoAssoc, NoSweep, Places
<1>4. SweepInv'
  BY DEF SweepInv, NoSweep, TasksOK
<1>5. AssocInv'
  BY DEF AssocInv, NoAssoc, TasksOK, ItemsOK, Named
<1>6. StartupInv'
  BY DEF StartupInv, Unsealed
<1>7. ASSUME NEW i \in Items \ expired'
      PROVE  Placed(i)'
  BY <1>7 DEF Placed, Halfway, Unfinished, Pending, Settled, At, ItemsOK, TasksOK, AssocInv, StartupInv,
              NoAssoc, Named, Places
<1>8. TornInv'
  BY DEF TornInv, Associating, AssocInv, ItemsOK, TasksOK, NoAssoc, Named
<1>. QED  BY <1>1, <1>2, <1>3, <1>4, <1>5, <1>6, <1>7, <1>8 DEF Named

\* The file arrives in the bundle after its association was cancelled.
LEMMA MoveLateInv ==
  ASSUME IndInv, NEW x \in Items, MoveLate(x)
  PROVE  IndInv'
<1>. USE DEF IndInv, TypeInv, MoveLate, machine, rows, places, ages
<1>1. EpisodesOK'
  BY DEF EpisodesOK
<1>2. ItemsOK'
  BY DEF ItemsOK, Places
<1>3. TasksOK'
  BY DEF TasksOK, ItemsOK, NoAssoc, NoSweep, Places
<1>4. SweepInv'
  BY DEF SweepInv, NoSweep, TasksOK
<1>5. AssocInv'
  BY DEF AssocInv, NoAssoc, TasksOK, ItemsOK, Named
<1>6. StartupInv'
  BY DEF StartupInv, Unsealed
<1>7. ASSUME NEW i \in Items \ expired'
      PROVE  Placed(i)'
  BY <1>7 DEF Placed, Halfway, Unfinished, Pending, Settled, At, ItemsOK, TasksOK, AssocInv, StartupInv,
              TornInv, Associating, NoAssoc, Named, Places
<1>8. TornInv'
  BY DEF TornInv, Associating, AssocInv, ItemsOK, TasksOK, NoAssoc, Named
<1>. QED  BY <1>1, <1>2, <1>3, <1>4, <1>5, <1>6, <1>7, <1>8 DEF Named

\* An Episode is sealed only between associations.
LEMMA FinalizeInv ==
  ASSUME IndInv, NEW e \in Episodes, Finalize(e)
  PROVE  IndInv'
<1>. USE DEF IndInv, TypeInv, Finalize, machine, rows, places, ages
<1>1. EpisodesOK'
  BY DEF EpisodesOK
<1>2. ItemsOK'
  BY DEF ItemsOK, Places
<1>3. TasksOK'
  BY DEF TasksOK, ItemsOK, NoAssoc, NoSweep, Places
<1>4. SweepInv'
  BY DEF SweepInv, NoSweep, TasksOK
<1>5. AssocInv'
  BY DEF AssocInv, NoAssoc, TasksOK, ItemsOK, Named
<1>6. StartupInv'
  BY DEF StartupInv, Unsealed
<1>7. ASSUME NEW i \in Items \ expired'
      PROVE  Placed(i)'
  BY <1>7 DEF Placed, Halfway, Unfinished, Pending, Settled, At, ItemsOK, TasksOK, AssocInv, StartupInv,
              NoAssoc, Named, Places
<1>8. TornInv'
  BY DEF TornInv, Associating, AssocInv, ItemsOK, TasksOK, NoAssoc, Named
<1>. QED  BY <1>1, <1>2, <1>3, <1>4, <1>5, <1>6, <1>7, <1>8 DEF Named

\* And closed at any time after that.
LEMMA CloseInv ==
  ASSUME IndInv, NEW e \in Episodes, Close(e)
  PROVE  IndInv'
<1>. USE DEF IndInv, TypeInv, Close, machine, rows, places, ages
<1>1. EpisodesOK'
  BY DEF EpisodesOK
<1>2. ItemsOK'
  BY DEF ItemsOK, Places
<1>3. TasksOK'
  BY DEF TasksOK, ItemsOK, NoAssoc, NoSweep, Places
<1>4. SweepInv'
  BY DEF SweepInv, NoSweep, TasksOK
<1>5. AssocInv'
  BY DEF AssocInv, NoAssoc, TasksOK, ItemsOK, Named
<1>6. StartupInv'
  BY DEF StartupInv, Unsealed
<1>7. ASSUME NEW i \in Items \ expired'
      PROVE  Placed(i)'
  BY <1>7 DEF Placed, Halfway, Unfinished, Pending, Settled, At, ItemsOK, TasksOK, AssocInv, StartupInv,
              NoAssoc, Named, Places
<1>8. TornInv'
  BY DEF TornInv, Associating, AssocInv, ItemsOK, TasksOK, NoAssoc, Named
<1>. QED  BY <1>1, <1>2, <1>3, <1>4, <1>5, <1>6, <1>7, <1>8 DEF Named

\* An Item reaches its age.
LEMMA AgeInv ==
  ASSUME IndInv, NEW x \in Items, Age(x)
  PROVE  IndInv'
<1>. USE DEF IndInv, TypeInv, Age, machine, rows, places, ages
<1>1. EpisodesOK'
  BY DEF EpisodesOK
<1>2. ItemsOK'
  BY DEF ItemsOK, Places
<1>3. TasksOK'
  BY DEF TasksOK, ItemsOK, NoAssoc, NoSweep, Places
<1>4. SweepInv'
  BY DEF SweepInv, NoSweep, TasksOK
<1>5. AssocInv'
  BY DEF AssocInv, NoAssoc, TasksOK, ItemsOK, Named
<1>6. StartupInv'
  BY DEF StartupInv, Unsealed
<1>7. ASSUME NEW i \in Items \ expired'
      PROVE  Placed(i)'
  BY <1>7 DEF Placed, Halfway, Unfinished, Pending, Settled, At, ItemsOK, TasksOK, AssocInv, StartupInv,
              NoAssoc, Named, Places
<1>8. TornInv'
  BY DEF TornInv, Associating, AssocInv, ItemsOK, TasksOK, NoAssoc, Named
<1>. QED  BY <1>1, <1>2, <1>3, <1>4, <1>5, <1>6, <1>7, <1>8 DEF Named

\* The sweep lists what is old.
LEMMA SweepListInv ==
  ASSUME IndInv, SweepList
  PROVE  IndInv'
<1>. USE DEF IndInv, TypeInv, SweepList, machine, rows, places, ages
<1>1. EpisodesOK'
  BY DEF EpisodesOK
<1>2. ItemsOK'
  BY DEF ItemsOK, Places
<1>3. TasksOK'
  <2>1. Listed(Items \ Pictures) \in SUBSET [item : Items, path : Places]
    BY ListedItems
  <2>. QED  BY <2>1 DEF TasksOK, NoSweep
<1>4. SweepInv'
  <2>1. \A listed \in Listed(Items \ Pictures) : listed.item \in old
    BY ListedItems
  <2>. QED  BY <2>1 DEF SweepInv, NoSweep, TasksOK
<1>5. AssocInv'
  BY DEF AssocInv, NoAssoc, TasksOK, ItemsOK, Named
<1>6. StartupInv'
  BY DEF StartupInv, Unsealed
<1>7. ASSUME NEW i \in Items \ expired'
      PROVE  Placed(i)'
  BY <1>7 DEF Placed, Halfway, Unfinished, Pending, Settled, At, ItemsOK, TasksOK, AssocInv, StartupInv,
              NoAssoc, Named, Places
<1>8. TornInv'
  BY DEF TornInv, Associating, AssocInv, ItemsOK, TasksOK, NoAssoc, Named
<1>. QED  BY <1>1, <1>2, <1>3, <1>4, <1>5, <1>6, <1>7, <1>8 DEF Named

\* And the embedded pictures.
LEMMA SweepEventsInv ==
  ASSUME IndInv, SweepEvents
  PROVE  IndInv'
<1>. USE DEF IndInv, TypeInv, SweepEvents, machine, rows, places, ages
<1>1. EpisodesOK'
  BY DEF EpisodesOK
<1>2. ItemsOK'
  BY DEF ItemsOK, Places
<1>3. TasksOK'
  <2>1. Listed(Pictures) \in SUBSET [item : Items, path : Places]
    BY ListedItems
  <2>. QED  BY <2>1 DEF TasksOK, NoSweep
<1>4. SweepInv'
  <2>1. \A listed \in Listed(Pictures) : listed.item \in old
    BY ListedItems
  <2>. QED  BY <2>1 DEF SweepInv, NoSweep, TasksOK
<1>5. AssocInv'
  BY DEF AssocInv, NoAssoc, TasksOK, ItemsOK, Named
<1>6. StartupInv'
  BY DEF StartupInv, Unsealed
<1>7. ASSUME NEW i \in Items \ expired'
      PROVE  Placed(i)'
  BY <1>7 DEF Placed, Halfway, Unfinished, Pending, Settled, At, ItemsOK, TasksOK, AssocInv, StartupInv,
              NoAssoc, Named, Places
<1>8. TornInv'
  BY DEF TornInv, Associating, AssocInv, ItemsOK, TasksOK, NoAssoc, Named
<1>. QED  BY <1>1, <1>2, <1>3, <1>4, <1>5, <1>6, <1>7, <1>8 DEF Named

\* It ends.
LEMMA SweepEndInv ==
  ASSUME IndInv, SweepEnd
  PROVE  IndInv'
<1>. USE DEF IndInv, TypeInv, SweepEnd, machine, rows, places, ages
<1>1. EpisodesOK'
  BY DEF EpisodesOK
<1>2. ItemsOK'
  BY DEF ItemsOK, Places
<1>3. TasksOK'
  BY DEF TasksOK, ItemsOK, NoAssoc, NoSweep, Places
<1>4. SweepInv'
  BY DEF SweepInv, NoSweep, TasksOK
<1>5. AssocInv'
  BY DEF AssocInv, NoAssoc, TasksOK, ItemsOK, Named
<1>6. StartupInv'
  BY DEF StartupInv, Unsealed
<1>7. ASSUME NEW i \in Items \ expired'
      PROVE  Placed(i)'
  BY <1>7 DEF Placed, Halfway, Unfinished, Pending, Settled, At, ItemsOK, TasksOK, AssocInv, StartupInv,
              NoAssoc, Named, Places
<1>8. TornInv'
  BY DEF TornInv, Associating, AssocInv, ItemsOK, TasksOK, NoAssoc, Named
<1>. QED  BY <1>1, <1>2, <1>3, <1>4, <1>5, <1>6, <1>7, <1>8 DEF Named

\* It reads the paths of one Item.
LEMMA SweepReadInv ==
  ASSUME IndInv, SweepRead
  PROVE  IndInv'
<1>. USE DEF IndInv, TypeInv, SweepRead, machine, rows, places, ages
<1>1. EpisodesOK'
  BY DEF EpisodesOK
<1>2. ItemsOK'
  BY DEF ItemsOK, Places
<1>3. TasksOK'
  <2>1. PICK listed \in sweep.todo :
          sweep' = [sweep EXCEPT
            !.todo = @ \ {listed}, !.item = listed.item, !.at = "remove",
            !.paths = {listed.path, artifactPath[listed.item]} \ {Gone}]
    OBVIOUS
  <2>2. listed \in [item : Items, path : Places]
    BY DEF TasksOK
  <2>3. {listed.path, artifactPath[listed.item]} \ {Gone} \in SUBSET Places
    BY <2>2 DEF ItemsOK
  <2>. QED  BY <2>1, <2>2, <2>3 DEF TasksOK
<1>4. SweepInv'
  BY DEF SweepInv, NoSweep, TasksOK
<1>5. AssocInv'
  BY DEF AssocInv, NoAssoc, TasksOK, ItemsOK, Named
<1>6. StartupInv'
  BY DEF StartupInv, Unsealed
<1>7. ASSUME NEW i \in Items \ expired'
      PROVE  Placed(i)'
  BY <1>7 DEF Placed, Halfway, Unfinished, Pending, Settled, At, ItemsOK, TasksOK, AssocInv, StartupInv,
              NoAssoc, Named, Places
<1>8. TornInv'
  BY DEF TornInv, Associating, AssocInv, ItemsOK, TasksOK, NoAssoc, Named
<1>. QED  BY <1>1, <1>2, <1>3, <1>4, <1>5, <1>6, <1>7, <1>8 DEF Named

\* It removes the file, at the paths it has read.
LEMMA SweepRemoveInv ==
  ASSUME IndInv, SweepRemove
  PROVE  IndInv'
<1>. USE DEF IndInv, TypeInv, SweepRemove, machine, rows, places, ages
<1>1. EpisodesOK'
  BY DEF EpisodesOK
<1>2. ItemsOK'
  BY DEF ItemsOK, Places
<1>3. TasksOK'
  <2>1. UNCHANGED <<assoc, toReconcile>>
    OBVIOUS
  <2>2. \/ sweep' = [sweep EXCEPT !.at = "mark"]
        \/ sweep' = [sweep EXCEPT !.at = "next", !.item = Nobody, !.paths = {}]
    OBVIOUS
  <2>. QED  BY ONLY <2>1, <2>2, TasksOK DEF TasksOK
<1>4. SweepInv'
  BY DEF SweepInv, NoSweep, TasksOK
<1>5. AssocInv'
  BY DEF AssocInv, NoAssoc, TasksOK, ItemsOK, Named
<1>6. StartupInv'
  BY DEF StartupInv, Unsealed
<1>7. ASSUME NEW i \in Items \ expired'
      PROVE  Placed(i)'
  BY <1>7 DEF Placed, Halfway, Unfinished, Pending, Settled, At, ItemsOK, TasksOK, AssocInv, StartupInv,
              NoAssoc, Named, Places
<1>8. TornInv'
  BY DEF TornInv, Associating, AssocInv, ItemsOK, TasksOK, NoAssoc, Named
<1>. QED  BY <1>1, <1>2, <1>3, <1>4, <1>5, <1>6, <1>7, <1>8 DEF Named

\* It marks the row expired.
LEMMA SweepMarkInv ==
  ASSUME IndInv, SweepMark
  PROVE  IndInv'
<1>. USE DEF IndInv, TypeInv, SweepMark, machine, rows, places, ages
<1>1. EpisodesOK'
  BY DEF EpisodesOK
<1>2. ItemsOK'
  BY DEF ItemsOK, Places, SweepInv
<1>3. TasksOK'
  BY DEF TasksOK, ItemsOK, NoAssoc, NoSweep, Places
<1>4. SweepInv'
  BY DEF SweepInv, NoSweep, TasksOK
<1>5. AssocInv'
  BY DEF AssocInv, NoAssoc, TasksOK, ItemsOK, Named
<1>6. StartupInv'
  BY DEF StartupInv, Unsealed
<1>7. ASSUME NEW i \in Items \ expired'
      PROVE  Placed(i)'
  BY <1>7 DEF Placed, Halfway, Unfinished, Pending, Settled, At, ItemsOK, TasksOK, AssocInv, StartupInv,
              NoAssoc, Named, Places
<1>8. TornInv'
  BY DEF TornInv, Associating, AssocInv, ItemsOK, TasksOK, NoAssoc, Named
<1>. QED  BY <1>1, <1>2, <1>3, <1>4, <1>5, <1>6, <1>7, <1>8 DEF Named

\* A crash forgets the tasks.
LEMMA CrashInv ==
  ASSUME IndInv, Crash
  PROVE  IndInv'
<1>. USE DEF IndInv, TypeInv, Crash, machine, rows, places, ages
<1>1. EpisodesOK'
  BY DEF EpisodesOK
<1>2. ItemsOK'
  BY DEF ItemsOK, Places
<1>3. TasksOK'
  BY DEF TasksOK, ItemsOK, NoAssoc, NoSweep, Places
<1>4. SweepInv'
  BY DEF SweepInv, NoSweep, TasksOK
<1>5. AssocInv'
  BY DEF AssocInv, NoAssoc, TasksOK, ItemsOK, Named
<1>6. StartupInv'
  BY DEF StartupInv, Unsealed
<1>7. ASSUME NEW i \in Items \ expired'
      PROVE  Placed(i)'
  <2>1. Placed(i) /\ At(i)' = "idle"
    BY <1>7 DEF At, NoAssoc
  <2>2. Halfway(i) /\ file[i] # Inbox => Halfway(i)'
    <3>1. CASE process = "up"
      BY <1>7, <3>1 DEF Halfway, Unfinished, Pending, At, AssocInv, TasksOK
    <3>2. CASE process = "reconciling"
      BY <1>7, <3>2 DEF Halfway, Unfinished, Pending, StartupInv, Unsealed
    <3>. QED  BY <3>1, <3>2 DEF EpisodesOK
  <2>. QED  BY <2>1, <2>2 DEF Placed, Settled
<1>8. TornInv'
  BY DEF TornInv, Associating, AssocInv, ItemsOK, TasksOK, NoAssoc, Named
<1>. QED  BY <1>1, <1>2, <1>3, <1>4, <1>5, <1>6, <1>7, <1>8 DEF Named

\* Reconciliation takes what unsealed Episodes own.
LEMMA RestartInv ==
  ASSUME IndInv, Restart
  PROVE  IndInv'
<1>. USE DEF IndInv, TypeInv, Restart, machine, rows, places, ages
<1>1. EpisodesOK'
  BY DEF EpisodesOK
<1>2. ItemsOK'
  BY DEF ItemsOK, Places
<1>3. TasksOK'
  BY DEF TasksOK, ItemsOK, Unsealed
<1>4. SweepInv'
  BY DEF SweepInv, NoSweep, TasksOK
<1>5. AssocInv'
  BY DEF AssocInv, NoAssoc, TasksOK, ItemsOK, Named
<1>6. StartupInv'
  BY DEF StartupInv, Unsealed
<1>7. ASSUME NEW i \in Items \ expired'
      PROVE  Placed(i)'
  BY <1>7 DEF Placed, Halfway, Unfinished, Pending, Settled, At, ItemsOK, TasksOK, AssocInv, StartupInv,
              NoAssoc, Named, Places, Unsealed
<1>8. TornInv'
  BY DEF TornInv, Associating, AssocInv, ItemsOK, TasksOK, NoAssoc, Named
<1>. QED  BY <1>1, <1>2, <1>3, <1>4, <1>5, <1>6, <1>7, <1>8 DEF Named

\* It finishes the moves of artifacts.
LEMMA ReconcileArtifactInv ==
  ASSUME IndInv, NEW x \in Items, ReconcileArtifact(x)
  PROVE  IndInv'
<1>. USE DEF IndInv, TypeInv, ReconcileArtifact, machine, rows, places, ages
<1>1. EpisodesOK'
  BY DEF EpisodesOK
<1>2. ItemsOK'
  BY DEF ItemsOK, Places, Recovered
<1>3. TasksOK'
  BY DEF TasksOK, ItemsOK, NoAssoc, NoSweep, Places
<1>4. SweepInv'
  BY DEF SweepInv, NoSweep, TasksOK
<1>5. AssocInv'
  BY DEF AssocInv, NoAssoc, TasksOK, ItemsOK, Named
<1>6. StartupInv'
  BY DEF StartupInv, Unsealed
<1>7. ASSUME NEW i \in Items \ expired'
      PROVE  Placed(i)'
  BY <1>7 DEF Placed, Halfway, Unfinished, Pending, Settled, At, ItemsOK, TasksOK, AssocInv, StartupInv,
              NoAssoc, Named, Places, Recovered, Unsealed
<1>8. TornInv'
  BY DEF TornInv, Associating, AssocInv, ItemsOK, TasksOK, NoAssoc, Named
<1>. QED  BY <1>1, <1>2, <1>3, <1>4, <1>5, <1>6, <1>7, <1>8 DEF Named

\* Then those of rows.
LEMMA ReconcileRowInv ==
  ASSUME IndInv, NEW x \in Items, ReconcileRow(x)
  PROVE  IndInv'
<1>. USE DEF IndInv, TypeInv, ReconcileRow, machine, rows, places, ages
<1>1. EpisodesOK'
  BY DEF EpisodesOK
<1>2. ItemsOK'
  BY DEF ItemsOK, Places, Recovered
<1>3. TasksOK'
  BY DEF TasksOK, ItemsOK, NoAssoc, NoSweep, Places
<1>4. SweepInv'
  BY DEF SweepInv, NoSweep, TasksOK
<1>5. AssocInv'
  BY DEF AssocInv, NoAssoc, TasksOK, ItemsOK, Named
<1>6. StartupInv'
  BY DEF StartupInv, Unsealed
<1>7. ASSUME NEW i \in Items \ expired'
      PROVE  Placed(i)'
  BY <1>7 DEF Placed, Halfway, Unfinished, Pending, Settled, At, ItemsOK, TasksOK, AssocInv, StartupInv,
              NoAssoc, Named, Places, Recovered, Unsealed
<1>8. TornInv'
  BY DEF TornInv, Associating, AssocInv, ItemsOK, TasksOK, NoAssoc, Named
<1>. QED  BY <1>1, <1>2, <1>3, <1>4, <1>5, <1>6, <1>7, <1>8 DEF Named

\* Then nothing is left to finish.
LEMMA InitializedInv ==
  ASSUME IndInv, Initialized
  PROVE  IndInv'
<1>. USE DEF IndInv, TypeInv, Initialized, machine, rows, places, ages
<1>1. EpisodesOK'
  BY DEF EpisodesOK
<1>2. ItemsOK'
  BY DEF ItemsOK, Places
<1>3. TasksOK'
  BY DEF TasksOK, ItemsOK, NoAssoc, NoSweep, Places
<1>4. SweepInv'
  BY DEF SweepInv, NoSweep, TasksOK
<1>5. AssocInv'
  BY DEF AssocInv, NoAssoc, TasksOK, ItemsOK, Named
<1>6. StartupInv'
  BY DEF StartupInv, Unsealed
<1>7. ASSUME NEW i \in Items \ expired'
      PROVE  Placed(i)'
  BY <1>7 DEF Placed, Halfway, Unfinished, Pending, Settled, At, ItemsOK, TasksOK, AssocInv, StartupInv,
              NoAssoc, Named, Places
<1>8. TornInv'
  BY DEF TornInv, Associating, AssocInv, ItemsOK, TasksOK, NoAssoc, Named
<1>. QED  BY <1>1, <1>2, <1>3, <1>4, <1>5, <1>6, <1>7, <1>8 DEF Named

-----------------------------------------------------------------------------
\* Everything starts in the inbox.
LEMMA InitInv == Named /\ Init => IndInv
<1>. SUFFICES ASSUME Named, Init PROVE IndInv
  OBVIOUS
<1>. USE DEF Init, NoAssoc, NoSweep, Named
<1>1. EpisodesOK /\ ItemsOK
  BY DEF EpisodesOK, ItemsOK, Places
<1>2. TasksOK
  BY DEF TasksOK, Places
<1>3. SweepInv /\ AssocInv /\ TornInv /\ StartupInv
  BY DEF SweepInv, AssocInv, TornInv, StartupInv
<1>4. \A i \in Items \ expired : Placed(i)
  BY DEF Placed, Settled, At
<1>. QED  BY <1>1, <1>2, <1>3, <1>4 DEF IndInv, TypeInv

\* A stuttering step preserves it.
LEMMA StutterInv == IndInv /\ UNCHANGED fileVars => IndInv'
<1>. SUFFICES ASSUME IndInv, UNCHANGED fileVars PROVE IndInv'
  OBVIOUS
<1>. USE DEF fileVars, machine, rows, places, ages, IndInv
<1>1. TypeInv'
  BY DEF TypeInv, EpisodesOK, ItemsOK, TasksOK
<1>2. SweepInv' /\ AssocInv' /\ TornInv' /\ StartupInv'
  BY DEF SweepInv, AssocInv, TornInv, Associating, StartupInv, Unsealed
<1>3. \A i \in Items \ expired' : Placed(i)'
  BY DEF Placed, Halfway, Unfinished, Pending, Settled, At
<1>. QED  BY <1>1, <1>2, <1>3

\* Every step preserves it: one lemma above for each action.
LEMMA NextInv == IndInv /\ [Next]_fileVars => IndInv'
<1>. SUFFICES ASSUME IndInv, [Next]_fileVars PROVE IndInv'
  OBVIOUS
<1>1. CASE Engine
  BY <1>1, NoMatchInv, LinkReceiptsInv, MoveInv, UpdateArtifactPathInv, UpdateRowPathInv,
     AssociationFailsInv, MoveLateInv, LinkInv, FinalizeInv, CloseInv
  DEF Engine
<1>2. CASE SweepStep
  BY <1>2, SweepListInv, SweepEventsInv, SweepReadInv, SweepRemoveInv, SweepMarkInv, SweepEndInv
  DEF SweepStep
<1>3. CASE Startup
  BY <1>3, RestartInv, InitializedInv, ReconcileArtifactInv, ReconcileRowInv DEF Startup
<1>4. CASE Crash \/ \E i \in Items : CreateRow(i) \/ Match(i) \/ Age(i)
  BY <1>4, CrashInv, CreateRowInv, MatchInv, AgeInv
<1>5. CASE UNCHANGED fileVars
  BY <1>5, StutterInv
<1>. QED  BY <1>1, <1>2, <1>3, <1>4, <1>5 DEF Next

(***************************************************************************)
(* The invariant holds always: an Item is in the inbox, or settled in its  *)
(* bundle, or an association or the next reconciliation is to finish what  *)
(* a crash interrupted, or its association failed after the link.          *)
(***************************************************************************)
THEOREM Invariance == Named /\ Spec => []IndInv
<1>1. Named /\ Init => IndInv
  BY InitInv
<1>2. IndInv /\ [Next]_fileVars => IndInv'
  BY NextInv
<1>. QED  BY <1>1, <1>2, PTL DEF Spec

(***************************************************************************)
(* Between two associations, row and artifact name the place where the     *)
(* file is, whatever crashed between the move and the commits after it and *)
(* whatever the sweep removed meanwhile; of an Item whose association      *)
(* failed in between, the file is in the bundle (add_evidence_to_episode,  *)
(* reconcile_episode_paths, run_once).                                     *)
(***************************************************************************)
THEOREM RowsFollow == Named /\ Spec => []RowsFollowFiles
<1>1. ASSUME IndInv, process = "up", NEW i \in stored \ expired, ~Associating(i), file[i] # Gone
      PROVE  {rowPath[i], artifactPath[i]} = {file[i]} \/ (i \in torn /\ file[i] = Bundle)
  <2>1. Placed(i) /\ file[i] \in Places
    BY <1>1 DEF IndInv, TypeInv, ItemsOK
  <2>2. Settled(i) \/ i \in torn
    BY <1>1, <2>1 DEF Placed, Halfway, Unfinished, Pending, At, Associating
  <2>3. file[i] = Inbox => Settled(i)
    BY <1>1, <2>1 DEF Placed
  <2>. QED  BY <1>1, <2>1, <2>2, <2>3 DEF Settled, Places
<1>2. IndInv => RowsFollowFiles
  BY <1>1 DEF RowsFollowFiles
<1>. QED  BY <1>2, Invariance, PTL

=============================================================================
