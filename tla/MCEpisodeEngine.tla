--------------------------- MODULE MCEpisodeEngine ---------------------------
(***************************************************************************)
(* Instances of EpisodeEngine for TLC.  One Area unless said otherwise: a  *)
(* second one only adds tasks that meet at the lifecycle lock.             *)
(***************************************************************************)
EXTENDS EpisodeEngineProperties, TLC

CONSTANTS e1, e2, e3, d1, d2, d3, a1, a2

\* Distinct observations of one Device.
DistinctEventOf == d1 :> e1 @@ d2 :> e2 @@ d3 :> e3
PairEventOf     == d1 :> e1 @@ d2 :> e2

\* d2 redelivers what d1 delivered, or the other way round.
RedeliveredEventOf == d1 :> e1 @@ d2 :> e1 @@ d3 :> e2
TwiceEventOf       == d1 :> e1 @@ d2 :> e1

\* d3 ends the transition d1 began; d2 reuses the key of d1 for another state.
TransitionEventOf == RedeliveredEventOf
TransitionStateOf == d1 :> "active" @@ d2 :> "inactive" @@ d3 :> "inactive"

AllActive == [d \in Deliveries |-> "active"]

OneArea   == [d \in Deliveries |-> a1]
\* The Device is in another Area while d2 is resolved.
MovedArea == [d \in Deliveries |-> IF d = d2 THEN a2 ELSE a1]

OneStream == [e \in Events |-> "stream"]
InOrder   == [e \in Events |-> CASE e = e1 -> 1 [] e = e2 -> 2 [] OTHER -> 3]

EpisodeSymmetry == Permutations(Episodes)
=============================================================================
