------------------------ MODULE MCEpisodeFinalization ------------------------
(***************************************************************************)
(* Instances of EpisodeFinalization for TLC.                               *)
(***************************************************************************)
EXTENDS EpisodeFinalizationProperties, TLC

CONSTANTS ep1, ep2, e1, r1, v1

\* Episodes are interchangeable.
Symmetry == Permutations({ep1, ep2})
=============================================================================
