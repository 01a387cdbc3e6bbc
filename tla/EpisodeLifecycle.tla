-------------------------- MODULE EpisodeLifecycle --------------------------
(***************************************************************************)
(* What the Episode engine promises about Episodes, without saying how:    *)
(* which lifecycle states follow which, when an Episode may be sealed, and *)
(* that a sealed Episode neither gains Events nor moves its deadline.      *)
(* EpisodeEngine implements this specification (EpisodeEngineProofs).      *)
(***************************************************************************)
EXTENDS Naturals

CONSTANTS Episodes, Events

VARIABLES
  clock,     \* wall clock, in units of the model
  grace,     \* settling grace between the deadline and finalization
  state,     \* lifecycle state of each Episode; "none" before it exists
  members,   \* canonical Events associated with each Episode
  deadline   \* greatest minimum deadline contributed so far

vars == <<clock, grace, state, members, deadline>>

EpisodeState == {"none", "active", "quiescent", "finalizing", "closed"}
OpenStates   == {"active", "quiescent"}

TypeOK ==
  /\ clock \in Nat
  /\ grace \in Nat
  /\ state \in [Episodes -> EpisodeState]
  /\ members \in [Episodes -> SUBSET Events]
  /\ deadline \in [Episodes -> Nat]

Init ==
  /\ clock \in Nat
  /\ grace \in Nat
  /\ state = [ep \in Episodes |-> "none"]
  /\ members = [ep \in Episodes |-> {}]
  /\ deadline = [ep \in Episodes |-> 0]

Open(ep) ==
  /\ state[ep] = "none"
  /\ state' = [state EXCEPT ![ep] = "active"]
  /\ deadline'[ep] \in Nat
  /\ deadline' = [deadline EXCEPT ![ep] = deadline'[ep]]
  /\ UNCHANGED <<clock, grace, members>>

Join(ep, e) ==
  /\ state[ep] \in OpenStates
  /\ \A other \in Episodes : e \notin members[other]
  /\ members' = [members EXCEPT ![ep] = @ \union {e}]
  /\ UNCHANGED <<clock, grace, state, deadline>>

Extend(ep) ==
  /\ state[ep] \in OpenStates
  /\ deadline'[ep] \in Nat /\ deadline'[ep] >= deadline[ep]
  /\ deadline' = [deadline EXCEPT ![ep] = deadline'[ep]]
  /\ UNCHANGED <<clock, grace, state, members>>

Resume(ep) ==
  /\ state[ep] = "quiescent"
  /\ state' = [state EXCEPT ![ep] = "active"]
  /\ UNCHANGED <<clock, grace, members, deadline>>

(***************************************************************************)
(* One lifecycle pass may move any number of Episodes: into quiescence     *)
(* once the deadline has passed, into finalization once the grace has too. *)
(***************************************************************************)
Expires(ep, next) ==
  \/ next = state[ep]
  \/ state[ep] = "active" /\ next = "quiescent" /\ deadline[ep] <= clock
  \/ state[ep] \in OpenStates /\ next = "finalizing" /\ deadline[ep] + grace < clock

Expire ==
  /\ state' \in [Episodes -> EpisodeState]
  /\ \A ep \in Episodes : Expires(ep, state'[ep])
  /\ UNCHANGED <<clock, grace, members, deadline>>

Close(ep) ==
  /\ state[ep] = "finalizing"
  /\ state' = [state EXCEPT ![ep] = "closed"]
  /\ UNCHANGED <<clock, grace, members, deadline>>

Tick ==
  /\ clock' = clock + 1
  /\ UNCHANGED <<grace, state, members, deadline>>

SetGrace ==
  /\ grace' \in Nat
  /\ UNCHANGED <<clock, state, members, deadline>>

Next ==
  \/ \E ep \in Episodes :
        Open(ep) \/ Extend(ep) \/ Resume(ep) \/ Close(ep) \/ \E e \in Events : Join(ep, e)
  \/ Expire
  \/ Tick
  \/ SetGrace

Spec == Init /\ [][Next]_vars
=============================================================================
