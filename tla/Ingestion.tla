------------------------------ MODULE Ingestion ------------------------------
(***************************************************************************)
(* The raw-first boundary: a delivery is filed, its artifact and receipt   *)
(* are committed, the handlers of the plugins interpret it, and what they  *)
(* claim becomes an Event, Evidence or nothing, and the receipt's status.  *)
(* Handlers come and go with their plugins, and the Device a delivery is   *)
(* about is edited, while deliveries are on their way.                     *)
(***************************************************************************)
EXTENDS Integers, FiniteSets

CONSTANTS Deliveries, Handlers, MaxCrashes

ReceiptStatus == {"accepted", "ignored", "rejected", "unmatched"}
DeviceStates  == {"ready", "needs_setup", "absent"}     \* absent: disabled, unknown, without an Area

\* What dispatch knows of a handler; a timeout is a failure.  A claim has the
\* status its handler gave it, and an observation or none (IngressHandlerResult).
Dispatched(state) == [state |-> state, observation |-> "none", status |-> "accepted"]
Claims  == [state : {"claimed"}, observation : {"none", "event", "evidence"}, status : ReceiptStatus]
Settled == Claims \union {Dispatched("failed"), Dispatched("unmatched"), Dispatched("observed")}

VARIABLES
  registered,     \* handlers in the router
  device,         \* the Device the deliveries resolve to, as the inventory has it
  listening,      \* the FTP connector runs
  stage,          \* where each delivery is
  outcome,        \* per delivery and handler, what _invoke returns
  receipt,        \* status of the receipt row; "none" before persist_delivery
  answer,         \* the status _interpret is about to write
  ingested,       \* deliveries whose receipt is linked to an Event or Evidence
  crashes

Stages == {"none", "uploaded", "filed", "routing", "handling", "claimed", "ingest", "status",
           "done", "refused", "stranded"}

ingestVars == <<registered, device, listening, stage, outcome, receipt, answer, ingested, crashes>>
world      == <<registered, device, listening, crashes>>
results    == <<receipt, answer, ingested>>

Init ==
  /\ registered = Handlers /\ device = "ready" /\ listening = TRUE /\ crashes = 0
  /\ stage = [d \in Deliveries |-> "none"]
  /\ outcome = [d \in Deliveries |-> [h \in Handlers |-> Dispatched("unmatched")]]
  /\ receipt = [d \in Deliveries |-> "none"] /\ answer = [d \in Deliveries |-> "none"]
  /\ ingested = {}

-----------------------------------------------------------------------------
(***************************************************************************)
(* What happens around deliveries.                                         *)
(***************************************************************************)
Register(h) ==
  /\ registered' = registered \union {h}
  /\ UNCHANGED <<device, listening, crashes, stage, outcome, results>>

Unregister(h) ==
  /\ registered' = registered \ {h}
  /\ UNCHANGED <<device, listening, crashes, stage, outcome, results>>

EditDevice(s) ==
  /\ device' = s
  /\ UNCHANGED <<registered, listening, crashes, stage, outcome, results>>

\* FTPConnector.stop: tasks that run are awaited, uploads no task was made for are not.
StopListening ==
  /\ listening' = FALSE
  /\ UNCHANGED <<registered, device, crashes, stage, outcome, results>>

-----------------------------------------------------------------------------
(***************************************************************************)
(* accept and accept_file: the bytes first, then artifact and receipt in   *)
(* one transaction, then the handlers.                                     *)
(***************************************************************************)
Goto(d, s) == stage' = [stage EXCEPT ![d] = s]

\* A request or a plugin's callback: the payload is written below orphans/ingress.
Submit(d) ==
  /\ stage[d] = "none"
  /\ Goto(d, "filed")
  /\ UNCHANGED <<world, outcome, results>>

Upload(d) ==
  /\ stage[d] = "none" /\ listening
  /\ Goto(d, "uploaded")
  /\ UNCHANGED <<world, outcome, results>>

\* The server's thread hands the file to the loop; after stop it returns silently.
ScheduleIngest(d) ==
  /\ stage[d] = "uploaded"
  /\ Goto(d, IF listening THEN "filed" ELSE "stranded")
  /\ UNCHANGED <<world, outcome, results>>

PersistDelivery(d) ==
  /\ stage[d] = "filed"
  /\ receipt' = [receipt EXCEPT ![d] = "accepted"]
  /\ Goto(d, "routing")
  /\ UNCHANGED <<world, outcome, answer, ingested>>

\* The transaction is rolled back and the caller is answered 503.
PersistFails(d) ==
  /\ stage[d] = "filed"
  /\ Goto(d, "refused")
  /\ UNCHANGED <<world, outcome, results>>

\* dispatch: the matchers run in one go; a matcher that raises counts as failed.
Dispatch(d) ==
  /\ stage[d] = "routing"
  /\ \E matched \in SUBSET registered : \E broken \in SUBSET (registered \ matched) :
       /\ outcome' = [outcome EXCEPT ![d] = [h \in Handlers |->
                        Dispatched(CASE h \in matched -> "scheduled"
                                     [] h \in broken  -> "failed"
                                     [] OTHER         -> "unmatched")]]
       /\ Goto(d, IF matched = {} THEN "claimed" ELSE "handling")
  /\ UNCHANGED <<world, results>>

\* _invoke reads the metrics of its registration before its try block.
Invoke(d, h) ==
  /\ stage[d] = "handling" /\ outcome[d][h] = Dispatched("scheduled")
  /\ IF h \in registered
     THEN outcome' = [outcome EXCEPT ![d][h] = Dispatched("running")] /\ UNCHANGED stage
     ELSE Goto(d, "refused") /\ UNCHANGED outcome
  /\ UNCHANGED <<world, results>>

\* The handler returns, raises, or is cancelled at its timeout.
HandlerReturns(d, h) ==
  /\ stage[d] = "handling" /\ outcome[d][h] = Dispatched("running")
  /\ \E o \in Settled \ {Dispatched("unmatched")} : outcome' = [outcome EXCEPT ![d][h] = o]
  /\ UNCHANGED <<world, stage, results>>

Gathered(d) ==
  /\ stage[d] = "handling" /\ \A h \in Handlers : outcome[d][h] \in Settled
  /\ Goto(d, "claimed")
  /\ UNCHANGED <<world, outcome, results>>

-----------------------------------------------------------------------------
(***************************************************************************)
(* _interpret, once every handler is done.                                 *)
(***************************************************************************)
Claiming(d) == {h \in Handlers : outcome[d][h].state = "claimed"}
Failed(d)   == {h \in Handlers : outcome[d][h].state = "failed"}
TheClaim(d) == outcome[d][CHOOSE h \in Claiming(d) : TRUE]

FaultyInterpretable(d) == Claiming(d) # {} /\ TheClaim(d).observation # "none"

\* A delivery two handlers claim is interpreted by neither.
Interpretable(d) == Cardinality(Claiming(d)) = 1 /\ TheClaim(d).observation # "none"

\* The handler's own status, or the one the receipt was persisted with.
OwnStatus(d) == IF Cardinality(Claiming(d)) = 1 THEN TheClaim(d).status ELSE "accepted"

\* The status before the observation is looked at; a failed handler beats a claim.
StatusOfClaims(d) ==
  IF Cardinality(Claiming(d)) > 1 \/ Failed(d) # {} THEN "rejected" ELSE OwnStatus(d)

Interpret(d) ==
  /\ stage[d] = "claimed"
  /\ IF ~Interpretable(d) \/ device = "ready"
     THEN answer' = [answer EXCEPT ![d] = StatusOfClaims(d)]
     ELSE answer' = [answer EXCEPT ![d] = "unmatched"]
  /\ Goto(d, IF Interpretable(d) /\ device = "ready" THEN "ingest" ELSE "status")
  /\ UNCHANGED <<world, outcome, receipt, ingested>>

\* ingest_event and ingest_evidence look at the Device once more; a draft gets
\* an UNMATCHED receipt and DeviceNeedsSetupError.
RefuseDraft(d) ==
  /\ stage[d] = "ingest" /\ device = "needs_setup"
  /\ receipt' = [receipt EXCEPT ![d] = "unmatched"]
  /\ answer' = [answer EXCEPT ![d] = "unmatched"]
  /\ Goto(d, "status")
  /\ UNCHANGED <<world, outcome, ingested>>

Ingest(d) ==
  /\ stage[d] = "ingest" /\ device # "needs_setup"
  /\ ingested' = ingested \union {d}
  /\ Goto(d, "status")
  /\ UNCHANGED <<world, outcome, receipt, answer>>

\* An Event whose key names another observation.
Conflict(d) ==
  /\ stage[d] = "ingest" /\ device # "needs_setup" /\ TheClaim(d).observation = "event"
  /\ answer' = [answer EXCEPT ![d] = "rejected"]
  /\ Goto(d, "status")
  /\ UNCHANGED <<world, outcome, receipt, ingested>>

\* Any other exception of the engine, before or after it linked the receipt,
\* reaches the connector, which answers 503.
EngineFails(d) ==
  /\ stage[d] = "ingest"
  /\ ingested' \in {ingested, ingested \union {d}}
  /\ Goto(d, "refused")
  /\ UNCHANGED <<world, outcome, receipt, answer>>

\* So do the payload that cannot be read back, and a query or the last update that fails.
InterpretFails(d) ==
  /\ stage[d] \in {"routing", "claimed", "status"}
  /\ Goto(d, "refused")
  /\ UNCHANGED <<world, outcome, results>>

UpdateReceipt(d) ==
  /\ stage[d] = "status"
  /\ receipt' = [receipt EXCEPT ![d] = answer[d]]
  /\ Goto(d, "done")
  /\ UNCHANGED <<world, outcome, answer, ingested>>

\* Deliveries on their way end where they are; nothing takes them up again.
Crash ==
  /\ crashes < MaxCrashes
  /\ crashes' = crashes + 1 /\ listening' = TRUE
  /\ stage' = [d \in Deliveries |-> IF stage[d] \in {"none", "done"} THEN stage[d]
                                    ELSE IF stage[d] = "uploaded" THEN "stranded" ELSE "refused"]
  /\ UNCHANGED <<registered, device, outcome, results>>

Step(d) ==
  \/ ScheduleIngest(d) \/ PersistDelivery(d) \/ PersistFails(d) \/ Dispatch(d) \/ Gathered(d)
  \/ Interpret(d) \/ RefuseDraft(d) \/ Ingest(d) \/ Conflict(d) \/ EngineFails(d)
  \/ InterpretFails(d) \/ UpdateReceipt(d)
  \/ \E h \in Handlers : Invoke(d, h) \/ HandlerReturns(d, h)

Next ==
  \/ \E d \in Deliveries : Submit(d) \/ Upload(d) \/ Step(d)
  \/ \E h \in Handlers : Register(h) \/ Unregister(h)
  \/ \E s \in DeviceStates : EditDevice(s)
  \/ StopListening \/ Crash

Spec == Init /\ [][Next]_ingestVars

-----------------------------------------------------------------------------
\* What an answered receipt says is what happened, although the Device and the
\* handlers change meanwhile (_interpret).  Something is made only of the
\* observation of the one handler that claimed; two claims are REJECTED.  An
\* ACCEPTED or IGNORED receipt has the status of that handler, none failed, and
\* an observation it claimed exists.  An UNMATCHED or REJECTED one has created
\* something only when the handler said so itself or, if REJECTED, another failed.
Tells(d, status) ==
  /\ d \in ingested => Cardinality(Claiming(d)) = 1 /\ TheClaim(d).observation # "none"
  /\ Cardinality(Claiming(d)) > 1 => status = "rejected"
  /\ status \in {"accepted", "ignored"} =>
       status = OwnStatus(d) /\ Failed(d) = {} /\ (Interpretable(d) => d \in ingested)
  /\ d \in ingested => status = OwnStatus(d) \/ (status = "rejected" /\ Failed(d) # {})
  /\ Claiming(d) = {} => status \in {"accepted", "rejected"}

ReceiptTellsOutcome == \A d \in Deliveries : stage[d] = "done" => Tells(d, receipt[d])
=============================================================================
