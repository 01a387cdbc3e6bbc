--------------------------- MODULE IngestionProofs ---------------------------
(***************************************************************************)
(* A receipt tells what happened to its delivery, for any number of        *)
(* deliveries, handlers and crashes, finite or not.                        *)
(*                                                                         *)
(* ReceiptTellsOutcome speaks of deliveries that are done.  What it says   *)
(* is decided earlier, in _interpret, and must survive the awaits until    *)
(* the status is written: Journey carries it along.                        *)
(***************************************************************************)
EXTENDS Ingestion, FiniteSetTheorems, TLAPS

Statuses == ReceiptStatus \union {"none"}
Outcomes == Settled \union {Dispatched("scheduled"), Dispatched("running")}

TypeInv ==
  /\ stage \in [Deliveries -> Stages]
  /\ outcome \in [Deliveries -> [Handlers -> Outcomes]]
  /\ receipt \in [Deliveries -> Statuses]
  /\ answer \in [Deliveries -> Statuses]
  /\ ingested \subseteq Deliveries

Untouched == {"none", "uploaded", "filed", "routing", "handling", "claimed", "ingest"}

Journey(d) ==
  /\ stage[d] \in Untouched => d \notin ingested
  /\ stage[d] = "ingest" => Interpretable(d) /\ answer[d] = StatusOfClaims(d)
  /\ stage[d] = "status" => Tells(d, answer[d])
  /\ stage[d] = "done" => Tells(d, receipt[d])

IndInv == TypeInv /\ \A d \in Deliveries : Journey(d)

-----------------------------------------------------------------------------
(***************************************************************************)
(* Nothing has been delivered when the process starts.                     *)
(***************************************************************************)
LEMMA InitInv == Init => IndInv
BY DEF Init, IndInv, TypeInv, Journey, Untouched, Stages, Statuses, Outcomes, Settled

(***************************************************************************)
(* The claims on a delivery are a matter of its handlers' outcomes alone.  *)
(***************************************************************************)
LEMMA SameOutcome ==
  ASSUME NEW d \in Deliveries, outcome'[d] = outcome[d]
  PROVE  /\ Claiming(d)' = Claiming(d) /\ Failed(d)' = Failed(d)
         /\ TheClaim(d)' = TheClaim(d) /\ Interpretable(d)' = Interpretable(d)
         /\ OwnStatus(d)' = OwnStatus(d) /\ StatusOfClaims(d)' = StatusOfClaims(d)
<1>1. Claiming(d)' = Claiming(d) /\ Failed(d)' = Failed(d) BY DEF Claiming, Failed
<1>2. TheClaim(d)' = TheClaim(d) BY <1>1 DEF TheClaim
<1> QED BY <1>1, <1>2 DEF Interpretable, OwnStatus, StatusOfClaims

(***************************************************************************)
(* The status of the one handler that claimed is a status of a receipt.    *)
(***************************************************************************)
LEMMA ClaimType ==
  ASSUME TypeInv, NEW d \in Deliveries, Cardinality(Claiming(d)) = 1
  PROVE  Claiming(d) # {} /\ TheClaim(d) \in Claims
<1>1. Claiming(d) # {} BY FS_EmptySet
<1> DEFINE h == CHOOSE x \in Claiming(d) : TRUE
<1>2. h \in Handlers /\ outcome[d][h].state = "claimed" BY <1>1 DEF Claiming
<1>3. outcome[d][h] \in Outcomes BY <1>2 DEF TypeInv
<1>4. outcome[d][h] \in Claims BY <1>2, <1>3 DEF Outcomes, Settled, Dispatched
<1> QED BY <1>1, <1>4 DEF TheClaim

LEMMA StatusType ==
  ASSUME TypeInv, NEW d \in Deliveries
  PROVE  OwnStatus(d) \in ReceiptStatus /\ StatusOfClaims(d) \in ReceiptStatus
<1>1. CASE Cardinality(Claiming(d)) = 1
  <2>1. TheClaim(d).status \in ReceiptStatus BY <1>1, ClaimType DEF Claims
  <2> QED BY <1>1, <2>1 DEF OwnStatus, StatusOfClaims, ReceiptStatus
<1>2. CASE Cardinality(Claiming(d)) # 1
  BY <1>2 DEF OwnStatus, StatusOfClaims, ReceiptStatus
<1> QED BY <1>1, <1>2

(***************************************************************************)
(* A delivery no step touches keeps what is known of it.                   *)
(***************************************************************************)
LEMMA Frame ==
  ASSUME NEW d \in Deliveries, Journey(d),
         stage'[d] = stage[d], outcome'[d] = outcome[d], receipt'[d] = receipt[d],
         answer'[d] = answer[d], d \in ingested' <=> d \in ingested
  PROVE  Journey(d)'
BY SameOutcome DEF Journey, Tells

(***************************************************************************)
(* What _interpret decides is true of a delivery nothing was made of, when *)
(* the delivery cannot be interpreted.                                     *)
(***************************************************************************)
LEMMA NotInterpreted ==
  ASSUME NEW d \in Deliveries, ~Interpretable(d), d \notin ingested
  PROVE  Tells(d, StatusOfClaims(d))
<1>1. CASE Claiming(d) = {}
  <2>1. Cardinality(Claiming(d)) = 0 BY <1>1, FS_EmptySet
  <2> QED BY <1>1, <2>1 DEF Tells, StatusOfClaims, OwnStatus
<1>2. CASE Claiming(d) # {}
  BY <1>2 DEF Tells, StatusOfClaims
<1> QED BY <1>1, <1>2

(***************************************************************************)
(* And of an interpretable one, once its Event or Evidence is there.       *)
(***************************************************************************)
LEMMA Interpreted ==
  ASSUME NEW d \in Deliveries, Interpretable(d), d \in ingested
  PROVE  Tells(d, StatusOfClaims(d))
<1>1. Cardinality(Claiming(d)) = 1 /\ Claiming(d) # {} /\ TheClaim(d).observation # "none"
  BY FS_EmptySet DEF Interpretable
<1> QED BY <1>1 DEF Tells, StatusOfClaims

-----------------------------------------------------------------------------
\* A step of the delivery d leaves what belongs to the others.
Only(d) ==
  \A x \in Deliveries \ {d} :
    /\ stage'[x] = stage[x] /\ outcome'[x] = outcome[x] /\ receipt'[x] = receipt[x]
    /\ answer'[x] = answer[x] /\ (x \in ingested' <=> x \in ingested)

(***************************************************************************)
(* A step of one delivery is looked at for that delivery only.             *)
(***************************************************************************)
LEMMA OneDelivery ==
  ASSUME IndInv, NEW d \in Deliveries, TypeInv', Only(d), Journey(d)'
  PROVE  IndInv'
<1>1. ASSUME NEW x \in Deliveries PROVE Journey(x)'
  <2>1. CASE x = d BY <2>1
  <2>2. CASE x # d BY <2>2, Frame DEF IndInv, Only
  <2> QED BY <2>1, <2>2
<1> QED BY <1>1 DEF IndInv

(***************************************************************************)
(* Deliveries come in, are filed and persisted: nothing is made of them.   *)
(***************************************************************************)
LEMMA ArrivalInv ==
  ASSUME IndInv, NEW d \in Deliveries,
         \/ Submit(d) \/ Upload(d) \/ ScheduleIngest(d) \/ PersistDelivery(d) \/ PersistFails(d)
  PROVE  IndInv'
<1> USE DEF Submit, Upload, ScheduleIngest, PersistDelivery, PersistFails, Goto, world, results
<1>1. TypeInv' BY DEF IndInv, TypeInv, Stages, Statuses, ReceiptStatus
<1>2. Only(d) BY DEF IndInv, TypeInv, Only
<1>3. Journey(d)' BY DEF IndInv, TypeInv, Journey, Untouched
<1> QED BY <1>1, <1>2, <1>3, OneDelivery

(***************************************************************************)
(* Handlers are chosen, called and come back.                              *)
(***************************************************************************)
LEMMA HandlingInv ==
  ASSUME IndInv, NEW d \in Deliveries,
         \/ Dispatch(d) \/ Gathered(d)
         \/ \E h \in Handlers : Invoke(d, h) \/ HandlerReturns(d, h)
  PROVE  IndInv'
<1>1. CASE Dispatch(d)
  <2>1. TypeInv' BY <1>1 DEF Dispatch, Goto, world, results, IndInv, TypeInv, Stages, Outcomes, Settled
  <2>2. Only(d) BY <1>1 DEF Dispatch, Goto, world, results, IndInv, TypeInv, Only
  <2>3. Journey(d)' BY <1>1 DEF Dispatch, Goto, world, results, IndInv, TypeInv, Journey, Untouched
  <2> QED BY <2>1, <2>2, <2>3, OneDelivery
<1>2. CASE Gathered(d)
  <2>1. TypeInv' BY <1>2 DEF Gathered, Goto, world, results, IndInv, TypeInv, Stages
  <2>2. Only(d) BY <1>2 DEF Gathered, Goto, world, results, IndInv, TypeInv, Only
  <2>3. Journey(d)' BY <1>2 DEF Gathered, Goto, world, results, IndInv, TypeInv, Journey, Untouched
  <2> QED BY <2>1, <2>2, <2>3, OneDelivery
<1>3. ASSUME NEW h \in Handlers, Invoke(d, h) PROVE IndInv'
  <2>1. TypeInv'
    <3>1. CASE h \in registered
      <4>1. outcome \in [Deliveries -> [Handlers -> Outcomes]] BY DEF IndInv, TypeInv
      <4> DEFINE running == Dispatched("running")
      <4>2. running \in Outcomes BY DEF Outcomes
      <4>3. outcome' = [outcome EXCEPT ![d][h] = running] BY <1>3, <3>1 DEF Invoke
      <4> HIDE DEF running
      <4>4. [outcome[d] EXCEPT ![h] = running] \in [Handlers -> Outcomes] BY <4>1, <4>2
      <4>5. outcome' \in [Deliveries -> [Handlers -> Outcomes]] BY <4>1, <4>3, <4>4
      <4>6. /\ stage' = stage /\ receipt' = receipt /\ answer' = answer
            /\ ingested' = ingested
        BY <1>3, <3>1 DEF Invoke, results
      <4> QED BY <4>5, <4>6 DEF IndInv, TypeInv
    <3>2. CASE h \notin registered
      BY <1>3, <3>2 DEF Invoke, Goto, world, results, IndInv, TypeInv, Stages
    <3> QED BY <3>1, <3>2
  <2>2. Only(d) BY <1>3 DEF Invoke, Goto, world, results, IndInv, TypeInv, Only
  <2>3. Journey(d)' BY <1>3 DEF Invoke, Goto, world, results, IndInv, TypeInv, Journey, Untouched
  <2> QED BY <2>1, <2>2, <2>3, OneDelivery
<1>4. ASSUME NEW h \in Handlers, HandlerReturns(d, h) PROVE IndInv'
  <2>1. TypeInv'
    <3>1. PICK o \in Settled : outcome' = [outcome EXCEPT ![d][h] = o] BY <1>4 DEF HandlerReturns
    <3>2. o \in Outcomes BY DEF Outcomes
    <3>3. outcome \in [Deliveries -> [Handlers -> Outcomes]] BY DEF IndInv, TypeInv
    <3>4. outcome' \in [Deliveries -> [Handlers -> Outcomes]] BY ONLY <3>1, <3>2, <3>3
    <3> QED BY <1>4, <3>4 DEF HandlerReturns, world, results, IndInv, TypeInv
  <2>2. Only(d) BY <1>4 DEF HandlerReturns, world, results, IndInv, TypeInv, Only
  <2>3. Journey(d)' BY <1>4 DEF HandlerReturns, world, results, IndInv, TypeInv, Journey, Untouched
  <2> QED BY <2>1, <2>2, <2>3, OneDelivery
<1> QED BY <1>1, <1>2, <1>3, <1>4

(***************************************************************************)
(* _interpret decides the status, and whether anything is made of it.      *)
(***************************************************************************)
LEMMA InterpretInv ==
  ASSUME IndInv, NEW d \in Deliveries, Interpret(d)
  PROVE  IndInv'
<1> USE DEF Interpret, Goto, world
<1>1. StatusOfClaims(d) \in ReceiptStatus BY StatusType DEF IndInv
<1>2. TypeInv' BY <1>1 DEF IndInv, TypeInv, Stages, Statuses, ReceiptStatus
<1>3. Only(d) BY DEF IndInv, TypeInv, Only
<1>4. d \notin ingested /\ d \notin ingested' BY DEF IndInv, Journey, Untouched
<1>5. Journey(d)'
  <2>1. CASE ~Interpretable(d)
    <3>1. stage'[d] = "status" /\ answer'[d] = StatusOfClaims(d) BY <2>1 DEF IndInv, TypeInv
    <3>2. Tells(d, StatusOfClaims(d)) BY <2>1, <1>4, NotInterpreted
    <3> QED BY <3>1, <3>2, SameOutcome DEF Journey, Tells, Untouched
  <2>2. CASE Interpretable(d) /\ device = "ready"
    <3>1. stage'[d] = "ingest" /\ answer'[d] = StatusOfClaims(d) BY <2>2 DEF IndInv, TypeInv
    <3> QED BY <3>1, <2>2, <1>4, SameOutcome DEF Journey, Untouched
  <2>3. CASE Interpretable(d) /\ device # "ready"
    <3>1. stage'[d] = "status" /\ answer'[d] = "unmatched" BY <2>3 DEF IndInv, TypeInv
    <3>2. Cardinality(Claiming(d)) = 1 /\ Claiming(d) # {} BY <2>3, FS_EmptySet DEF Interpretable
    <3> QED BY <3>1, <3>2, <1>4, SameOutcome DEF Journey, Tells, Untouched
  <2> QED BY <2>1, <2>2, <2>3
<1> QED BY <1>2, <1>3, <1>5, OneDelivery

(***************************************************************************)
(* The engine takes the observation, refuses it, or fails.                 *)
(***************************************************************************)
LEMMA IngestInv ==
  ASSUME IndInv, NEW d \in Deliveries,
         RefuseDraft(d) \/ Ingest(d) \/ Conflict(d) \/ EngineFails(d)
  PROVE  IndInv'
<1> USE DEF RefuseDraft, Ingest, Conflict, EngineFails, Goto, world
<1>1. TypeInv' BY DEF IndInv, TypeInv, Stages, Statuses, ReceiptStatus
<1>2. Only(d) BY DEF IndInv, TypeInv, Only
<1>3. /\ stage[d] = "ingest" /\ d \notin ingested
      /\ Interpretable(d) /\ answer[d] = StatusOfClaims(d) /\ outcome'[d] = outcome[d]
  BY DEF IndInv, Journey, Untouched
<1>4. Cardinality(Claiming(d)) = 1 /\ Claiming(d) # {} BY <1>3, FS_EmptySet DEF Interpretable
<1>5. Journey(d)'
  <2>1. CASE RefuseDraft(d)
    <3>1. stage'[d] = "status" /\ answer'[d] = "unmatched" /\ ingested' = ingested
      BY <2>1 DEF IndInv, TypeInv
    <3> QED BY <3>1, <1>3, <1>4, SameOutcome DEF Journey, Tells, Untouched
  <2>2. CASE Ingest(d)
    <3>1. stage'[d] = "status" /\ answer'[d] = answer[d] /\ d \in ingested'
      BY <2>2 DEF IndInv, TypeInv
    <3>2. Tells(d, answer[d])'
      BY <3>1, <1>3, <1>4, SameOutcome DEF Tells, StatusOfClaims, Interpretable
    <3> QED BY <3>1, <3>2 DEF Journey, Untouched
  <2>3. CASE Conflict(d)
    <3>1. stage'[d] = "status" /\ answer'[d] = "rejected" /\ ingested' = ingested
      BY <2>3 DEF IndInv, TypeInv
    <3> QED BY <3>1, <1>3, <1>4, SameOutcome DEF Journey, Tells, Untouched
  <2>4. CASE EngineFails(d)
    <3>1. stage'[d] = "refused" BY <2>4 DEF IndInv, TypeInv
    <3> QED BY <3>1 DEF Journey, Untouched
  <2> QED BY <2>1, <2>2, <2>3, <2>4
<1> QED BY <1>1, <1>2, <1>5, OneDelivery

(***************************************************************************)
(* The status is written as it was decided, or the delivery is refused.    *)
(***************************************************************************)
LEMMA UpdateReceiptInv ==
  ASSUME IndInv, NEW d \in Deliveries, UpdateReceipt(d) \/ InterpretFails(d)
  PROVE  IndInv'
<1> USE DEF UpdateReceipt, InterpretFails, Goto, world, results
<1>1. TypeInv' BY DEF IndInv, TypeInv, Stages, Statuses, ReceiptStatus
<1>2. Only(d) BY DEF IndInv, TypeInv, Only
<1>3. \/ stage'[d] = "done" /\ receipt'[d] = answer[d] /\ Tells(d, answer[d])
      \/ stage'[d] = "refused"
  BY DEF IndInv, TypeInv, Journey
<1>4. Journey(d)' BY <1>3, SameOutcome DEF Journey, Tells, Untouched
<1> QED BY <1>1, <1>2, <1>4, OneDelivery

(***************************************************************************)
(* Handlers come and go, Devices are edited, the connector stops, and the  *)
(* process crashes: deliveries under way end, those done stay as they are. *)
(***************************************************************************)
LEMMA WorldInv ==
  ASSUME IndInv,
         \/ \E h \in Handlers : Register(h) \/ Unregister(h)
         \/ \E s \in DeviceStates : EditDevice(s)
         \/ StopListening \/ Crash \/ UNCHANGED ingestVars
  PROVE  IndInv'
<1>1. CASE Crash
  <2>1. TypeInv' BY <1>1 DEF Crash, results, IndInv, TypeInv, Stages
  <2>2. ASSUME NEW d \in Deliveries PROVE Journey(d)'
    <3>1. stage'[d] = stage[d] \/ stage'[d] \in {"stranded", "refused"} BY <1>1 DEF Crash
    <3>2. CASE stage'[d] = stage[d] BY <1>1, <3>2, Frame DEF Crash, results, IndInv
    <3>3. CASE stage'[d] \in {"stranded", "refused"} BY <3>3 DEF Journey, Untouched
    <3> QED BY <3>1, <3>2, <3>3
  <2> QED BY <2>1, <2>2 DEF IndInv
<1>2. CASE ~Crash
  <2>1. UNCHANGED <<stage, outcome, receipt, answer, ingested>>
    BY <1>2 DEF Register, Unregister, EditDevice, StopListening, results, ingestVars
  <2>2. TypeInv' BY <2>1 DEF IndInv, TypeInv
  <2>3. ASSUME NEW d \in Deliveries PROVE Journey(d)' BY <2>1, Frame DEF IndInv
  <2> QED BY <2>2, <2>3 DEF IndInv
<1> QED BY <1>1, <1>2

-----------------------------------------------------------------------------
(***************************************************************************)
(* The invariant holds in every state the boundary can reach.              *)
(***************************************************************************)
THEOREM Invariance == Spec => []IndInv
<1>1. Init => IndInv BY InitInv
<1>2. IndInv /\ [Next]_ingestVars => IndInv'
  <2> SUFFICES ASSUME IndInv, [Next]_ingestVars PROVE IndInv' OBVIOUS
  <2>1. CASE \E d \in Deliveries : Submit(d) \/ Upload(d) \/ Step(d)
    BY <2>1, ArrivalInv, HandlingInv, InterpretInv, IngestInv, UpdateReceiptInv DEF Step
  <2>2. CASE ~\E d \in Deliveries : Submit(d) \/ Upload(d) \/ Step(d)
    BY <2>2, WorldInv DEF Next
  <2> QED BY <2>1, <2>2
<1> QED BY <1>1, <1>2, PTL DEF Spec

(***************************************************************************)
(* An answered receipt says what was made of its delivery, whatever        *)
(* handlers and Devices do meanwhile and however often the process stops.  *)
(***************************************************************************)
THEOREM ReceiptsTellOutcomes == Spec => []ReceiptTellsOutcome
<1>1. IndInv => ReceiptTellsOutcome BY DEF IndInv, Journey, Tells, ReceiptTellsOutcome
<1> QED BY <1>1, Invariance, PTL
=============================================================================
