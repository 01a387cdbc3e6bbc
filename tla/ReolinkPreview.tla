---------------------------- MODULE ReolinkPreview ----------------------------
(***************************************************************************)
(* Native live video of one Reolink camera: packets sliced over frames of  *)
(* the control connection, reassembled by a walker, and handed to the      *)
(* recorder.  Priming passes and recordings take turns under a lock, but   *)
(* the frames of one burst may still arrive when the next has begun, and a *)
(* full queue drops frames.                                                *)
(*   A packet is three cells: its header, its payload and its padding.     *)
(***************************************************************************)
EXTENDS Naturals, Sequences

CONSTANTS
  FrameQueueSize,  \* frames the dispatcher buffers for a capture, and units for the recorder (96)
  MaxMedia,        \* packets after which a priming pass is full (max_bytes)
  MaxPackets,      \* bounds what the camera sends
  MaxWire,         \* bounds frames under way
  MaxBursts,       \* bounds captures
  MaxLinkFaults    \* bounds lost connections

Captures == {"prime", "record"}

VARIABLES
  streaming,       \* the camera sends a burst, since a cmdId=3 and until a cmdId=6 with its handle
  packets,         \* how many packets it has begun
  unsent,          \* cells of the packet it is sending
  opening,         \* the next packet is the first of its burst: an I-frame
  orders,          \* commands under way to the camera
  wire,            \* frames under way to the client
  lock,            \* who holds _preview_lock
  stage,           \* of each capture
  registered,      \* the capture whose queue is among the dispatcher's waiters
  inbox,           \* that queue
  droppedFrames,   \* the dispatcher's, during the capture
  buffer,          \* the walker's
  framed,          \* kinds of the packets the walker has reported
  units,           \* the recorder's queue
  consumer,        \* the task that drains it
  delivered,       \* what it has pushed to the recorder, in this recording
  bursts, linkFaults

cameraVars  == <<streaming, packets, unsent, opening, orders>>
readerVars  == <<registered, inbox, droppedFrames, buffer, framed>>
outputVars  == <<units, consumer, delivered>>
previewVars == <<cameraVars, wire, lock, stage, readerVars, outputVars, bursts, linkFaults>>

Init ==
  /\ streaming = FALSE /\ packets = 0 /\ unsent = <<>> /\ opening = FALSE /\ orders = <<>>
  /\ wire = <<>> /\ lock = "none" /\ stage = [c \in Captures |-> "idle"]
  /\ registered = "none" /\ inbox = <<>> /\ droppedFrames = 0 /\ buffer = <<>> /\ framed = <<>>
  /\ units = <<>> /\ consumer = "none" /\ delivered = <<>> /\ bursts = 0 /\ linkFaults = 0

-----------------------------------------------------------------------------
(***************************************************************************)
(* The camera (external).  The first frame of a packet begins with         *)
(* encryptLen ciphered bytes; those that continue it are in the clear.     *)
(***************************************************************************)
Cell(p, part, kind, clear) == [packet |-> p, part |-> part, kind |-> kind, clear |-> clear]

Rejection == [rejected |-> TRUE, start |-> FALSE, cells |-> <<>>]

Packet(p, kind) ==
  <<Cell(p, "head", kind, FALSE), Cell(p, "body", kind, TRUE), Cell(p, "pad", kind, TRUE)>>

Hear ==
  /\ orders # <<>> /\ orders' = Tail(orders)
  /\ \/ /\ Head(orders) = "preview" /\ streaming' = TRUE /\ opening' = TRUE
        /\ UNCHANGED wire
     \/ /\ Head(orders) = "preview" /\ Len(wire) < MaxWire
        /\ wire' = Append(wire, Rejection)
        /\ UNCHANGED <<streaming, opening>>
     \/ /\ Head(orders) = "stop" /\ streaming' = FALSE
        /\ UNCHANGED <<opening, wire>>
  /\ UNCHANGED <<packets, unsent, lock, stage, readerVars, outputVars, bursts, linkFaults>>

\* A packet is finished even when the burst is stopped meanwhile.
Send ==
  /\ Len(wire) < MaxWire
  /\ unsent # <<>> \/ (streaming /\ packets < MaxPackets)
  /\ LET start == unsent = <<>>
         cells == IF start THEN Packet(packets + 1, IF opening THEN "I" ELSE "P") ELSE unsent
     IN  /\ \E n \in 1..Len(cells) :
              /\ wire' = Append(wire, [rejected |-> FALSE, start |-> start,
                                       cells |-> SubSeq(cells, 1, n)])
              /\ unsent' = SubSeq(cells, n + 1, Len(cells))
         /\ packets' = IF start THEN packets + 1 ELSE packets
         /\ opening' = (opening /\ ~start)
  /\ UNCHANGED <<streaming, orders, lock, stage, readerVars, outputVars, bursts, linkFaults>>

-----------------------------------------------------------------------------
(***************************************************************************)
(* The dispatcher and the walker.                                          *)
(***************************************************************************)
\* Frames nobody waits for are passed over; a full queue drops, and counts.
Dispatch ==
  /\ wire # <<>> /\ wire' = Tail(wire)
  /\ IF registered = "none" THEN UNCHANGED <<inbox, droppedFrames>>
     ELSE IF Len(inbox) < FrameQueueSize
     THEN inbox' = Append(inbox, Head(wire)) /\ UNCHANGED droppedFrames
     ELSE droppedFrames' = droppedFrames + 1 /\ UNCHANGED inbox
  /\ UNCHANGED <<cameraVars, lock, stage, registered, buffer, framed, outputVars, bursts, linkFaults>>

\* Deciphering what was sent in the clear garbles it.
Decrypt(cells) == [cells EXCEPT ![1].clear = ~@]

FaultyMediaChunk(frame) == Decrypt(frame.cells)

\* media_chunk: only a media start has ciphered bytes.
MediaChunk(frame) == IF frame.start THEN Decrypt(frame.cells) ELSE frame.cells

IsMagic(cell) == cell.part = "head" /\ cell.clear

\* _resync: up to the next plausible magic.
Resync(cells) ==
  LET magics == {k \in 2..Len(cells) : IsMagic(cells[k])}
  IN  IF magics = {} THEN <<>>
      ELSE SubSeq(cells, CHOOSE k \in magics : \A m \in magics : k <= m, Len(cells))

\* push, after which the buffer holds at most one incomplete packet: the packets
\* taken and what is left.  A packet is its header's; its payload is what follows.
WalkOn(done) ==
  LET cells == done.left IN
  IF cells = <<>> THEN done
  ELSE IF ~IsMagic(cells[1]) THEN [done EXCEPT !.left = Resync(cells)]
  ELSE IF Len(cells) < 3 THEN done
  ELSE [left |-> SubSeq(cells, 4, Len(cells)),
        taken |-> Append(done.taken, [of |-> cells[1], payload |-> cells[2]])]

\* Every step that goes on leaves fewer cells, so there are no more steps than cells.
Walk(cells) ==
  LET walk[n \in 0 .. Len(cells)] ==
        IF n = 0 THEN [left |-> cells, taken |-> <<>>] ELSE WalkOn(walk[n - 1])
  IN  walk[Len(cells)]

\* _sink_annexb: what does not fit is dropped, and counted.
Enqueued(taken) ==
  LET all == units \o taken
  IN  IF Len(all) <= FrameQueueSize THEN all ELSE SubSeq(all, 1, FrameQueueSize)

Leave(c) ==
  /\ stage' = [stage EXCEPT ![c] = "stopping"]
  /\ registered' = "none" /\ inbox' = <<>>

\* One frame of the capture's queue.  A priming pass ends at its first keyframe.
Read(c) ==
  /\ stage[c] = "reading" /\ inbox # <<>>
  /\ LET frame  == Head(inbox)
         walk   == Walk(buffer \o MediaChunk(frame))
         kinds  == framed \o [k \in DOMAIN walk.taken |-> walk.taken[k].of.kind]
         enough == c = "prime" /\ (Len(kinds) > MaxMedia \/ \E k \in DOMAIN kinds : kinds[k] = "I")
     IN  IF frame = Rejection
         THEN Leave(c) /\ UNCHANGED <<buffer, framed, units>>
         ELSE /\ buffer' = walk.left
              /\ framed' = IF c = "prime" THEN kinds ELSE framed
              /\ units' = IF c = "record" THEN Enqueued(walk.taken) ELSE units
              /\ IF enough THEN Leave(c)
                 ELSE inbox' = Tail(inbox) /\ UNCHANGED <<stage, registered>>
  /\ UNCHANGED <<cameraVars, wire, lock, droppedFrames, consumer, delivered, bursts, linkFaults>>

-----------------------------------------------------------------------------
(***************************************************************************)
(* observe_preview_first_packet and stream_preview.                        *)
(***************************************************************************)
Begin(c) ==
  /\ stage[c] = "idle" /\ bursts < MaxBursts
  /\ stage' = [stage EXCEPT ![c] = "waiting"] /\ bursts' = bursts + 1
  /\ UNCHANGED <<cameraVars, wire, lock, readerVars, outputVars, linkFaults>>

\* The queue is registered before the request is sent.
Open(c) ==
  /\ stage[c] = "waiting" /\ lock = "none" /\ lock' = c
  /\ stage' = [stage EXCEPT ![c] = "reading"]
  /\ registered' = c /\ inbox' = <<>> /\ droppedFrames' = 0 /\ buffer' = <<>> /\ framed' = <<>>
  /\ orders' = Append(orders, "preview")
  /\ consumer' = IF c = "record" THEN "draining" ELSE consumer
  /\ UNCHANGED <<streaming, packets, unsent, opening, wire, units, delivered, bursts, linkFaults>>

\* The first frame, or any for a while, does not come; or the capture is cancelled.
EndRead(c) ==
  /\ stage[c] = "reading" /\ Leave(c)
  /\ UNCHANGED <<cameraVars, wire, lock, droppedFrames, buffer, framed, outputVars, bursts, linkFaults>>

CancelWait(c) ==
  /\ stage[c] = "waiting" /\ stage' = [stage EXCEPT ![c] = "idle"]
  /\ UNCHANGED <<cameraVars, wire, lock, readerVars, outputVars, bursts, linkFaults>>

\* The finally: cmdId=6 repeats the handle; a recording then waits for its consumer.
SendStop(c) ==
  /\ stage[c] = "stopping" /\ orders' = Append(orders, "stop")
  /\ IF c = "record" THEN stage' = [stage EXCEPT ![c] = "joining"] /\ UNCHANGED lock
                     ELSE stage' = [stage EXCEPT ![c] = "idle"] /\ lock' = "none"
  /\ UNCHANGED <<streaming, packets, unsent, opening, wire, readerVars, outputVars, bursts, linkFaults>>

Push ==
  /\ consumer = "draining" /\ units # <<>>
  /\ delivered' = Append(delivered, Head(units)) /\ units' = Tail(units)
  /\ UNCHANGED <<cameraVars, wire, lock, stage, readerVars, consumer, bursts, linkFaults>>

\* The recorder's pipe is closed.
PushFails ==
  /\ consumer = "draining" /\ units # <<>> /\ consumer' = "done" /\ units' = Tail(units)
  /\ UNCHANGED <<cameraVars, wire, lock, stage, readerVars, delivered, bursts, linkFaults>>

\* The sentinel is reached, or the consumer is cancelled after its time.
Join ==
  /\ stage["record"] = "joining" /\ consumer' = "none" /\ units' = <<>> /\ lock' = "none"
  /\ stage' = [stage EXCEPT !["record"] = "idle"] /\ delivered' = <<>>
  /\ UNCHANGED <<cameraVars, wire, readerVars, bursts, linkFaults>>

\* The connection ends: the camera's burst with it, and the waiters are told or,
\* with a full queue, time out.  The next connection has a dispatcher of its own.
LinkEnds ==
  /\ linkFaults < MaxLinkFaults /\ linkFaults' = linkFaults + 1
  /\ streaming' = FALSE /\ unsent' = <<>> /\ orders' = <<>> /\ wire' = <<>>
  /\ registered' = "none"
  /\ UNCHANGED <<packets, opening, lock, stage, inbox, droppedFrames, buffer, framed, outputVars, bursts>>

Next ==
  \/ Hear \/ Send \/ Dispatch
  \/ \E c \in Captures :
       Read(c) \/ Begin(c) \/ Open(c) \/ EndRead(c) \/ CancelWait(c) \/ SendStop(c)
  \/ Push \/ PushFails \/ Join \/ LinkEnds

Spec == Init /\ [][Next]_previewVars

-----------------------------------------------------------------------------
Whole(unit) == unit.payload.packet = unit.of.packet /\ unit.payload.part = "body" /\ unit.payload.clear

\* The recorder gets the camera's pictures as they were sent and in their order,
\* however they were sliced and whatever an earlier burst left under way; where it
\* does not, the capture counts dropped frames, so that an overloaded consumer is
\* not taken for a camera that misbehaves (BcMediaWalker, PreviewFeed, stream_preview).
DamageIsCounted ==
  \/ \A k \in DOMAIN delivered :
       /\ Whole(delivered[k])
       /\ \A m \in 1..(k - 1) : delivered[m].of.packet < delivered[k].of.packet
  \/ droppedFrames > 0

(***************************************************************************)
(* The inductive invariant behind it.  Cells have places in what the       *)
(* camera sends; a connection carries them without a gap.                  *)
(***************************************************************************)
Kinds == {"I", "P"}
Cells == [packet : Nat, part : {"head", "body", "pad"}, kind : Kinds, clear : BOOLEAN]
Frame == [rejected : BOOLEAN, start : BOOLEAN, cells : Seq(Cells)]

Place(cell) == 3 * cell.packet + (IF cell.part = "head" THEN 0 ELSE IF cell.part = "body" THEN 1 ELSE 2)

\* Consecutive cells of one packet.
OfOnePacket(cells) ==
  \A k \in DOMAIN cells :
    cells[k].packet = cells[1].packet /\ Place(cells[k]) = Place(cells[1]) + k - 1
HeadCiphered(cells) == \A k \in DOMAIN cells : cells[k].clear = (cells[k].part # "head")
AllClear(cells)     == \A k \in DOMAIN cells : cells[k].clear

IsFrame(frame) ==
  \/ frame = Rejection
  \/ /\ ~frame.rejected /\ frame.cells # <<>> /\ OfOnePacket(frame.cells) /\ HeadCiphered(frame.cells)
     /\ frame.start = (frame.cells[1].part = "head")

Begins(frame) == Place(frame.cells[1])
Ends(frame)   == Place(frame.cells[Len(frame.cells)]) + 1

\* Where the camera goes on.
Tip == IF unsent # <<>> THEN Place(unsent[1]) ELSE 3 * (packets + 1)

\* Frames without a gap, up to a rejection, and up to what the camera sends next.
Joined(s)  == \A k \in DOMAIN s : k + 1 \in DOMAIN s /\ ~s[k].rejected /\ ~s[k + 1].rejected
                                    => Begins(s[k + 1]) = Ends(s[k])
Reaches(s) == s # <<>> /\ ~s[Len(s)].rejected => Ends(s[Len(s)]) = Tip

CameraInv ==
  /\ packets \in Nat /\ unsent \in Seq(Cells)
  /\ unsent # <<>> => /\ OfOnePacket(unsent) /\ AllClear(unsent)
                      /\ unsent[1].packet = packets /\ unsent[1].part # "head" /\ unsent[Len(unsent)].part = "pad"
  /\ wire \in Seq(Frame) /\ (\A k \in DOMAIN wire : IsFrame(wire[k])) /\ Joined(wire) /\ Reaches(wire)

LockInv ==
  /\ stage \in [Captures -> {"idle", "waiting", "reading", "stopping", "joining"}]
  /\ \A c \in Captures : stage[c] \in {"reading", "stopping", "joining"} <=> lock = c
  /\ registered # "none" => registered = lock /\ stage[registered] = "reading"
  /\ lock # "record" => units = <<>> /\ delivered = <<>>

Reading == lock # "none" /\ stage[lock] = "reading"

\* What the capture has still to see: its queue, and while it is registered what is on its way.
Ahead == IF registered = "none" THEN inbox ELSE inbox \o wire

\* The capture goes on at x, or it sees no more.
GoesOnAt(x) ==
  IF Ahead # <<>> THEN Ahead[1].rejected \/ Begins(Ahead[1]) = x ELSE registered = "none" \/ Tip = x
GoesOnAfter(x) ==
  IF Ahead # <<>> THEN Ahead[1].rejected \/ Begins(Ahead[1]) >= x ELSE registered = "none" \/ Tip >= x

\* The walker keeps the beginning of at most one packet, and it is later than the packets taken.
ReadInv ==
  /\ inbox \in Seq(Frame) /\ (\A k \in DOMAIN inbox : IsFrame(inbox[k]))
  /\ Joined(Ahead) /\ (registered # "none" => Reaches(Ahead))
  /\ buffer \in Seq(Cells) /\ Len(buffer) <= 2
  /\ buffer # <<>> =>
       /\ OfOnePacket(buffer) /\ AllClear(buffer) /\ buffer[1].part = "head"
       /\ GoesOnAt(Place(buffer[Len(buffer)]) + 1)

Precedes(unit) ==
  IF buffer # <<>> THEN unit.of.packet < buffer[1].packet ELSE GoesOnAfter(3 * unit.of.packet + 3)

Unit == [of : Cells, payload : Cells]

InOrder(s) ==
  \A k \in DOMAIN s : Whole(s[k]) /\ \A m \in 1..(k - 1) : s[m].of.packet < s[k].of.packet

OutputInv ==
  /\ units \in Seq(Unit) /\ delivered \in Seq(Unit) /\ InOrder(units) /\ InOrder(delivered)
  /\ \A k \in DOMAIN delivered, m \in DOMAIN units : delivered[k].of.packet < units[m].of.packet
  /\ Reading =>
       /\ \A k \in DOMAIN units : Precedes(units[k])
       /\ \A k \in DOMAIN delivered : Precedes(delivered[k])

FeedInv ==
  /\ CameraInv /\ LockInv /\ droppedFrames \in Nat
  /\ droppedFrames = 0 => (Reading => ReadInv) /\ OutputInv
=============================================================================
