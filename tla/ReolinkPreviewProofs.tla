------------------------ MODULE ReolinkPreviewProofs ------------------------
(***************************************************************************)
(* Proofs about the native video of a Reolink camera, for every length of  *)
(* the queues and every number of packets, bursts and lost connections.    *)
(* What the walker makes of one frame comes first: cells in the clear and  *)
(* in their order are taken or kept as they were sent.  Then frames: what  *)
(* is ahead of a capture has no gap, whichever burst it is of, unless a    *)
(* frame was dropped.  Then units, which stay in order; then the steps.    *)
(***************************************************************************)
EXTENDS ReolinkPreview, SequenceTheorems, TLAPS

Sized == FrameQueueSize \in Nat

-----------------------------------------------------------------------------
(***************************************************************************)
(* Cells, and the walk over them.                                          *)
(***************************************************************************)
LEMMA PlaceOf ==
  ASSUME NEW c \in Cells
  PROVE  /\ c.packet \in Nat /\ Place(c) \in Nat /\ c.clear \in BOOLEAN /\ c.part \in {"head", "body", "pad"}
         /\ 3 * c.packet <= Place(c) /\ Place(c) <= 3 * c.packet + 2
         /\ c.part = "head" <=> Place(c) = 3 * c.packet
         /\ c.part = "body" <=> Place(c) = 3 * c.packet + 1
         /\ c.part = "pad" <=> Place(c) = 3 * c.packet + 2
BY DEF Cells, Place

LEMMA CellOf ==
  ASSUME NEW cells \in Seq(Cells), cells # <<>>, OfOnePacket(cells)
  PROVE  /\ cells[1] \in Cells /\ cells[1].packet \in Nat /\ Place(cells[1]) \in Nat /\ Len(cells) \in Nat \ {0}
         /\ DOMAIN cells = 1..Len(cells)
         /\ \A k \in 1..Len(cells) :
               cells[k] \in Cells /\ cells[k].packet = cells[1].packet /\ Place(cells[k]) = Place(cells[1]) + k - 1
<1>1. Len(cells) \in Nat \ {0} /\ DOMAIN cells = 1..Len(cells) /\ \A k \in 1..Len(cells) : cells[k] \in Cells
  OBVIOUS
<1>2. \A k \in 1..Len(cells) : cells[k].packet = cells[1].packet /\ Place(cells[k]) = Place(cells[1]) + k - 1
  BY <1>1 DEF OfOnePacket
<1>3. cells[1] \in Cells
  BY <1>1
<1> QED  BY <1>1, <1>2, <1>3, PlaceOf

\* One step after which nothing changes is where the walk of up to three cells ends.
LEMMA WalkSettles ==
  ASSUME NEW cells, Len(cells) \in 1..3, NEW done,
         WalkOn([left |-> cells, taken |-> <<>>]) = done, WalkOn(done) = done
  PROVE  Walk(cells) = done
<1> DEFINE start == [left |-> cells, taken |-> <<>>]
           body(g) == [n \in 0 .. Len(cells) |-> IF n = 0 THEN start ELSE WalkOn(g[n - 1])]
           h == [n \in 0 .. Len(cells) |-> IF n = 0 THEN start ELSE done]
           walk == CHOOSE g : g = body(g)
<1>1. WalkOn(start) = done /\ WalkOn(done) = done
  OBVIOUS
<1> HIDE DEF start
<1>2. h = body(h)
  <2>1. \A n \in 0 .. Len(cells) : h[n] = (IF n = 0 THEN start ELSE WalkOn(h[n - 1]))
    BY <1>1
  <2> QED  BY <2>1
<1>3. walk = body(walk)
  <2> HIDE DEF h, body
  <2> QED  BY <1>2
<1> HIDE DEF walk
<1>4. Walk(cells) = walk[Len(cells)]
  BY DEF Walk, start, walk
<1>5. \A n \in 0 .. Len(cells) : walk[n] = (IF n = 0 THEN start ELSE WalkOn(walk[n - 1]))
  BY <1>3
<1>6. walk[0] = start /\ walk[1] = done
  BY <1>1, <1>5
<1>7. Len(cells) >= 2 => walk[2] = done
  BY <1>1, <1>5, <1>6
<1>8. Len(cells) >= 3 => walk[3] = done
  BY <1>1, <1>5, <1>7
<1>9. walk[Len(cells)] = done
  <2>1. CASE Len(cells) = 1
    BY <2>1, <1>6
  <2>2. CASE Len(cells) = 2
    BY <2>2, <1>7
  <2>3. CASE Len(cells) = 3
    BY <2>3, <1>8
  <2>4. ASSUME NEW n \in 1..3 PROVE n = 1 \/ n = 2 \/ n = 3
    OBVIOUS
  <2> QED  BY <2>1, <2>2, <2>3, <2>4
<1> QED  BY <1>4, <1>9

\* Without a header in them, cells are passed over.
LEMMA WalkPasses ==
  ASSUME NEW cells \in Seq(Cells), Len(cells) \in 1..3, \A k \in DOMAIN cells : ~IsMagic(cells[k])
  PROVE  Walk(cells) = [left |-> <<>>, taken |-> <<>>]
<1> DEFINE done == [left |-> <<>>, taken |-> <<>>]
<1>1. cells # <<>> /\ DOMAIN cells = 1..Len(cells)
  OBVIOUS
<1>2. Resync(cells) = <<>>
  BY <1>1 DEF Resync
<1>3. WalkOn([left |-> cells, taken |-> <<>>]) = done
  BY <1>1, <1>2 DEF WalkOn
<1>4. WalkOn(done) = done
  BY DEF WalkOn
<1> QED  BY <1>3, <1>4, WalkSettles

\* The beginning of a packet is kept.
LEMMA WalkKeeps ==
  ASSUME NEW cells \in Seq(Cells), Len(cells) \in 1..2, IsMagic(cells[1])
  PROVE  Walk(cells) = [left |-> cells, taken |-> <<>>]
<1>1. cells # <<>>
  OBVIOUS
<1> DEFINE start == [left |-> cells, taken |-> <<>>]
<1>2. start.left = cells /\ Len(cells) < 3
  OBVIOUS
<1> HIDE DEF start
<1>3. WalkOn(start) = start
  BY <1>1, <1>2 DEF WalkOn
<1> QED  BY <1>3, WalkSettles DEF start

\* A whole packet is taken.
LEMMA WalkTakes ==
  ASSUME NEW cells \in Seq(Cells), Len(cells) = 3, IsMagic(cells[1])
  PROVE  Walk(cells) = [left |-> <<>>, taken |-> <<[of |-> cells[1], payload |-> cells[2]]>>]
<1> DEFINE done == [left |-> <<>>, taken |-> <<[of |-> cells[1], payload |-> cells[2]]>>]
<1>1. cells # <<>> /\ SubSeq(cells, 4, Len(cells)) = <<>>
  OBVIOUS
<1>2. Append(<<>>, [of |-> cells[1], payload |-> cells[2]]) = <<[of |-> cells[1], payload |-> cells[2]]>>
  OBVIOUS
<1>3. WalkOn([left |-> cells, taken |-> <<>>]) = done
  <2> DEFINE start == [left |-> cells, taken |-> <<>>]
  <2>1. start.left = cells /\ start.taken = <<>>
    OBVIOUS
  <2> HIDE DEF start
  <2>2. ~(Len(cells) < 3)
    OBVIOUS
  <2>3. WalkOn(start) = [left |-> <<>>, taken |-> Append(<<>>, [of |-> cells[1], payload |-> cells[2]])]
    BY <1>1, <2>1, <2>2, Zenon DEF WalkOn
  <2> QED  BY <1>2, <2>3, Zenon DEF start
<1>4. WalkOn(done) = done
  BY DEF WalkOn
<1> QED  BY <1>3, <1>4, WalkSettles

\* A frame brings up to three cells of a packet, in the clear once its head is deciphered.
LEMMA ChunkIsClear ==
  ASSUME NEW frame \in Frame, IsFrame(frame), frame # Rejection
  PROVE  LET chunk == MediaChunk(frame) IN
         /\ frame.cells \in Seq(Cells) /\ Len(frame.cells) \in 1..3
         /\ chunk \in Seq(Cells) /\ Len(chunk) = Len(frame.cells)
         /\ AllClear(chunk) /\ OfOnePacket(chunk)
         /\ \A k \in 1..Len(chunk) : chunk[k].packet = frame.cells[k].packet /\ Place(chunk[k]) = Place(frame.cells[k])
<1> DEFINE cells == frame.cells
           chunk == MediaChunk(frame)
<1>1. /\ cells \in Seq(Cells) /\ cells # <<>> /\ OfOnePacket(cells) /\ HeadCiphered(cells)
      /\ frame.start = (cells[1].part = "head")
  BY DEF Frame, IsFrame
<1>2. Len(cells) \in Nat \ {0} /\ DOMAIN cells = 1..Len(cells) /\ \A k \in 1..Len(cells) : cells[k] \in Cells
  BY <1>1
<1>c. chunk = IF frame.start THEN Decrypt(cells) ELSE cells
  BY DEF MediaChunk
<1> HIDE DEF cells, chunk
<1>3. Len(cells) \in 1..3
  <2>1. cells[Len(cells)].packet = cells[1].packet /\ Place(cells[Len(cells)]) = Place(cells[1]) + Len(cells) - 1
    BY <1>1, <1>2 DEF OfOnePacket
  <2>2. cells[1] \in Cells /\ cells[Len(cells)] \in Cells
    BY <1>2
  <2>3. /\ cells[1].packet \in Nat /\ Place(cells[1]) \in Nat /\ 3 * cells[1].packet <= Place(cells[1])
        /\ Place(cells[Len(cells)]) <= 3 * cells[Len(cells)].packet + 2
    BY <2>2, PlaceOf
  <2>4. ASSUME NEW p \in Nat, NEW x \in Nat, NEW n \in Nat \ {0}, 3 * p <= x, x + n - 1 <= 3 * p + 2
        PROVE  n \in 1..3
    BY <2>4
  <2> QED  BY <2>1, <2>3, <2>4, <1>2
<1>4. \A k \in 1..Len(cells) : k # 1 => cells[k].part # "head"
  <2> SUFFICES ASSUME NEW k \in 1..Len(cells), k # 1 PROVE cells[k].part # "head"
    OBVIOUS
  <2>1. cells[k].packet = cells[1].packet /\ Place(cells[k]) = Place(cells[1]) + k - 1
    BY <1>1, <1>2 DEF OfOnePacket
  <2>2. cells[1] \in Cells /\ cells[k] \in Cells
    BY <1>2
  <2> QED  BY <2>1, <2>2, <1>2, PlaceOf
<1>5. \A k \in 1..Len(cells) : cells[k].clear = (cells[k].part # "head")
  BY <1>1, <1>2 DEF HeadCiphered
<1>6. /\ chunk \in Seq(Cells) /\ Len(chunk) = Len(cells)
      /\ \A k \in 1..Len(cells) : /\ chunk[k].packet = cells[k].packet /\ chunk[k].part = cells[k].part
                                  /\ chunk[k].kind = cells[k].kind /\ chunk[k].clear = TRUE
  <2>1. CASE frame.start
    <3> DEFINE head == [cells[1] EXCEPT !.clear = ~cells[1].clear]
    <3>1. chunk = [cells EXCEPT ![1] = head]
      BY <2>1, <1>c DEF Decrypt
    <3>a. cells[1] \in Cells
      BY <1>2
    <3>h. cells[1].part = "head"
      BY <1>1, <2>1, Zenon
    <3>2. /\ head \in Cells /\ head.packet = cells[1].packet /\ head.part = cells[1].part
          /\ head.kind = cells[1].kind
      BY <3>a DEF Cells
    <3>b. 1 \in 1..Len(cells)
      BY <1>2
    <3>c. ~cells[1].clear
      BY <1>5, <3>h, <3>b, Zenon
    <3>d. head.clear = ~cells[1].clear
      BY <3>a, Zenon DEF Cells
    <3>e. ~cells[1].clear = TRUE
      BY <3>c, Zenon
    <3>5. head.clear = TRUE
      BY <3>d, <3>e, Zenon
    <3> HIDE DEF head
    <3>3. chunk \in Seq(Cells) /\ Len(chunk) = Len(cells)
      BY <3>1, <3>2, <1>1
    <3>4. \A k \in 1..Len(cells) : chunk[k] = IF k = 1 THEN head ELSE cells[k]
      BY <3>1, <1>2, <1>1
    <3> QED  BY <3>2, <3>3, <3>4, <3>5, <1>4, <1>5, <1>2
  <2>2. CASE ~frame.start
    <3>1. chunk = cells
      BY <2>2, <1>c
    <3> QED  BY <3>1, <1>1, <1>2, <1>4, <1>5, <2>2
  <2> QED  BY <2>1, <2>2
<1>7. \A k \in 1..Len(cells) : Place(chunk[k]) = Place(cells[k])
  BY <1>6 DEF Place
<1>8. DOMAIN chunk = 1..Len(cells)
  BY <1>6
<1>9. AllClear(chunk)
  BY <1>6, <1>8 DEF AllClear
<1>10. OfOnePacket(chunk)
  BY <1>6, <1>7, <1>8, <1>1, <1>2 DEF OfOnePacket
<1> QED  BY <1>1, <1>3, <1>6, <1>7, <1>9, <1>10 DEF cells, chunk

\* The beginning of a packet, and no more than the packet, is kept or taken.
LEMMA WalkOfPacket ==
  ASSUME NEW cells \in Seq(Cells), Len(cells) \in 1..3, AllClear(cells), OfOnePacket(cells), cells[1].part = "head"
  PROVE  LET walk == Walk(cells) IN
         \/ walk.taken = <<>> /\ walk.left = cells /\ Len(cells) \in 1..2
         \/ \E unit \in Unit : /\ walk.taken = <<unit>> /\ walk.left = <<>> /\ Len(cells) = 3
                               /\ Whole(unit) /\ unit.of = cells[1]
<1>1. DOMAIN cells = 1..Len(cells) /\ Len(cells) \in Nat /\ \A k \in 1..Len(cells) : cells[k] \in Cells
  OBVIOUS
<1>2. IsMagic(cells[1])
  BY <1>1 DEF AllClear, IsMagic
<1>3. CASE Len(cells) \in 1..2
  BY <1>2, <1>3, WalkKeeps
<1>4. CASE Len(cells) = 3
  <2> DEFINE unit == [of |-> cells[1], payload |-> cells[2]]
  <2>1. unit \in Unit
    BY <1>1, <1>4 DEF Unit
  <2>2. /\ cells[2].packet = cells[1].packet /\ Place(cells[2]) = Place(cells[1]) + 1
        /\ cells[2].clear
    BY <1>1, <1>4 DEF OfOnePacket, AllClear
  <2>3. Place(cells[1]) = 3 * cells[1].packet /\ cells[1].packet \in Nat /\ cells[1] \in Cells /\ cells[2] \in Cells
    BY <1>1, <1>4, PlaceOf
  <2>4. cells[2].part = "body"
    BY <2>2, <2>3, PlaceOf
  <2>5. Whole(unit)
    BY <2>2, <2>4 DEF Whole
  <2>6. Walk(cells) = [left |-> <<>>, taken |-> <<unit>>]
    BY <1>2, <1>4, WalkTakes
  <2> HIDE DEF unit
  <2>7. unit.of = cells[1]
    BY DEF unit
  <2> QED  BY <2>1, <2>5, <2>6, <2>7, <1>4
<1> QED  BY <1>3, <1>4

LEMMA Joint ==
  ASSUME NEW S, NEW s \in Seq(S), NEW t \in Seq(S)
  PROVE  /\ s \o t \in Seq(S) /\ Len(s \o t) = Len(s) + Len(t) /\ Len(s) \in Nat /\ Len(t) \in Nat
         /\ \A k \in 1 .. Len(s) + Len(t) : (s \o t)[k] = IF k <= Len(s) THEN s[k] ELSE t[k - Len(s)]
         /\ DOMAIN (s \o t) = 1 .. Len(s) + Len(t) /\ DOMAIN s = 1 .. Len(s) /\ DOMAIN t = 1 .. Len(t)
         /\ \A k \in 1 .. Len(s) : s[k] \in S
         /\ \A k \in 1 .. Len(t) : t[k] \in S
OBVIOUS

\* What begins where the buffer ends continues the packet in the buffer.
LEMMA BufferContinues ==
  ASSUME NEW chunk \in Seq(Cells), chunk # <<>>, AllClear(chunk), OfOnePacket(chunk),
         buffer \in Seq(Cells), Len(buffer) \in 1..2, AllClear(buffer), OfOnePacket(buffer), buffer[1].part = "head",
         Place(chunk[1]) = Place(buffer[Len(buffer)]) + 1
  PROVE  LET cells == buffer \o chunk IN
         /\ cells \in Seq(Cells) /\ Len(cells) \in 1..3 /\ AllClear(cells) /\ OfOnePacket(cells) /\ cells[1] = buffer[1]
         /\ cells[Len(cells)] = chunk[Len(chunk)] /\ Len(cells) = Len(buffer) + Len(chunk)
<1> DEFINE cells == buffer \o chunk
<1>1. /\ cells \in Seq(Cells) /\ Len(cells) = Len(buffer) + Len(chunk) /\ Len(buffer) \in Nat /\ Len(chunk) \in Nat
      /\ \A k \in 1 .. Len(buffer) + Len(chunk) : cells[k] = IF k <= Len(buffer) THEN buffer[k] ELSE chunk[k - Len(buffer)]
      /\ DOMAIN cells = 1 .. Len(buffer) + Len(chunk) /\ DOMAIN buffer = 1 .. Len(buffer) /\ DOMAIN chunk = 1 .. Len(chunk)
      /\ \A k \in 1 .. Len(buffer) : buffer[k] \in Cells
      /\ \A k \in 1 .. Len(chunk) : chunk[k] \in Cells
  BY Joint
<1> HIDE DEF cells
<1>2. Len(chunk) >= 1
  BY <1>1
<1> DEFINE p == buffer[1].packet
           q == chunk[1].packet
<1>3. /\ p \in Nat /\ Place(buffer[1]) = 3 * p
      /\ q \in Nat /\ Place(chunk[1]) \in Nat /\ 3 * q <= Place(chunk[1]) /\ Place(chunk[1]) <= 3 * q + 2
  <2>1. buffer[1] \in Cells /\ chunk[1] \in Cells
    BY <1>1, <1>2
  <2> QED  BY <2>1, PlaceOf
<1>c. /\ \A k \in 1 .. Len(buffer) : buffer[k].packet = p /\ Place(buffer[k]) = Place(buffer[1]) + k - 1
      /\ \A k \in 1 .. Len(chunk) : chunk[k].packet = q /\ Place(chunk[k]) = Place(chunk[1]) + k - 1
  <2>1. buffer # <<>>
    BY <1>1
  <2> QED  BY <2>1, CellOf
<1>4. Place(buffer[Len(buffer)]) = 3 * p + Len(buffer) - 1
  <2> HIDE DEF p, q
  <2>1. Place(buffer[Len(buffer)]) = Place(buffer[1]) + Len(buffer) - 1
    BY <1>c, <1>1
  <2> QED  BY <2>1, <1>3
<1> HIDE DEF p, q
<1>5. Place(chunk[1]) = 3 * p + Len(buffer)
  BY <1>4, <1>3, <1>1
<1>6. q = p
  <2>1. ASSUME NEW a \in Nat, NEW b \in Nat, NEW n \in 1..2, 3 * b <= 3 * a + n, 3 * a + n <= 3 * b + 2
        PROVE  b = a
    BY <2>1
  <2> QED  BY <2>1, <1>3, <1>5
<1>7. /\ \A k \in 1 .. Len(buffer) : buffer[k].packet = p /\ Place(buffer[k]) = 3 * p + k - 1 /\ buffer[k].clear
      /\ \A k \in 1 .. Len(chunk) : chunk[k].packet = p /\ Place(chunk[k]) = 3 * p + Len(buffer) + k - 1 /\ chunk[k].clear
  <2>1. (\A k \in 1 .. Len(buffer) : buffer[k].clear) /\ (\A k \in 1 .. Len(chunk) : chunk[k].clear)
    BY <1>1 DEF AllClear
  <2>2. /\ \A k \in 1 .. Len(buffer) : buffer[k].packet = p /\ Place(buffer[k]) = 3 * p + k - 1
        /\ \A k \in 1 .. Len(chunk) : chunk[k].packet = p /\ Place(chunk[k]) = 3 * p + Len(buffer) + k - 1
    BY <1>c, <1>3, <1>5, <1>6
  <2> QED  BY <2>1, <2>2
<1>8. \A k \in 1 .. Len(buffer) + Len(chunk) : cells[k].packet = p /\ Place(cells[k]) = 3 * p + k - 1 /\ cells[k].clear
  <2> SUFFICES ASSUME NEW k \in 1 .. Len(buffer) + Len(chunk)
               PROVE  cells[k].packet = p /\ Place(cells[k]) = 3 * p + k - 1 /\ cells[k].clear
    OBVIOUS
  <2>1. CASE k <= Len(buffer)
    BY <2>1, <1>1, <1>7
  <2>2. CASE ~(k <= Len(buffer))
    <3>1. k - Len(buffer) \in 1 .. Len(chunk) /\ cells[k] = chunk[k - Len(buffer)]
      BY <2>2, <1>1
    <3> QED  BY <3>1, <1>7, <1>1, <1>3
  <2> QED  BY <2>1, <2>2
<1>9. cells[1] = buffer[1] /\ cells[Len(cells)] = chunk[Len(chunk)]
  BY <1>1, <1>2
<1>10. Len(buffer) + Len(chunk) \in 1..3
  <2>1. chunk[Len(chunk)] \in Cells /\ chunk[Len(chunk)].packet = p /\ Place(chunk[Len(chunk)]) = 3 * p + Len(buffer) + Len(chunk) - 1
    BY <1>1, <1>2, <1>7
  <2>2. Place(chunk[Len(chunk)]) <= 3 * p + 2
    BY <2>1, PlaceOf
  <2> QED  BY <2>1, <2>2, <1>1, <1>2, <1>3
<1>11. AllClear(cells) /\ OfOnePacket(cells)
  <2>1. AllClear(cells)
    BY <1>1, <1>8 DEF AllClear
  <2>2. cells[1].packet = p /\ Place(cells[1]) = 3 * p
    BY <1>9, <1>3 DEF p
  <2>3. \A k \in DOMAIN cells : cells[k].packet = cells[1].packet /\ Place(cells[k]) = Place(cells[1]) + k - 1
    BY <2>2, <1>8, <1>1
  <2> QED  BY <2>1, <2>3 DEF OfOnePacket
<1> QED  BY <1>1, <1>9, <1>10, <1>11 DEF cells

\* What the walker makes of the next frame of its connection.
LEMMA WalkResult ==
  ASSUME NEW frame \in Frame, IsFrame(frame), frame # Rejection,
         buffer \in Seq(Cells), Len(buffer) <= 2,
         buffer # <<>> => /\ OfOnePacket(buffer) /\ AllClear(buffer) /\ buffer[1].part = "head"
                          /\ Begins(frame) = Place(buffer[Len(buffer)]) + 1
  PROVE  LET walk == Walk(buffer \o MediaChunk(frame)) IN
         /\ Begins(frame) \in Nat /\ Ends(frame) \in Nat /\ Begins(frame) < Ends(frame)
         /\ \/ walk.taken = <<>> /\ walk.left = <<>> /\ buffer = <<>>
            \/ /\ walk.taken = <<>> /\ walk.left \in Seq(Cells) /\ Len(walk.left) \in 1..2
               /\ AllClear(walk.left) /\ OfOnePacket(walk.left) /\ walk.left[1].part = "head"
               /\ Place(walk.left[Len(walk.left)]) + 1 = Ends(frame)
               /\ IF buffer # <<>> THEN walk.left[1] = buffer[1] ELSE 3 * walk.left[1].packet = Begins(frame)
            \/ \E unit \in Unit : /\ walk.taken = <<unit>> /\ walk.left = <<>> /\ Whole(unit)
                                  /\ 3 * unit.of.packet + 3 = Ends(frame)
                                  /\ IF buffer # <<>> THEN unit.of = buffer[1] ELSE 3 * unit.of.packet = Begins(frame)
<1> DEFINE chunk == MediaChunk(frame)
           cells == buffer \o chunk
<1>1. /\ frame.cells \in Seq(Cells) /\ Len(frame.cells) \in 1..3
      /\ chunk \in Seq(Cells) /\ Len(chunk) = Len(frame.cells)
      /\ AllClear(chunk) /\ OfOnePacket(chunk)
      /\ \A k \in 1..Len(chunk) : chunk[k].packet = frame.cells[k].packet /\ Place(chunk[k]) = Place(frame.cells[k])
  BY ChunkIsClear
<1> HIDE DEF chunk
<1>2. /\ Begins(frame) = Place(chunk[1]) /\ Ends(frame) = Place(chunk[Len(chunk)]) + 1 /\ chunk # <<>>
      /\ Len(chunk) \in 1..3 /\ \A k \in 1..Len(chunk) : chunk[k] \in Cells
  BY <1>1 DEF Begins, Ends
<1>3. Begins(frame) \in Nat /\ Ends(frame) = Begins(frame) + Len(chunk)
  <2>1. /\ Place(chunk[1]) \in Nat /\ Len(chunk) \in Nat \ {0}
        /\ \A k \in 1..Len(chunk) : Place(chunk[k]) = Place(chunk[1]) + k - 1
    BY <1>1, <1>2, CellOf
  <2> QED  BY <2>1, <1>2
<1>a. ASSUME NEW all \in Seq(Cells), Len(all) \in 1..3, AllClear(all), OfOnePacket(all), all[1].part = "head",
             all[Len(all)] = chunk[Len(chunk)], Walk(cells) = Walk(all),
             IF buffer # <<>> THEN all[1] = buffer[1] ELSE 3 * all[1].packet = Begins(frame)
      PROVE  LET walk == Walk(cells) IN
            \/ /\ walk.taken = <<>> /\ walk.left \in Seq(Cells) /\ Len(walk.left) \in 1..2
               /\ AllClear(walk.left) /\ OfOnePacket(walk.left) /\ walk.left[1].part = "head"
               /\ Place(walk.left[Len(walk.left)]) + 1 = Ends(frame)
               /\ IF buffer # <<>> THEN walk.left[1] = buffer[1] ELSE 3 * walk.left[1].packet = Begins(frame)
            \/ \E unit \in Unit : /\ walk.taken = <<unit>> /\ walk.left = <<>> /\ Whole(unit)
                                  /\ 3 * unit.of.packet + 3 = Ends(frame)
                                  /\ IF buffer # <<>> THEN unit.of = buffer[1] ELSE 3 * unit.of.packet = Begins(frame)
  <2>1. \/ Walk(all).taken = <<>> /\ Walk(all).left = all /\ Len(all) \in 1..2
        \/ \E unit \in Unit : /\ Walk(all).taken = <<unit>> /\ Walk(all).left = <<>> /\ Len(all) = 3
                              /\ Whole(unit) /\ unit.of = all[1]
    BY <1>a, WalkOfPacket
  <2>2. Place(all[Len(all)]) + 1 = Ends(frame)
    BY <1>a, <1>2
  <2>3. Len(all) = 3 => 3 * all[1].packet + 3 = Ends(frame)
    <3>1. all[1] \in Cells /\ (Len(all) = 3 => Place(all[Len(all)]) = Place(all[1]) + 2)
      BY <1>a DEF OfOnePacket
    <3>2. Place(all[1]) = 3 * all[1].packet /\ all[1].packet \in Nat
      BY <3>1, <1>a, PlaceOf
    <3> QED  BY <3>1, <3>2, <2>2
  <2> HIDE DEF cells
  <2> QED  BY <2>1, <2>2, <2>3, <1>a
<1>4. CASE buffer = <<>>
  <2>1. cells = chunk
    BY <1>1, <1>4
  <2> HIDE DEF cells
  <2>2. CASE chunk[1].part = "head"
    <3>1. 3 * chunk[1].packet = Begins(frame)
      BY <2>2, <1>2, PlaceOf
    <3>2. Walk(cells) = Walk(chunk) /\ chunk[Len(chunk)] = chunk[Len(chunk)]
      BY <2>1
    <3> QED  BY <1>1, <1>2, <1>3, <1>4, <2>2, <3>1, <3>2, <1>a DEF cells, chunk
  <2>3. CASE chunk[1].part # "head"
    <3>1. \A k \in 1..Len(chunk) : chunk[k].part # "head"
      <4> SUFFICES ASSUME NEW k \in 1..Len(chunk) PROVE chunk[k].part # "head"
        OBVIOUS
      <4>1. chunk[k] \in Cells /\ chunk[1] \in Cells
        BY <1>2
      <4>2. chunk[k].packet = chunk[1].packet /\ Place(chunk[k]) = Place(chunk[1]) + k - 1
        BY <1>1, <1>2, CellOf
      <4>3. chunk[1].packet \in Nat /\ Place(chunk[1]) # 3 * chunk[1].packet /\ 3 * chunk[1].packet <= Place(chunk[1])
            /\ Place(chunk[1]) \in Nat
        BY <4>1, <2>3, PlaceOf
      <4>4. Place(chunk[k]) # 3 * chunk[k].packet
        BY <4>2, <4>3
      <4> QED  BY <4>1, <4>4, PlaceOf
    <3>2. \A k \in DOMAIN chunk : ~IsMagic(chunk[k])
      BY <3>1, <1>1 DEF IsMagic
    <3>3. Walk(cells) = [left |-> <<>>, taken |-> <<>>]
      BY <3>2, <2>1, <1>1, <1>2, WalkPasses
    <3>4. Walk(cells).taken = <<>> /\ Walk(cells).left = <<>>
      BY <3>3
    <3> QED  BY <3>4, <1>3, <1>2, <1>4 DEF cells, chunk
  <2> QED  BY <2>2, <2>3
<1>5. CASE buffer # <<>>
  <2>1. Len(buffer) \in 1..2 /\ Place(chunk[1]) = Place(buffer[Len(buffer)]) + 1
    <3>1. \A n \in Nat : n <= 2 /\ n # 0 => n \in 1..2
      OBVIOUS
    <3>2. Len(buffer) \in Nat /\ Len(buffer) # 0
      BY <1>5
    <3> QED  BY <3>1, <3>2, <1>5, <1>2
  <2>2. /\ cells \in Seq(Cells) /\ Len(cells) \in 1..3 /\ AllClear(cells) /\ OfOnePacket(cells) /\ cells[1] = buffer[1]
        /\ cells[Len(cells)] = chunk[Len(chunk)]
    BY <2>1, <1>1, <1>2, <1>5, BufferContinues
  <2> HIDE DEF cells
  <2>3. cells[1].part = "head"
    BY <2>2, <1>5
  <2>4. IF buffer # <<>> THEN cells[1] = buffer[1] ELSE 3 * cells[1].packet = Begins(frame)
    BY <2>2, <1>5
  <2>5. Begins(frame) < Ends(frame) /\ Ends(frame) \in Nat
    BY <1>3, <1>2
  <2>6. Walk(cells) = Walk(cells)
    OBVIOUS
  <2>7. LET walk == Walk(cells) IN
            \/ /\ walk.taken = <<>> /\ walk.left \in Seq(Cells) /\ Len(walk.left) \in 1..2
               /\ AllClear(walk.left) /\ OfOnePacket(walk.left) /\ walk.left[1].part = "head"
               /\ Place(walk.left[Len(walk.left)]) + 1 = Ends(frame)
               /\ IF buffer # <<>> THEN walk.left[1] = buffer[1] ELSE 3 * walk.left[1].packet = Begins(frame)
            \/ \E unit \in Unit : /\ walk.taken = <<unit>> /\ walk.left = <<>> /\ Whole(unit)
                                  /\ 3 * unit.of.packet + 3 = Ends(frame)
                                  /\ IF buffer # <<>> THEN unit.of = buffer[1] ELSE 3 * unit.of.packet = Begins(frame)
    BY <2>2, <2>3, <2>4, <2>6, <1>a
  <2> QED  BY <2>5, <2>7, <1>3 DEF cells, chunk
<1> QED  BY <1>4, <1>5

-----------------------------------------------------------------------------
(***************************************************************************)
(* Frames one after the other.                                             *)
(***************************************************************************)
LEMMA RejectionIsFrame == Rejection \in Frame /\ IsFrame(Rejection) /\ Rejection.rejected
BY DEF Rejection, Frame, IsFrame

LEMMA Appended ==
  ASSUME NEW S, NEW s \in Seq(S), NEW e \in S
  PROVE  /\ Append(s, e) \in Seq(S) /\ Len(Append(s, e)) = Len(s) + 1 /\ Len(s) \in Nat
         /\ DOMAIN Append(s, e) = 1 .. Len(s) + 1 /\ DOMAIN s = 1 .. Len(s)
         /\ (\A k \in 1 .. Len(s) : Append(s, e)[k] = s[k]) /\ Append(s, e)[Len(s) + 1] = e
         /\ Append(s, e) # <<>> /\ (s = <<>> => Append(s, e)[1] = e) /\ (s # <<>> => Append(s, e)[1] = s[1])
<1>1. /\ Append(s, e) \in Seq(S) /\ Len(Append(s, e)) = Len(s) + 1 /\ Len(s) \in Nat
      /\ DOMAIN Append(s, e) = 1 .. Len(s) + 1 /\ DOMAIN s = 1 .. Len(s)
      /\ (\A k \in 1 .. Len(s) : Append(s, e)[k] = s[k]) /\ Append(s, e)[Len(s) + 1] = e
  OBVIOUS
<1>2. (s = <<>> => Len(s) = 0) /\ (s # <<>> => 1 \in 1 .. Len(s))
  OBVIOUS
<1>3. Append(s, e) # <<>>
  BY <1>1
<1> QED  BY <1>1, <1>2, <1>3

LEMMA Rest ==
  ASSUME NEW S, NEW s \in Seq(S), s # <<>>
  PROVE  /\ Tail(s) \in Seq(S) /\ Len(Tail(s)) = Len(s) - 1 /\ Len(s) \in Nat \ {0}
         /\ DOMAIN Tail(s) = 1 .. Len(s) - 1 /\ DOMAIN s = 1 .. Len(s)
         /\ (\A k \in 1 .. Len(s) - 1 : Tail(s)[k] = s[k + 1]) /\ Head(s) = s[1] /\ s[1] \in S
OBVIOUS

LEMMA JoinedAppend ==
  ASSUME NEW s \in Seq(Frame), NEW f \in Frame, Joined(s),
         s # <<>> /\ ~f.rejected /\ ~s[Len(s)].rejected => Begins(f) = Ends(s[Len(s)])
  PROVE  Joined(Append(s, f))
<1> DEFINE t == Append(s, f)
<1>1. /\ Len(t) = Len(s) + 1 /\ Len(s) \in Nat /\ DOMAIN t = 1 .. Len(s) + 1 /\ DOMAIN s = 1 .. Len(s)
      /\ (\A k \in 1 .. Len(s) : t[k] = s[k]) /\ t[Len(s) + 1] = f
  BY Appended
<1> HIDE DEF t
<1>2. ASSUME NEW k \in DOMAIN t, k + 1 \in DOMAIN t, ~t[k].rejected, ~t[k + 1].rejected
      PROVE  Begins(t[k + 1]) = Ends(t[k])
  <2>1. CASE k < Len(s)
    <3>1. k \in DOMAIN s /\ k + 1 \in DOMAIN s /\ t[k] = s[k] /\ t[k + 1] = s[k + 1]
      BY <1>1, <1>2, <2>1
    <3> QED  BY <3>1, <1>2 DEF Joined
  <2>2. CASE ~(k < Len(s))
    <3>1. k = Len(s) /\ s # <<>> /\ t[k] = s[Len(s)] /\ t[k + 1] = f
      BY <1>1, <1>2, <2>2
    <3> QED  BY <3>1, <1>2
  <2> QED  BY <2>1, <2>2
<1> QED  BY <1>2 DEF Joined, t

LEMMA JoinedTail ==
  ASSUME NEW s \in Seq(Frame), s # <<>>, Joined(s)
  PROVE  Joined(Tail(s))
<1> DEFINE t == Tail(s)
<1>1. /\ Len(s) \in Nat \ {0} /\ DOMAIN t = 1 .. Len(s) - 1 /\ DOMAIN s = 1 .. Len(s)
      /\ \A k \in 1 .. Len(s) - 1 : t[k] = s[k + 1]
  BY Rest
<1> HIDE DEF t
<1>2. ASSUME NEW k \in DOMAIN t, k + 1 \in DOMAIN t, ~t[k].rejected, ~t[k + 1].rejected
      PROVE  Begins(t[k + 1]) = Ends(t[k])
  <2>1. k + 1 \in DOMAIN s /\ k + 1 + 1 \in DOMAIN s /\ t[k] = s[k + 1] /\ t[k + 1] = s[k + 1 + 1]
    BY <1>1, <1>2
  <2> QED  BY <2>1, <1>2 DEF Joined
<1> QED  BY <1>2 DEF Joined, t

LEMMA JoinedPrefix ==
  ASSUME NEW s \in Seq(Frame), NEW t \in Seq(Frame), Joined(s \o t)
  PROVE  Joined(s)
<1> DEFINE st == s \o t
<1>1. /\ Len(s) \in Nat /\ Len(t) \in Nat /\ DOMAIN st = 1 .. Len(s) + Len(t) /\ DOMAIN s = 1 .. Len(s)
      /\ \A k \in 1 .. Len(s) : st[k] = s[k]
  BY Joint
<1> HIDE DEF st
<1>2. ASSUME NEW k \in DOMAIN s, k + 1 \in DOMAIN s, ~s[k].rejected, ~s[k + 1].rejected
      PROVE  Begins(s[k + 1]) = Ends(s[k])
  <2>1. k \in DOMAIN st /\ k + 1 \in DOMAIN st /\ st[k] = s[k] /\ st[k + 1] = s[k + 1]
    BY <1>1, <1>2
  <2>2. Joined(st)
    BY DEF st
  <2> QED  BY <2>1, <2>2, <1>2 DEF Joined
<1> QED  BY <1>2 DEF Joined

LEMMA TipOf ==
  ASSUME CameraInv
  PROVE  Tip \in Nat
<1>1. packets \in Nat /\ unsent \in Seq(Cells)
  BY DEF CameraInv
<1>2. unsent # <<>> => unsent[1] \in Cells
  BY <1>1
<1> QED  BY <1>1, <1>2, PlaceOf DEF Tip

LEMMA AheadOf ==
  ASSUME CameraInv, inbox \in Seq(Frame), \A k \in DOMAIN inbox : IsFrame(inbox[k])
  PROVE  Ahead \in Seq(Frame) /\ \A k \in DOMAIN Ahead : IsFrame(Ahead[k])
<1>1. wire \in Seq(Frame) /\ \A k \in DOMAIN wire : IsFrame(wire[k])
  BY DEF CameraInv
<1>2. CASE registered = "none"
  BY <1>2 DEF Ahead
<1>3. CASE registered # "none"
  <2> DEFINE st == inbox \o wire
  <2>1. /\ st \in Seq(Frame) /\ DOMAIN st = 1 .. Len(inbox) + Len(wire) /\ Len(inbox) \in Nat /\ Len(wire) \in Nat
        /\ \A k \in 1 .. Len(inbox) + Len(wire) : st[k] = IF k <= Len(inbox) THEN inbox[k] ELSE wire[k - Len(inbox)]
        /\ DOMAIN inbox = 1 .. Len(inbox) /\ DOMAIN wire = 1 .. Len(wire)
    BY <1>1, Joint
  <2> HIDE DEF st
  <2>2. \A k \in DOMAIN st : IsFrame(st[k])
    <3> SUFFICES ASSUME NEW k \in DOMAIN st PROVE IsFrame(st[k])
      OBVIOUS
    <3>1. CASE k <= Len(inbox)
      BY <3>1, <2>1
    <3>2. CASE ~(k <= Len(inbox))
      <4>1. k - Len(inbox) \in DOMAIN wire /\ st[k] = wire[k - Len(inbox)]
        BY <3>2, <2>1
      <4> QED  BY <4>1, <1>1
    <3> QED  BY <3>1, <3>2
  <2>3. Ahead = st
    BY <1>3 DEF Ahead, st
  <2> QED  BY <2>1, <2>2, <2>3
<1> QED  BY <1>2, <1>3

\* A frame the camera adds is one the capture goes on with.
LEMMA WireGrows ==
  ASSUME CameraInv, ReadInv, NEW f \in Frame, IsFrame(f),
         f.rejected \/ Begins(f) = Tip, f.rejected \/ Ends(f) = Tip', wire' = Append(wire, f),
         UNCHANGED <<registered, inbox, buffer>>
  PROVE  ReadInv' /\ \A unit \in Unit : Precedes(unit) => Precedes(unit)'
<1>1. wire \in Seq(Frame) /\ inbox \in Seq(Frame) /\ Ahead \in Seq(Frame) /\ Tip \in Nat
  BY AheadOf, TipOf DEF CameraInv, ReadInv
<1>2. registered = "none" => Ahead' = Ahead
  BY DEF Ahead
<1>3. registered # "none" => Ahead' = Append(Ahead, f)
  BY <1>1 DEF Ahead
<1> DEFINE ahead == Ahead
           later == Append(Ahead, f)
<1>4. /\ Len(later) = Len(ahead) + 1 /\ Len(ahead) \in Nat /\ later[Len(ahead) + 1] = f /\ later # <<>>
      /\ (ahead = <<>> => later[1] = f) /\ (ahead # <<>> => later[1] = ahead[1])
  BY <1>1, Appended
<1>5. \A x \in Nat : (GoesOnAt(x) => GoesOnAt(x)') /\ (GoesOnAfter(x) => GoesOnAfter(x)')
  <2>1. CASE registered = "none"
    BY <2>1, <1>2 DEF GoesOnAt, GoesOnAfter
  <2>2. CASE registered # "none"
    <3>1. Ahead' = later
      BY <2>2, <1>3
    <3> HIDE DEF later
    <3> QED  BY <2>2, <3>1, <1>4 DEF GoesOnAt, GoesOnAfter
  <2> QED  BY <2>1, <2>2
<1>6. Joined(Ahead')
  <2>1. CASE registered = "none"
    BY <2>1, <1>2 DEF ReadInv
  <2>2. CASE registered # "none"
    <3>1. Joined(Ahead) /\ (Ahead # <<>> /\ ~Ahead[Len(Ahead)].rejected => Ends(Ahead[Len(Ahead)]) = Tip)
      BY <2>2 DEF ReadInv, Reaches
    <3>2. Joined(later)
      BY <3>1, <1>1, JoinedAppend
    <3> QED  BY <3>2, <2>2, <1>3
  <2> QED  BY <2>1, <2>2
<1>7. registered' # "none" => Reaches(Ahead)'
  <2>1. registered' # "none" => Ahead' = later
    BY <1>3
  <2> HIDE DEF later
  <2> QED  BY <2>1, <1>4 DEF Reaches
<1>8. buffer # <<>> => Place(buffer[Len(buffer)]) + 1 \in Nat
  <2>1. buffer # <<>> => buffer[Len(buffer)] \in Cells
    BY DEF ReadInv
  <2> QED  BY <2>1, PlaceOf
<1>9. ReadInv'
  <2>1. Joined(Ahead)'
    BY <1>6 DEF Joined, Begins, Ends
  <2>2. buffer # <<>> => GoesOnAt(Place(buffer[Len(buffer)]) + 1)'
    BY <1>5, <1>8 DEF ReadInv
  <2> QED  BY <2>1, <2>2, <1>7 DEF ReadInv
<1>10. \A unit \in Unit : 3 * unit.of.packet + 3 \in Nat
  BY PlaceOf DEF Unit
<1> QED  BY <1>5, <1>9, <1>10 DEF Precedes

\* A frame that the dispatcher moves is still the next one, and nothing else matters to the capture.
LEMMA AheadKept ==
  ASSUME ReadInv, Ahead' = Ahead, Tip' = Tip, UNCHANGED <<registered, buffer>>,
         inbox' \in Seq(Frame), \A k \in DOMAIN inbox' : IsFrame(inbox'[k])
  PROVE  ReadInv' /\ \A unit \in Unit : Precedes(unit) => Precedes(unit)'
<1>1. \A x \in Nat : (GoesOnAt(x) => GoesOnAt(x)') /\ (GoesOnAfter(x) => GoesOnAfter(x)')
  BY DEF GoesOnAt, GoesOnAfter
<1>2. buffer # <<>> => Place(buffer[Len(buffer)]) + 1 \in Nat
  <2>1. buffer # <<>> => buffer[Len(buffer)] \in Cells
    BY DEF ReadInv
  <2> QED  BY <2>1, PlaceOf
<1>3. Joined(Ahead)' /\ (registered' # "none" => Reaches(Ahead)')
  BY DEF ReadInv, Joined, Reaches, Begins, Ends
<1>4. buffer # <<>> => GoesOnAt(Place(buffer[Len(buffer)]) + 1)'
  BY <1>1, <1>2 DEF ReadInv
<1>5. ReadInv'
  BY <1>3, <1>4 DEF ReadInv
<1>6. \A unit \in Unit : 3 * unit.of.packet + 3 \in Nat
  BY PlaceOf DEF Unit
<1> QED  BY <1>1, <1>5, <1>6 DEF Precedes

\* What was queued when the connection ended is still read.
LEMMA LinkOnlyEnds ==
  ASSUME CameraInv, ReadInv, registered' = "none", UNCHANGED <<inbox, buffer>>
  PROVE  ReadInv' /\ \A unit \in Unit : Precedes(unit) => Precedes(unit)'
<1>1. wire \in Seq(Frame) /\ inbox \in Seq(Frame) /\ Ahead' = inbox /\ Joined(Ahead)
  BY DEF CameraInv, ReadInv, Ahead
<1>2. Joined(inbox)
  BY <1>1, JoinedPrefix DEF Ahead
<1>3. inbox # <<>> => Ahead # <<>> /\ Ahead[1] = inbox[1]
  <2>1. CASE registered = "none"
    BY <2>1 DEF Ahead
  <2>2. CASE registered # "none"
    <3>1. Len(inbox \o wire) = Len(inbox) + Len(wire) /\ Len(inbox) \in Nat /\ Len(wire) \in Nat
          /\ \A k \in 1 .. Len(inbox) + Len(wire) : (inbox \o wire)[k] = IF k <= Len(inbox) THEN inbox[k] ELSE wire[k - Len(inbox)]
      BY <1>1, Joint
    <3>2. inbox # <<>> => Len(inbox) >= 1
      BY <1>1
    <3>3. inbox # <<>> => inbox \o wire # <<>> /\ (inbox \o wire)[1] = inbox[1]
      BY <3>1, <3>2
    <3> QED  BY <3>3, <2>2 DEF Ahead
  <2> QED  BY <2>1, <2>2
<1>4. \A x \in Nat : (GoesOnAt(x) => GoesOnAt(x)') /\ (GoesOnAfter(x) => GoesOnAfter(x)')
  BY <1>1, <1>3 DEF GoesOnAt, GoesOnAfter, Begins
<1>5. buffer # <<>> => Place(buffer[Len(buffer)]) + 1 \in Nat
  <2>1. buffer # <<>> => buffer[Len(buffer)] \in Cells
    BY DEF ReadInv
  <2> QED  BY <2>1, PlaceOf
<1>6. Joined(Ahead)'
  BY <1>1, <1>2 DEF Joined, Begins, Ends
<1>7. buffer # <<>> => GoesOnAt(Place(buffer[Len(buffer)]) + 1)'
  BY <1>4, <1>5 DEF ReadInv
<1>8. ReadInv'
  BY <1>6, <1>7 DEF ReadInv
<1>9. \A unit \in Unit : 3 * unit.of.packet + 3 \in Nat
  BY PlaceOf DEF Unit
<1> QED  BY <1>4, <1>8, <1>9 DEF Precedes

-----------------------------------------------------------------------------
(***************************************************************************)
(* The steps.                                                              *)
(***************************************************************************)
LEMMA CameraKept ==
  ASSUME CameraInv, UNCHANGED <<packets, unsent, wire>>
  PROVE  CameraInv' /\ Tip' = Tip
BY DEF CameraInv, Tip, Joined, Reaches, Begins, Ends

LEMMA ConnectionGrows ==
  ASSUME CameraInv, NEW f \in Frame, IsFrame(f), wire' = Append(wire, f),
         f.rejected \/ Begins(f) = Tip, f.rejected \/ Ends(f) = Tip'
  PROVE  wire' \in Seq(Frame) /\ (\A k \in DOMAIN wire' : IsFrame(wire'[k])) /\ Joined(wire)' /\ Reaches(wire)'
<1>1. wire \in Seq(Frame) /\ (\A k \in DOMAIN wire : IsFrame(wire[k])) /\ Joined(wire) /\ Reaches(wire)
  BY DEF CameraInv
<1>2. /\ wire' \in Seq(Frame) /\ Len(wire') = Len(wire) + 1 /\ Len(wire) \in Nat
      /\ DOMAIN wire' = 1 .. Len(wire) + 1 /\ DOMAIN wire = 1 .. Len(wire)
      /\ (\A k \in 1 .. Len(wire) : wire'[k] = wire[k]) /\ wire'[Len(wire) + 1] = f
  BY <1>1, Appended
<1>3. \A k \in DOMAIN wire' : IsFrame(wire'[k])
  <2> SUFFICES ASSUME NEW k \in 1 .. Len(wire) + 1 PROVE IsFrame(wire'[k])
    BY <1>2
  <2>1. CASE k \in 1 .. Len(wire)
    BY <2>1, <1>1, <1>2
  <2>2. CASE ~(k \in 1 .. Len(wire))
    <3>1. k = Len(wire) + 1
      BY <2>2, <1>2
    <3> QED  BY <3>1, <1>2
  <2> QED  BY <2>1, <2>2
<1>4. wire # <<>> /\ ~f.rejected /\ ~wire[Len(wire)].rejected => Begins(f) = Ends(wire[Len(wire)])
  BY <1>1 DEF Reaches
<1>5. Joined(Append(wire, f))
  BY <1>1, <1>4, JoinedAppend
<1>6. Joined(wire)'
  BY <1>5 DEF Joined, Begins, Ends
<1>7. Reaches(wire)'
  BY <1>2 DEF Reaches, Ends
<1> QED  BY <1>2, <1>3, <1>6, <1>7

LEMMA OutputKept ==
  ASSUME OutputInv, UNCHANGED <<units, delivered>>,
         Reading' => Reading /\ \A unit \in Unit : Precedes(unit) => Precedes(unit)'
  PROVE  OutputInv'
<1>1. /\ units \in Seq(Unit) /\ delivered \in Seq(Unit) /\ InOrder(units) /\ InOrder(delivered)
      /\ \A k \in DOMAIN delivered, m \in DOMAIN units : delivered[k].of.packet < units[m].of.packet
  BY DEF OutputInv
<1>2. (InOrder(units) /\ InOrder(delivered))'
  BY <1>1 DEF InOrder, Whole
<1>3. ASSUME Reading'
      PROVE  (\A k \in DOMAIN units : Precedes(units[k])') /\ (\A k \in DOMAIN delivered : Precedes(delivered[k])')
  <2>1. (\A k \in DOMAIN units : Precedes(units[k])) /\ (\A k \in DOMAIN delivered : Precedes(delivered[k]))
    BY <1>3 DEF OutputInv
  <2>2. (\A k \in DOMAIN units : units[k] \in Unit) /\ (\A k \in DOMAIN delivered : delivered[k] \in Unit)
    BY <1>1
  <2> QED  BY <2>1, <2>2, <1>3
<1>4. (\A k \in DOMAIN delivered, m \in DOMAIN units : delivered[k].of.packet < units[m].of.packet)'
  BY <1>1
<1>5. (Reading => (\A k \in DOMAIN units : Precedes(units[k])) /\ (\A k \in DOMAIN delivered : Precedes(delivered[k])))'
  BY <1>3 DEF Precedes
<1> QED  BY <1>1, <1>2, <1>4, <1>5 DEF OutputInv

LEMMA FeedStarts ==
  ASSUME Init
  PROVE  FeedInv
<1>1. CameraInv
  BY DEF Init, CameraInv, Joined, Reaches, Tip
<1>2. LockInv /\ ~Reading
  BY DEF Init, LockInv, Captures, Reading
<1>3. OutputInv
  BY <1>2 DEF Init, OutputInv, InOrder
<1> QED  BY <1>1, <1>2, <1>3 DEF FeedInv, Init

LEMMA HearKeeps ==
  ASSUME FeedInv, Hear
  PROVE  FeedInv'
<1>1. UNCHANGED <<packets, unsent, lock, stage, registered, inbox, droppedFrames, buffer, units, delivered>>
  BY DEF Hear, readerVars, outputVars
<1>2. wire' = wire \/ wire' = Append(wire, Rejection)
  BY DEF Hear
<1>3. CameraInv /\ LockInv /\ droppedFrames \in Nat
  BY DEF FeedInv
<1>4. Tip' = Tip
  BY <1>1 DEF Tip
<1>5. CameraInv'
  <2>1. CASE wire' = wire
    BY <2>1, <1>1, <1>3, CameraKept
  <2>2. CASE wire' = Append(wire, Rejection)
    BY <2>2, <1>1, <1>3, ConnectionGrows, RejectionIsFrame DEF CameraInv
  <2> QED  BY <2>1, <2>2, <1>2
<1>6. LockInv' /\ (Reading' => Reading)
  BY <1>1, <1>3 DEF LockInv, Reading
<1>7. ASSUME droppedFrames' = 0
      PROVE  (Reading' => ReadInv') /\ OutputInv'
  <2>1. (Reading => ReadInv) /\ OutputInv
    BY <1>7, <1>1 DEF FeedInv
  <2>2. ASSUME Reading PROVE ReadInv' /\ \A unit \in Unit : Precedes(unit) => Precedes(unit)'
    <3>1. CASE wire' = wire
      BY <3>1, <2>1, <2>2, <1>1, <1>4, AheadKept DEF Ahead, ReadInv
    <3>2. CASE wire' = Append(wire, Rejection)
      BY <3>2, <2>1, <2>2, <1>1, <1>3, WireGrows, RejectionIsFrame
    <3> QED  BY <3>1, <3>2, <1>2
  <2> QED  BY <2>1, <2>2, <1>1, <1>6, OutputKept
<1> QED  BY <1>1, <1>3, <1>5, <1>6, <1>7 DEF FeedInv

LEMMA DispatchKeeps ==
  ASSUME FeedInv, Dispatch
  PROVE  FeedInv'
<1>1. /\ UNCHANGED <<packets, unsent, lock, stage, registered, buffer, units, delivered>>
      /\ wire # <<>> /\ wire' = Tail(wire)
      /\ \/ registered = "none" /\ UNCHANGED <<inbox, droppedFrames>>
         \/ registered # "none" /\ inbox' = Append(inbox, Head(wire)) /\ UNCHANGED droppedFrames
         \/ droppedFrames' = droppedFrames + 1
  BY DEF Dispatch, cameraVars, outputVars
<1>2. CameraInv /\ LockInv /\ droppedFrames \in Nat /\ droppedFrames' \in Nat
  BY <1>1 DEF FeedInv
<1>3. Tip' = Tip
  BY <1>1 DEF Tip
<1>4. wire \in Seq(Frame) /\ (\A k \in DOMAIN wire : IsFrame(wire[k])) /\ Joined(wire) /\ Reaches(wire)
  BY <1>2 DEF CameraInv
<1>5. /\ wire' \in Seq(Frame) /\ Len(wire') = Len(wire) - 1 /\ Len(wire) \in Nat \ {0}
      /\ DOMAIN wire' = 1 .. Len(wire) - 1 /\ DOMAIN wire = 1 .. Len(wire)
      /\ (\A k \in 1 .. Len(wire) - 1 : wire'[k] = wire[k + 1]) /\ Head(wire) = wire[1] /\ wire[1] \in Frame
  BY <1>1, <1>4, Rest
<1>6. CameraInv'
  <2>1. Joined(Tail(wire))
    BY <1>1, <1>4, JoinedTail
  <2>2. Joined(wire)'
    BY <2>1, <1>1 DEF Joined, Begins, Ends
  <2>3. wire' # <<>> => wire'[Len(wire')] = wire[Len(wire)]
    BY <1>5
  <2>4. Reaches(wire)'
    BY <2>3, <1>1, <1>3, <1>4 DEF Reaches, Ends
  <2>5. \A k \in DOMAIN wire' : IsFrame(wire'[k])
    BY <1>4, <1>5
  <2> QED  BY <2>2, <2>4, <2>5, <1>1, <1>2, <1>5 DEF CameraInv
<1>7. LockInv' /\ (Reading' => Reading)
  BY <1>1, <1>2 DEF LockInv, Reading
<1>8. ASSUME droppedFrames' = 0
      PROVE  (Reading' => ReadInv') /\ OutputInv'
  <2>1. droppedFrames = 0 /\ droppedFrames' = droppedFrames
    <3>1. droppedFrames' # droppedFrames + 1
      BY <1>8, <1>2
    <3> QED  BY <3>1, <1>1, <1>8
  <2>2. (Reading => ReadInv) /\ OutputInv
    BY <2>1 DEF FeedInv
  <2>3. ASSUME Reading PROVE ReadInv' /\ \A unit \in Unit : Precedes(unit) => Precedes(unit)'
    <3>0. ReadInv /\ inbox \in Seq(Frame) /\ \A k \in DOMAIN inbox : IsFrame(inbox[k])
      BY <2>2, <2>3 DEF ReadInv
    <3>1. CASE registered = "none" /\ UNCHANGED inbox
      BY <3>0, <3>1, <1>1, <1>3, AheadKept DEF Ahead
    <3>2. CASE registered # "none" /\ inbox' = Append(inbox, Head(wire))
      <4>1. inbox' \o wire' = inbox \o wire
        BY <3>0, <3>2, <1>1, <1>4
      <4>2. Ahead' = Ahead
        BY <4>1, <3>2, <1>1 DEF Ahead
      <4>3. /\ inbox' \in Seq(Frame) /\ DOMAIN inbox' = 1 .. Len(inbox) + 1 /\ DOMAIN inbox = 1 .. Len(inbox)
            /\ (\A k \in 1 .. Len(inbox) : inbox'[k] = inbox[k]) /\ inbox'[Len(inbox) + 1] = wire[1] /\ Len(inbox) \in Nat
        BY <3>0, <3>2, <1>5, Appended
      <4>4. \A k \in DOMAIN inbox' : IsFrame(inbox'[k])
        <5> SUFFICES ASSUME NEW k \in 1 .. Len(inbox) + 1 PROVE IsFrame(inbox'[k])
          BY <4>3
        <5>1. CASE k \in 1 .. Len(inbox)
          BY <5>1, <4>3, <3>0
        <5>2. CASE ~(k \in 1 .. Len(inbox))
          <6>1. k = Len(inbox) + 1 /\ 1 \in DOMAIN wire
            BY <5>2, <4>3, <1>5
          <6> QED  BY <6>1, <4>3, <1>4
        <5> QED  BY <5>1, <5>2
      <4> QED  BY <4>2, <4>3, <4>4, <3>0, <1>1, <1>3, AheadKept
    <3> QED  BY <3>1, <3>2, <2>1, <1>1, <1>8, <1>2
  <2> QED  BY <2>2, <2>3, <1>1, <1>7, OutputKept
<1> QED  BY <1>2, <1>6, <1>7, <1>8 DEF FeedInv

LEMMA Cut ==
  ASSUME NEW S, NEW s \in Seq(S), NEW n \in 1 .. Len(s)
  PROVE  /\ SubSeq(s, 1, n) \in Seq(S) /\ Len(SubSeq(s, 1, n)) = n /\ n \in Nat \ {0} /\ DOMAIN SubSeq(s, 1, n) = 1 .. n
         /\ \A k \in 1 .. n : SubSeq(s, 1, n)[k] = s[k]
         /\ SubSeq(s, n + 1, Len(s)) \in Seq(S) /\ Len(SubSeq(s, n + 1, Len(s))) = Len(s) - n
         /\ DOMAIN SubSeq(s, n + 1, Len(s)) = 1 .. Len(s) - n
         /\ \A k \in 1 .. Len(s) - n : SubSeq(s, n + 1, Len(s))[k] = s[n + k]
<1>1. Len(s) \in Nat /\ n \in Nat \ {0} /\ n <= Len(s) /\ DOMAIN s = 1 .. Len(s) /\ \A k \in 1 .. Len(s) : s[k] \in S
  OBVIOUS
<1>2. \A k \in 1 .. n : k \in 1 .. Len(s)
  BY <1>1
<1>3. \A k \in n + 1 .. Len(s) : k \in 1 .. Len(s)
  BY <1>1
<1>4. /\ SubSeq(s, 1, n) \in Seq(S) /\ Len(SubSeq(s, 1, n)) = n
      /\ \A k \in 1 .. n : SubSeq(s, 1, n)[k] = s[k]
  <2>1. /\ SubSeq(s, 1, n) \in Seq(S) /\ Len(SubSeq(s, 1, n)) = IF 1 <= n THEN n - 1 + 1 ELSE 0
        /\ \A k \in 1 .. n - 1 + 1 : SubSeq(s, 1, n)[k] = s[1 + k - 1]
    BY <1>1, <1>2, SubSeqProperties
  <2>2. 1 <= n /\ n - 1 + 1 = n /\ \A k \in 1 .. n : 1 + k - 1 = k
    BY <1>1
  <2> QED  BY <2>1, <2>2
<1>5. /\ SubSeq(s, n + 1, Len(s)) \in Seq(S) /\ Len(SubSeq(s, n + 1, Len(s))) = Len(s) - n
      /\ \A k \in 1 .. Len(s) - n : SubSeq(s, n + 1, Len(s))[k] = s[n + k]
  <2>1. n + 1 \in Int /\ Len(s) \in Int /\ \A k \in n + 1 .. Len(s) : s[k] \in S
    BY <1>1, <1>3
  <2>2. /\ SubSeq(s, n + 1, Len(s)) \in Seq(S)
        /\ Len(SubSeq(s, n + 1, Len(s))) = IF n + 1 <= Len(s) THEN Len(s) - (n + 1) + 1 ELSE 0
        /\ \A k \in 1 .. Len(s) - (n + 1) + 1 : SubSeq(s, n + 1, Len(s))[k] = s[n + 1 + k - 1]
    BY <2>1, SubSeqProperties
  <2>3. ASSUME NEW l \in Nat, NEW m \in Nat, m <= l
        PROVE  /\ l - (m + 1) + 1 = l - m /\ (IF m + 1 <= l THEN l - m ELSE 0) = l - m
               /\ \A k \in 1 .. l - m : m + 1 + k - 1 = m + k
    BY <2>3
  <2>4. /\ Len(s) - (n + 1) + 1 = Len(s) - n /\ (IF n + 1 <= Len(s) THEN Len(s) - n ELSE 0) = Len(s) - n
        /\ \A k \in 1 .. Len(s) - n : n + 1 + k - 1 = n + k
    BY <2>3, <1>1
  <2> DEFINE r == SubSeq(s, n + 1, Len(s))
             m == Len(s) - (n + 1) + 1
  <2>5. r \in Seq(S) /\ Len(r) = (IF n + 1 <= Len(s) THEN m ELSE 0) /\ \A k \in 1 .. m : r[k] = s[n + 1 + k - 1]
    BY <2>2
  <2>6. m = Len(s) - n
    BY <2>4
  <2> HIDE DEF r, m
  <2>7. Len(r) = Len(s) - n
    BY <2>4, <2>5, <2>6
  <2>8. ASSUME NEW k \in 1 .. Len(s) - n PROVE r[k] = s[n + k]
    <3>1. k \in 1 .. m /\ n + 1 + k - 1 = n + k
      BY <2>4, <2>6
    <3>2. r[k] = s[n + 1 + k - 1]
      BY <3>1, <2>5
    <3> QED  BY <3>1, <3>2
  <2>9. \A k \in 1 .. Len(s) - n : r[k] = s[n + k]
    BY <2>8
  <2>10. r \in Seq(S)
    BY <2>5
  <2> QED  BY <2>7, <2>9, <2>10, Zenon DEF r
<1>6. \A t \in Seq(S) : DOMAIN t = 1 .. Len(t)
  OBVIOUS
<1> QED  BY <1>1, <1>4, <1>5, <1>6, Zenon

\* What a packet has still to send: its own cells, of which the first alone may be ciphered.
LEMMA CellsToSend ==
  ASSUME CameraInv, NEW cells, NEW kind \in Kinds,
         cells = IF unsent = <<>> THEN Packet(packets + 1, kind) ELSE unsent
  PROVE  /\ cells \in Seq(Cells) /\ cells # <<>> /\ OfOnePacket(cells) /\ HeadCiphered(cells)
         /\ Place(cells[1]) = Tip /\ cells[1].packet = (IF unsent = <<>> THEN packets + 1 ELSE packets)
         /\ (unsent = <<>>) = (cells[1].part = "head")
         /\ cells[Len(cells)].part = "pad"
         /\ \A k \in 2 .. Len(cells) : cells[k].clear /\ cells[k].part # "head"
         /\ unsent # <<>> => AllClear(cells) /\ cells[1].part # "head"
<1>1. packets \in Nat /\ unsent \in Seq(Cells)
  BY DEF CameraInv
<1>2. CASE unsent = <<>>
  <2> DEFINE head == Cell(packets + 1, "head", kind, FALSE)
             body == Cell(packets + 1, "body", kind, TRUE)
             pad  == Cell(packets + 1, "pad", kind, TRUE)
  <2>1. /\ head \in Cells /\ body \in Cells /\ pad \in Cells
        /\ head.packet = packets + 1 /\ body.packet = packets + 1 /\ pad.packet = packets + 1
        /\ head.part = "head" /\ body.part = "body" /\ pad.part = "pad"
    BY <1>1 DEF Cell, Cells
  <2>b. ~head.clear /\ body.clear /\ pad.clear
    BY DEF Cell
  <2>c. cells = <<head, body, pad>>
    BY <1>2 DEF Packet
  <2> HIDE DEF head, body, pad
  <2>2. Place(head) = 3 * packets + 3 /\ Place(body) = 3 * packets + 4 /\ Place(pad) = 3 * packets + 5
    BY <2>1, <1>1 DEF Place
  <2>3. /\ cells \in Seq(Cells) /\ Len(cells) = 3 /\ DOMAIN cells = 1..3
        /\ cells[1] = head /\ cells[2] = body /\ cells[3] = pad
    <3>1. <<head, body, pad>> \in Seq(Cells)
      BY <2>1
    <3>2. Len(<<head, body, pad>>) = 3 /\ DOMAIN <<head, body, pad>> = 1..3
      OBVIOUS
    <3>3. <<head, body, pad>>[1] = head /\ <<head, body, pad>>[2] = body /\ <<head, body, pad>>[3] = pad
      OBVIOUS
    <3> QED  BY <2>c, <3>1, <3>2, <3>3, Zenon
  <2>4. \A k \in 1..3 : k = 1 \/ k = 2 \/ k = 3
    OBVIOUS
  <2>5. \A k \in 2..3 : k = 2 \/ k = 3
    OBVIOUS
  <2>6. OfOnePacket(cells)
    <3>1. \A k \in 1..3 : cells[k].packet = cells[1].packet
      BY <2>1, <2>3, <2>4
    <3>2. \A k \in 1..3 : Place(cells[k]) = Place(cells[1]) + k - 1
      <4>1. Place(cells[1]) = Place(cells[1]) + 1 - 1
        BY <2>2, <2>3, <1>1
      <4>2. Place(cells[2]) = Place(cells[1]) + 2 - 1
        BY <2>2, <2>3, <1>1
      <4>3. Place(cells[3]) = Place(cells[1]) + 3 - 1
        BY <2>2, <2>3, <1>1
      <4> QED  BY <4>1, <4>2, <4>3, <2>4
    <3> QED  BY <3>1, <3>2, <2>3 DEF OfOnePacket
  <2>7. HeadCiphered(cells)
    <3>1. /\ cells[1].clear = (cells[1].part # "head") /\ cells[2].clear = (cells[2].part # "head")
          /\ cells[3].clear = (cells[3].part # "head")
      <4>1. head.clear = FALSE /\ body.clear = TRUE /\ pad.clear = TRUE
        BY DEF head, body, pad, Cell
      <4>2. (head.part # "head") = FALSE /\ (body.part # "head") = TRUE /\ (pad.part # "head") = TRUE
        BY <2>1
      <4> QED  BY <4>1, <4>2, <2>3, Zenon
    <3>2. DOMAIN cells = 1..3
      BY <2>3
    <3> QED  BY <3>1, <3>2, <2>4 DEF HeadCiphered
  <2>8. \A k \in 2..3 : cells[k].clear /\ cells[k].part # "head"
    BY <2>1, <2>b, <2>3, <2>5
  <2>9. Tip = 3 * packets + 3
    BY <1>1, <1>2 DEF Tip
  <2> QED  BY <2>1, <2>2, <2>3, <2>6, <2>7, <2>8, <2>9, <1>2
<1>3. CASE unsent # <<>>
  <2>1. /\ cells \in Seq(Cells) /\ cells # <<>> /\ OfOnePacket(cells) /\ AllClear(cells)
        /\ cells[1].packet = packets /\ cells[1].part # "head" /\ cells[Len(cells)].part = "pad"
    BY <1>1, <1>3 DEF CameraInv
  <2>2. Place(cells[1]) = Tip
    BY <1>3 DEF Tip
  <2>3. \A k \in 1 .. Len(cells) : cells[k].part # "head"
    <3> SUFFICES ASSUME NEW k \in 1 .. Len(cells) PROVE cells[k].part # "head"
      OBVIOUS
    <3>1. cells[k] \in Cells /\ cells[1] \in Cells /\ cells[k].packet = packets /\ Place(cells[k]) = Place(cells[1]) + k - 1
      BY <2>1, CellOf
    <3>2. Place(cells[1]) # 3 * packets /\ 3 * packets <= Place(cells[1]) /\ Place(cells[1]) \in Nat
      BY <3>1, <2>1, PlaceOf
    <3>3. Place(cells[k]) # 3 * packets
      BY <3>1, <3>2, <1>1
    <3> QED  BY <3>1, <3>3, PlaceOf
  <2>4. Len(cells) \in Nat /\ DOMAIN cells = 1 .. Len(cells) /\ \A k \in 1 .. Len(cells) : cells[k].clear
    BY <2>1 DEF AllClear
  <2>5. HeadCiphered(cells)
    <3> SUFFICES ASSUME NEW k \in 1 .. Len(cells) PROVE cells[k].clear = (cells[k].part # "head")
      BY <2>4 DEF HeadCiphered
    <3>1. cells[k] \in Cells
      BY <2>1
    <3>2. cells[k].clear \in BOOLEAN
      BY <3>1 DEF Cells
    <3>3. cells[k].clear = TRUE
      BY <3>2, <2>4, Zenon
    <3>4. (cells[k].part # "head") = TRUE
      BY <2>3, Zenon
    <3> QED  BY <3>3, <3>4, Zenon
  <2>6. \A k \in 2 .. Len(cells) : k \in 1 .. Len(cells)
    BY <2>4
  <2>7. (unsent = <<>>) = FALSE /\ (cells[1].part = "head") = FALSE
    BY <1>3, <2>1, Zenon
  <2> QED  BY <2>1, <2>2, <2>3, <2>4, <2>5, <2>6, <2>7, <1>3
<1> QED  BY <1>2, <1>3

\* A frame takes the first of them, from the camera's tip to the next.
LEMMA SendKeeps ==
  ASSUME FeedInv, Send
  PROVE  FeedInv'
<1> DEFINE start == unsent = <<>>
           cells == IF start THEN Packet(packets + 1, IF opening THEN "I" ELSE "P") ELSE unsent
<1>1. CameraInv /\ LockInv /\ droppedFrames \in Nat
  BY DEF FeedInv
<1>2. /\ UNCHANGED <<lock, stage, registered, inbox, droppedFrames, buffer, units, delivered>>
      /\ packets' = IF start THEN packets + 1 ELSE packets
  BY DEF Send, readerVars, outputVars
<1>3. PICK n \in 1 .. Len(cells) :
        /\ wire' = Append(wire, [rejected |-> FALSE, start |-> start, cells |-> SubSeq(cells, 1, n)])
        /\ unsent' = SubSeq(cells, n + 1, Len(cells))
  BY DEF Send
<1>4. /\ cells \in Seq(Cells) /\ cells # <<>> /\ OfOnePacket(cells) /\ HeadCiphered(cells)
      /\ Place(cells[1]) = Tip /\ cells[1].packet = (IF unsent = <<>> THEN packets + 1 ELSE packets)
      /\ start = (cells[1].part = "head")
      /\ cells[Len(cells)].part = "pad"
      /\ \A k \in 2 .. Len(cells) : cells[k].clear /\ cells[k].part # "head"
  <2>1. (IF opening THEN "I" ELSE "P") \in Kinds
    BY DEF Kinds
  <2> QED  BY <2>1, <1>1, CellsToSend
<1> DEFINE sent == SubSeq(cells, 1, n)
           rest == SubSeq(cells, n + 1, Len(cells))
           f == [rejected |-> FALSE, start |-> start, cells |-> sent]
<1>5. packets \in Nat /\ packets' \in Nat /\ cells[1].packet = packets'
  BY <1>1, <1>2, <1>4 DEF CameraInv
<1>6. start \in BOOLEAN
  OBVIOUS
<1> HIDE DEF cells, start
<1>7. /\ Len(cells) \in Nat \ {0} /\ DOMAIN cells = 1 .. Len(cells) /\ Place(cells[1]) \in Nat
      /\ \A k \in 1 .. Len(cells) :
            cells[k] \in Cells /\ cells[k].packet = cells[1].packet /\ Place(cells[k]) = Place(cells[1]) + k - 1
  BY <1>4, CellOf
<1>8. /\ sent \in Seq(Cells) /\ Len(sent) = n /\ n \in Nat \ {0} /\ DOMAIN sent = 1 .. n /\ \A k \in 1 .. n : sent[k] = cells[k]
      /\ rest \in Seq(Cells) /\ Len(rest) = Len(cells) - n /\ DOMAIN rest = 1 .. Len(cells) - n
      /\ \A k \in 1 .. Len(cells) - n : rest[k] = cells[n + k]
  <2>1. cells \in Seq(Cells) /\ n \in 1 .. Len(cells)
    BY <1>4
  <2> QED  BY ONLY <2>1, Cut DEF sent, rest
<1> HIDE DEF sent, rest
<1>9. OfOnePacket(sent) /\ HeadCiphered(sent) /\ sent # <<>> /\ sent[1] = cells[1]
  <2>1. n <= Len(cells) /\ \A k \in 1 .. n : k \in 1 .. Len(cells)
    BY <1>7
  <2>2. sent[1] = cells[1] /\ sent # <<>>
    BY <1>8
  <2>3. OfOnePacket(sent)
    BY <2>1, <2>2, <1>7, <1>8 DEF OfOnePacket
  <2>4. HeadCiphered(sent)
    BY <2>1, <1>4, <1>7, <1>8 DEF HeadCiphered
  <2> QED  BY <2>2, <2>3, <2>4
<1>10. f \in Frame /\ IsFrame(f) /\ ~f.rejected /\ Begins(f) = Tip
  BY <1>4, <1>6, <1>8, <1>9 DEF Frame, IsFrame, Begins
<1>11. rest # <<>> =>
         /\ OfOnePacket(rest) /\ AllClear(rest) /\ rest[1].packet = packets' /\ rest[1].part # "head"
         /\ rest[Len(rest)].part = "pad" /\ Place(rest[1]) = Place(cells[1]) + n
  <2> SUFFICES ASSUME rest # <<>>
               PROVE  /\ OfOnePacket(rest) /\ AllClear(rest) /\ rest[1].packet = packets' /\ rest[1].part # "head"
                      /\ rest[Len(rest)].part = "pad" /\ Place(rest[1]) = Place(cells[1]) + n
    OBVIOUS
  <2>1. Len(rest) \in Nat \ {0}
    BY <1>8
  <2>a. \A l \in Nat, m \in Nat \ {0} : \A k \in 1 .. l - m : m + k \in 2 .. l /\ m + k \in 1 .. l
    OBVIOUS
  <2>2. \A k \in 1 .. Len(rest) : n + k \in 2 .. Len(cells) /\ n + k \in 1 .. Len(cells) /\ rest[k] = cells[n + k]
    <3>1. \A k \in 1 .. Len(cells) - n : n + k \in 2 .. Len(cells) /\ n + k \in 1 .. Len(cells)
      <4>1. Len(cells) \in Nat /\ n \in Nat \ {0}
        BY <1>7, <1>8
      <4> QED  BY <4>1, <2>a
    <3> QED  BY <3>1, <1>8
  <2>3. \A k \in 1 .. Len(rest) : /\ rest[k].packet = cells[1].packet /\ Place(rest[k]) = Place(cells[1]) + n + k - 1
                                  /\ rest[k].clear /\ rest[k].part # "head"
    BY <2>2, <1>7, <1>4, <1>8
  <2>4. rest[Len(rest)] = cells[Len(cells)] /\ DOMAIN rest = 1 .. Len(rest)
    <3>0. Len(rest) = Len(cells) - n /\ Len(cells) \in Nat /\ n \in Nat
      BY <1>7, <1>8
    <3>1. Len(rest) \in 1 .. Len(rest)
      BY <2>1
    <3>2. n + Len(rest) = Len(cells)
      BY <3>0
    <3>3. rest[Len(rest)] = cells[n + Len(rest)]
      BY <3>1, <2>2
    <3> QED  BY <3>2, <3>3, <1>8
  <2>5. rest[1].packet = cells[1].packet /\ Place(rest[1]) = Place(cells[1]) + n
    <3>0. 1 \in 1 .. Len(rest)
      BY <2>1
    <3>1. Place(cells[1]) \in Nat /\ n \in Nat
      BY <1>7, <1>8
    <3>2. rest[1].packet = cells[1].packet /\ Place(rest[1]) = Place(cells[1]) + n + 1 - 1
      BY <3>0, <2>3
    <3> QED  BY <3>1, <3>2
  <2>6. OfOnePacket(rest)
    <3>1. \A k \in 1 .. Len(rest) : rest[k].packet = rest[1].packet /\ Place(rest[k]) = Place(rest[1]) + k - 1
      BY <2>3, <2>5, <1>7, <1>8
    <3> QED  BY <3>1, <2>4 DEF OfOnePacket
  <2>7. AllClear(rest)
    BY <2>3, <2>4 DEF AllClear
  <2> QED  BY <2>1, <2>3, <2>4, <2>5, <2>6, <2>7, <1>4, <1>5
<1>12. Ends(f) = Place(cells[1]) + n
  <2>1. n \in 1 .. n /\ f.cells = sent
    BY <1>8
  <2>2. sent[n] = cells[n] /\ Place(cells[n]) = Place(cells[1]) + n - 1
    BY <2>1, <1>7, <1>8
  <2> QED  BY <2>1, <2>2, <1>7, <1>8 DEF Ends
<1>13. Tip' = Place(cells[1]) + n
  <2>1. unsent' = rest
    BY <1>3 DEF rest
  <2>2. CASE rest # <<>>
    BY <2>1, <2>2, <1>11 DEF Tip, Place
  <2>3. CASE rest = <<>>
    <3>0. Len(cells) - n = 0
      BY <2>3, <1>8
    <3>1. n = Len(cells) /\ Len(cells) \in 1 .. Len(cells)
      <4>1. ASSUME NEW l \in Nat \ {0}, NEW m \in Nat, l - m = 0 PROVE m = l /\ l \in 1 .. l
        BY <4>1
      <4> QED  BY <4>1, <3>0, <1>7, <1>8
    <3>2. cells[n] \in Cells /\ cells[n].packet = packets' /\ cells[n].part = "pad" /\ Place(cells[n]) = Place(cells[1]) + n - 1
      BY <3>1, <1>4, <1>5, <1>7
    <3>3. Place(cells[n]) = 3 * packets' + 2
      BY <3>2, PlaceOf
    <3>4. Tip' = 3 * (packets' + 1)
      BY <2>1, <2>3 DEF Tip
    <3>5. Place(cells[1]) \in Nat /\ n \in Nat /\ packets' \in Nat
      BY <1>5, <1>7, <1>8
    <3> QED  BY <3>2, <3>3, <3>4, <3>5
  <2> QED  BY <2>2, <2>3
<1>14. wire' = Append(wire, f) /\ unsent' = rest
  BY <1>3 DEF sent, rest
<1> HIDE DEF f
<1>15. CameraInv'
  <2>1. wire' \in Seq(Frame) /\ (\A k \in DOMAIN wire' : IsFrame(wire'[k])) /\ Joined(wire)' /\ Reaches(wire)'
    BY <1>1, <1>10, <1>12, <1>13, <1>14, ConnectionGrows
  <2>2. unsent' # <<>> => /\ OfOnePacket(unsent)' /\ AllClear(unsent)'
                          /\ unsent'[1].packet = packets' /\ unsent'[1].part # "head" /\ unsent'[Len(unsent')].part = "pad"
    BY <1>11, <1>14 DEF OfOnePacket, AllClear, Place
  <2> QED  BY <2>1, <2>2, <1>5, <1>8, <1>14 DEF CameraInv
<1>16. LockInv' /\ (Reading' => Reading)
  BY <1>1, <1>2 DEF LockInv, Reading
<1>17. ASSUME droppedFrames' = 0
       PROVE  (Reading' => ReadInv') /\ OutputInv'
  <2>1. (Reading => ReadInv) /\ OutputInv
    BY <1>17, <1>2 DEF FeedInv
  <2>2. ASSUME Reading PROVE ReadInv' /\ \A unit \in Unit : Precedes(unit) => Precedes(unit)'
    BY <2>1, <2>2, <1>1, <1>2, <1>10, <1>12, <1>13, <1>14, WireGrows
  <2> QED  BY <2>1, <2>2, <1>2, <1>16, OutputKept
<1> QED  BY <1>1, <1>2, <1>15, <1>16, <1>17 DEF FeedInv

\* The capture's next frame is the first of those ahead of it, and then there is the rest.
LEMMA NextAhead ==
  ASSUME CameraInv, ReadInv, inbox # <<>>, inbox' = Tail(inbox), UNCHANGED <<registered, wire>>
  PROVE  /\ Ahead \in Seq(Frame) /\ Ahead # <<>> /\ Ahead[1] = Head(inbox) /\ Ahead' = Tail(Ahead)
         /\ inbox' \in Seq(Frame) /\ (\A k \in DOMAIN inbox' : IsFrame(inbox'[k]))
         /\ Head(inbox) \in Frame /\ IsFrame(Head(inbox))
<1>1. /\ wire \in Seq(Frame) /\ inbox \in Seq(Frame) /\ Ahead \in Seq(Frame)
      /\ \A k \in DOMAIN inbox : IsFrame(inbox[k])
  BY AheadOf DEF CameraInv, ReadInv
<1>2. /\ inbox' \in Seq(Frame) /\ DOMAIN inbox' = 1 .. Len(inbox) - 1 /\ DOMAIN inbox = 1 .. Len(inbox)
      /\ Len(inbox) \in Nat \ {0}
      /\ (\A k \in 1 .. Len(inbox) - 1 : inbox'[k] = inbox[k + 1]) /\ Head(inbox) = inbox[1] /\ inbox[1] \in Frame
  BY <1>1, Rest
<1>3. \A k \in DOMAIN inbox' : IsFrame(inbox'[k])
  BY <1>1, <1>2
<1>4. IsFrame(Head(inbox)) /\ Head(inbox) \in Frame
  BY <1>1, <1>2
<1>5. Ahead # <<>> /\ Ahead[1] = Head(inbox) /\ Ahead' = Tail(Ahead)
  <2>1. CASE registered = "none"
    BY <2>1, <1>1, <1>2 DEF Ahead
  <2>2. CASE registered # "none"
    <3>1. Ahead = inbox \o wire /\ Ahead' = Tail(inbox) \o wire
      BY <2>2 DEF Ahead
    <3>2. /\ Len(inbox \o wire) = Len(inbox) + Len(wire) /\ Len(wire) \in Nat
          /\ \A k \in 1 .. Len(inbox) + Len(wire) : (inbox \o wire)[k] = IF k <= Len(inbox) THEN inbox[k] ELSE wire[k - Len(inbox)]
      BY <1>1, Joint
    <3>3. inbox \o wire # <<>> /\ (inbox \o wire)[1] = inbox[1]
      BY <3>2, <1>2
    <3>4. Tail(inbox \o wire) = Tail(inbox) \o wire
      BY <1>1
    <3> QED  BY <3>1, <3>3, <3>4, <1>2
  <2> QED  BY <2>1, <2>2
<1> QED  BY <1>1, <1>2, <1>3, <1>4, <1>5

\* Where a frame ends the capture goes on.
LEMMA GoesOnAtEnd ==
  ASSUME CameraInv, ReadInv, inbox # <<>>, inbox' = Tail(inbox), UNCHANGED <<registered, wire, packets, unsent>>,
         ~Head(inbox).rejected, NEW end \in Nat, end = Ends(Head(inbox))
  PROVE  GoesOnAt(end)' /\ \A x \in Nat : x <= end => GoesOnAfter(x)'
<1> DEFINE frame == Head(inbox)
<1>1. Ahead \in Seq(Frame) /\ Ahead # <<>> /\ Ahead[1] = frame /\ Ahead' = Tail(Ahead)
  BY NextAhead
<1>2. Joined(Ahead) /\ (registered # "none" => Reaches(Ahead))
  BY DEF ReadInv
<1>3. Tip' = Tip
  BY DEF Tip
<1> DEFINE s == Ahead
           t == Tail(s)
<1> HIDE DEF frame, s
<1>4. /\ t \in Seq(Frame) /\ Len(t) = Len(s) - 1 /\ Len(s) \in Nat \ {0} /\ DOMAIN s = 1 .. Len(s)
      /\ (\A k \in 1 .. Len(s) - 1 : t[k] = s[k + 1])
  BY <1>1, Rest DEF s
<1> HIDE DEF t
<1>5. t # <<>> => t[1].rejected \/ Begins(t[1]) = end
  <2> SUFFICES ASSUME t # <<>> PROVE t[1].rejected \/ Begins(t[1]) = end
    OBVIOUS
  <2>1. Len(t) # 0
    BY <1>4
  <2>2. 1 \in DOMAIN s /\ 1 + 1 \in DOMAIN s /\ t[1] = s[1 + 1]
    BY <2>1, <1>4
  <2>3. t[1].rejected \/ Begins(s[1 + 1]) = Ends(s[1])
    BY <2>2, <1>1, <1>2 DEF Joined, s, frame
  <2> QED  BY <2>2, <2>3, <1>1 DEF s, frame
<1>6. t = <<>> => registered = "none" \/ Tip = end
  <2> SUFFICES ASSUME t = <<>>, registered # "none" PROVE Tip = end
    OBVIOUS
  <2>1. Len(s) = 1 /\ s # <<>>
    BY <1>4
  <2> QED  BY <2>1, <1>1, <1>2 DEF Reaches, s, frame
<1>7. Ahead' = t
  BY <1>1 DEF s, t
<1>8. IF t # <<>> THEN t[1].rejected \/ Begins(t[1]) = end ELSE registered' = "none" \/ Tip' = end
  BY <1>3, <1>5, <1>6
<1>9. GoesOnAt(end)'
  BY <1>7, <1>8 DEF GoesOnAt, Begins
<1>10. ASSUME NEW x \in Nat, x <= end PROVE GoesOnAfter(x)'
  <2>1. IF t # <<>> THEN t[1].rejected \/ Begins(t[1]) >= x ELSE registered' = "none" \/ Tip' >= x
    BY <1>8, <1>10
  <2> QED  BY <2>1, <1>7 DEF GoesOnAfter, Begins
<1> QED  BY <1>9, <1>10

LEMMA ReadGoesOn ==
  ASSUME CameraInv, ReadInv, inbox # <<>>, Head(inbox) # Rejection,
         NEW walk, walk = Walk(buffer \o MediaChunk(Head(inbox))),
         buffer' = walk.left, inbox' = Tail(inbox), UNCHANGED <<registered, wire, packets, unsent>>
  PROVE  /\ ReadInv' /\ \A u \in Unit : Precedes(u) => Precedes(u)'
         /\ \/ walk.taken = <<>>
            \/ \E unit \in Unit : /\ walk.taken = <<unit>> /\ Whole(unit) /\ Precedes(unit)'
                                  /\ \A u \in Unit : Precedes(u) => u.of.packet < unit.of.packet
<1> DEFINE frame == Head(inbox)
           begin == Begins(frame)
           end == Ends(frame)
<1>1. /\ Ahead \in Seq(Frame) /\ Ahead # <<>> /\ Ahead[1] = frame /\ Ahead' = Tail(Ahead)
      /\ inbox' \in Seq(Frame) /\ (\A k \in DOMAIN inbox' : IsFrame(inbox'[k]))
      /\ frame \in Frame /\ IsFrame(frame)
  BY NextAhead
<1>2. Tip' = Tip
  BY DEF Tip
<1> HIDE DEF frame
<1>3. ~frame.rejected /\ frame # Rejection
  BY <1>1 DEF IsFrame, frame
<1>4. /\ buffer \in Seq(Cells) /\ Len(buffer) <= 2
      /\ buffer # <<>> => /\ OfOnePacket(buffer) /\ AllClear(buffer) /\ buffer[1].part = "head"
                          /\ begin = Place(buffer[Len(buffer)]) + 1
  BY <1>1, <1>3 DEF ReadInv, GoesOnAt
<1>5. walk = Walk(buffer \o MediaChunk(frame))
  BY DEF frame
<1>6. /\ begin \in Nat /\ end \in Nat /\ begin < end
      /\ \/ walk.taken = <<>> /\ walk.left = <<>> /\ buffer = <<>>
         \/ /\ walk.taken = <<>> /\ walk.left \in Seq(Cells) /\ Len(walk.left) \in 1..2
            /\ AllClear(walk.left) /\ OfOnePacket(walk.left) /\ walk.left[1].part = "head"
            /\ Place(walk.left[Len(walk.left)]) + 1 = end
            /\ IF buffer # <<>> THEN walk.left[1] = buffer[1] ELSE 3 * walk.left[1].packet = begin
         \/ \E unit \in Unit : /\ walk.taken = <<unit>> /\ walk.left = <<>> /\ Whole(unit)
                               /\ 3 * unit.of.packet + 3 = end
                               /\ IF buffer # <<>> THEN unit.of = buffer[1] ELSE 3 * unit.of.packet = begin
  BY ONLY <1>1, <1>3, <1>4, <1>5, WalkResult
<1>7. \A x \in Nat : /\ x = end => GoesOnAt(x)'
                     /\ x <= end => GoesOnAfter(x)'
  <2> SUFFICES ASSUME NEW x \in Nat PROVE (x = end => GoesOnAt(x)') /\ (x <= end => GoesOnAfter(x)')
    OBVIOUS
  <2> DEFINE e == end
  <2>1. ASSUME NEW z \in Nat, z = Ends(Head(inbox)) PROVE GoesOnAt(z)' /\ \A y \in Nat : y <= z => GoesOnAfter(y)'
    BY <2>1, <1>3, GoesOnAtEnd DEF frame
  <2>2. \E z \in Nat : z = Ends(Head(inbox))
    BY <1>6 DEF frame
  <2>3. PICK z \in Nat : z = Ends(Head(inbox))
    BY <2>2
  <2>4. GoesOnAt(z)' /\ \A y \in Nat : y <= z => GoesOnAfter(y)'
    BY <2>1, <2>3
  <2> QED  BY <2>3, <2>4 DEF frame
<1>8. \A u \in Unit : u.of.packet \in Nat
  BY PlaceOf DEF Unit
<1> HIDE DEF begin, end
<1>9. ASSUME NEW u \in Unit, Precedes(u), NEW x \in Nat,
             IF buffer # <<>> THEN x = buffer[1].packet ELSE 3 * x = begin
      PROVE  u.of.packet < x
  <2>1. CASE buffer # <<>>
    BY <2>1, <1>9 DEF Precedes
  <2>2. CASE buffer = <<>>
    <3>1. begin >= 3 * u.of.packet + 3
      BY <2>2, <1>9, <1>1, <1>3 DEF Precedes, GoesOnAfter, begin
    <3> QED  BY <3>1, <2>2, <1>6, <1>8, <1>9
  <2> QED  BY <2>1, <2>2
<1>10. Joined(Ahead)' /\ (registered' # "none" => Reaches(Ahead)')
  <2>1. Joined(Ahead) /\ (registered # "none" => Reaches(Ahead))
    BY DEF ReadInv
  <2>2. Joined(Tail(Ahead))
    BY <2>1, <1>1, JoinedTail
  <2>3. Joined(Ahead)'
    BY <2>2, <1>1 DEF Joined, Begins, Ends
  <2>4. /\ Len(Tail(Ahead)) = Len(Ahead) - 1 /\ Len(Ahead) \in Nat \ {0}
        /\ \A k \in 1 .. Len(Ahead) - 1 : Tail(Ahead)[k] = Ahead[k + 1]
    BY <1>1, Rest
  <2>5. Tail(Ahead) # <<>> => Tail(Ahead)[Len(Tail(Ahead))] = Ahead[Len(Ahead)]
    <3>1. Tail(Ahead) # <<>> => Len(Tail(Ahead)) # 0
      BY <1>1
    <3> DEFINE s == Ahead
               t == Tail(Ahead)
    <3> HIDE DEF s, t
    <3>2. Len(t) = Len(s) - 1 /\ Len(s) \in Nat \ {0} /\ \A k \in 1 .. Len(s) - 1 : t[k] = s[k + 1]
      BY <2>4 DEF s, t
    <3>3. Len(t) # 0 => t[Len(t)] = s[Len(s)]
      BY <3>2
    <3> QED  BY <3>1, <3>3 DEF s, t
  <2>6. registered' # "none" => Reaches(Ahead)'
    BY <2>1, <2>5, <1>1, <1>2 DEF Reaches, Ends
  <2> QED  BY <2>3, <2>6
<1>11. CASE walk.taken = <<>> /\ walk.left = <<>> /\ buffer = <<>>
  <2>1. ReadInv'
    <3>1. buffer' = <<>> /\ buffer' \in Seq(Cells) /\ Len(buffer') <= 2
      <4>1. Len(<<>>) <= 2 /\ <<>> \in Seq(Cells)
        OBVIOUS
      <4>2. buffer' = <<>>
        BY <1>11
      <4> QED  BY <4>1, <4>2
    <3> QED  BY <3>1, <1>1, <1>10 DEF ReadInv
  <2>2. ASSUME NEW u \in Unit, Precedes(u) PROVE Precedes(u)'
    <3>1. begin >= 3 * u.of.packet + 3
      BY <1>11, <2>2, <1>1, <1>3 DEF Precedes, GoesOnAfter, begin
    <3>2. 3 * u.of.packet + 3 \in Nat /\ 3 * u.of.packet + 3 <= end
      BY <3>1, <1>6, <1>8
    <3> QED  BY <3>2, <1>7, <1>11 DEF Precedes
  <2> QED  BY <2>1, <2>2, <1>11
<1>12. CASE /\ walk.taken = <<>> /\ walk.left \in Seq(Cells) /\ Len(walk.left) \in 1..2
            /\ AllClear(walk.left) /\ OfOnePacket(walk.left) /\ walk.left[1].part = "head"
            /\ Place(walk.left[Len(walk.left)]) + 1 = end
            /\ IF buffer # <<>> THEN walk.left[1] = buffer[1] ELSE 3 * walk.left[1].packet = begin
  <2>0. buffer' # <<>> /\ walk.left[1].packet \in Nat /\ Len(walk.left) <= 2
    BY <1>12, CellOf
  <2>1. ReadInv'
    <3>1. GoesOnAt(Place(buffer[Len(buffer)]) + 1)'
      <4> DEFINE left == walk.left
      <4>1. \E x \in Nat : x = end /\ x = Place(buffer'[Len(buffer')]) + 1
        BY <1>12, <1>6
      <4>2. PICK x \in Nat : x = end /\ x = Place(buffer'[Len(buffer')]) + 1
        BY <4>1
      <4>3. GoesOnAt(x)'
        BY <4>2, <1>7
      <4> QED  BY <4>2, <4>3 DEF GoesOnAt, Place
    <3>2. buffer' \in Seq(Cells) /\ Len(buffer') <= 2 /\ OfOnePacket(buffer)' /\ AllClear(buffer)' /\ buffer'[1].part = "head"
      BY <1>12, <2>0 DEF OfOnePacket, AllClear, Place
    <3> QED  BY <3>1, <3>2, <1>1, <1>10 DEF ReadInv
  <2>2. ASSUME NEW u \in Unit, Precedes(u) PROVE Precedes(u)'
    <3>1. u.of.packet < walk.left[1].packet
      BY <2>0, <2>2, <1>9, <1>12
    <3> QED  BY <3>1, <2>0 DEF Precedes
  <2> QED  BY <2>1, <2>2, <1>12
<1>13. ASSUME NEW unit \in Unit, walk.taken = <<unit>>, walk.left = <<>>, Whole(unit), 3 * unit.of.packet + 3 = end,
              IF buffer # <<>> THEN unit.of = buffer[1] ELSE 3 * unit.of.packet = begin
       PROVE  /\ ReadInv' /\ \A u \in Unit : Precedes(u) => Precedes(u)'
              /\ Precedes(unit)' /\ \A u \in Unit : Precedes(u) => u.of.packet < unit.of.packet
  <2>1. ReadInv'
    <3>1. buffer' = <<>> /\ buffer' \in Seq(Cells) /\ Len(buffer') <= 2
      <4>1. Len(<<>>) <= 2 /\ <<>> \in Seq(Cells)
        OBVIOUS
      <4>2. buffer' = <<>>
        BY <1>13
      <4> QED  BY <4>1, <4>2
    <3> QED  BY <3>1, <1>1, <1>10 DEF ReadInv
  <2>2. \A u \in Unit : u.of.packet <= unit.of.packet => Precedes(u)'
    <3> SUFFICES ASSUME NEW u \in Unit, u.of.packet <= unit.of.packet PROVE Precedes(u)'
      OBVIOUS
    <3>1. 3 * u.of.packet + 3 \in Nat /\ 3 * u.of.packet + 3 <= end
      <4>1. u.of.packet \in Nat /\ unit.of.packet \in Nat /\ u.of.packet <= unit.of.packet
        BY DEF Unit, Cells
      <4>2. 3 * unit.of.packet + 3 = end
        BY <1>13
      <4> QED  BY ONLY <4>1, <4>2
    <3> QED  BY <3>1, <1>7, <1>13 DEF Precedes
  <2>3. \A u \in Unit : Precedes(u) => u.of.packet < unit.of.packet
    BY <1>8, <1>9, <1>13
  <2>4. \A u \in Unit : Precedes(u) => Precedes(u)'
    BY <2>2, <2>3, <1>8
  <2>5. Precedes(unit)'
    BY <2>2, <1>8
  <2> QED  BY <2>1, <2>3, <2>4, <2>5
<1> QED
  <2>1. CASE \E unit \in Unit : /\ walk.taken = <<unit>> /\ walk.left = <<>> /\ Whole(unit)
                               /\ 3 * unit.of.packet + 3 = end
                               /\ IF buffer # <<>> THEN unit.of = buffer[1] ELSE 3 * unit.of.packet = begin
    BY <2>1, <1>13
  <2> QED  BY <2>1, <1>6, <1>11, <1>12

-----------------------------------------------------------------------------
(***************************************************************************)
(* Units.                                                                  *)
(***************************************************************************)
LEMMA PrefixInOrder ==
  ASSUME NEW s \in Seq(Unit), InOrder(s), NEW t \in Seq(Unit), Len(t) <= Len(s), \A k \in 1 .. Len(t) : t[k] = s[k]
  PROVE  InOrder(t)
<1>1. Len(s) \in Nat /\ Len(t) \in Nat /\ DOMAIN t = 1 .. Len(t) /\ DOMAIN s = 1 .. Len(s)
  OBVIOUS
<1>2. ASSUME NEW k \in 1 .. Len(t)
      PROVE  Whole(t[k]) /\ \A m \in 1..(k - 1) : t[m].of.packet < t[k].of.packet
  <2>1. k \in DOMAIN s /\ t[k] = s[k]
    BY <1>1
  <2>2. \A m \in 1..(k - 1) : t[m] = s[m]
    BY <1>1
  <2> QED  BY <2>1, <2>2 DEF InOrder
<1> QED  BY <1>1, <1>2 DEF InOrder

LEMMA AppendInOrder ==
  ASSUME NEW s \in Seq(Unit), InOrder(s), NEW unit \in Unit, Whole(unit),
         \A k \in DOMAIN s : s[k].of.packet < unit.of.packet
  PROVE  InOrder(Append(s, unit))
<1> DEFINE t == Append(s, unit)
<1>1. /\ Len(s) \in Nat /\ DOMAIN t = 1 .. Len(s) + 1 /\ DOMAIN s = 1 .. Len(s)
      /\ (\A k \in 1 .. Len(s) : t[k] = s[k]) /\ t[Len(s) + 1] = unit
  BY Appended
<1> HIDE DEF t
<1>2. ASSUME NEW k \in 1 .. Len(s) + 1
      PROVE  Whole(t[k]) /\ \A m \in 1..(k - 1) : t[m].of.packet < t[k].of.packet
  <2>1. \A m \in 1..(k - 1) : m \in 1 .. Len(s) /\ t[m] = s[m]
    BY <1>1
  <2>2. CASE k \in 1 .. Len(s)
    <3>1. t[k] = s[k] /\ k \in DOMAIN s
      BY <2>2, <1>1
    <3> QED  BY <3>1, <2>1 DEF InOrder
  <2>3. CASE ~(k \in 1 .. Len(s))
    <3>1. k = Len(s) + 1 /\ t[k] = unit
      BY <2>3, <1>1
    <3> QED  BY <3>1, <2>1, <1>1
  <2> QED  BY <2>2, <2>3
<1> QED  BY <1>1, <1>2 DEF InOrder, t

\* What is queued is the beginning of what was and of what is taken.
LEMMA EnqueuedIsPrefix ==
  ASSUME Sized, units \in Seq(Unit), NEW taken \in Seq(Unit)
  PROVE  /\ Enqueued(taken) \in Seq(Unit) /\ Len(Enqueued(taken)) <= Len(units \o taken)
         /\ \A k \in 1 .. Len(Enqueued(taken)) : Enqueued(taken)[k] = (units \o taken)[k]
<1> DEFINE all == units \o taken
<1>1. all \in Seq(Unit) /\ Len(all) \in Nat
  OBVIOUS
<1>2. Enqueued(taken) = IF Len(all) <= FrameQueueSize THEN all ELSE SubSeq(all, 1, FrameQueueSize)
  BY DEF Enqueued
<1> HIDE DEF all
<1>3. CASE Len(all) <= FrameQueueSize
  <2>1. Enqueued(taken) = all
    BY <1>2, <1>3
  <2> QED  BY <2>1, <1>1 DEF all
<1>4. CASE ~(Len(all) <= FrameQueueSize)
  <2> DEFINE q == FrameQueueSize
  <2>0. q \in Nat /\ q <= Len(all) /\ \A k \in 1 .. q : k \in 1 .. Len(all)
    BY <1>1, <1>4 DEF Sized
  <2>1. Enqueued(taken) = SubSeq(all, 1, q)
    BY <1>2, <1>4
  <2> HIDE DEF q
  <2>2. \A k \in 1 .. q : all[k] \in Unit
    BY <2>0, <1>1
  <2>3. /\ SubSeq(all, 1, q) \in Seq(Unit)
        /\ Len(SubSeq(all, 1, q)) = (IF 1 <= q THEN q - 1 + 1 ELSE 0)
        /\ \A k \in 1 .. q - 1 + 1 : SubSeq(all, 1, q)[k] = all[1 + k - 1]
    BY <2>0, <2>2, SubSeqProperties
  <2>4. (IF 1 <= q THEN q - 1 + 1 ELSE 0) = q /\ q - 1 + 1 = q /\ \A k \in 1 .. q : 1 + k - 1 = k
    BY <2>0
  <2> DEFINE t == SubSeq(all, 1, q)
  <2>5. t \in Seq(Unit) /\ Len(t) = q /\ \A k \in 1 .. q : t[k] = all[k]
    BY <2>3, <2>4
  <2> HIDE DEF t
  <2>6. Enqueued(taken) = t
    BY <2>1 DEF t
  <2> QED  BY <2>0, <2>5, <2>6 DEF all
<1> QED  BY <1>3, <1>4

\* A unit taken later than those queued joins their end, or is dropped.
LEMMA EnqueuedOne ==
  ASSUME Sized, units \in Seq(Unit), InOrder(units), NEW unit \in Unit, Whole(unit),
         \A k \in DOMAIN units : units[k].of.packet < unit.of.packet
  PROVE  /\ Enqueued(<<unit>>) \in Seq(Unit) /\ InOrder(Enqueued(<<unit>>))
         /\ \A k \in DOMAIN Enqueued(<<unit>>) :
               \/ k \in DOMAIN units /\ Enqueued(<<unit>>)[k] = units[k]
               \/ Enqueued(<<unit>>)[k] = unit
<1> DEFINE t == Enqueued(<<unit>>)
           all == Append(units, unit)
<1>0. <<unit>> \in Seq(Unit) /\ units \o <<unit>> = all
  OBVIOUS
<1>1. t \in Seq(Unit) /\ Len(t) <= Len(all) /\ \A k \in 1 .. Len(t) : t[k] = all[k]
  BY <1>0, EnqueuedIsPrefix
<1>2. /\ Len(all) = Len(units) + 1 /\ Len(units) \in Nat /\ DOMAIN units = 1 .. Len(units)
      /\ (\A k \in 1 .. Len(units) : all[k] = units[k]) /\ all[Len(units) + 1] = unit /\ all \in Seq(Unit)
  BY Appended
<1>3. InOrder(all)
  BY AppendInOrder
<1> HIDE DEF t, all
<1>4. InOrder(t)
  BY <1>1, <1>2, <1>3, PrefixInOrder
<1>5. ASSUME NEW k \in DOMAIN t PROVE (k \in DOMAIN units /\ t[k] = units[k]) \/ t[k] = unit
  <2>1. k \in 1 .. Len(t) /\ Len(t) \in Nat /\ t[k] = all[k] /\ Len(t) <= Len(units) + 1
    BY <1>1, <1>2
  <2>2. k \in 1 .. Len(units) \/ k = Len(units) + 1
    BY <2>1, <1>2
  <2> QED  BY <2>1, <2>2, <1>2
<1> QED  BY <1>1, <1>4, <1>5 DEF t

LEMMA EnqueuedNone ==
  ASSUME Sized, units \in Seq(Unit), InOrder(units)
  PROVE  /\ Enqueued(<<>>) \in Seq(Unit) /\ InOrder(Enqueued(<<>>))
         /\ \A k \in DOMAIN Enqueued(<<>>) : k \in DOMAIN units /\ Enqueued(<<>>)[k] = units[k]
<1> DEFINE t == Enqueued(<<>>)
<1>0. <<>> \in Seq(Unit) /\ units \o <<>> = units /\ Len(units) \in Nat /\ DOMAIN units = 1 .. Len(units)
  OBVIOUS
<1>1. t \in Seq(Unit) /\ Len(t) <= Len(units) /\ \A k \in 1 .. Len(t) : t[k] = units[k]
  BY <1>0, EnqueuedIsPrefix
<1> HIDE DEF t
<1>2. InOrder(t)
  BY <1>1, PrefixInOrder
<1>3. \A k \in DOMAIN t : k \in 1 .. Len(units)
  BY <1>0, <1>1
<1> QED  BY <1>0, <1>1, <1>2, <1>3 DEF t

LEMMA ReadKeeps ==
  ASSUME Sized, FeedInv, NEW c \in Captures, Read(c)
  PROVE  FeedInv'
<1> DEFINE frame  == Head(inbox)
           walk   == Walk(buffer \o MediaChunk(frame))
           kinds  == framed \o [k \in DOMAIN walk.taken |-> walk.taken[k].of.kind]
           enough == c = "prime" /\ (Len(kinds) > MaxMedia \/ \E k \in DOMAIN kinds : kinds[k] = "I")
<1>1. /\ stage[c] = "reading" /\ inbox # <<>>
      /\ UNCHANGED <<packets, unsent, wire, lock, droppedFrames, delivered>>
      /\ IF frame = Rejection
         THEN Leave(c) /\ UNCHANGED <<buffer, framed, units>>
         ELSE /\ buffer' = walk.left
              /\ units' = IF c = "record" THEN Enqueued(walk.taken) ELSE units
              /\ IF enough THEN Leave(c) ELSE inbox' = Tail(inbox) /\ UNCHANGED <<stage, registered>>
  BY DEF Read, cameraVars
<1>2. enough => c # "record"
  OBVIOUS
<1> HIDE DEF frame, walk, kinds, enough
<1>3. CameraInv /\ LockInv /\ droppedFrames \in Nat
  BY DEF FeedInv
<1>4. /\ lock = c /\ Reading /\ c # "none"
      /\ stage \in [Captures -> {"idle", "waiting", "reading", "stopping", "joining"}]
      /\ (c # "record" => units = <<>> /\ delivered = <<>>)
  BY <1>1, <1>3 DEF LockInv, Reading, Captures
<1>5. CameraInv'
  BY <1>1, <1>3, CameraKept
<1>6. LockInv'
  <2>1. c # "record" => units' = <<>> /\ delivered' = <<>>
    BY <1>1, <1>4
  <2>2. CASE Leave(c)
    BY <2>1, <2>2, <1>1, <1>3, <1>4 DEF LockInv, Leave, Captures
  <2>3. CASE UNCHANGED <<stage, registered>>
    BY <2>1, <2>3, <1>1, <1>3, <1>4 DEF LockInv
  <2> QED  BY <2>2, <2>3, <1>1
<1>7. ASSUME droppedFrames' = 0
      PROVE  (Reading' => ReadInv') /\ OutputInv'
  <2>1. ReadInv /\ OutputInv
    BY <1>1, <1>4, <1>7 DEF FeedInv
  <2>2. Leave(c) => ~Reading'
    BY <1>1, <1>4 DEF Leave, Reading
  <2>3. CASE Leave(c) /\ UNCHANGED units
    BY <2>1, <2>2, <2>3, <1>1, OutputKept
  <2>4. CASE /\ frame # Rejection /\ buffer' = walk.left /\ inbox' = Tail(inbox) /\ UNCHANGED <<stage, registered>>
             /\ units' = IF c = "record" THEN Enqueued(walk.taken) ELSE units
    <3>1. /\ ReadInv' /\ \A u \in Unit : Precedes(u) => Precedes(u)'
          /\ \/ walk.taken = <<>>
             \/ \E unit \in Unit : /\ walk.taken = <<unit>> /\ Whole(unit) /\ Precedes(unit)'
                                   /\ \A u \in Unit : Precedes(u) => u.of.packet < unit.of.packet
      BY <2>1, <2>4, <1>1, <1>3, ReadGoesOn DEF frame, walk
    <3>2. /\ units \in Seq(Unit) /\ delivered \in Seq(Unit) /\ InOrder(units) /\ InOrder(delivered)
          /\ \A k \in DOMAIN delivered, m \in DOMAIN units : delivered[k].of.packet < units[m].of.packet
          /\ \A k \in DOMAIN units : units[k] \in Unit /\ Precedes(units[k])
          /\ \A k \in DOMAIN delivered : delivered[k] \in Unit /\ Precedes(delivered[k])
      BY <2>1, <1>4 DEF OutputInv
    <3>3. CASE walk.taken = <<>> \/ c # "record"
      <4>1. /\ units' \in Seq(Unit) /\ InOrder(units') /\ \A k \in DOMAIN units' : k \in DOMAIN units /\ units'[k] = units[k]
        BY <3>2, <3>3, <2>4, EnqueuedNone
      <4>2. ASSUME NEW k \in DOMAIN units' PROVE Precedes(units[k])'
        <5>1. PICK u \in Unit : u = units'[k] /\ Precedes(u)'
          BY <4>1, <3>1, <3>2
        <5> QED  BY <5>1 DEF Precedes, GoesOnAfter
      <4>3. ASSUME NEW k \in DOMAIN delivered PROVE Precedes(delivered[k])'
        <5>1. PICK u \in Unit : u = delivered'[k] /\ Precedes(u)'
          BY <3>1, <3>2, <1>1
        <5> QED  BY <5>1 DEF Precedes, GoesOnAfter
      <4>4. \A k \in DOMAIN delivered, m \in DOMAIN units' : delivered[k].of.packet < units'[m].of.packet
        BY <4>1, <3>2
      <4>5. delivered' = delivered
        BY <1>1
      <4>6. InOrder(units)' /\ InOrder(delivered)'
        BY <4>1, <4>5, <3>2 DEF InOrder, Whole
      <4>7. (\A k \in DOMAIN units : Precedes(units[k]))' /\ (\A k \in DOMAIN delivered : Precedes(delivered[k]))'
        BY <4>2, <4>3, <4>5
      <4> QED  BY <4>1, <4>4, <4>5, <4>6, <4>7, <3>1, <3>2 DEF OutputInv
    <3>4. ASSUME c = "record", NEW unit \in Unit, walk.taken = <<unit>>, Whole(unit), Precedes(unit)',
                 \A u \in Unit : Precedes(u) => u.of.packet < unit.of.packet
          PROVE  OutputInv'
      <4>1. /\ units' \in Seq(Unit) /\ InOrder(units')
            /\ \A k \in DOMAIN units' : (k \in DOMAIN units /\ units'[k] = units[k]) \/ units'[k] = unit
        <5>1. units' = Enqueued(<<unit>>)
          BY <3>4, <2>4
        <5>2. \A k \in DOMAIN units : units[k].of.packet < unit.of.packet
          BY <3>2, <3>4
        <5> QED  BY <5>1, <5>2, <3>2, <3>4, EnqueuedOne
      <4>2. ASSUME NEW k \in DOMAIN units' PROVE Precedes(units[k])'
        <5>1. PICK u \in Unit : u = units'[k] /\ Precedes(u)'
          BY <4>1, <3>1, <3>2, <3>4
        <5> QED  BY <5>1 DEF Precedes, GoesOnAfter
      <4>3. ASSUME NEW k \in DOMAIN delivered PROVE Precedes(delivered[k])'
        <5>1. PICK u \in Unit : u = delivered'[k] /\ Precedes(u)'
          BY <3>1, <3>2, <1>1
        <5> QED  BY <5>1 DEF Precedes, GoesOnAfter
      <4>4. \A k \in DOMAIN delivered, m \in DOMAIN units' : delivered[k].of.packet < units'[m].of.packet
        BY <4>1, <3>2, <3>4
      <4>5. delivered' = delivered
        BY <1>1
      <4>6. InOrder(units)' /\ InOrder(delivered)'
        BY <4>1, <4>5, <3>2 DEF InOrder, Whole
      <4>7. (\A k \in DOMAIN units : Precedes(units[k]))' /\ (\A k \in DOMAIN delivered : Precedes(delivered[k]))'
        BY <4>2, <4>3, <4>5
      <4> QED  BY <4>1, <4>4, <4>5, <4>6, <4>7, <3>2 DEF OutputInv
    <3> QED  BY <3>1, <3>3, <3>4
  <2> QED  BY <2>3, <2>4, <1>1, <1>2
<1> QED  BY <1>1, <1>3, <1>5, <1>6, <1>7 DEF FeedInv

\* Where nothing that the capture reads changes, it goes on as before.
LEMMA FeedKept ==
  ASSUME FeedInv, UNCHANGED <<packets, unsent, wire, registered, inbox, buffer, droppedFrames, units, delivered>>,
         LockInv', Reading' => Reading
  PROVE  FeedInv'
<1>1. CameraInv' /\ Tip' = Tip /\ Ahead' = Ahead /\ droppedFrames' \in Nat
  BY CameraKept DEF FeedInv, Ahead
<1>2. ASSUME droppedFrames' = 0 PROVE (Reading' => ReadInv') /\ OutputInv'
  <2>1. (Reading => ReadInv) /\ OutputInv
    BY <1>2 DEF FeedInv
  <2>2. ASSUME Reading PROVE ReadInv' /\ \A unit \in Unit : Precedes(unit) => Precedes(unit)'
    BY <1>1, <2>1, <2>2, AheadKept DEF ReadInv
  <2> QED  BY <2>1, <2>2, OutputKept
<1> QED  BY <1>1, <1>2 DEF FeedInv

LEMMA WaitingKeeps ==
  ASSUME FeedInv, NEW c \in Captures, Begin(c) \/ CancelWait(c)
  PROVE  FeedInv'
<1>1. /\ UNCHANGED <<packets, unsent, wire, lock, registered, inbox, buffer, droppedFrames, units, delivered>>
      /\ stage[c] \in {"idle", "waiting"} /\ \E s \in {"idle", "waiting"} : stage' = [stage EXCEPT ![c] = s]
  BY DEF Begin, CancelWait, cameraVars, readerVars, outputVars
<1>2. LockInv
  BY DEF FeedInv
<1>3. LockInv' /\ (Reading' => Reading)
  BY <1>1, <1>2 DEF LockInv, Reading, Captures
<1> QED  BY <1>1, <1>3, FeedKept

LEMMA OpenKeeps ==
  ASSUME FeedInv, NEW c \in Captures, Open(c)
  PROVE  FeedInv'
<1>1. /\ UNCHANGED <<packets, unsent, wire, units, delivered>>
      /\ stage[c] = "waiting" /\ lock = "none" /\ lock' = c /\ stage' = [stage EXCEPT ![c] = "reading"]
      /\ registered' = c /\ inbox' = <<>> /\ droppedFrames' = 0 /\ buffer' = <<>>
  BY DEF Open
<1>2. CameraInv /\ LockInv
  BY DEF FeedInv
<1>3. CameraInv' /\ Tip' = Tip
  BY <1>1, <1>2, CameraKept
<1>4. units = <<>> /\ delivered = <<>>
  BY <1>1, <1>2 DEF LockInv
<1>5. LockInv'
  BY <1>1, <1>2, <1>4 DEF LockInv, Captures
<1>6. ReadInv'
  <2>1. wire \in Seq(Frame) /\ Joined(wire) /\ Reaches(wire)
    BY <1>2 DEF CameraInv
  <2>2. Ahead' = wire
    BY <1>1, <2>1 DEF Ahead, Captures
  <2>3. Joined(Ahead)' /\ Reaches(Ahead)'
    BY <2>1, <2>2, <1>3 DEF Joined, Reaches, Begins, Ends
  <2>4. inbox' \in Seq(Frame) /\ DOMAIN inbox' = {} /\ buffer' \in Seq(Cells) /\ Len(buffer') = 0
    <3>1. <<>> \in Seq(Frame) /\ DOMAIN <<>> = {} /\ <<>> \in Seq(Cells) /\ Len(<<>>) = 0
      OBVIOUS
    <3> QED  BY <3>1, <1>1
  <2> QED  BY <2>3, <2>4, <1>1 DEF ReadInv
<1>7. OutputInv'
  <2>1. units' = <<>> /\ delivered' = <<>> /\ <<>> \in Seq(Unit) /\ DOMAIN <<>> = {}
    BY <1>1, <1>4
  <2> QED  BY <2>1 DEF OutputInv, InOrder
<1> QED  BY <1>1, <1>3, <1>5, <1>6, <1>7 DEF FeedInv

LEMMA EndReadKeeps ==
  ASSUME FeedInv, NEW c \in Captures, EndRead(c)
  PROVE  FeedInv'
<1>1. /\ UNCHANGED <<packets, unsent, wire, lock, buffer, droppedFrames, units, delivered>>
      /\ stage[c] = "reading" /\ Leave(c)
  BY DEF EndRead, cameraVars, outputVars
<1>2. CameraInv /\ LockInv /\ droppedFrames \in Nat /\ (droppedFrames = 0 => OutputInv)
  BY DEF FeedInv
<1>3. LockInv' /\ ~Reading'
  BY <1>1, <1>2 DEF LockInv, Leave, Reading, Captures
<1>4. CameraInv'
  BY <1>1, <1>2, CameraKept
<1>5. droppedFrames' = 0 => OutputInv'
  BY <1>1, <1>2, <1>3, OutputKept
<1> QED  BY <1>1, <1>2, <1>3, <1>4, <1>5 DEF FeedInv

LEMMA SendStopKeeps ==
  ASSUME FeedInv, NEW c \in Captures, SendStop(c)
  PROVE  FeedInv'
<1>1. /\ UNCHANGED <<packets, unsent, wire, registered, inbox, buffer, droppedFrames, units, delivered>>
      /\ stage[c] = "stopping"
      /\ \/ c = "record" /\ stage' = [stage EXCEPT ![c] = "joining"] /\ UNCHANGED lock
         \/ c # "record" /\ stage' = [stage EXCEPT ![c] = "idle"] /\ lock' = "none"
  BY DEF SendStop, readerVars, outputVars
<1>2. LockInv
  BY DEF FeedInv
<1>3. LockInv'
  BY <1>1, <1>2 DEF LockInv, Captures
<1>4. ~Reading'
  BY <1>1, <1>2 DEF LockInv, Reading, Captures
<1> QED  BY <1>1, <1>3, <1>4, FeedKept

\* The consumer takes units in their order.
LEMMA ConsumerKeeps ==
  ASSUME FeedInv, Push \/ PushFails
  PROVE  FeedInv'
<1>1. /\ UNCHANGED <<packets, unsent, wire, lock, stage, registered, inbox, buffer, droppedFrames>>
      /\ units # <<>> /\ units' = Tail(units) /\ (delivered' = Append(delivered, Head(units)) \/ delivered' = delivered)
  BY DEF Push, PushFails, cameraVars, readerVars
<1>2. CameraInv /\ LockInv /\ droppedFrames \in Nat
  BY DEF FeedInv
<1>3. CameraInv' /\ Tip' = Tip /\ Ahead' = Ahead
  BY <1>1, <1>2, CameraKept DEF Ahead
<1>4. LockInv' /\ (Reading' <=> Reading)
  BY <1>1, <1>2 DEF LockInv, Reading
<1>5. ASSUME droppedFrames' = 0 PROVE (Reading' => ReadInv') /\ OutputInv'
  <2>1. (Reading => ReadInv) /\ OutputInv
    BY <1>1, <1>5 DEF FeedInv
  <2>2. ASSUME Reading PROVE ReadInv' /\ \A unit \in Unit : Precedes(unit) => Precedes(unit)'
    BY <1>1, <1>3, <2>1, <2>2, AheadKept DEF ReadInv
  <2>3. /\ units \in Seq(Unit) /\ delivered \in Seq(Unit) /\ InOrder(units) /\ InOrder(delivered)
        /\ \A k \in DOMAIN delivered, m \in DOMAIN units : delivered[k].of.packet < units[m].of.packet
        /\ Reading => /\ \A k \in DOMAIN units : Precedes(units[k])
                      /\ \A k \in DOMAIN delivered : Precedes(delivered[k])
    BY <2>1 DEF OutputInv
  <2>4. /\ units' \in Seq(Unit) /\ Len(units) \in Nat \ {0} /\ DOMAIN units' = 1 .. Len(units) - 1 /\ DOMAIN units = 1 .. Len(units)
        /\ (\A k \in 1 .. Len(units) - 1 : units'[k] = units[k + 1]) /\ Head(units) = units[1] /\ units[1] \in Unit
    BY <1>1, <2>3, Rest
  <2>5. \A k \in DOMAIN units' : k \in DOMAIN units /\ k + 1 \in DOMAIN units /\ units'[k] = units[k + 1] /\ units[k + 1] \in Unit
    BY <2>3, <2>4
  <2>6. InOrder(units)'
    <3>1. ASSUME NEW k \in DOMAIN units'
          PROVE  Whole(units'[k]) /\ \A m \in 1..(k - 1) : units'[m].of.packet < units'[k].of.packet
      <4>1. \A m \in 1..(k - 1) : m + 1 \in 1 .. (k + 1 - 1) /\ units'[m] = units[m + 1]
        BY <2>4, <3>1
      <4> QED  BY <4>1, <2>3, <2>5 DEF InOrder
    <3> QED  BY <3>1 DEF InOrder, Whole
  <2>7. \A m \in DOMAIN units' : units[1].of.packet < units'[m].of.packet
    <3>1. \A m \in DOMAIN units' : 1 \in 1 .. (m + 1 - 1)
      BY <2>4
    <3> QED  BY <3>1, <2>3, <2>5 DEF InOrder
  <2>8. 1 \in DOMAIN units /\ Whole(units[1])
    BY <2>3, <2>4 DEF InOrder
  <2>9. /\ delivered' \in Seq(Unit) /\ InOrder(delivered')
        /\ \A k \in DOMAIN delivered' : \/ k \in DOMAIN delivered /\ delivered'[k] = delivered[k]
                                        \/ delivered'[k] = units[1]
    <3>1. CASE delivered' = delivered
      BY <3>1, <2>3
    <3>2. CASE delivered' = Append(delivered, units[1])
      <4>1. InOrder(Append(delivered, units[1]))
        BY <2>3, <2>4, <2>8, AppendInOrder
      <4>2. /\ delivered' \in Seq(Unit) /\ DOMAIN delivered' = 1 .. Len(delivered) + 1 /\ DOMAIN delivered = 1 .. Len(delivered)
            /\ (\A k \in 1 .. Len(delivered) : delivered'[k] = delivered[k]) /\ delivered'[Len(delivered) + 1] = units[1]
            /\ Len(delivered) \in Nat
        BY <3>2, <2>3, <2>4, Appended
      <4>3. \A k \in DOMAIN delivered' : k \in DOMAIN delivered \/ k = Len(delivered) + 1
        BY <4>2
      <4> QED  BY <3>2, <4>1, <4>2, <4>3
    <3> QED  BY <3>1, <3>2, <1>1, <2>4
  <2>10. \A k \in DOMAIN delivered', m \in DOMAIN units' : delivered'[k].of.packet < units'[m].of.packet
    BY <2>3, <2>5, <2>7, <2>9
  <2>11. ASSUME Reading', NEW k \in DOMAIN units' PROVE Precedes(units[k])'
    <3>1. PICK u \in Unit : u = units'[k] /\ Precedes(u)'
      BY <2>2, <2>3, <2>5, <2>11, <1>4
    <3> QED  BY <3>1 DEF Precedes, GoesOnAfter
  <2>12. ASSUME Reading', NEW k \in DOMAIN delivered' PROVE Precedes(delivered[k])'
    <3>0. \A j \in DOMAIN delivered : delivered[j] \in Unit
      BY <2>3
    <3>1. PICK u \in Unit : u = delivered'[k] /\ Precedes(u)'
      BY <3>0, <2>2, <2>3, <2>4, <2>8, <2>9, <2>12, <1>4
    <3> QED  BY <3>1 DEF Precedes, GoesOnAfter
  <2>13. InOrder(delivered)'
    BY <2>9 DEF InOrder, Whole
  <2>14. Reading' => ReadInv'
    BY <2>2, <1>4
  <2> QED  BY <2>4, <2>6, <2>9, <2>10, <2>11, <2>12, <2>13, <2>14 DEF OutputInv
<1> QED  BY <1>1, <1>2, <1>3, <1>4, <1>5 DEF FeedInv

LEMMA JoinKeeps ==
  ASSUME FeedInv, Join
  PROVE  FeedInv'
<1>1. /\ UNCHANGED <<packets, unsent, wire, registered, inbox, buffer, droppedFrames>>
      /\ stage["record"] = "joining" /\ units' = <<>> /\ lock' = "none"
      /\ stage' = [stage EXCEPT !["record"] = "idle"] /\ delivered' = <<>>
  BY DEF Join, cameraVars, readerVars
<1>2. CameraInv /\ LockInv /\ droppedFrames \in Nat
  BY DEF FeedInv
<1>3. CameraInv'
  BY <1>1, <1>2, CameraKept
<1>4. LockInv'
  BY <1>1, <1>2 DEF LockInv, Captures
<1>5. ~Reading'
  BY <1>1 DEF Reading
<1>6. OutputInv'
  <2>1. <<>> \in Seq(Unit) /\ DOMAIN <<>> = {}
    OBVIOUS
  <2> QED  BY <2>1, <1>1, <1>5 DEF OutputInv, InOrder
<1> QED  BY <1>1, <1>2, <1>3, <1>4, <1>5, <1>6 DEF FeedInv

LEMMA LinkEndsKeeps ==
  ASSUME FeedInv, LinkEnds
  PROVE  FeedInv'
<1>1. /\ UNCHANGED <<packets, lock, stage, inbox, buffer, droppedFrames, units, delivered>>
      /\ unsent' = <<>> /\ wire' = <<>> /\ registered' = "none"
  BY DEF LinkEnds, outputVars
<1>2. CameraInv /\ LockInv /\ droppedFrames \in Nat
  BY DEF FeedInv
<1>3. CameraInv'
  <2>1. <<>> \in Seq(Cells) /\ <<>> \in Seq(Frame) /\ DOMAIN <<>> = {}
    OBVIOUS
  <2> QED  BY <2>1, <1>1, <1>2 DEF CameraInv, Joined, Reaches
<1>4. LockInv' /\ (Reading' => Reading)
  BY <1>1, <1>2 DEF LockInv, Reading
<1>5. ASSUME droppedFrames' = 0 PROVE (Reading' => ReadInv') /\ OutputInv'
  <2>1. (Reading => ReadInv) /\ OutputInv
    BY <1>1, <1>5 DEF FeedInv
  <2>2. ASSUME Reading PROVE ReadInv' /\ \A unit \in Unit : Precedes(unit) => Precedes(unit)'
    BY <1>1, <1>2, <2>1, <2>2, LinkOnlyEnds
  <2> QED  BY <2>1, <2>2, <1>1, <1>4, OutputKept
<1> QED  BY <1>1, <1>2, <1>3, <1>4, <1>5 DEF FeedInv

LEMMA FeedSteps ==
  ASSUME Sized, FeedInv, [Next]_previewVars
  PROVE  FeedInv'
<1>1. CASE Next
  <2>1. CASE \E c \in Captures : Read(c) \/ Begin(c) \/ Open(c) \/ EndRead(c) \/ CancelWait(c) \/ SendStop(c)
    BY <2>1, ReadKeeps, WaitingKeeps, OpenKeeps, EndReadKeeps, SendStopKeeps
  <2>2. CASE Hear \/ Send \/ Dispatch
    BY <2>2, HearKeeps, SendKeeps, DispatchKeeps
  <2>3. CASE Push \/ PushFails \/ Join \/ LinkEnds
    BY <2>3, ConsumerKeeps, JoinKeeps, LinkEndsKeeps
  <2> QED  BY <1>1, <2>1, <2>2, <2>3 DEF Next
<1>2. CASE UNCHANGED previewVars
  <2>1. UNCHANGED <<packets, unsent, wire, lock, stage, registered, inbox, buffer, droppedFrames, units, delivered>>
    BY <1>2 DEF previewVars, cameraVars, readerVars, outputVars
  <2>2. LockInv' /\ (Reading' => Reading)
    BY <2>1 DEF FeedInv, LockInv, Reading
  <2> QED  BY <2>1, <2>2, FeedKept
<1> QED  BY <1>1, <1>2

LEMMA FeedCounts ==
  ASSUME FeedInv
  PROVE  DamageIsCounted
<1>1. droppedFrames \in Nat /\ (droppedFrames = 0 => OutputInv)
  BY DEF FeedInv
<1>2. CASE droppedFrames = 0
  BY <1>1, <1>2 DEF OutputInv, InOrder, DamageIsCounted
<1>3. CASE droppedFrames # 0
  BY <1>1, <1>3 DEF DamageIsCounted
<1> QED  BY <1>2, <1>3

(***************************************************************************)
(* For every length of the queues, what the capture has read is a stretch  *)
(* of what the camera sent, without a gap, as long as no frame of it was   *)
(* dropped; so is what it has still to read.                               *)
(***************************************************************************)
THEOREM FeedInvariance == Sized => (Spec => []FeedInv)
<1> SUFFICES ASSUME Sized PROVE Spec => []FeedInv
  OBVIOUS
<1>1. Init => FeedInv
  BY FeedStarts
<1>2. FeedInv /\ [Next]_previewVars => FeedInv'
  BY FeedSteps
<1> QED  BY <1>1, <1>2, PTL DEF Spec

(***************************************************************************)
(* The recorder gets the camera's pictures as they were sent and in their  *)
(* order, or the capture counts dropped frames.                            *)
(***************************************************************************)
THEOREM DamageCounted == Sized => (Spec => []DamageIsCounted)
<1>1. FeedInv => DamageIsCounted
  BY FeedCounts
<1> QED  BY <1>1, FeedInvariance, PTL
=============================================================================
