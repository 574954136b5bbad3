--------------------------- MODULE ReceiverProofs ---------------------------
(***************************************************************************)
(* Proofs about the IQ queue and the receiver core, for every ring, block  *)
(* and frame size, counter width, decimation factor, plan of retunes and   *)
(* interleaving.                                                           *)
(*                                                                         *)
(* The queue first. Its inductive invariant QueueInv adds to what the runs *)
(* check that head is count slots ahead of tail, without which nothing     *)
(* says that push writes a free slot. Each step of the receiver is a step  *)
(* of the queue (QueueRefined), so that invariant carries over. On it rest *)
(* four strengthenings: ReceiverInv (types and the frame counter),         *)
(* CaptureInv (between retune and reset the queue may hold other bands,    *)
(* during a capture it does not), ThreadInv (which threads may still be    *)
(* running in each phase of the shutdown) and HandOver (a frame on its way *)
(* to the decoder is whole, or marked late).                               *)
(***************************************************************************)
EXTENDS Receiver, TLAPS

-----------------------------------------------------------------------------
(***************************************************************************)
(* What % computes for the sums of two ring positions.                     *)
(***************************************************************************)
LEMMA ModSmall ==
    ASSUME NEW n \in Nat \ {0}, NEW x \in 0 .. n - 1
    PROVE  x % n = x
BY Z3

LEMMA ModOnce ==
    ASSUME NEW n \in Nat \ {0}, NEW x \in n .. 2 * n - 1
    PROVE  x % n = x - n
<1>1. x - n \in 0 .. n - 1
  OBVIOUS
<1>2. (x - n) % n = x - n
  BY <1>1, ModSmall
<1>3. x % n = (x - n) % n
  BY Z3
<1> QED BY <1>2, <1>3

(***************************************************************************)
(* The ring position count slots after tail, as arithmetic.                *)
(***************************************************************************)
LEMMA ModSum ==
    ASSUME NEW n \in Nat \ {0}, NEW t \in 0 .. n - 1, NEW k \in 0 .. n
    PROVE  (t + k) % n = IF t + k < n THEN t + k ELSE t + k - n
<1>1. CASE t + k < n
  BY <1>1, ModSmall, t + k \in 0 .. n - 1
<1>2. CASE ~(t + k < n)
  BY <1>2, ModOnce, t + k \in n .. 2 * n - 1
<1> QED BY <1>1, <1>2

-----------------------------------------------------------------------------
(***************************************************************************)
(* saturating_add stays in the counter's range and never exceeds the sum;  *)
(* it falls short of it only at the counter's maximum.                     *)
(***************************************************************************)
LEMMA SaturatingAdd ==
    ASSUME NEW a \in 0 .. CounterMax, NEW b \in Nat
    PROVE  /\ saturating_add(a, b) \in 0 .. CounterMax
           /\ a <= saturating_add(a, b)
           /\ \/ saturating_add(a, b) = a + b
              \/ saturating_add(a, b) = CounterMax /\ CounterMax < a + b
BY QueueAssumption DEF saturating_add

-----------------------------------------------------------------------------
(***************************************************************************)
(* The queue's variables keep their types: every operation of              *)
(* sample_queue.c leaves the indices inside the ring.                      *)
(***************************************************************************)
LEMMA TypeStep == QueueTypeOK /\ [QueueNext]_queueVars => QueueTypeOK'
<1> SUFFICES ASSUME QueueTypeOK, [QueueNext]_queueVars
             PROVE  QueueTypeOK'
  OBVIOUS
<1> USE QueueAssumption DEF QueueTypeOK, SlotIndex, ConsumerStates
<1>w. \A s \in ConsumerStates : Woken(s) \in ConsumerStates
  BY DEF Woken
<1>a. \A i \in SlotIndex : Advance(i) \in SlotIndex
  <2> TAKE i \in SlotIndex
  <2>1. (i + 1) % SlotCount = IF i + 1 < SlotCount THEN i + 1 ELSE i + 1 - SlotCount
    <3>1. i \in 0 .. SlotCount - 1 /\ 1 \in 0 .. SlotCount
      OBVIOUS
    <3> QED BY <3>1, ModSum
  <2> QED BY <2>1 DEF Advance
<1>1. ASSUME NEW n \in 1 .. MaxTransfer, NEW d \in 0 .. MaxDeviceDrop,
             NEW f \in Freqs, Push(n, d, f)
      PROVE  QueueTypeOK'
  <2>1. CASE stopping
    BY <1>1, <2>1 DEF Push
  <2>2. CASE ~stopping /\ (n > BlockCapacity \/ count = SlotCount)
    <3>1. /\ saturating_add(pending_device_drops, d) \in 0 .. CounterMax
          /\ saturating_add(pending_queue_drops, n) \in 0 .. CounterMax
      BY SaturatingAdd, d \in Nat, n \in Nat
    <3> QED BY <1>1, <2>2, <3>1 DEF Push
  <2>3. CASE ~stopping /\ ~(n > BlockCapacity \/ count = SlotCount)
    <3>1. slots' \in [SlotIndex -> Slot]
      <4>1. saturating_add(pending_device_drops, d) \in 0 .. CounterMax
        BY SaturatingAdd, d \in Nat
      <4>2. [at |-> produced + d, freq |-> f, sample_count |-> n,
             device_dropped_samples |-> saturating_add(pending_device_drops, d),
             queue_dropped_samples |-> pending_queue_drops] \in Slot
        BY <4>1 DEF Slot
      <4> QED BY <1>1, <2>3, <4>2 DEF Push
    <3>2. head' \in SlotIndex /\ consumer' \in ConsumerStates
      BY <1>1, <2>3, <1>a, <1>w DEF Push
    <3> QED BY <1>1, <2>3, <3>1, <3>2 DEF Push
  <2> QED BY <2>1, <2>2, <2>3
<1>2. CASE Callback
  BY <1>1, <1>2 DEF Callback
<1>3. CASE Wait
  BY <1>3 DEF Wait, ring
<1>4. CASE SpuriousWakeup
  BY <1>4 DEF SpuriousWakeup, ring
<1>5. CASE TryPeek
  BY <1>5 DEF TryPeek, ring
<1>6. CASE Release
  <2>1. CASE count # 0
    <3>1. slots[tail].at \in Nat /\ slots[tail].sample_count \in Nat
      BY DEF Slot
    <3>2. tail' \in SlotIndex
      BY <1>6, <2>1, <1>a DEF Release
    <3> QED BY <1>6, <2>1, <3>1, <3>2 DEF Release
  <2>2. CASE count = 0
    BY <1>6, <2>2 DEF Release
  <2> QED BY <2>1, <2>2
<1>7. CASE Reset
  BY <1>7 DEF Reset
<1>8. CASE Stop
  BY <1>8, <1>w DEF Stop, ring
<1>9. CASE UNCHANGED queueVars
  BY <1>9 DEF queueVars, ring
<1> QED BY <1>2, <1>3, <1>4, <1>5, <1>6, <1>7, <1>8, <1>9 DEF QueueNext, ConsumerStep

LEMMA TypeInit == QueueInit => QueueTypeOK
<1> SUFFICES ASSUME QueueInit PROVE QueueTypeOK
  OBVIOUS
<1>1. (CHOOSE f \in Freqs : TRUE) \in Freqs
  BY QueueAssumption
<1>2. slots \in [SlotIndex -> Slot]
  BY <1>1 DEF QueueInit, Slot
<1>3. 0 \in SlotIndex /\ 0 \in 0 .. SlotCount /\ 0 \in 0 .. CounterMax
  BY QueueAssumption DEF SlotIndex
<1> QED BY <1>2, <1>3 DEF QueueInit, QueueTypeOK, ConsumerStates

(***************************************************************************)
(* Type correctness of the IQ queue, for every ring size.                  *)
(***************************************************************************)
THEOREM QueueTypeCorrect == QueueSpec => []QueueTypeOK
BY TypeInit, TypeStep, PTL DEF QueueSpec

-----------------------------------------------------------------------------
(***************************************************************************)
(* head is count slots ahead of tail.                                      *)
(***************************************************************************)
RingShape == head = (tail + count) % SlotCount

(***************************************************************************)
(* A held block is a queued block: nothing empties the ring under the      *)
(* consumer.                                                               *)
(***************************************************************************)
HeldIsQueued == consumer = "holding" => count # 0

(***************************************************************************)
(* The blocks lie in the part of the stream that was delivered, which      *)
(* MaxProduced bounds.                                                     *)
(***************************************************************************)
InStream ==
    /\ produced <= MaxProduced
    /\ \A k \in 1 .. count : End(k) <= produced

QueueInv ==
    /\ QueueTypeOK
    /\ RingShape
    /\ StreamAccounted
    /\ InStream
    /\ NoLostWakeup
    /\ HeldIsQueued

(***************************************************************************)
(* The slot of the k-th oldest block when tail is t.                       *)
(***************************************************************************)
Pos(t, k) == (t + k - 1) % SlotCount

LEMMA PosValue ==
    ASSUME NEW t \in SlotIndex, NEW k \in 1 .. SlotCount + 1
    PROVE  /\ Pos(t, k) = IF t + k - 1 < SlotCount THEN t + k - 1
                                                   ELSE t + k - 1 - SlotCount
           /\ Pos(t, k) \in SlotIndex
<1>1. /\ SlotCount \in Nat \ {0}
      /\ t \in 0 .. SlotCount - 1
      /\ k - 1 \in 0 .. SlotCount
      /\ t + (k - 1) = t + k - 1
  BY QueueAssumption DEF SlotIndex
<1>2. (t + (k - 1)) % SlotCount = IF t + (k - 1) < SlotCount THEN t + (k - 1)
                                  ELSE t + (k - 1) - SlotCount
  BY <1>1, ModSum
<1> QED BY <1>1, <1>2 DEF Pos, SlotIndex

LEMMA PosDistinct ==
    ASSUME NEW t \in SlotIndex, NEW c \in 0 .. SlotCount - 1, NEW k \in 1 .. c
    PROVE  Pos(t, k) # Pos(t, c + 1)
<1>1. /\ k \in 1 .. SlotCount + 1
      /\ c + 1 \in 1 .. SlotCount + 1
      /\ SlotCount \in Nat
  BY QueueAssumption
<1>2. Pos(t, k) = IF t + k - 1 < SlotCount THEN t + k - 1 ELSE t + k - 1 - SlotCount
  BY <1>1, PosValue
<1>3. Pos(t, c + 1) = IF t + c < SlotCount THEN t + c ELSE t + c - SlotCount
  BY <1>1, PosValue DEF SlotIndex
<1> QED BY <1>1, <1>2, <1>3 DEF SlotIndex

LEMMA PosAdvance ==
    ASSUME NEW t \in SlotIndex, NEW k \in 1 .. SlotCount
    PROVE  /\ Advance(t) \in SlotIndex
           /\ Pos(Advance(t), k) = Pos(t, k + 1)
<1>1. /\ SlotCount \in Nat \ {0}
      /\ t \in 0 .. SlotCount - 1
      /\ 1 \in 0 .. SlotCount
      /\ k \in 1 .. SlotCount + 1
      /\ k + 1 \in 1 .. SlotCount + 1
  BY QueueAssumption DEF SlotIndex
<1>2. Advance(t) = IF t + 1 < SlotCount THEN t + 1 ELSE t + 1 - SlotCount
  BY <1>1, ModSum DEF Advance
<1>3. Advance(t) \in SlotIndex
  BY <1>1, <1>2 DEF SlotIndex
<1>4. Pos(Advance(t), k) = IF Advance(t) + k - 1 < SlotCount THEN Advance(t) + k - 1
                           ELSE Advance(t) + k - 1 - SlotCount
  BY <1>1, <1>3, PosValue
<1>5. Pos(t, k + 1) = IF t + k < SlotCount THEN t + k ELSE t + k - SlotCount
  BY <1>1, PosValue
<1> QED BY <1>1, <1>2, <1>3, <1>4, <1>5

LEMMA AccountsAdd ==
    ASSUME NEW p \in 0 .. CounterMax, NEW q \in 0 .. CounterMax, NEW gap \in Int,
           NEW d \in Nat, NEW n \in Nat, Accounts(p + q, gap)
    PROVE  /\ Accounts(saturating_add(p, d) + saturating_add(q, n), gap + d + n)
           /\ Accounts(saturating_add(p, d) + q, gap + d)
BY QueueAssumption DEF saturating_add, Accounts

LEMMA BlockType ==
    ASSUME QueueTypeOK, NEW k \in 1 .. SlotCount + 1
    PROVE  /\ Block(k) = slots[Pos(tail, k)]
           /\ Block(k) \in Slot
           /\ Block(k).at \in Nat
           /\ Block(k).sample_count \in Nat
           /\ Missing(k) \in Nat
           /\ End(k) = Block(k).at + Block(k).sample_count
           /\ End(k) \in Nat
<1>1. Block(k) = slots[Pos(tail, k)] /\ Pos(tail, k) \in SlotIndex
  BY PosValue DEF Block, Pos, QueueTypeOK
<1>2. Block(k) \in Slot
  BY <1>1 DEF QueueTypeOK
<1> QED BY <1>1, <1>2, QueueAssumption DEF Slot, Missing, End

-----------------------------------------------------------------------------
(***************************************************************************)
(* A step that leaves the ring and the history alone keeps the accounting. *)
(***************************************************************************)
LEMMA AccountedFrame ==
    ASSUME StreamAccounted, UNCHANGED <<ring, produced, consumed>>, stopping => stopping'
    PROVE  StreamAccounted'
BY DEF StreamAccounted, ring, Missing, End, Block

LEMMA RingStep == QueueTypeOK /\ RingShape /\ [QueueNext]_queueVars => RingShape'
<1> SUFFICES ASSUME QueueTypeOK, RingShape, [QueueNext]_queueVars
             PROVE  RingShape'
  OBVIOUS
<1> USE QueueAssumption
<1>t. tail \in SlotIndex /\ head \in SlotIndex /\ count \in 0 .. SlotCount
  BY DEF QueueTypeOK
<1>0. head = Pos(tail, count + 1)
  BY <1>t DEF RingShape, Pos
<1>1. ASSUME NEW n \in 1 .. MaxTransfer, NEW d \in 0 .. MaxDeviceDrop,
             NEW f \in Freqs, Push(n, d, f)
      PROVE  RingShape'
  <2>1. CASE UNCHANGED <<head, tail, count>>
    BY <2>1 DEF RingShape
  <2>2. CASE count # SlotCount /\ head' = Advance(head) /\ count' = count + 1 /\ tail' = tail
    <3>1. count + 1 \in 1 .. SlotCount + 1 /\ count + 2 \in 1 .. SlotCount + 1
      BY <1>t, <2>2
    <3>2. Advance(head) = IF head + 1 < SlotCount THEN head + 1 ELSE head + 1 - SlotCount
      BY <1>t, ModSum, 1 \in 0 .. SlotCount DEF Advance, SlotIndex
    <3>3. Pos(tail, count + 1) = IF tail + count < SlotCount THEN tail + count
                                 ELSE tail + count - SlotCount
      BY <1>t, <3>1, PosValue DEF SlotIndex
    <3>4. Pos(tail, count + 2) = IF tail + count + 1 < SlotCount THEN tail + count + 1
                                 ELSE tail + count + 1 - SlotCount
      BY <1>t, <3>1, PosValue DEF SlotIndex
    <3>5. Advance(head) = Pos(tail, count + 2)
      BY <1>0, <1>t, <2>2, <3>2, <3>3, <3>4 DEF SlotIndex
    <3>6. Pos(tail, count + 2) = (tail + (count + 1)) % SlotCount
      BY <1>t DEF Pos, SlotIndex
    <3> QED BY <2>2, <3>5, <3>6 DEF RingShape
  <2> QED BY <1>1, <2>1, <2>2 DEF Push
<1>2. CASE Callback
  BY <1>1, <1>2 DEF Callback
<1>3. CASE Release
  <2>1. CASE count # 0
    <3>1. count \in 1 .. SlotCount
      BY <1>t, <2>1
    <3>2. Pos(Advance(tail), count) = Pos(tail, count + 1)
      BY <1>t, <3>1, PosAdvance
    <3>3. Advance(tail) \in Nat
      BY <1>t, <3>1, PosAdvance DEF SlotIndex
    <3>4. Pos(Advance(tail), count) = (Advance(tail) + (count - 1)) % SlotCount
      BY <3>1, <3>3 DEF Pos
    <3> QED BY <1>0, <1>3, <2>1, <3>2, <3>4 DEF Release, RingShape
  <2>2. CASE count = 0
    BY <1>3, <2>2 DEF Release, RingShape
  <2> QED BY <2>1, <2>2
<1>4. CASE Reset
  <2>1. (0 + 0) % SlotCount = 0
    BY ModSmall, 0 \in 0 .. SlotCount - 1
  <2> QED BY <1>4, <2>1 DEF Reset, RingShape
<1>5. CASE UNCHANGED <<head, tail, count>>
  BY <1>5 DEF RingShape
<1> QED
  BY <1>2, <1>3, <1>4, <1>5
  DEF QueueNext, ConsumerStep, Wait, SpuriousWakeup, TryPeek, Stop, queueVars, ring

(***************************************************************************)
(* What push and release do to the queued blocks: an accepted block is     *)
(* added after the others, a release moves every block one place forward.  *)
(***************************************************************************)
LEMMA PushBlocks ==
    ASSUME QueueTypeOK, RingShape,
           NEW n \in 1 .. MaxTransfer, NEW d \in 0 .. MaxDeviceDrop, NEW f \in Freqs,
           Push(n, d, f), ~stopping, ~(n > BlockCapacity \/ count = SlotCount)
    PROVE  /\ \A k \in 1 .. count : Block(k)' = Block(k)
           /\ \A c \in 1 .. SlotCount : c = count + 1 =>
                 Block(c)' = [at |-> produced + d, freq |-> f, sample_count |-> n,
                   device_dropped_samples |-> saturating_add(pending_device_drops, d),
                   queue_dropped_samples |-> pending_queue_drops]
<1> USE QueueAssumption
<1>t. tail \in SlotIndex /\ count \in 0 .. SlotCount - 1
  BY DEF QueueTypeOK
<1>c. tail' = tail
  BY DEF Push
<1>h. head = Pos(tail, count + 1)
  BY <1>t DEF RingShape, Pos, SlotIndex
<1>1. ASSUME NEW k \in 1 .. count
      PROVE  Block(k)' = Block(k)
  <2>1. Pos(tail, k) # head
    BY <1>t, <1>h, <1>1, PosDistinct
  <2>2. k \in 1 .. SlotCount + 1
    BY <1>t, <1>1
  <2>3. Block(k) = slots[Pos(tail, k)] /\ Block(k)' = slots'[Pos(tail, k)]
    BY <1>c DEF Block, Pos
  <2>4. Pos(tail, k) \in SlotIndex
    BY <1>t, <2>2, PosValue
  <2> QED BY <2>1, <2>3, <2>4 DEF Push, QueueTypeOK
<1>2. ASSUME NEW c \in 1 .. SlotCount, c = count + 1
      PROVE  Block(c)' = [at |-> produced + d, freq |-> f, sample_count |-> n,
                   device_dropped_samples |-> saturating_add(pending_device_drops, d),
                   queue_dropped_samples |-> pending_queue_drops]
  <2>1. Block(c)' = slots'[Pos(tail, c)]
    BY <1>c DEF Block, Pos
  <2>2. head = Pos(tail, c) /\ head \in SlotIndex
    BY <1>h, <1>2 DEF QueueTypeOK
  <2> QED BY <2>1, <2>2 DEF Push, QueueTypeOK
<1> QED BY <1>1, <1>2

LEMMA ReleaseBlocks ==
    ASSUME QueueTypeOK, Release, count # 0
    PROVE  \A k \in 1 .. SlotCount : Block(k)' = Block(k + 1)
<1> TAKE k \in 1 .. SlotCount
<1>1. tail \in SlotIndex /\ tail' = Advance(tail) /\ slots' = slots
  BY DEF QueueTypeOK, Release
<1>2. Block(k)' = slots[Pos(Advance(tail), k)]
  BY <1>1 DEF Block, Pos
<1>3. Block(k + 1) = slots[Pos(tail, k + 1)]
  BY DEF Block, Pos
<1> QED BY <1>1, <1>2, <1>3, PosAdvance

LEMMA AccountedStep ==
    QueueTypeOK /\ RingShape /\ StreamAccounted /\ [QueueNext]_queueVars => StreamAccounted'
<1> SUFFICES ASSUME QueueTypeOK, RingShape, StreamAccounted, [QueueNext]_queueVars
             PROVE  StreamAccounted'
  OBVIOUS
<1> USE QueueAssumption
<1>t. /\ tail \in SlotIndex /\ count \in 0 .. SlotCount
      /\ pending_device_drops \in 0 .. CounterMax
      /\ pending_queue_drops \in 0 .. CounterMax
      /\ produced \in Nat /\ consumed \in Nat
  BY DEF QueueTypeOK
<1>q. QueueTypeOK'
  BY TypeStep
<1>e. \A k \in 0 .. SlotCount : End(k) \in Nat
  BY <1>t, BlockType, \A k \in 0 .. SlotCount : k = 0 \/ k \in 1 .. SlotCount + 1 DEF End
<1>1. ASSUME NEW n \in 1 .. MaxTransfer, NEW d \in 0 .. MaxDeviceDrop,
             NEW f \in Freqs, Push(n, d, f)
      PROVE  StreamAccounted'
  <2>n. n \in Nat /\ d \in Nat
    OBVIOUS
  <2>1. CASE stopping
    BY <1>1, <2>1 DEF Push, StreamAccounted, Missing, End, Block
  <2>2. CASE ~stopping /\ (n > BlockCapacity \/ count = SlotCount)
    <3>1. \A k \in 1 .. count : Accounts(Missing(k), Block(k).at - End(k - 1))'
      BY <1>1, <2>2 DEF Push, StreamAccounted, Missing, End, Block
    <3>2. Accounts(pending_device_drops + pending_queue_drops, produced - End(count))
      BY <2>2 DEF StreamAccounted
    <3>3. produced - End(count) \in Int
      BY <1>t, <1>e
    <3>4. Accounts(saturating_add(pending_device_drops, d) + saturating_add(pending_queue_drops, n),
                   produced - End(count) + d + n)
      BY <1>t, <2>n, <3>2, <3>3, AccountsAdd
    <3>5. End(count)' = End(count)
      BY <1>1, <2>2 DEF Push, End, Block
    <3>6. produced' - End(count)' = produced - End(count) + d + n
      BY <1>1, <1>t, <1>e, <2>n, <3>5 DEF Push
    <3>7. Accounts(pending_device_drops + pending_queue_drops, produced - End(count))'
      BY <1>1, <2>2, <3>4, <3>6 DEF Push
    <3> QED BY <1>1, <2>2, <3>1, <3>7 DEF Push, StreamAccounted
  <2>3. CASE ~stopping /\ ~(n > BlockCapacity \/ count = SlotCount)
    <3>c. count \in 0 .. SlotCount - 1 /\ count' = count + 1
      BY <1>1, <1>t, <2>3 DEF Push
    <3>1. ASSUME NEW k \in 1 .. count
          PROVE  Block(k)' = Block(k)
      BY <1>1, <2>3, PushBlocks
    <3>2. PICK c \in 1 .. SlotCount : c = count + 1
      BY <3>c
    <3>3. Block(c)' =
             [at |-> produced + d, freq |-> f, sample_count |-> n,
              device_dropped_samples |-> saturating_add(pending_device_drops, d),
              queue_dropped_samples |-> pending_queue_drops]
      BY <1>1, <2>3, <3>2, PushBlocks
    <3>4. ASSUME NEW k \in 0 .. count
          PROVE  End(k)' = End(k)
      <4>1. CASE k = 0
        BY <1>1, <4>1 DEF Push, End
      <4>2. CASE k \in 1 .. count
        BY <1>t, <4>2, <3>1 DEF End
      <4> QED BY <1>t, <4>1, <4>2
    <3>5. ASSUME NEW k \in 1 .. count
          PROVE  Accounts(Missing(k), Block(k).at - End(k - 1))'
      <4>1. k - 1 \in 0 .. count
        BY <1>t
      <4>2. End(k - 1)' = End(k - 1)
        BY <4>1, <3>4
      <4>3. Missing(k)' = Missing(k)
        BY <3>1 DEF Missing
      <4>4. Accounts(Missing(k), Block(k).at - End(k - 1))
        BY DEF StreamAccounted
      <4> QED BY <3>1, <4>2, <4>3, <4>4 DEF Accounts
    <3>6. Accounts(Missing(c), Block(c).at - End(c - 1))'
      <4>1. Accounts(pending_device_drops + pending_queue_drops, produced - End(count))
        BY <2>3 DEF StreamAccounted
      <4>2. produced - End(count) \in Int
        BY <1>t, <1>e
      <4>3. Accounts(saturating_add(pending_device_drops, d) + pending_queue_drops,
                     produced - End(count) + d)
        BY <1>t, <2>n, <4>1, <4>2, AccountsAdd
      <4>4. Missing(c)' = saturating_add(pending_device_drops, d) + pending_queue_drops
        BY <3>3 DEF Missing
      <4>5. PICK e \in 0 .. SlotCount : e = count
        BY <1>t
      <4>6. c - 1 = e /\ End(e)' = End(e)
        BY <1>t, <3>2, <3>4, <4>5
      <4>7. Block(c)'.at - End(c - 1)' = produced - End(count) + d
        <5>1. End(c - 1)' = End(count)
          BY <4>5, <4>6
        <5>2. Block(c)'.at = produced + d
          BY <3>3
        <5> QED BY <1>t, <1>e, <2>n, <5>1, <5>2
      <4> QED BY <4>3, <4>4, <4>7 DEF Accounts
    <3>7. End(c)' = produced'
      <4>1. End(c)' = Block(c)'.at + Block(c)'.sample_count
        BY DEF End
      <4> QED BY <1>1, <1>t, <2>n, <3>3, <4>1 DEF Push
    <3>8. Accounts(pending_device_drops' + pending_queue_drops', produced' - End(c)')
      <4>1. produced' \in Nat
        BY <1>q DEF QueueTypeOK
      <4>2. pending_device_drops' = 0 /\ pending_queue_drops' = 0
        BY <1>1, <2>3 DEF Push
      <4>3. pending_device_drops' + pending_queue_drops' = 0
        BY <4>2
      <4>4. produced' - End(c)' = 0
        <5>1. \A x, y \in Nat : x = y => y - x = 0
          OBVIOUS
        <5>2. End(c)' \in Nat
          BY <3>7, <4>1
        <5> QED BY <3>7, <4>1, <5>1, <5>2
      <4> QED BY <4>3, <4>4 DEF Accounts
    <3>9. \A k \in 1 .. c : Accounts(Missing(k), Block(k).at - End(k - 1))'
      <4> TAKE k \in 1 .. c
      <4>1. CASE k = c
        BY <4>1, <3>6
      <4>2. CASE k \in 1 .. count
        BY <4>2, <3>5
      <4> QED BY <1>t, <3>2, <4>1, <4>2
    <3> QED
      <4>1. c = count'
        BY <3>2, <3>c
      <4> QED BY <3>8, <3>9, <4>1 DEF StreamAccounted
  <2> QED BY <2>1, <2>2, <2>3
<1>2. CASE Callback
  BY <1>1, <1>2 DEF Callback
<1>3. CASE Release /\ count # 0
  <2>1. /\ count \in 1 .. SlotCount /\ count' = count - 1
        /\ tail' = Advance(tail) /\ slots' = slots
        /\ consumed' = slots[tail].at + slots[tail].sample_count
    BY <1>t, <1>3 DEF Release
  <2>2. ASSUME NEW k \in 1 .. SlotCount
        PROVE  Block(k)' = Block(k + 1)
    BY <1>3, ReleaseBlocks
  <2>3. ASSUME NEW k \in 0 .. SlotCount
        PROVE  End(k)' = End(k + 1)
    <3>1. CASE k = 0
      <4>1. Pos(tail, 1) = tail
        BY <1>t, PosValue, 1 \in 1 .. SlotCount + 1 DEF SlotIndex
      <4>2. Block(1) = slots[tail]
        BY <4>1 DEF Block, Pos
      <4> QED BY <2>1, <3>1, <4>2 DEF End
    <3>2. CASE k \in 1 .. SlotCount
      BY <2>2, <3>2 DEF End
    <3> QED BY <3>1, <3>2
  <2>4. ASSUME NEW k \in 1 .. count - 1
        PROVE  Accounts(Missing(k), Block(k).at - End(k - 1))'
    <3>1. /\ k \in 1 .. SlotCount /\ k - 1 \in 0 .. SlotCount
          /\ k + 1 \in 1 .. count /\ (k - 1) + 1 = (k + 1) - 1
      BY <1>t, <2>1
    <3>2. Block(k)' = Block(k + 1) /\ Missing(k)' = Missing(k + 1)
      BY <2>2, <3>1 DEF Missing
    <3>3. End(k - 1)' = End((k + 1) - 1)
      BY <2>3, <3>1
    <3>4. Accounts(Missing(k + 1), Block(k + 1).at - End((k + 1) - 1))
      BY <3>1 DEF StreamAccounted
    <3> QED BY <3>2, <3>3, <3>4 DEF Accounts
  <2>5. PICK c \in 0 .. SlotCount : c = count - 1
    BY <1>t, <2>1
  <2>6. End(c)' = End(count)
    BY <1>t, <2>3, <2>5
  <2>7. ~stopping' => Accounts(pending_device_drops' + pending_queue_drops',
                               produced' - End(c)')
    BY <1>3, <2>6 DEF StreamAccounted, Release
  <2>8. \A k \in 1 .. c : Accounts(Missing(k), Block(k).at - End(k - 1))'
    BY <2>4, <2>5
  <2>9. c = count'
    BY <2>1, <2>5
  <2> QED BY <2>7, <2>8, <2>9 DEF StreamAccounted
<1>4. CASE Reset
  <2>1. /\ produced' \in Nat /\ count' = 0 /\ consumed' = produced'
        /\ pending_device_drops' = 0 /\ pending_queue_drops' = 0
    BY <1>4, <1>t DEF Reset
  <2>2. End(count)' = produced'
    BY <2>1 DEF End
  <2>3. pending_device_drops' + pending_queue_drops' = 0 /\ produced' - End(count)' = 0
    BY <2>1, <2>2
  <2>4. Accounts(pending_device_drops + pending_queue_drops, produced - End(count))'
    BY <2>3 DEF Accounts
  <2>5. ~\E k \in 1 .. count' : TRUE
    BY <2>1
  <2> QED BY <2>4, <2>5 DEF StreamAccounted
<1>5. CASE UNCHANGED <<ring, produced, consumed>> /\ (stopping => stopping')
  BY <1>5, AccountedFrame
<1>6. CASE Release /\ count = 0
  BY <1>5, <1>6 DEF Release, ring
<1>7. CASE Wait \/ SpuriousWakeup \/ TryPeek \/ Stop \/ UNCHANGED queueVars
  BY <1>5, <1>7 DEF Wait, SpuriousWakeup, TryPeek, Stop, queueVars
<1> QED BY <1>2, <1>3, <1>4, <1>6, <1>7 DEF QueueNext, ConsumerStep

LEMMA InStreamStep ==
    QueueTypeOK /\ RingShape /\ InStream /\ [QueueNext]_queueVars => InStream'
<1> SUFFICES ASSUME QueueTypeOK, RingShape, InStream, [QueueNext]_queueVars
             PROVE  InStream'
  OBVIOUS
<1>t. /\ count \in 0 .. SlotCount /\ produced \in Nat /\ SlotCount \in Nat /\ MaxProduced \in Nat
      /\ \A k \in 1 .. count : k \in 1 .. SlotCount + 1
  BY QueueAssumption DEF QueueTypeOK
<1>e. \A k \in 1 .. count : End(k) \in Nat /\ End(k) <= produced
  BY <1>t, BlockType DEF InStream
<1>1. ASSUME NEW n \in 1 .. MaxTransfer, NEW d \in 0 .. MaxDeviceDrop, NEW f \in Freqs,
             produced + d + n <= MaxProduced, Push(n, d, f)
      PROVE  InStream'
  <2>1. n \in Nat /\ d \in Nat /\ produced' = produced + d + n
    BY <1>1 DEF Push
  <2>2. CASE UNCHANGED <<slots, tail, count>>
    <3>1. \A k \in 1 .. count' : End(k)' <= produced'
      <4> SUFFICES ASSUME NEW k \in 1 .. count PROVE End(k)' <= produced'
        BY <2>2
      <4>1. End(k)' = End(k)
        BY <2>2 DEF End, Block
      <4> QED BY <1>t, <1>e, <2>1, <4>1
    <3> QED BY <1>1, <2>1, <3>1 DEF InStream
  <2>3. CASE ~stopping /\ ~(n > BlockCapacity \/ count = SlotCount)
    <3>1. count' = count + 1 /\ count + 1 \in 1 .. SlotCount
      BY <1>1, <1>t, <2>3 DEF Push
    <3>2. ASSUME NEW k \in 1 .. count
          PROVE  End(k)' <= produced'
      <4>1. End(k)' = End(k)
        BY <1>1, <1>t, <2>3, PushBlocks DEF End
      <4> QED BY <1>t, <1>e, <2>1, <4>1
    <3>3. ASSUME NEW c \in 1 .. SlotCount, c = count + 1
          PROVE  End(c)' <= produced'
      <4>1. Block(c)'.at = produced + d /\ Block(c)'.sample_count = n
        BY <1>1, <2>3, <3>3, PushBlocks
      <4>2. End(c)' = produced + d + n
        BY <4>1 DEF End
      <4> QED BY <1>t, <2>1, <4>2
    <3>4. ASSUME NEW k \in 1 .. count'
          PROVE  End(k)' <= produced'
      <4>1. k \in 1 .. count \/ (k \in 1 .. SlotCount /\ k = count + 1)
        BY <1>t, <3>1
      <4> QED BY <3>2, <3>3, <4>1
    <3> QED BY <1>1, <2>1, <3>4 DEF InStream
  <2> QED BY <1>1, <2>2, <2>3 DEF Push
<1>2. CASE Callback
  BY <1>1, <1>2 DEF Callback
<1>3. CASE Release /\ count # 0
  <2>1. count' = count - 1 /\ produced' = produced
    BY <1>3 DEF Release
  <2>2. ASSUME NEW k \in 1 .. count'
        PROVE  End(k)' <= produced'
    <3>1. k \in 1 .. SlotCount /\ k + 1 \in 1 .. count
      BY <1>t, <2>1
    <3>2. End(k)' = End(k + 1)
      BY <1>3, <3>1, ReleaseBlocks DEF End
    <3> QED BY <1>e, <2>1, <3>1, <3>2
  <2> QED BY <2>1, <2>2 DEF InStream
<1>4. CASE Reset
  <2>1. count' = 0 /\ produced' = produced
    BY <1>4 DEF Reset
  <2> QED BY <2>1 DEF InStream
<1>5. CASE UNCHANGED <<slots, tail, count, produced>>
  <2>1. \A k \in 1 .. count : End(k)' = End(k)
    BY <1>5, <1>t DEF End, Block
  <2> QED BY <1>5, <2>1 DEF InStream
<1>6. CASE Release /\ count = 0
  BY <1>5, <1>6 DEF Release
<1> QED
  BY <1>2, <1>3, <1>4, <1>5, <1>6
  DEF QueueNext, ConsumerStep, Wait, SpuriousWakeup, TryPeek, Stop, queueVars, ring

(***************************************************************************)
(* Sleeping and holding are consistent with the ring.                      *)
(***************************************************************************)
LEMMA ConsumerInvStep ==
    QueueTypeOK /\ NoLostWakeup /\ HeldIsQueued /\ [QueueNext]_queueVars
        => NoLostWakeup' /\ HeldIsQueued'
<1> SUFFICES ASSUME QueueTypeOK, NoLostWakeup, HeldIsQueued, [QueueNext]_queueVars
             PROVE  NoLostWakeup' /\ HeldIsQueued'
  OBVIOUS
<1> USE DEF NoLostWakeup, HeldIsQueued
<1>1. CASE Callback
  BY <1>1 DEF Callback, Push, Woken, QueueTypeOK
<1>2. CASE Wait \/ SpuriousWakeup \/ TryPeek \/ Release \/ Reset
  BY <1>2 DEF Wait, SpuriousWakeup, TryPeek, Release, Reset, ring
<1>3. CASE Stop
  BY <1>3 DEF Stop, Woken, ring
<1>4. CASE UNCHANGED queueVars
  BY <1>4 DEF queueVars, ring
<1> QED BY <1>1, <1>2, <1>3, <1>4 DEF QueueNext, ConsumerStep

LEMMA QueueInvInit == QueueInit => QueueInv
<1> SUFFICES ASSUME QueueInit PROVE QueueInv
  OBVIOUS
<1>1. QueueTypeOK
  BY TypeInit
<1>2. RingShape
  BY ModSmall, QueueAssumption, 0 \in 0 .. SlotCount - 1 DEF QueueInit, RingShape
<1>3. StreamAccounted
  BY DEF QueueInit, StreamAccounted, Accounts, End
<1>4. NoLostWakeup /\ HeldIsQueued
  BY DEF QueueInit, NoLostWakeup, HeldIsQueued
<1>5. InStream
  BY QueueAssumption DEF QueueInit, InStream
<1> QED BY <1>1, <1>2, <1>3, <1>4, <1>5 DEF QueueInv

LEMMA QueueInvStep == QueueInv /\ [QueueNext]_queueVars => QueueInv'
BY TypeStep, RingStep, AccountedStep, InStreamStep, ConsumerInvStep DEF QueueInv

LEMMA QueueInvariant == QueueSpec => []QueueInv
BY QueueInvInit, QueueInvStep, PTL DEF QueueSpec

(***************************************************************************)
(* The IQ queue loses no sample silently: for every ring size, transfer    *)
(* size and counter width, what separates consecutive blocks is what the   *)
(* overrun counters report there.                                          *)
(***************************************************************************)
THEOREM OverrunsAccounted == QueueSpec => []StreamAccounted
<1>1. QueueInv => StreamAccounted
  BY DEF QueueInv
<1> QED BY <1>1, QueueInvariant, PTL

(***************************************************************************)
(* The DSP thread never sleeps on a queue that has a block or is stopping. *)
(***************************************************************************)
THEOREM WakeupsKept == QueueSpec => []NoLostWakeup
<1>1. QueueInv => NoLostWakeup
  BY DEF QueueInv
<1> QED BY <1>1, QueueInvariant, PTL

(***************************************************************************)
(* The block the DSP thread holds is never overwritten or taken away.      *)
(***************************************************************************)
THEOREM PeekedBlockKept == QueueSpec => PeekedBlockStable
<1>1. ASSUME QueueInv, [QueueNext]_queueVars, consumer = "holding", consumer' = "holding"
      PROVE  tail' = tail /\ slots'[tail] = slots[tail] /\ count' >= count
  <2>t. QueueTypeOK /\ RingShape /\ count # 0
    BY <1>1 DEF QueueInv, HeldIsQueued
  <2>1. CASE Callback
    <3> PICK n \in 1 .. MaxTransfer, d \in 0 .. MaxDeviceDrop, f \in Freqs : Push(n, d, f)
      BY <2>1 DEF Callback
    <3>1. CASE UNCHANGED <<slots, count>>
      BY <2>t, <3>1 DEF Push, QueueTypeOK
    <3>2. CASE count # SlotCount /\ count' = count + 1
      <4>1. /\ tail \in SlotIndex /\ count \in 0 .. SlotCount - 1
            /\ 1 \in 1 .. count /\ SlotCount \in Nat
        BY <2>t, <3>2, QueueAssumption DEF QueueTypeOK
      <4>2. Pos(tail, 1) # Pos(tail, count + 1)
        BY <4>1, PosDistinct
      <4>3. Pos(tail, 1) = tail
        BY <4>1, PosValue, 1 \in 1 .. SlotCount + 1 DEF SlotIndex
      <4>4. Pos(tail, count + 1) = head
        BY <2>t, <4>1 DEF RingShape, Pos, SlotIndex
      <4> QED BY <2>t, <3>2, <4>1, <4>2, <4>3, <4>4 DEF Push, QueueTypeOK
    <3> QED BY <3>1, <3>2 DEF Push
  <2>2. CASE Stop \/ UNCHANGED queueVars
    BY <2>t, <2>2 DEF Stop, queueVars, ring, QueueTypeOK
  <2>3. CASE ConsumerStep \/ SpuriousWakeup \/ Reset
    BY <1>1, <2>3 DEF ConsumerStep, Wait, TryPeek, Release, SpuriousWakeup, Reset
  <2> QED BY <1>1, <2>1, <2>2, <2>3 DEF QueueNext
<1> QED BY <1>1, QueueInvariant, PTL DEF QueueSpec, PeekedBlockStable

-----------------------------------------------------------------------------
(***************************************************************************)
(* Division with remainder.                                                *)
(***************************************************************************)
LEMMA Euclid ==
    ASSUME NEW f \in Nat, f > 0, NEW x \in Int
    PROVE  x = f * (x \div f) + (x % f)
OBVIOUS

LEMMA DivMod ==
    ASSUME NEW f \in Nat, f > 0, NEW x \in Nat
    PROVE  /\ x = (x \div f) * f + (x % f)
           /\ x % f \in 0 .. f - 1
           /\ x \div f \in Nat
<1>1. x = f * (x \div f) + (x % f)
  BY Euclid
<1>2. x % f \in 0 .. f - 1
  BY Z3
<1>3. x \div f \in Nat
  BY Z3
<1>4. f * (x \div f) = (x \div f) * f
  BY <1>3, Z3
<1> QED BY <1>1, <1>2, <1>3, <1>4

LEMMA DivBound ==
    ASSUME NEW f \in Nat, f > 0, NEW m \in Nat, NEW x \in Nat, x <= m * f
    PROVE  x \div f <= m
<1>1. x \div f \in Nat /\ (x \div f) * f <= x
  BY DivMod
<1>2. SUFFICES ASSUME x \div f >= m + 1 PROVE FALSE
  BY <1>1
<1>3. ASSUME NEW q \in Nat, q >= m + 1
      PROVE  q * f >= (m + 1) * f
  BY <1>3, Z3
<1>4. (m + 1) * f = m * f + f
  BY Z3
<1>5. m * f \in Nat /\ (x \div f) * f \in Nat
  BY <1>1, Z3
<1> QED BY <1>1, <1>2, <1>3, <1>4, <1>5

LEMMA DivBoundStrict ==
    ASSUME NEW f \in Nat, f > 0, NEW m \in Nat, NEW x \in Nat, x < m * f
    PROVE  x \div f < m
<1>1. x \div f \in Nat /\ (x \div f) * f <= x
  BY DivMod
<1>2. SUFFICES ASSUME x \div f >= m PROVE FALSE
  BY <1>1
<1>3. ASSUME NEW q \in Nat, q >= m
      PROVE  q * f >= m * f
  BY <1>3, Z3
<1>4. m * f \in Nat /\ (x \div f) * f \in Nat
  BY <1>1, Z3
<1> QED BY <1>1, <1>2, <1>3, <1>4

(***************************************************************************)
(* What the loop of process_sample_block does to the sample counters when  *)
(* it is given n inputs: it never stores more than Target samples, stays   *)
(* below Target unless the frame is complete, and keeps count of every     *)
(* input it used.                                                          *)
(***************************************************************************)
LEMMA LoopCounts ==
    ASSUME NEW iq \in 0 .. Target - 1, NEW ph \in 0 .. Factor - 1, NEW n \in Nat,
           NEW need \in Int, need = (Target - iq) * Factor - ph,
           NEW used \in Int, used = IF n >= need THEN need ELSE n
    PROVE  /\ used \in Nat
           /\ iq + (ph + used) \div Factor \in 0 .. Target
           /\ (ph + used) % Factor \in 0 .. Factor - 1
           /\ n < need => iq + (ph + used) \div Factor \in 0 .. Target - 1
           /\ (iq + (ph + used) \div Factor) * Factor + ((ph + used) % Factor)
                 = iq * Factor + ph + used
<1>0. /\ Factor \in Nat /\ Factor > 0 /\ Target \in Nat
      /\ iq \in Nat /\ ph \in Nat /\ ph < Factor /\ Target - iq \in Nat /\ Target - iq >= 1
  BY ReceiverAssumption
<1>1. (Target - iq) * Factor \in Nat /\ (Target - iq) * Factor >= Factor
  <2>1. ASSUME NEW m \in Nat, m >= 1
        PROVE  m * Factor \in Nat /\ m * Factor >= Factor
    BY <1>0, <2>1, Z3
  <2> QED BY <1>0, <2>1
<1>2. used \in Nat /\ ph + used \in Nat /\ ph + used <= (Target - iq) * Factor
  BY <1>0, <1>1
<1>3. n < need => ph + used < (Target - iq) * Factor
  BY <1>0, <1>1
<1>4. PICK q \in Nat, r \in 0 .. Factor - 1 :
          /\ q = (ph + used) \div Factor /\ r = (ph + used) % Factor
          /\ ph + used = q * Factor + r
  BY <1>0, <1>2, DivMod
<1>5. q <= Target - iq
  BY <1>0, <1>2, <1>4, DivBound
<1>6. n < need => q < Target - iq
  BY <1>0, <1>2, <1>3, <1>4, DivBoundStrict
<1>7. (iq + q) * Factor = iq * Factor + q * Factor /\ iq * Factor \in Nat /\ q * Factor \in Nat
  BY <1>0, <1>4, Z3
<1>8. (iq + q) * Factor + r = iq * Factor + ph + used
  BY <1>0, <1>2, <1>4, <1>7
<1> QED BY <1>0, <1>2, <1>4, <1>5, <1>6, <1>8

-----------------------------------------------------------------------------
(***************************************************************************)
(* Every step of the receiver is, for the IQ queue, a step of the queue's  *)
(* specification or leaves it alone.                                       *)
(***************************************************************************)
LEMMA QueueRefined == dialfreq \in Freqs /\ [Next]_vars => [QueueNext]_queueVars
<1> SUFFICES ASSUME dialfreq \in Freqs, [Next]_vars
             PROVE  [QueueNext]_queueVars
  OBVIOUS
<1>1. CASE RxCallback
  <2>1. Callback
    BY <1>1 DEF RxCallback, Callback
  <2> QED BY <2>1 DEF QueueNext
<1>2. CASE DspWait \/ DspPeek \/ DspRelease
  BY <1>2 DEF DspWait, DspPeek, DspRelease, QueueNext, ConsumerStep
<1>3. CASE DspProcess \/ DspNotify \/ DecoderStep
  BY <1>3 DEF DspProcess, DspNotify, DecoderStep, DecoderLoop, DecoderTake, DecoderCopy,
     DecoderDecode, DecoderPost, DecoderFinish
<1>4. CASE MainStep
  BY <1>4 DEF MainStep, MainClock, MainSelect, MainFails, MainSlot, InitSampleStorage,
     MainPoll, MainPolled, MainStopStream, MainStopQueue, MainJoinDsp, MainSignal,
     MainJoinDecoder, MainStopReporting, QueueNext
<1>5. CASE Environment
  BY <1>5 DEF Environment, SigintHandler, StreamLost, ClockChange, DspWakeup, DecoderWakeup,
     QueueNext
<1>6. CASE UNCHANGED vars
  BY <1>6 DEF vars
<1> QED BY <1>1, <1>2, <1>3, <1>4, <1>5, <1>6 DEF Next, DspStep

-----------------------------------------------------------------------------
(***************************************************************************)
(* Type correctness, with what it takes to be inductive: a capture in      *)
(* progress has room for a sample, and the decoder has a frame while it    *)
(* decodes and reports; the queue's invariant says that the block the DSP  *)
(* thread holds is a queued one.                                           *)
(***************************************************************************)
CaptureRoom == capture_flag => iqIndex \in 0 .. Target - 1

JobPresent == decoder \in {"decode", "post"} => job \in Job

ReceiverInv == TypeOK /\ QueueInv /\ CaptureRoom /\ JobPresent

LEMMA ReceiverInvInit == Init => ReceiverInv
<1> SUFFICES ASSUME Init PROVE ReceiverInv
  OBVIOUS
<1>1. QueueInv
  BY QueueInvInit DEF Init
<1>2. frame \in Frame
  BY <1>1 DEF Init, NewFrame, Frame, QueueInv, QueueTypeOK
<1>3. iqIndex \in 0 .. Target /\ phase \in 0 .. Factor - 1
  BY ReceiverAssumption DEF Init
<1>4. reporting \in BOOLEAN
  BY ReceiverAssumption DEF Init
<1>5. /\ main \in MainStates /\ dsp \in DspStates /\ decoder \in DecoderStates
      /\ exit_flag \in BOOLEAN /\ capture_flag \in BOOLEAN /\ decode_flag \in BOOLEAN
      /\ job \in Job \cup {NoJob} /\ posted \in Frame \cup {NoSpot}
      /\ busy \in BOOLEAN /\ dialfreq \in Freqs /\ streaming \in BOOLEAN /\ clock \in BOOLEAN
  BY DEF Init, MainStates, DspStates, DecoderStates
<1>6. CaptureRoom /\ JobPresent
  BY DEF Init, CaptureRoom, JobPresent
<1> QED BY <1>1, <1>2, <1>3, <1>4, <1>5, <1>6 DEF ReceiverInv, TypeOK, QueueInv

(***************************************************************************)
(* The block the DSP thread works on is the oldest queued one.             *)
(***************************************************************************)
LEMMA HeldBlock ==
    ASSUME QueueInv, consumer = "holding"
    PROVE  /\ count \in 1 .. SlotCount
           /\ slots[tail] = Block(1)
           /\ slots[tail] \in Slot
<1>1. QueueTypeOK /\ count # 0
  BY DEF QueueInv, HeldIsQueued
<1>2. 1 \in 1 .. SlotCount + 1 /\ SlotCount \in Nat \ {0}
  BY QueueAssumption
<1>3. Pos(tail, 1) = tail
  BY <1>1, <1>2, PosValue DEF QueueTypeOK, SlotIndex
<1> QED BY <1>1, <1>2, <1>3, BlockType DEF QueueTypeOK

LEMMA InputsType ==
    ASSUME NEW block \in Slot
    PROVE  missing_samples(block) \in Nat /\ missing_samples(block) + block.sample_count \in Nat
<1>1. /\ block.device_dropped_samples + block.queue_dropped_samples \in Nat
      /\ block.sample_count \in Nat
  BY DEF Slot
<1>2. CounterMax + 1 \in Nat /\ CounterMax + 1 > 0
  BY QueueAssumption
<1> QED BY <1>1, <1>2, DivMod DEF missing_samples

(***************************************************************************)
(* One block through process_sample_block.                                 *)
(***************************************************************************)
LEMMA ProcessType ==
    ASSUME TypeOK, CaptureRoom, capture_flag, NEW block \in Slot, ProcessSampleBlock(block)
    PROVE  /\ iqIndex' \in 0 .. Target /\ phase' \in 0 .. Factor - 1
           /\ frame' \in Frame /\ dsp' \in DspStates /\ capture_flag' \in BOOLEAN
           /\ CaptureRoom'
           /\ frame'.dialfreq = frame.dialfreq /\ frame'.from = frame.from
           /\ frame'.heard \subseteq frame.heard \cup {block.freq}
           /\ capture_flag' => iqIndex' * Factor + phase' = iqIndex * Factor + phase
                                   + (missing_samples(block) + block.sample_count)
<1> DEFINE n    == missing_samples(block) + block.sample_count
           need == (Target - iqIndex) * Factor - phase
           used == IF n >= need THEN need ELSE n
<1>1. /\ n \in Nat /\ iqIndex \in 0 .. Target - 1 /\ phase \in 0 .. Factor - 1
      /\ Factor \in Nat /\ Target \in Nat
  BY InputsType, ReceiverAssumption DEF CaptureRoom, TypeOK
<1>2. need \in Int
  BY <1>1, Z3
<1>3. used \in Int
  BY <1>1, <1>2
<1>4. /\ iqIndex' = iqIndex + (phase + used) \div Factor
      /\ phase' = (phase + used) % Factor
      /\ capture_flag' = ~(n >= need)
      /\ dsp' = IF n >= need THEN "notify" ELSE "release"
  BY DEF ProcessSampleBlock, InputsToComplete
<1>5. frame' = [frame EXCEPT
               !.device_dropped_samples = @ + block.device_dropped_samples,
               !.queue_dropped_samples = @ + block.queue_dropped_samples,
               !.heard = IF used > missing_samples(block) THEN @ \cup {block.freq} ELSE @]
  BY DEF ProcessSampleBlock, InputsToComplete
<1> HIDE DEF n, need, used
<1>6. /\ iqIndex + (phase + used) \div Factor \in 0 .. Target
      /\ (phase + used) % Factor \in 0 .. Factor - 1
      /\ n < need => iqIndex + (phase + used) \div Factor \in 0 .. Target - 1
      /\ (iqIndex + (phase + used) \div Factor) * Factor + ((phase + used) % Factor)
            = iqIndex * Factor + phase + used
  <2>1. need = (Target - iqIndex) * Factor - phase /\ used = IF n >= need THEN need ELSE n
    BY DEF need, used
  <2> QED BY <1>1, <1>2, <1>3, <2>1, LoopCounts
<1>7. frame' \in Frame
  <2>1. /\ frame \in Frame
        /\ frame.device_dropped_samples + block.device_dropped_samples \in Nat
        /\ frame.queue_dropped_samples + block.queue_dropped_samples \in Nat
    BY DEF TypeOK, Frame, Slot
  <2>2. (IF used > missing_samples(block) THEN frame.heard \cup {block.freq} ELSE frame.heard)
           \in SUBSET Freqs
    BY <2>1 DEF Frame, Slot
  <2> QED BY <1>5, <2>1, <2>2 DEF Frame
<1>8. /\ frame'.dialfreq = frame.dialfreq /\ frame'.from = frame.from
      /\ frame'.heard \subseteq frame.heard \cup {block.freq}
  BY <1>5 DEF Frame, TypeOK
<1>9. capture_flag' => used = n /\ n < need
  <2>1. ~(n >= need) => used = n /\ n < need
    BY <1>1, <1>2 DEF used
  <2> QED BY <1>4, <2>1, Zenon
<1>10. dsp' \in DspStates /\ capture_flag' \in BOOLEAN
  BY <1>4 DEF DspStates
<1>11. CaptureRoom'
  BY <1>4, <1>6, <1>9 DEF CaptureRoom
<1>12. capture_flag' => iqIndex' * Factor + phase' = iqIndex * Factor + phase + n
  BY <1>4, <1>6, <1>9
<1> QED BY <1>4, <1>6, <1>7, <1>8, <1>10, <1>11, <1>12 DEF n

-----------------------------------------------------------------------------
LEMMA ReceiverInvStep == ReceiverInv /\ [Next]_vars => ReceiverInv'
<1> SUFFICES ASSUME ReceiverInv, [Next]_vars PROVE ReceiverInv'
  OBVIOUS
<1>t. TypeOK /\ QueueInv /\ CaptureRoom /\ JobPresent
  BY DEF ReceiverInv
<1>q. QueueInv' /\ QueueTypeOK'
  BY <1>t, QueueRefined, QueueInvStep DEF QueueInv, TypeOK
<1> DEFINE Rest ==
      /\ main \in MainStates /\ dsp \in DspStates /\ decoder \in DecoderStates
      /\ exit_flag \in BOOLEAN /\ capture_flag \in BOOLEAN /\ decode_flag \in BOOLEAN
      /\ iqIndex \in 0 .. Target /\ phase \in 0 .. Factor - 1
      /\ frame \in Frame
      /\ job \in Job \cup {NoJob}
      /\ posted \in Frame \cup {NoSpot}
      /\ busy \in BOOLEAN
      /\ dialfreq \in Freqs
      /\ streaming \in BOOLEAN /\ clock \in BOOLEAN /\ reporting \in BOOLEAN
      /\ CaptureRoom /\ JobPresent
<1>r. Rest
  BY <1>t DEF TypeOK
<1>s. SUFFICES Rest'
  BY <1>q, <1>s DEF ReceiverInv, TypeOK
<1> USE DEF dspVars, decoderVars, mainVars, CaptureRoom, JobPresent
<1>1. CASE RxCallback \/ DspWait \/ DspPeek \/ ClockChange \/ DspWakeup
  <2>1. CASE RxCallback
    BY <2>1, <1>r DEF RxCallback
  <2>2. CASE DspWait
    BY <2>2, <1>r DEF DspWait
  <2>3. CASE DspPeek
    BY <2>3, <1>r DEF DspPeek
  <2>4. CASE ClockChange
    BY <2>4, <1>r DEF ClockChange
  <2>5. CASE DspWakeup
    BY <2>5, <1>r DEF DspWakeup
  <2> QED BY <1>1, <2>1, <2>2, <2>3, <2>4, <2>5
<1>2. CASE DspProcess
  <2>1. slots[tail] \in Slot
    BY <1>2, <1>t, HeldBlock DEF DspProcess
  <2>2. CASE capture_flag
    <3>1. ProcessSampleBlock(slots[tail])
      BY <1>2, <2>2 DEF DspProcess
    <3>2. /\ iqIndex' \in 0 .. Target /\ phase' \in 0 .. Factor - 1
          /\ frame' \in Frame /\ dsp' \in DspStates /\ capture_flag' \in BOOLEAN
          /\ CaptureRoom'
      BY <1>t, <2>1, <2>2, <3>1, ProcessType
    <3> QED BY <1>2, <1>r, <3>2 DEF DspProcess
  <2>3. CASE ~capture_flag
    BY <1>2, <1>r, <2>3 DEF DspProcess, DspStates
  <2> QED BY <2>2, <2>3
<1>3. CASE DspNotify
  BY <1>3, <1>r DEF DspNotify, DspStates, Woken, DecoderStates
<1>4. CASE DspRelease
  BY <1>4, <1>r DEF DspRelease, DspStates
<1>5. CASE DecoderLoop \/ DecoderWakeup
  <2>1. CASE DecoderLoop
    BY <2>1, <1>r DEF DecoderLoop, DecoderStates
  <2>2. CASE DecoderWakeup
    BY <2>2, <1>r DEF DecoderWakeup, DecoderStates
  <2> QED BY <1>5, <2>1, <2>2
<1>6. CASE DecoderTake
  BY <1>6, <1>r DEF DecoderTake, DecoderStates
<1>7. CASE DecoderCopy
  <2>1. [samples_len |-> iqIndex, spots |-> 0, frame |-> frame] \in Job
    BY <1>r, ReceiverAssumption DEF Job
  <2> QED BY <1>7, <1>r, <2>1 DEF DecoderCopy, DecoderStates
<1>8. CASE DecoderDecode
  <2>1. job' \in Job
    BY <1>8, <1>r DEF DecoderDecode, Job
  <2> QED BY <1>8, <1>r, <2>1 DEF DecoderDecode, DecoderStates
<1>9. CASE DecoderPost
  <2>1. job \in Job
    BY <1>9, <1>r DEF DecoderPost
  <2>2. CASE job.spots = 0
    BY <1>9, <1>r, <2>2 DEF DecoderPost, DecoderStates
  <2>3. CASE job.spots # 0
    <3>1. job.spots \in 0 .. MaxSpots /\ job.frame \in Frame
      BY <2>1 DEF Job
    <3>2. job.spots - 1 \in 0 .. MaxSpots
      BY <2>3, <3>1, ReceiverAssumption
    <3>3. job' \in Job
      BY <1>9, <2>1, <2>3, <3>2 DEF DecoderPost, Job
    <3>4. posted' \in Frame \cup {NoSpot}
      BY <1>9, <1>r, <2>3, <3>1 DEF DecoderPost
    <3> QED BY <1>9, <1>r, <2>3, <3>3, <3>4 DEF DecoderPost
  <2> QED BY <2>2, <2>3
<1>10. CASE DecoderFinish
  BY <1>10, <1>r DEF DecoderFinish, DecoderStates
<1>11. CASE MainClock \/ MainSelect \/ MainFails \/ MainSlot
  <2>1. CASE MainClock
    BY <2>1, <1>r DEF MainClock, MainStates
  <2>2. CASE MainSelect
    BY <2>2, <1>r DEF MainSelect, MainStates
  <2>3. CASE MainFails
    BY <2>3, <1>r DEF MainFails, MainStates
  <2>4. CASE MainSlot
    BY <2>4, <1>r DEF MainSlot, MainStates
  <2> QED BY <1>11, <2>1, <2>2, <2>3, <2>4
<1>12. CASE InitSampleStorage
  <2>1. 0 \in 0 .. Target - 1 /\ 0 \in 0 .. Target /\ 0 \in 0 .. Factor - 1
    BY ReceiverAssumption
  <2>2. frame' \in Frame
    <3>1. produced \in Nat
      BY <1>t DEF TypeOK, QueueTypeOK
    <3> QED BY <1>12, <1>r, <3>1 DEF InitSampleStorage, NewFrame, Frame
  <2> QED BY <1>12, <1>r, <2>1, <2>2 DEF InitSampleStorage, MainStates
<1>13. CASE MainPoll \/ MainPolled \/ MainStopStream \/ MainStopQueue
  <2>1. CASE MainPoll
    BY <2>1, <1>r DEF MainPoll, MainStates
  <2>2. CASE MainPolled
    BY <2>2, <1>r DEF MainPolled, MainStates
  <2>3. CASE MainStopStream
    BY <2>3, <1>r DEF MainStopStream, MainStates
  <2>4. CASE MainStopQueue
    BY <2>4, <1>r DEF MainStopQueue, MainStates
  <2> QED BY <1>13, <2>1, <2>2, <2>3, <2>4
<1>14. CASE MainJoinDsp \/ MainJoinDecoder \/ MainStopReporting
  <2>1. CASE MainJoinDsp
    BY <2>1, <1>r DEF MainJoinDsp, MainStates
  <2>2. CASE MainJoinDecoder
    BY <2>2, <1>r DEF MainJoinDecoder, MainStates
  <2>3. CASE MainStopReporting
    BY <2>3, <1>r DEF MainStopReporting, MainStates
  <2> QED BY <1>14, <2>1, <2>2, <2>3
<1>15. CASE MainSignal
  BY <1>15, <1>r DEF MainSignal, MainStates, Woken, DecoderStates
<1>16. CASE SigintHandler \/ StreamLost
  <2>1. CASE SigintHandler
    BY <2>1, <1>r DEF SigintHandler
  <2>2. CASE StreamLost
    BY <2>2, <1>r DEF StreamLost
  <2> QED BY <1>16, <2>1, <2>2
<1>17. CASE UNCHANGED vars
  BY <1>17, <1>r DEF vars
<1> QED
  BY <1>1, <1>2, <1>3, <1>4, <1>5, <1>6, <1>7, <1>8, <1>9, <1>10, <1>11, <1>12, <1>13,
     <1>14, <1>15, <1>16, <1>17
  DEF Next, DspStep, DecoderStep, MainStep, Environment

(***************************************************************************)
(* Type correctness of the receiver core; in particular process_sample_    *)
(* block never stores past the end of the frame buffer, whatever the       *)
(* overrun counters say.                                                   *)
(***************************************************************************)
THEOREM ReceiverTypeCorrect == Spec => []TypeOK
<1>1. ReceiverInv => TypeOK
  BY DEF ReceiverInv
<1> QED BY <1>1, ReceiverInvInit, ReceiverInvStep, PTL DEF Spec

-----------------------------------------------------------------------------
(***************************************************************************)
(* Where the main loop is while a capture is in progress: it is polling,   *)
(* or on its way out.                                                      *)
(***************************************************************************)
CapturePhase ==
    /\ main \in {"select", "slot", "init"} => ~capture_flag
    /\ main = "clock" => (capture_flag => exit_flag)
    /\ main = "polled" => (capture_flag => exit_flag \/ ~streaming)

LEMMA CapturePhaseStep == TypeOK /\ CapturePhase /\ [Next]_vars => CapturePhase'
<1> SUFFICES ASSUME TypeOK, CapturePhase, [Next]_vars PROVE CapturePhase'
  OBVIOUS
<1> USE DEF CapturePhase, dspVars, decoderVars, mainVars
<1>1. CASE RxCallback
  BY <1>1 DEF RxCallback
<1>2. CASE DspStep
  <2>1. CASE DspProcess
    <3>1. capture_flag' => capture_flag
      BY <2>1 DEF DspProcess, TypeOK
    <3> QED BY <2>1, <3>1 DEF DspProcess
  <2>2. CASE DspWait \/ DspPeek \/ DspNotify \/ DspRelease
    BY <2>2 DEF DspWait, DspPeek, DspNotify, DspRelease
  <2> QED BY <1>2, <2>1, <2>2 DEF DspStep
<1>3. CASE DecoderStep
  BY <1>3 DEF DecoderStep, DecoderLoop, DecoderTake, DecoderCopy, DecoderDecode, DecoderPost,
     DecoderFinish
<1>4. CASE MainStep
  <2>1. CASE MainClock
    BY <2>1 DEF MainClock
  <2>2. CASE MainSelect \/ MainFails \/ MainSlot
    BY <2>2 DEF MainSelect, MainFails, MainSlot
  <2>3. CASE InitSampleStorage
    BY <2>3 DEF InitSampleStorage
  <2>4. CASE MainPoll
    BY <2>4 DEF MainPoll, TypeOK
  <2>5. CASE MainPolled
    BY <2>5 DEF MainPolled, TypeOK
  <2>6. CASE MainStopStream \/ MainStopQueue \/ MainJoinDsp \/ MainSignal
    BY <2>6 DEF MainStopStream, MainStopQueue, MainJoinDsp, MainSignal
  <2>7. CASE MainJoinDecoder \/ MainStopReporting
    BY <2>7 DEF MainJoinDecoder, MainStopReporting
  <2> QED BY <1>4, <2>1, <2>2, <2>3, <2>4, <2>5, <2>6, <2>7 DEF MainStep
<1>5. CASE Environment
  BY <1>5 DEF Environment, SigintHandler, StreamLost, ClockChange, DspWakeup, DecoderWakeup
<1>6. CASE UNCHANGED vars
  BY <1>6 DEF vars
<1> QED BY <1>1, <1>2, <1>3, <1>4, <1>5, <1>6 DEF Next

(***************************************************************************)
(* While a frame is captured its label is the tuned frequency, and so is   *)
(* that of every queued block: initSampleStorage emptied the queue after   *)
(* the radio was tuned.                                                    *)
(***************************************************************************)
QueueOnLabel ==
    capture_flag => /\ frame.dialfreq = dialfreq
                    /\ \A k \in 1 .. count : Block(k).freq = dialfreq

LEMMA QueueOnLabelFrame ==
    ASSUME QueueOnLabel, UNCHANGED <<slots, tail, count, dialfreq>>,
           capture_flag' => capture_flag, frame'.dialfreq = frame.dialfreq
    PROVE  QueueOnLabel'
BY DEF QueueOnLabel, Block

LEMMA QueueOnLabelStep ==
    ReceiverInv /\ CapturePhase /\ QueueOnLabel /\ [Next]_vars => QueueOnLabel'
<1> SUFFICES ASSUME ReceiverInv, CapturePhase, QueueOnLabel, [Next]_vars PROVE QueueOnLabel'
  OBVIOUS
<1>t. TypeOK /\ QueueInv /\ CaptureRoom
  BY DEF ReceiverInv
<1>q. /\ QueueTypeOK /\ RingShape /\ count \in 0 .. SlotCount /\ SlotCount \in Nat
      /\ dialfreq \in Freqs
  BY <1>t, QueueAssumption DEF QueueInv, QueueTypeOK, TypeOK
<1> USE DEF dspVars, decoderVars, mainVars, queueVars, ring
<1>1. CASE RxCallback
  <2> PICK n \in 1 .. MaxTransfer, d \in 0 .. MaxDeviceDrop : Push(n, d, dialfreq)
    BY <1>1 DEF RxCallback
  <2>u. UNCHANGED <<frame, dialfreq, capture_flag, tail>>
    BY <1>1 DEF RxCallback, Push
  <2>1. CASE UNCHANGED <<slots, count>>
    BY <2>1, <2>u, QueueOnLabelFrame
  <2>2. CASE ~stopping /\ ~(n > BlockCapacity \/ count = SlotCount)
    <3>1. count' = count + 1 /\ count + 1 \in 1 .. SlotCount
      BY <1>q, <2>2 DEF Push
    <3>2. ASSUME capture_flag, NEW k \in 1 .. count'
          PROVE  Block(k)'.freq = dialfreq
      <4>1. CASE k \in 1 .. count
        <5>1. Block(k)' = Block(k)
          BY <1>q, <2>2, <4>1, PushBlocks
        <5> QED BY <3>2, <4>1, <5>1 DEF QueueOnLabel
      <4>2. CASE k \in 1 .. SlotCount /\ k = count + 1
        BY <1>q, <2>2, <4>2, PushBlocks
      <4> QED BY <1>q, <3>1, <4>1, <4>2
    <3> QED BY <2>u, <3>2 DEF QueueOnLabel
  <2> QED BY <2>1, <2>2 DEF Push
<1>2. CASE DspProcess
  <2>1. CASE capture_flag
    <3>1. slots[tail] \in Slot /\ ProcessSampleBlock(slots[tail])
      BY <1>2, <1>t, <2>1, HeldBlock DEF DspProcess
    <3>2. frame'.dialfreq = frame.dialfreq
      BY <1>t, <2>1, <3>1, ProcessType
    <3> QED BY <1>2, <2>1, <3>2, QueueOnLabelFrame DEF DspProcess
  <2>2. CASE ~capture_flag
    BY <1>2, <2>2, QueueOnLabelFrame DEF DspProcess
  <2> QED BY <2>1, <2>2
<1>3. CASE DspRelease
  <2>1. UNCHANGED <<frame, dialfreq, capture_flag>>
    BY <1>3 DEF DspRelease
  <2>2. count # 0 /\ Release
    BY <1>3, <1>t, HeldBlock DEF DspRelease, Release
  <2>3. count' = count - 1
    BY <2>2 DEF Release
  <2>4. ASSUME capture_flag, NEW k \in 1 .. count'
        PROVE  Block(k)'.freq = dialfreq
    <3>1. k \in 1 .. SlotCount /\ k + 1 \in 1 .. count
      BY <1>q, <2>3
    <3>2. Block(k)' = Block(k + 1)
      BY <1>q, <2>2, <3>1, ReleaseBlocks
    <3> QED BY <2>4, <3>1, <3>2 DEF QueueOnLabel
  <2> QED BY <2>1, <2>4 DEF QueueOnLabel
<1>4. CASE InitSampleStorage
  <2>1. count' = 0 /\ dialfreq' = dialfreq /\ frame'.dialfreq = dialfreq
    BY <1>4 DEF InitSampleStorage, Reset, NewFrame
  <2> QED BY <2>1 DEF QueueOnLabel
<1>5. CASE MainSelect
  <2>1. ~capture_flag'
    BY <1>5 DEF MainSelect, CapturePhase
  <2> QED BY <2>1 DEF QueueOnLabel
<1>6. CASE UNCHANGED <<slots, tail, count, dialfreq, capture_flag, frame>>
  BY <1>6, QueueOnLabelFrame
<1>7. CASE DspWait \/ DspPeek \/ DspNotify \/ DecoderStep
  BY <1>6, <1>7 DEF DspWait, Wait, DspPeek, TryPeek, DspNotify, DecoderStep, DecoderLoop,
     DecoderTake, DecoderCopy, DecoderDecode, DecoderPost, DecoderFinish
<1>8. CASE MainClock \/ MainFails \/ MainSlot \/ MainPoll \/ MainPolled
  BY <1>6, <1>8 DEF MainClock, MainFails, MainSlot, MainPoll, MainPolled
<1>9. CASE \/ MainStopStream \/ MainStopQueue \/ MainJoinDsp \/ MainSignal
           \/ MainJoinDecoder \/ MainStopReporting
  BY <1>6, <1>9 DEF MainStopStream, MainStopQueue, Stop, MainJoinDsp, MainSignal,
     MainJoinDecoder, MainStopReporting
<1>10. CASE Environment \/ UNCHANGED vars
  BY <1>6, <1>10 DEF Environment, SigintHandler, StreamLost, ClockChange, DspWakeup,
     SpuriousWakeup, DecoderWakeup, vars
<1> QED
  BY <1>1, <1>2, <1>3, <1>4, <1>5, <1>7, <1>8, <1>9, <1>10 DEF Next, DspStep, MainStep

LEMMA HomogeneousStep ==
    ReceiverInv /\ QueueOnLabel /\ FrameHomogeneous /\ [Next]_vars => FrameHomogeneous'
<1> SUFFICES ASSUME ReceiverInv, QueueOnLabel, FrameHomogeneous, [Next]_vars
             PROVE  FrameHomogeneous'
  OBVIOUS
<1>t. TypeOK /\ QueueInv /\ CaptureRoom /\ JobPresent
  BY DEF ReceiverInv
<1> USE DEF dspVars, decoderVars, mainVars
<1>1. CASE DspProcess
  <2>1. CASE capture_flag
    <3>1. /\ slots[tail] \in Slot /\ slots[tail] = Block(1) /\ count \in 1 .. SlotCount
          /\ ProcessSampleBlock(slots[tail])
      BY <1>1, <1>t, <2>1, HeldBlock DEF DspProcess
    <3>2. frame'.dialfreq = frame.dialfreq /\ frame'.heard \subseteq frame.heard \cup {slots[tail].freq}
      BY <1>t, <2>1, <3>1, ProcessType
    <3>3. slots[tail].freq = frame.dialfreq
      BY <2>1, <3>1, 1 \in 1 .. count, QueueAssumption DEF QueueOnLabel
    <3> QED BY <1>1, <3>2, <3>3 DEF DspProcess, FrameHomogeneous
  <2>2. CASE ~capture_flag
    BY <1>1, <2>2 DEF DspProcess, FrameHomogeneous
  <2> QED BY <2>1, <2>2
<1>2. CASE InitSampleStorage
  BY <1>2 DEF InitSampleStorage, NewFrame, FrameHomogeneous
<1>3. CASE DecoderCopy
  BY <1>3 DEF DecoderCopy, FrameHomogeneous
<1>4. CASE DecoderDecode
  <2>1. job \in Job /\ job # NoJob
    BY <1>4, <1>t DEF DecoderDecode, JobPresent, Job, NoJob
  <2>2. job'.frame = job.frame
    BY <1>4, <2>1 DEF DecoderDecode, Job
  <2> QED BY <1>4, <2>1, <2>2 DEF DecoderDecode, FrameHomogeneous
<1>5. CASE DecoderPost
  <2>1. job \in Job /\ job # NoJob
    BY <1>5, <1>t DEF DecoderPost, JobPresent, Job, NoJob
  <2>2. job'.frame = job.frame
    BY <1>5, <2>1 DEF DecoderPost, Job
  <2> QED BY <1>5, <2>1, <2>2 DEF DecoderPost, FrameHomogeneous
<1>6. CASE DecoderFinish
  BY <1>6 DEF DecoderFinish, FrameHomogeneous
<1>7. CASE UNCHANGED <<frame, job>>
  BY <1>7 DEF FrameHomogeneous
<1>8. CASE \/ RxCallback \/ DspWait \/ DspPeek \/ DspNotify \/ DspRelease
           \/ DecoderLoop \/ DecoderTake
  BY <1>7, <1>8 DEF RxCallback, DspWait, DspPeek, DspNotify, DspRelease, DecoderLoop, DecoderTake
<1>9. CASE \/ MainClock \/ MainSelect \/ MainFails \/ MainSlot \/ MainPoll \/ MainPolled
           \/ MainStopStream \/ MainStopQueue \/ MainJoinDsp \/ MainSignal
           \/ MainJoinDecoder \/ MainStopReporting
  BY <1>7, <1>9 DEF MainClock, MainSelect, MainFails, MainSlot, MainPoll, MainPolled,
     MainStopStream, MainStopQueue, MainJoinDsp, MainSignal, MainJoinDecoder, MainStopReporting
<1>10. CASE Environment \/ UNCHANGED vars
  BY <1>7, <1>10 DEF Environment, SigintHandler, StreamLost, ClockChange, DspWakeup,
     DecoderWakeup, vars
<1> QED
  BY <1>1, <1>2, <1>3, <1>4, <1>5, <1>6, <1>8, <1>9, <1>10
  DEF Next, DspStep, DecoderStep, MainStep

(***************************************************************************)
(* The inductive invariant of the capture path.                            *)
(***************************************************************************)
CaptureInv == ReceiverInv /\ CapturePhase /\ QueueOnLabel /\ FrameHomogeneous

LEMMA CaptureInvariant == Spec => []CaptureInv
<1>1. Init => CaptureInv
  <2> SUFFICES ASSUME Init PROVE CaptureInv
    OBVIOUS
  <2>1. CapturePhase /\ QueueOnLabel
    BY DEF Init, CapturePhase, QueueOnLabel
  <2>2. FrameHomogeneous
    BY DEF Init, FrameHomogeneous, NewFrame
  <2> QED BY <2>1, <2>2, ReceiverInvInit DEF CaptureInv
<1>2. CaptureInv /\ [Next]_vars => CaptureInv'
  BY ReceiverInvStep, CapturePhaseStep, QueueOnLabelStep, HomogeneousStep
  DEF CaptureInv, ReceiverInv
<1> QED BY <1>1, <1>2, PTL DEF Spec

(***************************************************************************)
(* Every sample of a frame, in the buffer and in the decoder's copy, was   *)
(* received on the frequency the frame is labelled with, for every queue   *)
(* size, frame length and set of bands.                                    *)
(***************************************************************************)
THEOREM FramesHomogeneous == Spec => []FrameHomogeneous
<1>1. CaptureInv => FrameHomogeneous
  BY DEF CaptureInv
<1> QED BY <1>1, CaptureInvariant, PTL

(***************************************************************************)
(* The main loop retunes the radio only between captures.                  *)
(***************************************************************************)
THEOREM TunedBetweenCaptures == Spec => NoRetuneInCapture
<1>1. CaptureInv /\ [Next]_vars => [dialfreq' # dialfreq => ~capture_flag]_vars
  <2> SUFFICES ASSUME CaptureInv, [Next]_vars, dialfreq' # dialfreq PROVE ~capture_flag
    OBVIOUS
  <2>1. CASE MainSelect
    BY <2>1 DEF CaptureInv, CapturePhase, MainSelect
  <2>2. CASE RxCallback \/ DspStep \/ DecoderStep \/ Environment \/ UNCHANGED vars
    BY <2>2 DEF RxCallback, DspStep, DspWait, DspPeek, DspProcess, DspNotify, DspRelease,
       DecoderStep, DecoderLoop, DecoderTake, DecoderCopy, DecoderDecode, DecoderPost,
       DecoderFinish, Environment, SigintHandler, StreamLost, ClockChange, DspWakeup,
       DecoderWakeup, vars, mainVars
  <2>3. CASE MainStep /\ ~MainSelect
    BY <2>3 DEF MainStep, MainClock, MainFails, MainSlot, InitSampleStorage, MainPoll,
       MainPolled, MainStopStream, MainStopQueue, MainJoinDsp, MainSignal, MainJoinDecoder,
       MainStopReporting
  <2> QED BY <2>1, <2>2, <2>3 DEF Next
<1> QED BY <1>1, CaptureInvariant, PTL DEF Spec, NoRetuneInCapture

-----------------------------------------------------------------------------
(***************************************************************************)
(* Sample time, for streams shorter than the overrun counters' range: a    *)
(* counter of UINT64_MAX lost samples is out of every stream's reach.      *)
(***************************************************************************)
DspPhase == consumer # "holding" => dsp = "process"

LEMMA DspPhaseStep == DspPhase /\ [Next]_vars => DspPhase'
<1> SUFFICES ASSUME DspPhase, [Next]_vars PROVE DspPhase'
  OBVIOUS
<1> USE DEF DspPhase, dspVars, queueVars
<1>1. CASE RxCallback
  BY <1>1 DEF RxCallback, Push, Woken
<1>2. CASE DspWait \/ DspPeek \/ DspWakeup
  BY <1>2 DEF DspWait, Wait, DspPeek, TryPeek, DspWakeup, SpuriousWakeup
<1>3. CASE DspProcess \/ DspNotify \/ DspRelease
  BY <1>3 DEF DspProcess, DspNotify, DspRelease
<1>4. CASE DecoderStep
  BY <1>4 DEF DecoderStep, DecoderLoop, DecoderTake, DecoderCopy, DecoderDecode, DecoderPost,
     DecoderFinish
<1>5. CASE MainStopQueue
  BY <1>5 DEF MainStopQueue, Stop, Woken
<1>6. CASE InitSampleStorage
  BY <1>6 DEF InitSampleStorage, Reset
<1>7. CASE MainStep /\ ~MainStopQueue /\ ~InitSampleStorage
  BY <1>7 DEF MainStep, MainClock, MainSelect, MainFails, MainSlot, MainPoll, MainPolled,
     MainStopStream, MainJoinDsp, MainSignal, MainJoinDecoder, MainStopReporting
<1>8. CASE SigintHandler \/ StreamLost \/ ClockChange \/ DecoderWakeup \/ UNCHANGED vars
  BY <1>8 DEF SigintHandler, StreamLost, ClockChange, DecoderWakeup, vars
<1> QED BY <1>1, <1>2, <1>3, <1>4, <1>5, <1>6, <1>7, <1>8 DEF Next, DspStep, Environment

(***************************************************************************)
(* The oldest block covers the stream from where the consumer stands to    *)
(* its own end.                                                            *)
(***************************************************************************)
LEMMA HeldBlockCovers ==
    ASSUME QueueInv, consumer = "holding", MaxProduced <= CounterMax
    PROVE  missing_samples(slots[tail]) + slots[tail].sample_count = End(1) - consumed
<1> USE QueueAssumption
<1>1. /\ slots[tail] = Block(1) /\ count \in 1 .. SlotCount /\ SlotCount \in Nat
      /\ 1 \in 1 .. SlotCount + 1 /\ 1 \in 1 .. count
  BY HeldBlock
<1>2. /\ Block(1).at \in Nat /\ Block(1).sample_count \in Nat /\ Missing(1) \in Nat
      /\ End(1) = Block(1).at + Block(1).sample_count
      /\ End(1) \in Nat
  BY <1>1, BlockType DEF QueueInv
<1>3. End(1) <= produced /\ produced <= MaxProduced /\ produced \in Nat /\ consumed \in Nat
  BY <1>1 DEF QueueInv, InStream, QueueTypeOK
<1>4. End(1 - 1) = consumed
  BY DEF End
<1>5. Accounts(Missing(1), Block(1).at - consumed)
  BY <1>1, <1>4 DEF QueueInv, StreamAccounted
<1>6. Missing(1) = Block(1).at - consumed /\ Missing(1) \in 0 .. CounterMax
  BY <1>2, <1>3, <1>5 DEF Accounts
<1>7. Missing(1) % (CounterMax + 1) = Missing(1)
  BY <1>6, ModSmall, CounterMax + 1 \in Nat \ {0}, Missing(1) \in 0 .. (CounterMax + 1) - 1
<1>8. missing_samples(slots[tail]) = Missing(1)
  BY <1>1, <1>7 DEF missing_samples, Missing
<1> QED BY <1>1, <1>2, <1>3, <1>6, <1>8

LEMMA ContinuousFrame ==
    ASSUME SampleTimeContinuous, UNCHANGED <<iqIndex, phase, frame, capture_flag>>,
           Processed' = Processed
    PROVE  SampleTimeContinuous'
BY DEF SampleTimeContinuous

LEMMA ContinuousStep ==
    ASSUME MaxProduced <= CounterMax
    PROVE  ReceiverInv /\ DspPhase /\ SampleTimeContinuous /\ [Next]_vars
               => SampleTimeContinuous'
<1> SUFFICES ASSUME ReceiverInv, DspPhase, SampleTimeContinuous, [Next]_vars
             PROVE  SampleTimeContinuous'
  OBVIOUS
<1>t. TypeOK /\ QueueInv /\ CaptureRoom
  BY DEF ReceiverInv
<1>q. QueueTypeOK /\ RingShape
  BY <1>t DEF QueueInv
<1> USE DEF dspVars, decoderVars, mainVars, queueVars, ring
<1>1. CASE RxCallback
  <2> PICK n \in 1 .. MaxTransfer, d \in 0 .. MaxDeviceDrop : Push(n, d, dialfreq)
    BY <1>1 DEF RxCallback
  <2>u. UNCHANGED <<iqIndex, phase, frame, capture_flag, dsp, tail, consumed>>
    BY <1>1 DEF RxCallback, Push
  <2>1. CASE consumer = "holding"
    <3>0. consumer' = "holding"
      BY <2>1 DEF Push, Woken
    <3>1. count \in 1 .. SlotCount /\ SlotCount \in Nat /\ dialfreq \in Freqs
      BY <1>t, <2>1, HeldBlock, QueueAssumption DEF TypeOK
    <3>2. Block(1)' = Block(1)
      <4>1. CASE UNCHANGED slots
        BY <4>1, <2>u DEF Block
      <4>2. CASE ~stopping /\ ~(n > BlockCapacity \/ count = SlotCount)
        BY <1>q, <3>1, <4>2, PushBlocks, 1 \in 1 .. count
      <4> QED BY <4>1, <4>2 DEF Push
    <3>3. End(1)' = End(1)
      BY <3>2 DEF End
    <3> QED BY <2>1, <2>u, <3>0, <3>3, ContinuousFrame DEF Processed
  <2>2. CASE consumer # "holding"
    <3>1. consumer' # "holding"
      BY <2>2 DEF Push, Woken
    <3> QED BY <2>2, <2>u, <3>1, ContinuousFrame DEF Processed
  <2> QED BY <2>1, <2>2
<1>2. CASE DspProcess
  <2>1. CASE capture_flag
    <3>1. /\ slots[tail] \in Slot /\ ProcessSampleBlock(slots[tail])
          /\ consumer = "holding" /\ dsp = "process"
      BY <1>2, <1>t, <2>1, HeldBlock DEF DspProcess
    <3>2. /\ frame'.from = frame.from
          /\ capture_flag' => iqIndex' * Factor + phase' = iqIndex * Factor + phase
                + (missing_samples(slots[tail]) + slots[tail].sample_count)
      BY <1>t, <2>1, <3>1, ProcessType
    <3>3. missing_samples(slots[tail]) + slots[tail].sample_count = End(1) - consumed
      BY <1>t, <3>1, HeldBlockCovers
    <3>4. iqIndex * Factor + phase = consumed - frame.from
      BY <2>1, <3>1 DEF SampleTimeContinuous, Processed
    <3>5. Processed' = End(1)
      <4>1. consumer' = "holding" /\ dsp' # "process"
        BY <1>2, <3>1 DEF DspProcess, ProcessSampleBlock
      <4>2. End(1)' = End(1)
        BY <1>2 DEF DspProcess, End, Block
      <4> QED BY <4>1, <4>2 DEF Processed
    <3>6. consumed \in Nat /\ End(1) \in Nat /\ frame.from \in Nat
      <4>1. 1 \in 1 .. SlotCount + 1
        BY QueueAssumption
      <4> QED BY <1>q, <1>t, <4>1, BlockType DEF QueueTypeOK, TypeOK, Frame
    <3> QED BY <3>2, <3>3, <3>4, <3>5, <3>6 DEF SampleTimeContinuous
  <2>2. CASE ~capture_flag
    BY <1>2, <2>2 DEF DspProcess, SampleTimeContinuous
  <2> QED BY <2>1, <2>2
<1>3. CASE DspNotify
  <2>1. End(1)' = End(1)
    BY <1>3 DEF DspNotify, End, Block
  <2>2. Processed' = Processed
    BY <1>3, <2>1 DEF DspNotify, Processed
  <2> QED BY <1>3, <2>2, ContinuousFrame DEF DspNotify
<1>4. CASE DspRelease
  <2>1. consumer = "holding" /\ dsp = "release" /\ consumer' = "idle"
    BY <1>4 DEF DspRelease, Release
  <2>2. count \in 1 .. SlotCount /\ slots[tail] = Block(1)
    BY <1>t, <2>1, HeldBlock
  <2>3. consumed' = slots[tail].at + slots[tail].sample_count
    BY <1>4, <2>2, QueueAssumption DEF DspRelease, Release
  <2>4. Processed' = Processed
    BY <2>1, <2>2, <2>3 DEF Processed, End
  <2> QED BY <1>4, <2>4, ContinuousFrame DEF DspRelease
<1>5. CASE InitSampleStorage
  <2>1. /\ iqIndex' = 0 /\ phase' = 0 /\ frame'.from = produced /\ consumed' = produced
        /\ consumer' # "holding"
    BY <1>5 DEF InitSampleStorage, Reset, NewFrame
  <2>2. Processed' = produced
    BY <2>1 DEF Processed
  <2>3. produced \in Nat /\ Factor \in Nat
    BY <1>q, ReceiverAssumption DEF QueueTypeOK
  <2>4. 0 * Factor + 0 = 0 /\ produced - produced = 0
    BY <2>3
  <2> QED BY <2>1, <2>2, <2>4 DEF SampleTimeContinuous
<1>6. CASE DspWait \/ DspPeek \/ DspWakeup
  <2>1. Processed = consumed /\ Processed' = consumed'
    BY <1>6 DEF DspWait, Wait, DspPeek, TryPeek, DspWakeup, SpuriousWakeup, Processed, DspPhase
  <2>2. UNCHANGED <<iqIndex, phase, frame, capture_flag, consumed>>
    BY <1>6 DEF DspWait, Wait, DspPeek, TryPeek, DspWakeup, SpuriousWakeup
  <2> QED BY <2>1, <2>2, ContinuousFrame
<1>7. CASE MainStopQueue
  <2>1. (consumer' = "holding") = (consumer = "holding")
    BY <1>7 DEF MainStopQueue, Stop, Woken
  <2>2. End(1)' = End(1) /\ UNCHANGED <<iqIndex, phase, frame, capture_flag, dsp, consumed>>
    BY <1>7 DEF MainStopQueue, Stop, End, Block
  <2>3. Processed' = Processed
    BY <2>1, <2>2 DEF Processed
  <2> QED BY <2>2, <2>3, ContinuousFrame
<1>8. CASE UNCHANGED <<slots, tail, consumer, consumed, dsp, iqIndex, phase, frame, capture_flag>>
  <2>1. Processed' = Processed
    BY <1>8 DEF Processed, End, Block
  <2> QED BY <1>8, <2>1, ContinuousFrame
<1>9. CASE DecoderStep \/ SigintHandler \/ StreamLost \/ ClockChange \/ DecoderWakeup
  BY <1>8, <1>9 DEF DecoderStep, DecoderLoop, DecoderTake, DecoderCopy, DecoderDecode,
     DecoderPost, DecoderFinish, SigintHandler, StreamLost, ClockChange, DecoderWakeup
<1>10. CASE MainStep /\ ~MainStopQueue /\ ~InitSampleStorage
  BY <1>8, <1>10 DEF MainStep, MainClock, MainSelect, MainFails, MainSlot, MainPoll, MainPolled,
     MainStopStream, MainJoinDsp, MainSignal, MainJoinDecoder, MainStopReporting
<1>11. CASE UNCHANGED vars
  BY <1>8, <1>11 DEF vars
<1> QED
  BY <1>1, <1>2, <1>3, <1>4, <1>5, <1>6, <1>7, <1>9, <1>10, <1>11
  DEF Next, DspStep, Environment

(***************************************************************************)
(* Sample time is continuous in every capture: whatever the device and the *)
(* queue lose, a stored sample stands for its own place in the stream.     *)
(***************************************************************************)
THEOREM SampleTimeKept ==
    ASSUME MaxProduced <= CounterMax
    PROVE  Spec => []SampleTimeContinuous
<1> DEFINE I == ReceiverInv /\ DspPhase /\ SampleTimeContinuous
<1>1. Init => I
  BY ReceiverInvInit DEF Init, DspPhase, SampleTimeContinuous
<1>2. I /\ [Next]_vars => I'
  BY ReceiverInvStep, DspPhaseStep, ContinuousStep
<1> QED BY <1>1, <1>2, PTL DEF Spec

-----------------------------------------------------------------------------
(***************************************************************************)
(* Shutdown: it starts with exit_flag set, reporting stops last and only   *)
(* after the decoder thread has ended.                                     *)
(***************************************************************************)
ShutdownOrder ==
    /\ main \in {"stop_stream", "stop_queue", "join_dsp", "signal", "join_decoder",
                 "stop_reporting", "done"} => exit_flag
    /\ main # "done" => reporting = ~noreport
    /\ main \in {"stop_reporting", "done"} => decoder = "done"

ThreadInv == TypeOK /\ ShutdownOrder /\ DecoderAwake

LEMMA ThreadStep ==
    TypeOK /\ ShutdownOrder /\ DecoderAwake /\ [Next]_vars => ShutdownOrder' /\ DecoderAwake'
<1> SUFFICES ASSUME TypeOK, ShutdownOrder, DecoderAwake, [Next]_vars
             PROVE  ShutdownOrder' /\ DecoderAwake'
  OBVIOUS
<1> USE DEF ShutdownOrder, DecoderAwake, decoderVars, mainVars
<1>1. CASE RxCallback
  BY <1>1 DEF RxCallback
<1>2. CASE DspWait \/ DspPeek \/ DspProcess \/ DspRelease
  BY <1>2 DEF DspWait, DspPeek, DspProcess, DspRelease
<1>3. CASE DspNotify
  BY <1>3 DEF DspNotify, Woken
<1>4. CASE DecoderLoop
  BY <1>4 DEF DecoderLoop
<1>5. CASE DecoderTake
  BY <1>5 DEF DecoderTake
<1>6. CASE DecoderCopy
  BY <1>6 DEF DecoderCopy
<1>7. CASE DecoderDecode
  BY <1>7 DEF DecoderDecode
<1>8. CASE DecoderPost
  BY <1>8 DEF DecoderPost
<1>9. CASE DecoderFinish
  BY <1>9 DEF DecoderFinish
<1>10. CASE MainClock
  BY <1>10 DEF MainClock
<1>11. CASE MainSelect \/ MainFails \/ MainSlot \/ InitSampleStorage
  BY <1>11 DEF MainSelect, MainFails, MainSlot, InitSampleStorage
<1>12. CASE MainPoll
  BY <1>12 DEF MainPoll
<1>13. CASE MainPolled
  BY <1>13 DEF MainPolled
<1>14. CASE MainStopStream \/ MainStopQueue \/ MainJoinDsp
  BY <1>14 DEF MainStopStream, MainStopQueue, MainJoinDsp
<1>15. CASE MainSignal
  BY <1>15 DEF MainSignal, Woken
<1>16. CASE MainJoinDecoder
  BY <1>16 DEF MainJoinDecoder
<1>17. CASE MainStopReporting
  BY <1>17 DEF MainStopReporting
<1>18. CASE Environment
  BY <1>18 DEF Environment, SigintHandler, StreamLost, ClockChange, DspWakeup, DecoderWakeup
<1>19. CASE UNCHANGED vars
  BY <1>19 DEF vars
<1> QED
  BY <1>1, <1>2, <1>3, <1>4, <1>5, <1>6, <1>7, <1>8, <1>9, <1>10, <1>11, <1>12, <1>13, <1>14,
     <1>15, <1>16, <1>17, <1>18, <1>19
  DEF Next, DspStep, DecoderStep, MainStep

LEMMA ThreadInvariant == Spec => []ThreadInv
<1>1. Init => ShutdownOrder /\ DecoderAwake
  BY DEF Init, ShutdownOrder, DecoderAwake
<1>2. ThreadInv /\ TypeOK' /\ [Next]_vars => ThreadInv'
  BY ThreadStep DEF ThreadInv
<1>3. Init /\ TypeOK => ThreadInv
  BY <1>1 DEF ThreadInv
<1> QED BY <1>2, <1>3, ReceiverTypeCorrect, PTL DEF Spec

(***************************************************************************)
(* The decoder thread never sleeps through a complete frame or through the *)
(* end of the program.                                                     *)
(***************************************************************************)
THEOREM DecoderStaysAwake == Spec => []DecoderAwake
<1>1. ThreadInv => DecoderAwake
  BY DEF ThreadInv
<1> QED BY <1>1, ThreadInvariant, PTL

(***************************************************************************)
(* No spot is handed to a reporter that was stopped.                       *)
(***************************************************************************)
THEOREM ReporterOutlivesDecoder == Spec => ReporterAlive
<1>1. ThreadInv /\ [Next]_vars =>
        [posted' # posted /\ posted' # NoSpot => reporting]_vars
  <2> SUFFICES ASSUME ThreadInv, [Next]_vars, posted' # posted, posted' # NoSpot
               PROVE  reporting
    OBVIOUS
  <2>1. CASE DecoderPost
    <3>1. decoder = "post" /\ ~noreport
      BY <2>1 DEF DecoderPost
    <3>2. main # "done"
      BY <3>1 DEF ThreadInv, ShutdownOrder
    <3> QED BY <3>1, <3>2 DEF ThreadInv, ShutdownOrder
  <2>2. CASE DecoderStep /\ ~DecoderPost
    BY <2>2 DEF DecoderStep, DecoderLoop, DecoderTake, DecoderCopy, DecoderDecode, DecoderFinish
  <2>3. CASE RxCallback \/ DspStep \/ Environment \/ UNCHANGED vars
    BY <2>3 DEF RxCallback, DspStep, DspWait, DspPeek, DspProcess, DspNotify, DspRelease,
       Environment, SigintHandler, StreamLost, ClockChange, DspWakeup, DecoderWakeup, vars,
       decoderVars
  <2>4. CASE MainStep
    BY <2>4 DEF MainStep, MainClock, MainSelect, MainFails, MainSlot, InitSampleStorage,
       MainPoll, MainPolled, MainStopStream, MainStopQueue, MainJoinDsp, MainSignal,
       MainJoinDecoder, MainStopReporting, decoderVars
  <2> QED BY <2>1, <2>2, <2>3, <2>4 DEF Next
<1> QED BY <1>1, ThreadInvariant, PTL DEF Spec, ReporterAlive

-----------------------------------------------------------------------------
(***************************************************************************)
(* The loop stops at the output that completes the frame.                  *)
(***************************************************************************)
LEMMA LoopCompletes ==
    ASSUME NEW iq \in 0 .. Target - 1, NEW ph \in 0 .. Factor - 1
    PROVE  iq + (ph + ((Target - iq) * Factor - ph)) \div Factor = Target
<1>0. Factor \in Nat /\ Factor > 0 /\ Target \in Nat /\ iq \in Nat /\ ph \in Nat
  BY ReceiverAssumption
<1>1. PICK m \in Nat : m = Target - iq
  BY <1>0
<1>2. PICK x \in Nat : x = m * Factor
  BY <1>0, Z3
<1>3. PICK q \in Nat : q = x \div Factor
  BY <1>0, <1>2, DivMod
<1>4. x = q * Factor + (x % Factor) /\ x % Factor \in 0 .. Factor - 1
  BY <1>0, <1>2, <1>3, DivMod
<1>5. q <= m
  BY <1>0, <1>1, <1>2, <1>3, DivBound
<1>6. SUFFICES ASSUME q < m
               PROVE  FALSE
  <2>1. q = m
    BY <1>1, <1>3, <1>5, <1>6
  <2>2. ph + ((Target - iq) * Factor - ph) = x
    BY <1>0, <1>1, <1>2
  <2> QED
    BY <1>0, <1>1, <1>3, <2>1, <2>2
<1>7. q * Factor + Factor = (q + 1) * Factor /\ q * Factor \in Nat
  BY <1>0, <1>3, Z3
<1>8. ASSUME NEW p \in Nat, p <= m
      PROVE  p * Factor <= m * Factor
  BY <1>0, <1>1, <1>8, Z3
<1>9. (q + 1) * Factor <= x
  BY <1>2, <1>3, <1>6, <1>8
<1> QED
  BY <1>0, <1>2, <1>4, <1>7, <1>9

(***************************************************************************)
(* The hand-over of a frame, from the DSP thread's notification through    *)
(* decode_flag and the decoder's turn to its copy: the buffer holds a      *)
(* whole frame, or one that was started over it.                           *)
(***************************************************************************)
Whole == iqIndex = Target /\ ~capture_flag

NotifiedWhole == dsp = "notify" => Whole

PendingWhole ==
    decode_flag \/ (decoder = "taken" /\ ~exit_flag) => Whole \/ frame.late

HandOver == NotifiedWhole /\ PendingWhole /\ WholeUnlessLate

(***************************************************************************)
(* One block keeps the hand-over: a complete frame is left alone, the      *)
(* frame of a capture keeps its mark, and ends only as a whole one.        *)
(***************************************************************************)
LEMMA ProcessHandsOver ==
    ASSUME TypeOK, CaptureRoom, HandOver, DspProcess
    PROVE  HandOver'
<1>1. /\ UNCHANGED <<decoder, decode_flag, job, exit_flag>> /\ dsp = "process"
  BY DEF DspProcess, decoderVars, mainVars
<1>2. WholeUnlessLate'
  BY <1>1 DEF HandOver, WholeUnlessLate
<1>3. CASE capture_flag
  <2> DEFINE block    == slots[tail]
             complete == missing_samples(block) + block.sample_count >= InputsToComplete
  <2>1. ProcessSampleBlock(block)
    BY <1>3 DEF DspProcess
  <2>2. frame'.late = frame.late
    <3>1. frame \in Frame
      BY DEF TypeOK
    <3> QED
      BY <2>1, <3>1 DEF ProcessSampleBlock, Frame
  <2>3. dsp' = "notify" => complete
    BY <2>1 DEF ProcessSampleBlock
  <2>4. ASSUME complete
        PROVE  Whole'
    <3>1. iqIndex' = iqIndex + (phase + InputsToComplete) \div Factor /\ ~capture_flag'
      BY <2>1, <2>4 DEF ProcessSampleBlock
    <3>2. iqIndex \in 0 .. Target - 1 /\ phase \in 0 .. Factor - 1
      BY <1>3 DEF CaptureRoom, TypeOK
    <3>3. iqIndex + (phase + ((Target - iqIndex) * Factor - phase)) \div Factor = Target
      BY <3>2, LoopCompletes
    <3> QED
      BY <3>1, <3>3 DEF InputsToComplete, Whole
  <2> HIDE DEF complete
  <2>5. NotifiedWhole'
    BY <2>3, <2>4 DEF NotifiedWhole
  <2>6. PendingWhole'
    BY <1>1, <1>3, <2>2 DEF HandOver, PendingWhole, Whole
  <2> QED
    BY <1>2, <2>5, <2>6 DEF HandOver
<1>4. CASE ~capture_flag
  <2>1. dsp' = "release" /\ UNCHANGED <<capture_flag, iqIndex, frame>>
    BY <1>4 DEF DspProcess
  <2> QED
    BY <1>1, <1>2, <2>1 DEF HandOver, NotifiedWhole, PendingWhole, Whole
<1> QED
  BY <1>3, <1>4

LEMMA HandOverStep == ReceiverInv /\ DspPhase /\ HandOver /\ [Next]_vars => HandOver'
<1> SUFFICES ASSUME ReceiverInv, DspPhase, HandOver, [Next]_vars
             PROVE  HandOver'
  OBVIOUS
<1>t. TypeOK /\ CaptureRoom
  BY DEF ReceiverInv
<1> USE DEF HandOver, NotifiedWhole, PendingWhole, WholeUnlessLate, Whole,
            dspVars, decoderVars, mainVars
<1>1. CASE DspProcess
  BY <1>1, <1>t, ProcessHandsOver
<1>2. CASE DspNotify
  BY <1>2 DEF DspNotify, Woken
<1>3. CASE DspRelease
  BY <1>3 DEF DspRelease
<1>4. CASE DecoderTake
  BY <1>4 DEF DecoderTake
<1>5. CASE DecoderCopy
  <2>1. exit_flag \/ Whole \/ frame.late
    BY <1>5 DEF DecoderCopy
  <2> QED
    BY <1>5, <2>1 DEF DecoderCopy
<1>6. CASE DecoderLoop \/ DecoderPost \/ DecoderFinish \/ DecoderWakeup
  <2>1. decoder' \notin {"taken", "decode"}
    BY <1>6 DEF DecoderLoop, DecoderPost, DecoderFinish, DecoderWakeup
  <2>2. UNCHANGED <<dsp, iqIndex, capture_flag, frame, decode_flag, exit_flag>>
    BY <1>6 DEF DecoderLoop, DecoderPost, DecoderFinish, DecoderWakeup
  <2> QED
    BY <2>1, <2>2
<1>7. CASE DecoderDecode
  BY <1>7 DEF DecoderDecode
<1>8. CASE InitSampleStorage
  <2>1. consumer # "holding"
    BY <1>8 DEF InitSampleStorage, Reset
  <2>2. dsp' # "notify"
    BY <1>8, <2>1 DEF InitSampleStorage, DspPhase
  <2>3. decode_flag \/ decoder = "taken" => frame'.late
    BY <1>8 DEF InitSampleStorage, NewFrame
  <2> QED
    BY <1>8, <2>2, <2>3 DEF InitSampleStorage
<1>9. CASE /\ UNCHANGED <<dsp, iqIndex, capture_flag, frame, decoder, decode_flag, job>>
           /\ exit_flag => exit_flag'
  BY <1>9
<1>10. CASE RxCallback \/ DspWait \/ DspPeek \/ DspWakeup \/ ClockChange \/ UNCHANGED vars
  BY <1>9, <1>10 DEF RxCallback, DspWait, DspPeek, DspWakeup, ClockChange, vars
<1>11. CASE MainSignal
  BY <1>11 DEF MainSignal, Woken
<1>12. CASE MainStep /\ ~InitSampleStorage /\ ~MainSignal
  BY <1>9, <1>12, <1>t DEF MainStep, MainClock, MainSelect, MainFails, MainSlot, MainPoll,
     MainPolled, MainStopStream, MainStopQueue, MainJoinDsp, MainJoinDecoder,
     MainStopReporting, TypeOK
<1>13. CASE SigintHandler \/ StreamLost
  BY <1>9, <1>13 DEF SigintHandler, StreamLost
<1> QED
  BY <1>1, <1>2, <1>3, <1>4, <1>5, <1>6, <1>7, <1>8, <1>10, <1>11, <1>12, <1>13
  DEF Next, DspStep, DecoderStep, Environment

(***************************************************************************)
(* What is decoded is a whole frame, unless main started it before the     *)
(* decoder had copied the frame before: main never waits for a busy        *)
(* decoder, and this is all it can cost.                                   *)
(***************************************************************************)
THEOREM FramesAreWhole == Spec => []WholeUnlessLate
<1> DEFINE I == ReceiverInv /\ DspPhase /\ HandOver
<1>1. Init => I
  BY ReceiverInvInit DEF Init, DspPhase, HandOver, NotifiedWhole, PendingWhole, WholeUnlessLate
<1>2. I /\ [Next]_vars => I'
  BY ReceiverInvStep, DspPhaseStep, HandOverStep
<1>3. I => WholeUnlessLate
  BY DEF HandOver
<1> QED
  BY <1>1, <1>2, <1>3, PTL DEF Spec
=============================================================================
