---------------------------- MODULE SampleQueue ----------------------------
(***************************************************************************)
(* The RAM queue between libairspyhf's callback thread and the DSP thread  *)
(* (src/sample_queue.c), with the consumer protocol of wsprDsp.            *)
(*                                                                         *)
(* Every operation holds the queue's mutex from its first to its last      *)
(* access, so one operation is one action; sample_queue_wait is two,       *)
(* because pthread_cond_wait gives the mutex up.                           *)
(*                                                                         *)
(* Sample data is abstracted to its place in the stream the radio          *)
(* produces: a block is known by the position "at" of its first sample and *)
(* by the frequency "freq" the tuner was set to when it was delivered.     *)
(* produced and consumed are history variables: the stream position up to  *)
(* which the radio delivered (or lost) samples, and the one up to which    *)
(* the consumer accounts for them.                                         *)
(***************************************************************************)
EXTENDS Integers

CONSTANTS
    SlotCount,      \* slot_count: blocks in the ring
    BlockCapacity,  \* block_capacity: samples a slot can hold
    CounterMax,     \* UINT64_MAX, where the overrun counters saturate
    MaxTransfer,    \* largest sample_count libairspyhf passes to the callback
    MaxDeviceDrop,  \* largest dropped_samples of one transfer
    MaxProduced,    \* bound on the stream position (exploration only)
    Freqs           \* dial frequencies the tuner can be set to

(***************************************************************************)
(* sample_queue_init rejects an empty ring and an empty block.             *)
(***************************************************************************)
ASSUME QueueAssumption ==
    /\ SlotCount \in Nat \ {0}
    /\ BlockCapacity \in Nat \ {0}
    /\ CounterMax \in Nat
    /\ MaxTransfer \in Nat
    /\ MaxDeviceDrop \in Nat
    /\ MaxProduced \in Nat
    /\ Freqs # {}

VARIABLES
    slots, head, tail, count,                   \* the ring
    pending_device_drops, pending_queue_drops,  \* overruns not yet in a slot
    stopping,                                   \* sample_queue_stop was called
    consumer,                                   \* where the DSP thread is
    produced, consumed                          \* history

ring == <<slots, head, tail, count, pending_device_drops, pending_queue_drops>>

queueVars == <<ring, stopping, consumer, produced, consumed>>

-----------------------------------------------------------------------------

SlotIndex == 0 .. SlotCount - 1

Slot == [at : Nat, freq : Freqs, sample_count : Nat,
         device_dropped_samples : Nat, queue_dropped_samples : Nat]

(***************************************************************************)
(* The DSP thread: about to call sample_queue_wait ("idle"), sleeping in   *)
(* pthread_cond_wait, woken but not yet holding the mutex again, returned  *)
(* true from the wait ("ready"), holding dsp_mutex with the oldest block   *)
(* peeked, or out of its loop.                                             *)
(***************************************************************************)
ConsumerStates == {"idle", "asleep", "woken", "ready", "holding", "stopped"}

saturating_add(left, right) ==
    IF CounterMax - left < right THEN CounterMax ELSE left + right

Advance(index) == (index + 1) % SlotCount

(***************************************************************************)
(* pthread_cond_signal and pthread_cond_broadcast: the queue has a single  *)
(* waiter.                                                                 *)
(***************************************************************************)
Woken(state) == IF state = "asleep" THEN "woken" ELSE state

QueueInit ==
    /\ slots = [i \in SlotIndex |->
                  [at |-> 0, freq |-> CHOOSE f \in Freqs : TRUE, sample_count |-> 0,
                   device_dropped_samples |-> 0, queue_dropped_samples |-> 0]]
    /\ head = 0
    /\ tail = 0
    /\ count = 0
    /\ pending_device_drops = 0
    /\ pending_queue_drops = 0
    /\ stopping = FALSE
    /\ consumer = "idle"
    /\ produced = 0
    /\ consumed = 0

-----------------------------------------------------------------------------
(***************************************************************************)
(* sample_queue_push, called from rx_callback with a transfer of           *)
(* sample_count samples before which the device lost dropped ones. The     *)
(* caller passes a non-empty transfer only.                                *)
(***************************************************************************)
Push(sample_count, dropped, freq) ==
    /\ produced' = produced + dropped + sample_count
    /\ UNCHANGED <<tail, stopping, consumed>>
    /\ IF stopping
       THEN UNCHANGED <<slots, head, count, pending_device_drops,
                        pending_queue_drops, consumer>>
       ELSE IF sample_count > BlockCapacity \/ count = SlotCount
       THEN /\ pending_device_drops' = saturating_add(pending_device_drops, dropped)
            /\ pending_queue_drops' = saturating_add(pending_queue_drops, sample_count)
            /\ UNCHANGED <<slots, head, count, consumer>>
       ELSE /\ slots' = [slots EXCEPT ![head] =
                  [at |-> produced + dropped, freq |-> freq,
                   sample_count |-> sample_count,
                   device_dropped_samples |-> saturating_add(pending_device_drops, dropped),
                   queue_dropped_samples |-> pending_queue_drops]]
            /\ pending_device_drops' = 0
            /\ pending_queue_drops' = 0
            /\ head' = Advance(head)
            /\ count' = count + 1
            /\ consumer' = Woken(consumer)

(***************************************************************************)
(* sample_queue_wait up to its return or to pthread_cond_wait; a woken     *)
(* thread tests the condition again. FALSE ends wsprDsp's loop.            *)
(***************************************************************************)
Wait ==
    /\ consumer \in {"idle", "woken"}
    /\ consumer' = IF stopping THEN "stopped"
                   ELSE IF count = 0 THEN "asleep" ELSE "ready"
    /\ UNCHANGED <<ring, stopping, produced, consumed>>

(***************************************************************************)
(* POSIX allows pthread_cond_wait to return without a signal.              *)
(***************************************************************************)
SpuriousWakeup ==
    /\ consumer = "asleep"
    /\ consumer' = "woken"
    /\ UNCHANGED <<ring, stopping, produced, consumed>>

(***************************************************************************)
(* sample_queue_try_peek, under dsp_mutex: the queue may have been reset   *)
(* or stopped since the wait returned. The view the caller gets points     *)
(* into the ring: the block is slots[tail] until it is released.           *)
(***************************************************************************)
TryPeek ==
    /\ consumer = "ready"
    /\ consumer' = IF count # 0 /\ ~stopping THEN "holding" ELSE "idle"
    /\ UNCHANGED <<ring, stopping, produced, consumed>>

(***************************************************************************)
(* sample_queue_release.                                                   *)
(***************************************************************************)
Release ==
    /\ consumer = "holding"
    /\ consumer' = "idle"
    /\ IF count # 0
       THEN /\ tail' = Advance(tail)
            /\ count' = count - 1
            /\ consumed' = slots[tail].at + slots[tail].sample_count
       ELSE UNCHANGED <<tail, count, consumed>>
    /\ UNCHANGED <<slots, head, pending_device_drops, pending_queue_drops,
                   stopping, produced>>

(***************************************************************************)
(* sample_queue_reset: initSampleStorage calls it under dsp_mutex, which   *)
(* the DSP thread has while it holds a block. The reader starts again at   *)
(* the present end of the stream.                                          *)
(***************************************************************************)
Reset ==
    /\ consumer # "holding"
    /\ head' = 0
    /\ tail' = 0
    /\ count' = 0
    /\ pending_device_drops' = 0
    /\ pending_queue_drops' = 0
    /\ consumed' = produced
    /\ UNCHANGED <<slots, stopping, consumer, produced>>

(***************************************************************************)
(* sample_queue_stop.                                                      *)
(***************************************************************************)
Stop ==
    /\ stopping' = TRUE
    /\ consumer' = Woken(consumer)
    /\ UNCHANGED <<ring, produced, consumed>>

(***************************************************************************)
(* rx_callback: any transfer the device may deliver. MaxProduced bounds    *)
(* the exploration.                                                        *)
(***************************************************************************)
Callback ==
    \E n \in 1 .. MaxTransfer, dropped \in 0 .. MaxDeviceDrop, f \in Freqs :
        /\ produced + dropped + n <= MaxProduced
        /\ Push(n, dropped, f)

ConsumerStep == Wait \/ TryPeek \/ Release

QueueNext ==
    \/ Callback
    \/ ConsumerStep
    \/ SpuriousWakeup
    \/ Reset
    \/ Stop

(***************************************************************************)
(* The DSP thread runs whenever it is not blocked.                         *)
(***************************************************************************)
QueueSpec == QueueInit /\ [][QueueNext]_queueVars /\ WF_queueVars(ConsumerStep)

-----------------------------------------------------------------------------
(***************************************************************************)
(* Every variable has its type and the ring's indices stay inside it.      *)
(***************************************************************************)
QueueTypeOK ==
    /\ slots \in [SlotIndex -> Slot]
    /\ head \in SlotIndex
    /\ tail \in SlotIndex
    /\ count \in 0 .. SlotCount
    /\ pending_device_drops \in 0 .. CounterMax
    /\ pending_queue_drops \in 0 .. CounterMax
    /\ stopping \in BOOLEAN
    /\ consumer \in ConsumerStates
    /\ produced \in Nat
    /\ consumed \in Nat

(***************************************************************************)
(* The k-th oldest block, what it says was lost before it, and where it    *)
(* ends in the stream; End(0) is where the consumer stands.                *)
(***************************************************************************)
Block(k) == slots[(tail + k - 1) % SlotCount]

Missing(k) == Block(k).device_dropped_samples + Block(k).queue_dropped_samples

End(k) == IF k = 0 THEN consumed ELSE Block(k).at + Block(k).sample_count

(***************************************************************************)
(* A report of lost samples is exact, unless a counter saturated, in which *)
(* case it understates the gap.                                            *)
(***************************************************************************)
Accounts(reported, gap) ==
    \/ reported = gap
    \/ CounterMax <= reported /\ reported < gap

(***************************************************************************)
(* The overrun accounting: what separates two consecutive blocks (the      *)
(* consumer and the first block, the last block and the producer) is what  *)
(* the later block (the pending counters) says was lost there. The DSP     *)
(* thread keeps sample time continuous by inserting that many zeros, so an *)
(* unaccounted sample would shift the rest of the frame in time.           *)
(***************************************************************************)
StreamAccounted ==
    /\ \A k \in 1 .. count : Accounts(Missing(k), Block(k).at - End(k - 1))
    /\ ~stopping => Accounts(pending_device_drops + pending_queue_drops,
                             produced - End(count))

(***************************************************************************)
(* No wakeup is lost: the consumer sleeps only while there is nothing for  *)
(* it to do. push signals and stop broadcasts under the mutex, after the   *)
(* change the consumer waits for.                                          *)
(***************************************************************************)
NoLostWakeup == consumer = "asleep" => count = 0 /\ ~stopping

(***************************************************************************)
(* The view try_peek returned stays valid until release: no step that      *)
(* leaves the consumer holding its block changes that block or moves the   *)
(* ring's tail away from it. push never writes an occupied slot.           *)
(***************************************************************************)
PeekedBlockStable ==
    [][consumer = "holding" /\ consumer' = "holding"
         => tail' = tail /\ slots'[tail] = slots[tail] /\ count' >= count]_queueVars
=============================================================================
