------------------------- MODULE WsprReporterProofs -------------------------
(***************************************************************************)
(* The WSPRnet reporter implements SpotDelivery, for every capacity of the *)
(* ring, every backoff and any number of spots and failures. The inductive *)
(* invariant DeliveryInv says where in the ring each unresolved spot is,   *)
(* that the uploader's copy is the oldest one while it is sent, and that a *)
(* final answer the uploader has not yet handled is the server's. A second *)
(* one, BackoffInv, says that only the head has ever failed, and that what *)
(* it still waits and has waited is the delay of its attempts.             *)
(***************************************************************************)
EXTENDS WsprReporter, FiniteSetTheorems, WellFoundedInduction, TLAPS

-----------------------------------------------------------------------------
(***************************************************************************)
(* What % computes for the sums of two ring positions.                     *)
(***************************************************************************)
LEMMA ModSmall ==
    ASSUME NEW n \in Nat \ {0}, NEW x \in 0 .. n - 1
    PROVE  x % n = x
BY Z3

LEMMA ModOnce ==
    ASSUME NEW n \in Nat \ {0}, NEW x \in n .. 2 * n - 1
    PROVE  x % n = x - n
<1>1. x - n \in 0 .. n - 1
  OBVIOUS
<1>2. (x - n) % n = x - n
  BY <1>1, ModSmall
<1>3. x % n = (x - n) % n
  BY Z3
<1> QED BY <1>2, <1>3

(***************************************************************************)
(* The ring position count slots after tail, as arithmetic.                *)
(***************************************************************************)
LEMMA ModSum ==
    ASSUME NEW n \in Nat \ {0}, NEW t \in 0 .. n - 1, NEW k \in 0 .. n
    PROVE  (t + k) % n = IF t + k < n THEN t + k ELSE t + k - n
<1>1. CASE t + k < n
  BY <1>1, ModSmall, t + k \in 0 .. n - 1
<1>2. CASE ~(t + k < n)
  BY <1>2, ModOnce, t + k \in n .. 2 * n - 1
<1> QED BY <1>1, <1>2

Index == 0 .. Capacity - 1

(***************************************************************************)
(* The part of the type invariant the argument needs. It leaves the set of *)
(* delays open, as the delivery of spots does not depend on them.          *)
(***************************************************************************)
RingShape ==
    /\ \E D : queue \in [Index -> [sequence : Nat, attempts : Nat, retry_in : D]]
    /\ head \in Index
    /\ count \in 0 .. Capacity
    /\ next_sequence \in Nat /\ count <= next_sequence

InOrder ==
    \A k \in 0 .. count - 1 :
        queue[(head + k) % Capacity].sequence = next_sequence - count + k + 1

CopyIsOldest ==
    uploader \in {"sending", "answered"} =>
        count > 0 /\ item.sequence = next_sequence - count + 1

FinalAnswerGiven ==
    uploader = "answered" /\ upload_result(http_status) \in {"OK", "REJECTED"} =>
        item.sequence \in stored \cup refused

DeliveryInv == RingShape /\ InOrder /\ CopyIsOldest /\ FinalAnswerGiven

-----------------------------------------------------------------------------

LEMMA TransientStatus ==
    ASSUME NEW s \in {0, 302, 408, 425, 429, 503}
    PROVE  upload_result(s) = "RETRY"
<1>1. s \notin 200 .. 299 /\ s \notin (400 .. 499 \ {408, 425, 429})
  OBVIOUS
<1> QED BY <1>1 DEF upload_result

LEMMA DeliveryInvInit == Init => DeliveryInv
<1> SUFFICES ASSUME Init PROVE DeliveryInv
  OBVIOUS
<1> USE ReporterAssumption
<1>1. queue \in [Index -> [sequence : Nat, attempts : Nat, retry_in : {0}]]
  BY DEF Init, Index, NoItem
<1>2. RingShape
  BY <1>1 DEF Init, RingShape, Index
<1>3. InOrder /\ CopyIsOldest /\ FinalAnswerGiven
  BY DEF Init, InOrder, CopyIsOldest, FinalAnswerGiven
<1> QED BY <1>2, <1>3 DEF DeliveryInv

(***************************************************************************)
(* A new spot goes into a slot that holds no unresolved one.               *)
(***************************************************************************)
LEMMA EnqueueKeeps == DeliveryInv /\ Enqueue => DeliveryInv'
<1> SUFFICES ASSUME DeliveryInv, Enqueue PROVE DeliveryInv'
  OBVIOUS
<1> USE ReporterAssumption
<1> DEFINE tail == (head + count) % Capacity
           new  == [sequence |-> next_sequence + 1, attempts |-> 0, retry_in |-> 0]
<1>0. PICK D : queue \in [Index -> [sequence : Nat, attempts : Nat, retry_in : D]]
  BY DEF DeliveryInv, RingShape
<1>1. /\ head \in Index /\ count \in 0 .. Capacity - 1 /\ next_sequence \in Nat
      /\ count <= next_sequence /\ Capacity \in Nat \ {0}
  BY DEF DeliveryInv, RingShape, Enqueue, Index
<1>2. /\ head' = head /\ count' = count + 1 /\ next_sequence' = next_sequence + 1
      /\ queue' = [queue EXCEPT ![tail] = new]
      /\ item' = item /\ http_status' = http_status /\ stored' = stored /\ refused' = refused
  BY DEF Enqueue, server
<1>a. head \in 0 .. Capacity - 1 /\ count \in 0 .. Capacity
  BY <1>1 DEF Index
<1>3. tail = IF head + count < Capacity THEN head + count ELSE head + count - Capacity
  BY <1>1, <1>a, ModSum
<1>4. tail \in Index
  BY <1>1, <1>3 DEF Index
<1>5. queue' \in [Index -> [sequence : Nat, attempts : Nat, retry_in : D \cup {0}]]
  BY <1>0, <1>1, <1>2, <1>4
<1>b. \E E : queue' \in [Index -> [sequence : Nat, attempts : Nat, retry_in : E]]
  BY <1>5
<1>c. /\ head' \in Index /\ count' \in 0 .. Capacity
      /\ next_sequence' \in Nat /\ count' <= next_sequence'
  BY <1>1, <1>2
<1>6. RingShape'
  BY <1>b, <1>c DEF RingShape, Index
<1>7. ASSUME NEW k \in 0 .. count
      PROVE  queue'[(head + k) % Capacity].sequence = next_sequence - count + k + 1
  <2>1. (head + k) % Capacity = IF head + k < Capacity THEN head + k ELSE head + k - Capacity
    BY <1>1, <1>a, ModSum, k \in 0 .. Capacity
  <2>2. CASE k = count
    BY <2>2, <1>0, <1>1, <1>2, <1>4
  <2>3. CASE k # count
    <3>1. k \in 0 .. count - 1 /\ (head + k) % Capacity # tail
      BY <2>1, <2>3, <1>1, <1>3 DEF Index
    <3>2. queue'[(head + k) % Capacity] = queue[(head + k) % Capacity]
      BY <3>1, <1>0, <1>2, <1>4
    <3> QED BY <3>1, <3>2 DEF DeliveryInv, InOrder
  <2> QED BY <2>2, <2>3
<1>8. InOrder'
  BY <1>1, <1>2, <1>7 DEF InOrder
<1>9. uploader' \in {"sending", "answered"} => uploader' = uploader
  BY DEF Enqueue, Wake
<1>10. CopyIsOldest'
  BY <1>1, <1>2, <1>9 DEF CopyIsOldest, DeliveryInv
<1>11. FinalAnswerGiven'
  BY <1>2, <1>9 DEF FinalAnswerGiven, DeliveryInv
<1> QED BY <1>6, <1>8, <1>10, <1>11 DEF DeliveryInv

(***************************************************************************)
(* Removing the head moves every other spot one place forward.             *)
(***************************************************************************)
LEMMA RemoveHeadKeeps ==
    ASSUME RingShape, InOrder, count > 0, remove_head, UNCHANGED <<queue, next_sequence>>
    PROVE  RingShape' /\ InOrder'
<1> USE ReporterAssumption
<1>1. /\ head \in Index /\ count \in 1 .. Capacity /\ next_sequence \in Nat
      /\ count <= next_sequence /\ Capacity \in Nat \ {0}
  BY DEF RingShape, Index
<1>2. /\ head' = (head + 1) % Capacity /\ count' = count - 1
      /\ queue' = queue /\ next_sequence' = next_sequence
  BY DEF remove_head
<1>3. head' = IF head + 1 < Capacity THEN head + 1 ELSE head + 1 - Capacity
  BY <1>1, <1>2, ModSum, 1 \in 0 .. Capacity DEF Index
<1>4. head' \in Index
  BY <1>1, <1>3 DEF Index
<1>5. RingShape'
  BY <1>1, <1>2, <1>4 DEF RingShape
<1>6. ASSUME NEW k \in 0 .. count - 2
      PROVE  queue[(head' + k) % Capacity].sequence = next_sequence - (count - 1) + k + 1
  <2>1. (head' + k) % Capacity = IF head' + k < Capacity THEN head' + k ELSE head' + k - Capacity
    <3>1. k \in 0 .. Capacity
      BY <1>1
    <3> QED BY <3>1, <1>1, <1>4, ModSum DEF Index
  <2>2. (head + (k + 1)) % Capacity =
            IF head + (k + 1) < Capacity THEN head + (k + 1) ELSE head + (k + 1) - Capacity
    BY <1>1, ModSum, k + 1 \in 0 .. Capacity DEF Index
  <2>3. (head' + k) % Capacity = (head + (k + 1)) % Capacity
    BY <2>1, <2>2, <1>1, <1>3 DEF Index
  <2>4. k + 1 \in 0 .. count - 1
    BY <1>1
  <2>5. queue[(head + (k + 1)) % Capacity].sequence = next_sequence - count + (k + 1) + 1
    BY <2>4 DEF InOrder
  <2> QED BY <2>3, <2>5, <1>1
<1>7. InOrder'
  BY <1>1, <1>2, <1>6 DEF InOrder
<1> QED BY <1>5, <1>7

(***************************************************************************)
(* What a retry and the passing of time change of the head spot does not   *)
(* touch the order.                                                        *)
(***************************************************************************)
LEMMA HeadUpdateKeeps ==
    ASSUME RingShape, InOrder, NEW E,
           NEW rec \in [sequence : Nat, attempts : Nat, retry_in : E],
           rec.sequence = queue[head].sequence,
           queue' = [queue EXCEPT ![head] = rec],
           UNCHANGED <<head, count, next_sequence>>
    PROVE  RingShape' /\ InOrder'
<1> USE ReporterAssumption
<1>0. PICK D : queue \in [Index -> [sequence : Nat, attempts : Nat, retry_in : D]]
  BY DEF RingShape
<1>1. head \in Index /\ count \in 0 .. Capacity /\ next_sequence \in Nat /\ count <= next_sequence
  BY DEF RingShape
<1>2. queue' \in [Index -> [sequence : Nat, attempts : Nat, retry_in : D \cup E]]
  BY <1>0, <1>1
<1>3. \E F : queue' \in [Index -> [sequence : Nat, attempts : Nat, retry_in : F]]
  BY <1>2
<1>4. RingShape'
  BY <1>1, <1>3 DEF RingShape, Index
<1>5. ASSUME NEW k \in 0 .. count - 1
      PROVE  queue'[(head + k) % Capacity].sequence = next_sequence - count + k + 1
  <2>1. (head + k) % Capacity \in Index
    <3>1. head \in 0 .. Capacity - 1 /\ k \in 0 .. Capacity /\ Capacity \in Nat \ {0}
      BY <1>1 DEF Index
    <3>2. (head + k) % Capacity = IF head + k < Capacity THEN head + k ELSE head + k - Capacity
      BY <3>1, ModSum
    <3> QED BY <3>1, <3>2, <1>1 DEF Index
  <2>2. queue'[(head + k) % Capacity].sequence = queue[(head + k) % Capacity].sequence
    <3>1. CASE (head + k) % Capacity = head
      BY <3>1, <1>0, <1>1
    <3>2. CASE (head + k) % Capacity # head
      BY <3>2, <2>1, <1>0, <1>1
    <3> QED BY <3>1, <3>2
  <2> QED BY <2>2 DEF InOrder
<1>6. InOrder'
  BY <1>5 DEF InOrder
<1> QED BY <1>4, <1>6

(***************************************************************************)
(* The spot at the head is the oldest unresolved one.                      *)
(***************************************************************************)
LEMMA HeadIsOldest ==
    ASSUME RingShape, InOrder, count > 0
    PROVE  queue[head].sequence = next_sequence - count + 1
<1> USE ReporterAssumption
<1>1. /\ head \in 0 .. Capacity - 1 /\ count \in Nat /\ next_sequence \in Nat
      /\ Capacity \in Nat \ {0}
  BY DEF RingShape, Index
<1>2. head % Capacity = head
  BY <1>1, ModSmall
<1>3. head + 0 = head
  BY <1>1
<1>4. 0 \in 0 .. count - 1
  BY <1>1
<1>5. queue[(head + 0) % Capacity].sequence = next_sequence - count + 0 + 1
  BY <1>4 DEF InOrder
<1>6. next_sequence - count + 0 + 1 = next_sequence - count + 1
  BY <1>1
<1> QED BY <1>2, <1>3, <1>5, <1>6

LEMMA TransportKeeps == DeliveryInv /\ Transport => DeliveryInv'
<1> SUFFICES ASSUME DeliveryInv, Transport PROVE DeliveryInv'
  OBVIOUS
<1>1. /\ queue' = queue /\ head' = head /\ count' = count /\ next_sequence' = next_sequence
      /\ item' = item /\ uploader = "sending" /\ uploader' = "answered"
  BY DEF Transport, ring
<1>2. RingShape' /\ InOrder'
  BY <1>1 DEF DeliveryInv, RingShape, InOrder
<1>3. CopyIsOldest'
  BY <1>1 DEF DeliveryInv, CopyIsOldest
<1>7. FinalAnswerGiven'
  <2>1. CASE stored' = stored \cup {item.sequence}
    BY <1>1, <2>1 DEF FinalAnswerGiven
  <2>2. CASE refused' = refused \cup {item.sequence}
    BY <1>1, <2>2 DEF FinalAnswerGiven
  <2>3. CASE http_status' \in {0, 302, 408, 425, 429, 503}
    <3>1. upload_result(http_status') = "RETRY"
      BY <2>3, TransientStatus
    <3> QED BY <3>1 DEF FinalAnswerGiven
  <2> QED BY <2>1, <2>2, <2>3 DEF Transport
<1> QED BY <1>2, <1>3, <1>7 DEF DeliveryInv

(***************************************************************************)
(* HandleAnswer counts a failed attempt from 1 up to MaxAttempts.          *)
(***************************************************************************)
LEMMA AttemptsCounted == RingShape => NextAttempt \in Nat \ {0}
<1> SUFFICES ASSUME RingShape PROVE NextAttempt \in Nat \ {0}
  OBVIOUS
<1>1. PICK D : queue \in [Index -> [sequence : Nat, attempts : Nat, retry_in : D]]
  BY DEF RingShape
<1>2. queue[head].attempts \in Nat
  BY <1>1 DEF RingShape
<1> QED BY <1>2, ReporterAssumption DEF NextAttempt

LEMMA HandleAnswerKeeps == DeliveryInv /\ HandleAnswer => DeliveryInv'
<1> SUFFICES ASSUME DeliveryInv, HandleAnswer PROVE DeliveryInv'
  OBVIOUS
<1> USE ReporterAssumption
<1>0. RingShape /\ InOrder
  BY DEF DeliveryInv
<1>1. uploader' = "running" /\ next_sequence' = next_sequence
  BY DEF HandleAnswer
<1>2. CopyIsOldest' /\ FinalAnswerGiven'
  BY <1>1 DEF CopyIsOldest, FinalAnswerGiven
<1>3. CASE UNCHANGED <<queue, head, count>>
  BY <1>0, <1>1, <1>2, <1>3 DEF DeliveryInv, RingShape, InOrder
<1>4. CASE count > 0 /\ remove_head /\ queue' = queue
  BY <1>0, <1>1, <1>2, <1>4, RemoveHeadKeeps DEF DeliveryInv
<1>5. ASSUME NEW attempts \in Nat \ {0},
             queue' = [queue EXCEPT ![head] =
                          [sequence |-> queue[head].sequence, attempts |-> attempts,
                           retry_in |-> retry_delay[attempts]]],
             UNCHANGED <<head, count>>
      PROVE  RingShape' /\ InOrder'
  <2>0. PICK D : queue \in [Index -> [sequence : Nat, attempts : Nat, retry_in : D]]
    BY <1>0 DEF RingShape
  <2>1. head \in Index
    BY <1>0 DEF RingShape
  <2> DEFINE rec == [sequence |-> queue[head].sequence, attempts |-> attempts,
                     retry_in |-> retry_delay[attempts]]
  <2>2. rec \in [sequence : Nat, attempts : Nat, retry_in : {retry_delay[attempts]}]
    BY <2>0, <2>1, <1>5
  <2>3. rec.sequence = queue[head].sequence
    OBVIOUS
  <2>4. queue' = [queue EXCEPT ![head] = rec]
    BY <1>5
  <2> HIDE DEF rec
  <2> QED BY <1>0, <1>1, <1>5, <2>2, <2>3, <2>4, HeadUpdateKeeps
<1>6. CASE count = 0 \/ queue[head].sequence # item.sequence
  BY <1>3, <1>6 DEF HandleAnswer
<1>7. CASE ~(count = 0 \/ queue[head].sequence # item.sequence)
  <2>1. count > 0
    BY <1>0, <1>7 DEF RingShape
  <2>2. CASE upload_result(http_status) \in {"OK", "REJECTED"}
    BY <1>4, <1>7, <2>1, <2>2 DEF HandleAnswer
  <2>3. CASE upload_result(http_status) \notin {"OK", "REJECTED"}
    <3>1. NextAttempt \in Nat \ {0}
      BY AttemptsCounted, <1>0
    <3> QED BY <1>2, <1>5, <1>7, <2>3, <3>1 DEF HandleAnswer, DeliveryInv
  <2> QED BY <2>2, <2>3
<1> QED BY <1>6, <1>7

LEMMA TickKeeps == DeliveryInv /\ Tick => DeliveryInv'
<1> SUFFICES ASSUME DeliveryInv, Tick PROVE DeliveryInv'
  OBVIOUS
<1>0. RingShape /\ InOrder
  BY DEF DeliveryInv
<1>1. /\ queue' = [queue EXCEPT ![head].retry_in = @ - 1]
      /\ UNCHANGED <<head, count, next_sequence, uploader, item, http_status, stored, refused>>
  BY DEF Tick, server
<1>2. PICK D : queue \in [Index -> [sequence : Nat, attempts : Nat, retry_in : D]]
  BY <1>0 DEF RingShape
<1>3. head \in Index
  BY <1>0 DEF RingShape
<1> DEFINE rec == [queue[head] EXCEPT !.retry_in = @ - 1]
<1>4. rec \in [sequence : Nat, attempts : Nat, retry_in : {queue[head].retry_in - 1}]
  BY <1>2, <1>3
<1>5. rec.sequence = queue[head].sequence
  BY <1>2, <1>3
<1>6. queue' = [queue EXCEPT ![head] = rec]
  BY <1>1, <1>2, <1>3
<1>7. RingShape' /\ InOrder'
  <2> HIDE DEF rec
  <2> QED BY <1>0, <1>1, <1>4, <1>5, <1>6, HeadUpdateKeeps
<1>8. CopyIsOldest' /\ FinalAnswerGiven'
  BY <1>1 DEF DeliveryInv, CopyIsOldest, FinalAnswerGiven
<1> QED BY <1>7, <1>8 DEF DeliveryInv

LEMMA TurnKeeps == DeliveryInv /\ UploaderTurn => DeliveryInv'
<1> SUFFICES ASSUME DeliveryInv, UploaderTurn PROVE DeliveryInv'
  OBVIOUS
<1>1. UNCHANGED <<queue, head, count, next_sequence, http_status, stored, refused>>
  BY DEF UploaderTurn, ring, server
<1>2. RingShape' /\ InOrder'
  BY <1>1 DEF DeliveryInv, RingShape, InOrder
<1>3. uploader' # "answered"
  BY DEF UploaderTurn
<1>4. uploader' = "sending" => count > 0 /\ item' = queue[head]
  BY DEF UploaderTurn
<1>5. CopyIsOldest'
  BY <1>1, <1>3, <1>4, HeadIsOldest DEF DeliveryInv, CopyIsOldest
<1>6. FinalAnswerGiven'
  BY <1>3 DEF FinalAnswerGiven
<1> QED BY <1>2, <1>5, <1>6 DEF DeliveryInv

LEMMA DeliveryInvStep == DeliveryInv /\ [Next]_vars => DeliveryInv'
<1> SUFFICES ASSUME DeliveryInv, [Next]_vars PROVE DeliveryInv'
  OBVIOUS
<1>1. CASE Wakeup \/ Timeout \/ Stop \/ StopJoin \/ UNCHANGED vars
  <2>1. UNCHANGED <<queue, head, count, next_sequence, item, http_status, stored, refused>>
    BY <1>1 DEF Wakeup, Timeout, Stop, StopJoin, vars, ring, server
  <2>2. uploader' \in {"sending", "answered"} => uploader' = uploader
    BY <1>1 DEF Wakeup, Timeout, Stop, StopJoin, vars, Wake
  <2> QED BY <2>1, <2>2
          DEF DeliveryInv, RingShape, InOrder, CopyIsOldest, FinalAnswerGiven
<1> QED BY <1>1, EnqueueKeeps, TurnKeeps, TransportKeeps, HandleAnswerKeeps, TickKeeps
        DEF Next, UploaderStep

LEMMA DeliveryInvariant == Spec => []DeliveryInv
BY DeliveryInvInit, DeliveryInvStep, PTL DEF Spec

-----------------------------------------------------------------------------
(***************************************************************************)
(* Every step of the reporter is one of SpotDelivery or leaves it alone.   *)
(***************************************************************************)
LEMMA DeliveryStep ==
    DeliveryInv /\ [Next]_vars => [Delivery!DeliveryNext]_(Delivery!deliveryVars)
<1> SUFFICES ASSUME DeliveryInv, [Next]_vars
             PROVE  [Delivery!DeliveryNext]_(Delivery!deliveryVars)
  OBVIOUS
<1>0. /\ count \in Nat /\ next_sequence \in Nat /\ count <= next_sequence
      /\ Capacity \in Nat
  BY ReporterAssumption DEF DeliveryInv, RingShape
<1>1. CASE Enqueue
  BY <1>0, <1>1 DEF Enqueue, server, Delivery!DeliveryNext, Delivery!Accept
<1>2. CASE Transport
  <2>1. count > 0 /\ item.sequence = next_sequence - count + 1
    BY <1>2 DEF Transport, DeliveryInv, CopyIsOldest
  <2>2. UNCHANGED <<count, next_sequence, stopping>>
    BY <1>2 DEF Transport, ring
  <2>3. CASE stored' = stored \cup {item.sequence} /\ refused' = refused
    BY <1>0, <2>1, <2>2, <2>3 DEF Delivery!DeliveryNext, Delivery!Store
  <2>4. CASE refused' = refused \cup {item.sequence} /\ stored' = stored
    BY <1>0, <2>1, <2>2, <2>4 DEF Delivery!DeliveryNext, Delivery!Refuse
  <2>5. CASE stored' = stored /\ refused' = refused
    BY <2>2, <2>5 DEF Delivery!deliveryVars
  <2> QED BY <1>2, <2>3, <2>4, <2>5 DEF Transport, server
<1>3. CASE HandleAnswer
  <2>1. UNCHANGED <<next_sequence, stopping, stored, refused>>
    BY <1>3 DEF HandleAnswer, server
  <2>2. CASE count' = count
    BY <2>1, <2>2 DEF Delivery!deliveryVars
  <2>3. CASE count' # count
    <3>1. /\ upload_result(http_status) \in {"OK", "REJECTED"}
          /\ count' = count - 1
      BY <1>3, <2>3 DEF HandleAnswer, remove_head
    <3>2. item.sequence = next_sequence - count + 1
      BY <1>3 DEF HandleAnswer, DeliveryInv, CopyIsOldest
    <3>3. item.sequence \in stored \cup refused
      BY <3>1, <1>3 DEF HandleAnswer, DeliveryInv, FinalAnswerGiven
    <3>4. Delivery!Resolve
      BY <1>0, <2>1, <3>1, <3>2, <3>3 DEF Delivery!Resolve
    <3> QED BY <3>4 DEF Delivery!DeliveryNext
  <2> QED BY <2>2, <2>3
<1>4. CASE Stop
  BY <1>4 DEF Stop, ring, server, Delivery!DeliveryNext, Delivery!Close
<1>5. CASE UploaderTurn \/ Timeout \/ Wakeup \/ Tick \/ StopJoin \/ UNCHANGED vars
  BY <1>5 DEF UploaderTurn, Timeout, Wakeup, Tick, StopJoin, vars, ring, server,
              Delivery!deliveryVars
<1> QED BY <1>1, <1>2, <1>3, <1>4, <1>5 DEF Next, UploaderStep

(***************************************************************************)
(* The reporter delivers every accepted spot at least once and in order:   *)
(* it implements SpotDelivery, whatever the ring's capacity, the server's  *)
(* answers and the interleaving of enqueue, uploader and stop.             *)
(***************************************************************************)
THEOREM ReporterDelivers == Spec => DeliversInOrder
<1>1. Init => Delivery!DeliveryInit
  BY DEF Init, Delivery!DeliveryInit
<1> QED BY <1>1, DeliveryInvariant, DeliveryStep, PTL
        DEF Spec, DeliversInOrder, Delivery!DeliverySpec

(***************************************************************************)
(* The uploader never sleeps without a deadline while a spot is queued,    *)
(* and sleeps in no way once it has been asked to stop.                    *)
(***************************************************************************)
THEOREM UploaderStaysAwake == Spec => []UploaderAwake
<1>1. Init => UploaderAwake
  BY DEF Init, UploaderAwake
<1>2. UploaderAwake /\ [Next]_vars => UploaderAwake'
  <2> SUFFICES ASSUME UploaderAwake, [Next]_vars PROVE UploaderAwake'
    OBVIOUS
  <2>1. CASE Enqueue
    BY <2>1 DEF Enqueue, Wake, UploaderAwake
  <2>2. CASE UploaderTurn
    BY <2>2 DEF UploaderTurn, ring, UploaderAwake
  <2>3. CASE Transport \/ HandleAnswer
    BY <2>3 DEF Transport, HandleAnswer, UploaderAwake
  <2>4. CASE Wakeup \/ Timeout
    BY <2>4 DEF Wakeup, Timeout, UploaderAwake
  <2>5. CASE Stop
    BY <2>5 DEF Stop, Wake, UploaderAwake
  <2>6. CASE Tick \/ StopJoin \/ UNCHANGED vars
    BY <2>6 DEF Tick, StopJoin, vars, ring, UploaderAwake
  <2> QED BY <2>1, <2>2, <2>3, <2>4, <2>5, <2>6 DEF Next, UploaderStep
<1> QED BY <1>1, <1>2, PTL DEF Spec

-----------------------------------------------------------------------------
(***************************************************************************)
(* A set of numbers has a least one.                                       *)
(***************************************************************************)
LEMMA LeastNatural ==
    ASSUME NEW S \in SUBSET Nat, S # {}
    PROVE  \E n \in S : \A m \in S : n <= m
<1>1. \E R : IsWellFoundedOn(R, Nat) /\ \A x, y \in Nat : y < x => <<y, x>> \in R
  <2>1. IsWellFoundedOn(OpToRel(<, Nat), Nat)
    BY NatLessThanWellFounded
  <2>2. \A x, y \in Nat : y < x => <<y, x>> \in OpToRel(<, Nat)
    BY DEF OpToRel
  <2> QED
    BY <2>1, <2>2, Zenon
<1>2. PICK R : IsWellFoundedOn(R, Nat) /\ \A x, y \in Nat : y < x => <<y, x>> \in R
  BY <1>1
<1>3. PICK x \in S : \A y \in S : ~(<<y, x>> \in R)
  BY <1>2, WFMin
<1>4. \A y \in S : ~(y < x)
  BY <1>2, <1>3, Zenon
<1> QED
  BY <1>4

(***************************************************************************)
(* Induction up to n, on a set.                                            *)
(***************************************************************************)
LEMMA UpTo ==
    ASSUME NEW n \in Nat, NEW S, 0 \in S,
           \A m \in 0 .. n - 1 : m \in S => m + 1 \in S
    PROVE  0 .. n \subseteq S
<1> DEFINE Bad == {m \in 0 .. n : m \notin S}
<1> SUFFICES ASSUME Bad # {}
             PROVE  FALSE
  OBVIOUS
<1>1. Bad \in SUBSET Nat
  OBVIOUS
<1>2. PICK m \in Bad : \A k \in Bad : m <= k
  BY <1>1, LeastNatural
<1>3. m # 0 /\ m - 1 \in 0 .. n - 1
  BY <1>2
<1>4. m - 1 \in S
  BY <1>2, <1>3
<1>5. (m - 1) + 1 = m
  BY <1>2
<1> QED
  BY <1>2, <1>3, <1>4, <1>5

(***************************************************************************)
(* The powers of two double: 2 ^ n counts the subsets of 1 .. n, and each  *)
(* of them is one with n + 1 and one without.                              *)
(***************************************************************************)
LEMMA PowerDoubles ==
    ASSUME NEW n \in Nat
    PROVE  2 ^ (n + 1) = 2 * 2 ^ n /\ 2 ^ n \in Nat
<1> DEFINE Old  == SUBSET (1 .. n)
           New  == {s \cup {n + 1} : s \in Old}
           With == [s \in Old |-> s \cup {n + 1}]
<1>1. IsFiniteSet(1 .. n) /\ Cardinality(1 .. n) = n
  BY FS_Interval
<1>2. IsFiniteSet(1 .. n + 1) /\ Cardinality(1 .. n + 1) = n + 1
  BY FS_Interval
<1>3. IsFiniteSet(Old) /\ Cardinality(Old) = 2 ^ n /\ Cardinality(Old) \in Nat
  BY <1>1, FS_SUBSET, FS_CardinalityType
<1>4. Cardinality(SUBSET (1 .. n + 1)) = 2 ^ (n + 1)
  BY <1>2, FS_SUBSET
<1>5. With \in Bijection(Old, New)
  <2>1. With \in Surjection(Old, New)
    BY DEF Surjection
  <2>2. ASSUME NEW s \in Old, NEW t \in Old, With[s] = With[t]
        PROVE  s = t
    <3>1. n + 1 \notin s /\ n + 1 \notin t
      OBVIOUS
    <3>2. s \cup {n + 1} = t \cup {n + 1}
      BY <2>2
    <3> QED
      BY <3>1, <3>2
  <2>3. With \in Injection(Old, New)
    BY <2>1, <2>2 DEF Injection, IsInjective, Surjection
  <2> QED
    BY <2>1, <2>3 DEF Bijection
<1>6. IsFiniteSet(New) /\ Cardinality(New) = Cardinality(Old)
  <2>1. ExistsBijection(Old, New)
    BY <1>5 DEF ExistsBijection
  <2> HIDE DEF Old, New
  <2> QED
    BY <1>3, <2>1, FS_Bijection
<1>7. SUBSET (1 .. n + 1) = Old \cup New
  <2>1. ASSUME NEW s \in SUBSET (1 .. n + 1)
        PROVE  s \in Old \cup New
    <3>1. CASE n + 1 \in s
      <4>1. s \ {n + 1} \in Old /\ s = (s \ {n + 1}) \cup {n + 1}
        BY <3>1
      <4> QED
        BY <4>1
    <3>2. CASE n + 1 \notin s
      BY <3>2
    <3> QED
      BY <3>1, <3>2
  <2>2. 1 .. n \subseteq 1 .. n + 1 /\ n + 1 \in 1 .. n + 1
    OBVIOUS
  <2>3. Old \cup New \subseteq SUBSET (1 .. n + 1)
    BY <2>2, Zenon
  <2> QED
    BY <2>1, <2>3
<1>8. Old \cap New = {}
  OBVIOUS
<1> HIDE DEF Old, New
<1>9. Cardinality(Old \cup New) = Cardinality(Old) + Cardinality(New) - Cardinality({})
  BY <1>3, <1>6, <1>8, FS_Union
<1>10. Cardinality({}) = 0
  BY FS_EmptySet
<1>11. Cardinality(Old \cup New) = 2 * Cardinality(Old)
  BY <1>3, <1>6, <1>9, <1>10
<1>12. 2 ^ (n + 1) = Cardinality(Old \cup New)
  BY <1>4, <1>7, Zenon
<1>13. 2 ^ (n + 1) = 2 * Cardinality(Old)
  BY <1>11, <1>12, Zenon
<1> QED
  BY <1>3, <1>13, Zenon

(***************************************************************************)
(* The delay after n failures, in closed form.                             *)
(***************************************************************************)
Doubled(n) == RetryBase * 2 ^ (n - 1)

Bounded(n) == IF Doubled(n) < MaxRetryDelay THEN Doubled(n) ELSE MaxRetryDelay

LEMMA BoundedSteps ==
    ASSUME NEW n \in Nat \ {0}
    PROVE  /\ Bounded(1) = RetryBase
           /\ Bounded(n) \in Nat
           /\ Bounded(n + 1) = IF 2 * Bounded(n) > MaxRetryDelay THEN MaxRetryDelay
                                                               ELSE 2 * Bounded(n)
<1>1. MaxRetryDelay \in Nat /\ RetryBase \in 1 .. MaxRetryDelay
  BY ReporterAssumption
<1>2. PICK m \in Nat : n = m + 1
  <2>1. n - 1 \in Nat /\ n = (n - 1) + 1
    OBVIOUS
  <2> QED
    BY <2>1
<1>3. PICK p \in Nat : p = 2 ^ m
  BY PowerDoubles
<1>4. 2 ^ (m + 1) = 2 * p
  BY <1>3, PowerDoubles
<1>5. n - 1 = m /\ (n + 1) - 1 = m + 1
  BY <1>2
<1>6. Doubled(n) = RetryBase * p
  BY <1>3, <1>5, Zenon DEF Doubled
<1>7. Doubled(n + 1) = RetryBase * (2 * p)
  BY <1>4, <1>5, Zenon DEF Doubled
<1>8. PICK d \in Nat : d = RetryBase * p
  BY <1>1
<1>9. RetryBase * (2 * p) = 2 * d
  BY <1>1, <1>8, Z3
<1>10. Doubled(n) = d /\ Doubled(n + 1) = 2 * d
  BY <1>6, <1>7, <1>8, <1>9, Zenon
<1>11. Doubled(1) = RetryBase
  <2>1. 2 ^ 0 = 1
    BY Z3
  <2>2. 1 - 1 = 0
    OBVIOUS
  <2>3. Doubled(1) = RetryBase * 1
    BY <2>1, <2>2, Zenon DEF Doubled
  <2> QED
    BY <1>1, <2>3
<1>12. Bounded(1) = RetryBase
  BY <1>1, <1>11 DEF Bounded
<1>13. Bounded(n) = IF d < MaxRetryDelay THEN d ELSE MaxRetryDelay
  BY <1>10, Zenon DEF Bounded
<1>14. Bounded(n + 1) = IF 2 * d < MaxRetryDelay THEN 2 * d ELSE MaxRetryDelay
  BY <1>10, Zenon DEF Bounded
<1> QED
  BY <1>1, <1>12, <1>13, <1>14

(***************************************************************************)
(* retry_delay doubles up to its bound: the closed form solves its         *)
(* recursive equation, and every solution is the closed form.              *)
(***************************************************************************)
LEMMA RetryDelay ==
    ASSUME NEW n \in Nat \ {0}
    PROVE  retry_delay[n] = Bounded(n) /\ retry_delay[n] \in Nat
<1> DEFINE After(d)  == IF 2 * d > MaxRetryDelay THEN MaxRetryDelay ELSE 2 * d
           Solves(f) == f = [k \in Nat |-> IF k <= 1 THEN RetryBase ELSE After(f[k - 1])]
           closed    == [k \in Nat |-> IF k <= 1 THEN RetryBase ELSE Bounded(k)]
<1>1. Solves(closed)
  <2> SUFFICES ASSUME NEW k \in Nat, k > 1
               PROVE  closed[k] = After(closed[k - 1])
    OBVIOUS
  <2>1. PICK j \in Nat \ {0} : k = j + 1
    <3>1. k - 1 \in Nat \ {0} /\ k = (k - 1) + 1
      OBVIOUS
    <3> QED
      BY <3>1
  <2>2. k - 1 = j
    BY <2>1
  <2>3. closed[j] = Bounded(j)
    <3>1. CASE j = 1
      BY <3>1, BoundedSteps
    <3>2. CASE j # 1
      BY <3>2
    <3> QED
      BY <3>1, <3>2
  <2>4. closed[k] = Bounded(k)
    OBVIOUS
  <2>5. Bounded(j + 1) = After(Bounded(j))
    BY BoundedSteps
  <2> QED
    BY <2>1, <2>2, <2>3, <2>4, <2>5, Zenon
<1>2. Solves(retry_delay)
  <2>1. retry_delay = CHOOSE f : Solves(f)
    BY DEF retry_delay
  <2> HIDE DEF Solves, closed
  <2> QED
    BY <1>1, <2>1, Zenon
<1>3. retry_delay[1] = RetryBase /\ \A k \in Nat \ {0} : retry_delay[k + 1] = After(retry_delay[k])
  <2>1. \A k \in Nat : retry_delay[k] = IF k <= 1 THEN RetryBase ELSE After(retry_delay[k - 1])
    BY <1>2, Zenon
  <2>2. retry_delay[1] = RetryBase
    BY <2>1
  <2>3. ASSUME NEW k \in Nat \ {0}
        PROVE  retry_delay[k + 1] = After(retry_delay[k])
    <3>1. k + 1 \in Nat /\ ~(k + 1 <= 1) /\ (k + 1) - 1 = k
      OBVIOUS
    <3> HIDE DEF After
    <3> QED
      BY <2>1, <3>1, Zenon
  <2> QED
    BY <2>2, <2>3
<1> DEFINE Closed == {k \in Nat : k = 0 \/ retry_delay[k] = Bounded(k)}
<1>4. 0 \in Closed
  OBVIOUS
<1>5. ASSUME NEW m \in 0 .. n - 1, m \in Closed
      PROVE  m + 1 \in Closed
  <2>1. CASE m = 0
    <3>1. Bounded(1) = RetryBase
      BY BoundedSteps
    <3>2. retry_delay[1] = Bounded(1)
      BY <1>3, <3>1, Zenon
    <3>3. m + 1 = 1 /\ m + 1 \in Nat
      BY <2>1
    <3> QED
      BY <3>2, <3>3, Zenon
  <2>2. CASE m # 0
    <3>1. m \in Nat \ {0} /\ m + 1 \in Nat /\ retry_delay[m] = Bounded(m)
      BY <1>5, <2>2
    <3>2. Bounded(m + 1) = After(Bounded(m))
      BY <3>1, BoundedSteps
    <3>3. retry_delay[m + 1] = Bounded(m + 1)
      BY <1>3, <3>1, <3>2, Zenon
    <3> QED
      BY <3>1, <3>3, Zenon
  <2> QED
    BY <2>1, <2>2
<1> HIDE DEF Closed
<1>6. 0 .. n \subseteq Closed
  BY <1>4, <1>5, UpTo
<1>7. n \in Closed /\ n # 0
  BY <1>6
<1>8. retry_delay[n] = Bounded(n)
  BY <1>7, Zenon DEF Closed
<1> QED
  BY <1>8, BoundedSteps

-----------------------------------------------------------------------------
(***************************************************************************)
(* Backoff: only the spot at the head ever failed, and the time that       *)
(* passed since then and the time still to wait add up to its delay.       *)
(***************************************************************************)
FreshBehind ==
    \A k \in 1 .. count - 1 : queue[(head + k) % Capacity].attempts = 0

HeadWaits ==
    count > 0 /\ queue[head].attempts > 0 =>
        waited + queue[head].retry_in = retry_delay[queue[head].attempts]

WaitsForHead ==
    /\ uploader = "dozing" => count > 0
    /\ uploader = "sending" => queue[head].retry_in = 0

BackoffInv ==
    /\ queue \in [Index -> QueueItem]
    /\ waited \in Nat
    /\ FreshBehind /\ HeadWaits /\ WaitsForHead

(***************************************************************************)
(* Slots of the ring, as places behind the head.                           *)
(***************************************************************************)
LEMMA PlaceBehind ==
    ASSUME RingShape, NEW k \in 1 .. Capacity - 1
    PROVE  /\ (head + k) % Capacity \in Index
           /\ (head + k) % Capacity # head
<1>1. head \in 0 .. Capacity - 1 /\ Capacity \in Nat \ {0}
  BY ReporterAssumption DEF RingShape, Index
<1>2. k \in 0 .. Capacity
  BY <1>1
<1>3. (head + k) % Capacity = IF head + k < Capacity THEN head + k ELSE head + k - Capacity
  BY <1>1, <1>2, ModSum
<1> QED
  BY <1>1, <1>3 DEF Index

LEMMA BackoffInit == Init => BackoffInv
<1> SUFFICES ASSUME Init
             PROVE  BackoffInv
  OBVIOUS
<1>1. NoItem \in QueueItem
  BY DEF NoItem, QueueItem
<1>2. queue \in [Index -> QueueItem] /\ waited \in Nat
  BY <1>1 DEF Init, Index
<1>3. FreshBehind /\ HeadWaits /\ WaitsForHead
  BY DEF Init, FreshBehind, HeadWaits, WaitsForHead
<1> QED
  BY <1>2, <1>3 DEF BackoffInv

LEMMA BackoffEnqueue == DeliveryInv /\ BackoffInv /\ Enqueue => BackoffInv'
<1> SUFFICES ASSUME DeliveryInv, BackoffInv, Enqueue
             PROVE  BackoffInv'
  OBVIOUS
<1> DEFINE tail == (head + count) % Capacity
           new  == [sequence |-> next_sequence + 1, attempts |-> 0, retry_in |-> 0]
<1>1. /\ RingShape /\ head \in Index /\ count \in 0 .. Capacity - 1 /\ next_sequence \in Nat
      /\ Capacity \in Nat \ {0} /\ queue \in [Index -> QueueItem] /\ waited \in Nat
  <2>1. RingShape /\ queue \in [Index -> QueueItem] /\ waited \in Nat /\ count < Capacity
    BY DEF DeliveryInv, BackoffInv, Enqueue
  <2>2. head \in Index /\ count \in 0 .. Capacity /\ next_sequence \in Nat
    BY <2>1 DEF RingShape
  <2> QED
    BY <2>1, <2>2, ReporterAssumption
<1>2. /\ head' = head /\ count' = count + 1 /\ waited' = waited
      /\ queue' = [queue EXCEPT ![tail] = new]
      /\ uploader' = Wake(uploader)
  BY DEF Enqueue
<1>3. new \in QueueItem
  BY <1>1 DEF QueueItem
<1>4. tail \in Index /\ (count > 0 => tail # head) /\ (count = 0 => tail = head)
  <2>1. CASE count = 0
    <3>1. head + count = head /\ head % Capacity = head
      BY <1>1, <2>1, ModSmall DEF Index
    <3> QED
      BY <1>1, <2>1, <3>1
  <2>2. CASE count > 0
    BY <1>1, <2>2, PlaceBehind
  <2> QED
    BY <1>1, <2>1, <2>2
<1> HIDE DEF tail
<1>5. queue' \in [Index -> QueueItem] /\ queue'[tail] = new
  BY <1>1, <1>2, <1>3, <1>4
<1>6. FreshBehind'
  <2> SUFFICES ASSUME NEW k \in 1 .. count
               PROVE  queue'[(head + k) % Capacity].attempts = 0
    BY <1>1, <1>2 DEF FreshBehind
  <2>1. CASE k = count
    BY <2>1, <1>5 DEF tail
  <2>2. CASE k # count
    <3>1. k \in 1 .. count - 1 /\ k \in 1 .. Capacity - 1
      BY <1>1, <2>2
    <3>2. (head + k) % Capacity \in Index
      BY <1>1, <3>1, PlaceBehind
    <3>3. queue[(head + k) % Capacity].attempts = 0
      BY <3>1 DEF BackoffInv, FreshBehind
    <3>4. CASE (head + k) % Capacity = tail
      BY <1>5, <3>4
    <3>5. CASE (head + k) % Capacity # tail
      BY <1>1, <1>2, <3>2, <3>3, <3>5
    <3> QED
      BY <3>4, <3>5
  <2> QED
    BY <2>1, <2>2
<1>7. count > 0 => queue'[head] = queue[head]
  BY <1>1, <1>2, <1>4
<1>8. HeadWaits'
  <2>1. CASE count = 0
    <3>1. queue'[head'].attempts = 0
      BY <1>2, <1>4, <1>5, <2>1
    <3> QED
      BY <3>1 DEF HeadWaits
  <2>2. CASE count > 0
    <3>1. queue'[head'] = queue[head] /\ waited' = waited
      BY <1>2, <1>7, <2>2
    <3> QED
      BY <2>2, <3>1 DEF HeadWaits, BackoffInv
  <2> QED
    BY <1>1, <2>1, <2>2
<1>9. WaitsForHead'
  <2>1. uploader' # "dozing" /\ (uploader' = "sending" => uploader = "sending")
    BY <1>2 DEF Wake
  <2>2. ASSUME uploader = "sending"
        PROVE  queue'[head'].retry_in = 0
    <3>1. count > 0
      BY <2>2 DEF DeliveryInv, CopyIsOldest
    <3>2. queue'[head'] = queue[head]
      BY <1>2, <1>7, <3>1
    <3> QED
      BY <2>2, <3>2 DEF BackoffInv, WaitsForHead
  <2> QED
    BY <2>1, <2>2 DEF WaitsForHead
<1> QED
  BY <1>1, <1>2, <1>5, <1>6, <1>8, <1>9 DEF BackoffInv

(***************************************************************************)
(* A failed spot keeps its place at the head and starts to wait; a         *)
(* resolved one leaves it to a spot that never failed.                     *)
(***************************************************************************)
LEMMA BackoffAnswer == DeliveryInv /\ BackoffInv /\ HandleAnswer => BackoffInv'
<1> SUFFICES ASSUME DeliveryInv, BackoffInv, HandleAnswer
             PROVE  BackoffInv'
  OBVIOUS
<1>1. /\ RingShape /\ head \in Index /\ count \in 0 .. Capacity
      /\ Capacity \in Nat \ {0} /\ queue \in [Index -> QueueItem] /\ waited \in Nat
  BY ReporterAssumption DEF DeliveryInv, RingShape, BackoffInv
<1>2. uploader' = "running"
  BY DEF HandleAnswer
<1>3. WaitsForHead'
  BY <1>2 DEF WaitsForHead
<1>4. CASE UNCHANGED <<queue, head, count, waited>>
  BY <1>3, <1>4 DEF BackoffInv, FreshBehind, HeadWaits
<1>5. CASE count > 0 /\ remove_head /\ UNCHANGED <<queue, waited>>
  <2>1. /\ head' = (head + 1) % Capacity /\ count' = count - 1
        /\ queue' = queue /\ waited' = waited /\ count \in 1 .. Capacity
    BY <1>1, <1>5 DEF remove_head
  <2>2. count > 1 => queue[head'].attempts = 0
    BY <1>1, <2>1 DEF BackoffInv, FreshBehind
  <2>3. HeadWaits'
    BY <2>1, <2>2 DEF HeadWaits
  <2>4. FreshBehind'
    <3> SUFFICES ASSUME NEW k \in 1 .. count - 2
                 PROVE  queue[(head' + k) % Capacity].attempts = 0
      BY <1>1, <2>1 DEF FreshBehind
    <3>1. k \in 0 .. Capacity /\ k + 1 \in 0 .. Capacity /\ 1 \in 0 .. Capacity
      BY <1>1, <2>1
    <3>2. head \in 0 .. Capacity - 1 /\ k + 1 \in 1 .. count - 1
      BY <1>1, <2>1 DEF Index
    <3>3. head' = IF head + 1 < Capacity THEN head + 1 ELSE head + 1 - Capacity
      BY <1>1, <2>1, <3>1, <3>2, ModSum
    <3>4. head' \in 0 .. Capacity - 1
      BY <1>1, <3>2, <3>3
    <3>5. (head' + k) % Capacity = IF head' + k < Capacity THEN head' + k ELSE head' + k - Capacity
      BY <1>1, <3>1, <3>4, ModSum
    <3>6. (head + (k + 1)) % Capacity =
              IF head + (k + 1) < Capacity THEN head + (k + 1) ELSE head + (k + 1) - Capacity
      BY <1>1, <3>1, <3>2, ModSum
    <3>7. (head' + k) % Capacity = (head + (k + 1)) % Capacity
      BY <1>1, <3>1, <3>2, <3>3, <3>4, <3>5, <3>6
    <3> QED
      BY <3>2, <3>7 DEF BackoffInv, FreshBehind
  <2> QED
    BY <1>1, <1>3, <2>1, <2>3, <2>4 DEF BackoffInv
<1>6. ASSUME NEW attempts \in Nat \ {0},
             queue' = [queue EXCEPT ![head] =
                          [sequence |-> queue[head].sequence, attempts |-> attempts,
                           retry_in |-> retry_delay[attempts]]],
             waited' = 0, UNCHANGED <<head, count>>
      PROVE  BackoffInv'
  <2>1. queue[head] \in QueueItem
    BY <1>1
  <2>3. PICK delay \in Nat : delay = retry_delay[attempts]
    BY <1>6, RetryDelay
  <2> DEFINE rec == [sequence |-> queue[head].sequence, attempts |-> attempts, retry_in |-> delay]
  <2>4. rec \in QueueItem
    BY <1>6, <2>1 DEF QueueItem
  <2>5. queue' = [queue EXCEPT ![head] = rec]
    BY <1>6, <2>3
  <2>6. queue'[head'] = rec /\ queue' \in [Index -> QueueItem]
    BY <1>1, <1>6, <2>4, <2>5
  <2>7. HeadWaits'
    <3>1. queue'[head'].attempts = attempts /\ queue'[head'].retry_in = delay
      BY <2>6
    <3>2. waited' + delay = delay
      BY <1>6
    <3> QED
      BY <2>3, <3>1, <3>2 DEF HeadWaits
  <2>8. FreshBehind'
    <3> SUFFICES ASSUME NEW k \in 1 .. count - 1
                 PROVE  queue'[(head + k) % Capacity].attempts = 0
      BY <1>6 DEF FreshBehind
    <3>1. k \in 1 .. Capacity - 1
      BY <1>1
    <3>2. (head + k) % Capacity \in Index /\ (head + k) % Capacity # head
      BY <1>1, <3>1, PlaceBehind
    <3> HIDE DEF rec
    <3>3. queue'[(head + k) % Capacity] = queue[(head + k) % Capacity]
      BY <1>1, <2>5, <3>2
    <3> QED
      BY <3>3 DEF BackoffInv, FreshBehind
  <2> QED
    BY <1>3, <1>6, <2>6, <2>7, <2>8 DEF BackoffInv
<1>7. CASE count = 0 \/ queue[head].sequence # item.sequence
  BY <1>4, <1>7 DEF HandleAnswer
<1>8. CASE ~(count = 0 \/ queue[head].sequence # item.sequence)
  <2>1. count > 0
    BY <1>1, <1>8
  <2>2. CASE upload_result(http_status) \in {"OK", "REJECTED"}
    BY <1>5, <1>8, <2>1, <2>2 DEF HandleAnswer
  <2>3. CASE upload_result(http_status) \notin {"OK", "REJECTED"}
    <3>1. NextAttempt \in Nat \ {0}
      BY AttemptsCounted, <1>1
    <3> QED
      BY <1>6, <1>8, <2>3, <3>1 DEF HandleAnswer
  <2> QED
    BY <2>2, <2>3
<1> QED
  BY <1>7, <1>8

LEMMA BackoffTick == DeliveryInv /\ BackoffInv /\ Tick => BackoffInv'
<1> SUFFICES ASSUME DeliveryInv, BackoffInv, Tick
             PROVE  BackoffInv'
  OBVIOUS
<1>1. /\ RingShape /\ head \in Index /\ count \in 1 .. Capacity
      /\ Capacity \in Nat \ {0} /\ queue \in [Index -> QueueItem] /\ waited \in Nat
  BY ReporterAssumption DEF DeliveryInv, RingShape, BackoffInv, Tick
<1>2. /\ queue[head].retry_in > 0 /\ waited' = waited + 1
      /\ queue' = [queue EXCEPT ![head].retry_in = @ - 1]
      /\ head' = head /\ count' = count /\ uploader' = uploader
  BY DEF Tick
<1>3. queue[head] \in QueueItem
  BY <1>1
<1>4. PICK old : old = queue[head]
  OBVIOUS
<1>5. old \in QueueItem /\ old.retry_in > 0
  BY <1>2, <1>3, <1>4
<1> DEFINE rec == [old EXCEPT !.retry_in = old.retry_in - 1]
<1>6. /\ rec \in QueueItem /\ rec.attempts = old.attempts
      /\ rec.retry_in = old.retry_in - 1
  BY <1>5 DEF QueueItem
<1>7. queue' = [queue EXCEPT ![head] = rec]
  BY <1>1, <1>2, <1>4
<1> HIDE DEF rec
<1>8. queue'[head'] = rec /\ queue' \in [Index -> QueueItem]
  BY <1>1, <1>2, <1>6, <1>7
<1>9. HeadWaits'
  <2> SUFFICES ASSUME old.attempts > 0
               PROVE  waited' + rec.retry_in = retry_delay[old.attempts]
    BY <1>2, <1>6, <1>8 DEF HeadWaits
  <2>1. waited + old.retry_in = retry_delay[old.attempts]
    BY <1>1, <1>4 DEF BackoffInv, HeadWaits
  <2>2. old.retry_in \in Nat
    BY <1>5 DEF QueueItem
  <2>3. waited' + rec.retry_in = waited + old.retry_in
    BY <1>1, <1>2, <1>6, <2>2
  <2> QED
    BY <2>1, <2>3, Zenon
<1>10. FreshBehind'
  <2> SUFFICES ASSUME NEW k \in 1 .. count - 1
               PROVE  queue'[(head + k) % Capacity].attempts = 0
    BY <1>2 DEF FreshBehind
  <2>1. k \in 1 .. Capacity - 1
    BY <1>1
  <2>2. (head + k) % Capacity \in Index /\ (head + k) % Capacity # head
    BY <1>1, <2>1, PlaceBehind
  <2>3. queue'[(head + k) % Capacity] = queue[(head + k) % Capacity]
    BY <1>1, <1>7, <2>2
  <2> QED
    BY <2>3 DEF BackoffInv, FreshBehind
<1>11. WaitsForHead'
  BY <1>1, <1>2 DEF BackoffInv, WaitsForHead
<1> QED
  BY <1>1, <1>2, <1>8, <1>9, <1>10, <1>11 DEF BackoffInv

LEMMA BackoffStep == DeliveryInv /\ BackoffInv /\ [Next]_vars => BackoffInv'
<1> SUFFICES ASSUME DeliveryInv, BackoffInv, [Next]_vars
             PROVE  BackoffInv'
  OBVIOUS
<1>1. CASE UploaderTurn
  <2>1. UNCHANGED <<queue, head, count, waited>>
    BY <1>1 DEF UploaderTurn, ring
  <2>2. WaitsForHead'
    <3>1. uploader' = "dozing" => count > 0
      BY <1>1 DEF UploaderTurn
    <3>2. queue \in [Index -> QueueItem] /\ head \in Index
      BY DEF BackoffInv, DeliveryInv, RingShape
    <3>3. queue[head].retry_in \in Nat
      BY <3>2 DEF QueueItem
    <3>4. uploader' = "sending" => ~(queue[head].retry_in > 0)
      BY <1>1 DEF UploaderTurn
    <3>5. uploader' = "sending" => queue[head].retry_in = 0
      BY <3>3, <3>4
    <3> QED
      BY <2>1, <3>1, <3>5 DEF WaitsForHead
  <2> QED
    BY <2>1, <2>2 DEF BackoffInv, FreshBehind, HeadWaits
<1>2. CASE Wakeup \/ Timeout \/ Transport \/ Stop \/ StopJoin \/ UNCHANGED vars
  <2>1. UNCHANGED <<queue, head, count, waited>>
    BY <1>2 DEF Wakeup, Timeout, Transport, Stop, StopJoin, vars, ring
  <2>2. uploader' \in {"dozing", "sending"} => uploader' = uploader
    BY <1>2 DEF Wakeup, Timeout, Transport, Stop, StopJoin, vars, Wake
  <2> QED
    BY <2>1, <2>2 DEF BackoffInv, FreshBehind, HeadWaits, WaitsForHead
<1> QED
  BY <1>1, <1>2, BackoffEnqueue, BackoffAnswer, BackoffTick DEF Next, UploaderStep

(***************************************************************************)
(* A spot that failed n times is sent again once the base delay, doubled   *)
(* n - 1 times and bounded, has passed, and not before, although every     *)
(* enqueue wakes the uploader: for every capacity, base and bound.         *)
(***************************************************************************)
THEOREM BackoffIsHonoured == Spec => []BackoffHonoured
<1>1. DeliveryInv /\ BackoffInv => BackoffHonoured
  <2> SUFFICES ASSUME DeliveryInv, BackoffInv, uploader \in {"dozing", "sending"},
                      queue[head].attempts > 0
               PROVE  /\ uploader = "sending" => waited = Bounded(queue[head].attempts)
                      /\ uploader = "dozing" => waited <= Bounded(queue[head].attempts)
    BY DEF BackoffHonoured, Bounded, Doubled
  <2>1. PICK spot \in QueueItem : spot = queue[head]
    BY DEF BackoffInv, DeliveryInv, RingShape
  <2>2. count > 0
    BY DEF DeliveryInv, CopyIsOldest, BackoffInv, WaitsForHead
  <2>3. waited \in Nat /\ spot.retry_in \in Nat /\ spot.attempts \in Nat \ {0}
    BY <2>1 DEF BackoffInv, QueueItem
  <2>4. waited + spot.retry_in = retry_delay[spot.attempts]
    BY <2>1, <2>2 DEF BackoffInv, HeadWaits
  <2>5. PICK delay \in Nat : delay = Bounded(spot.attempts) /\ waited + spot.retry_in = delay
    BY <2>3, <2>4, RetryDelay
  <2>6. waited <= delay
    BY <2>3, <2>5
  <2>7. uploader = "sending" => spot.retry_in = 0
    BY <2>1 DEF BackoffInv, WaitsForHead
  <2>8. uploader = "sending" => waited = delay
    BY <2>3, <2>5, <2>7
  <2> QED
    BY <2>1, <2>5, <2>6, <2>8
<1>2. Init => DeliveryInv /\ BackoffInv
  BY DeliveryInvInit, BackoffInit
<1>3. (DeliveryInv /\ BackoffInv) /\ [Next]_vars => (DeliveryInv /\ BackoffInv)'
  BY DeliveryInvStep, BackoffStep
<1> QED
  BY <1>1, <1>2, <1>3, PTL DEF Spec
=============================================================================
