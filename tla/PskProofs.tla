------------------------------ MODULE PskProofs ------------------------------
(***************************************************************************)
(* The PSK Reporter client, for any senders, capacities, periods and       *)
(* jitter: what it keeps, what it sends, when it tries again, and what its *)
(* table of recent senders suppresses.                                     *)
(***************************************************************************)
EXTENDS PskReporter, FiniteSetTheorems, WellFoundedInduction, TLAPS

(***************************************************************************)
(* The array and the packet are sequences of spots. No sender is in the    *)
(* array twice, which enqueue sees to.                                     *)
(***************************************************************************)
QueueShape ==
    /\ queue \in Seq(Report)
    /\ packet \in Seq(Report)
    /\ \A i, j \in 1 .. Len(queue) : queue[i].call = queue[j].call => i = j

(***************************************************************************)
(* While a packet is on its way its senders stay at the front of the       *)
(* array: enqueue improves spots in place and appends behind them.         *)
(***************************************************************************)
PacketAtFront ==
    reporter \in {"sending", "sent"} =>
        /\ Len(packet) <= Len(queue)
        /\ \A i \in 1 .. Len(packet) : packet[i].call = queue[i].call

(***************************************************************************)
(* A queued spot is the strongest one accepted, and nothing is remembered  *)
(* of a sender that is not queued.                                         *)
(***************************************************************************)
StrongestQueued ==
    /\ best \in [Calls -> Nat]
    /\ \A i \in 1 .. Len(queue) : queue[i].snr = best[queue[i].call]
    /\ \A c \in Calls :
          (\A i \in 1 .. Len(queue) : queue[i].call # c) => best[c] = 0

QueueInv == QueueShape /\ PacketAtFront /\ StrongestQueued

(***************************************************************************)
(* packet_count stays behind the packets with templates that went out on   *)
(* the present socket; a failed packet takes the socket with it.           *)
(***************************************************************************)
CountBehind ==
    /\ packet_count \in 0 .. 3 /\ taught \in 0 .. 3
    /\ templates \in BOOLEAN
    /\ reporter \in {"running", "asleep", "sending"} =>
          /\ packet_count <= taught
          /\ packet_count > 0 => connected
    /\ reporter = "sending" => packet_count = 3 \/ templates
    /\ reporter = "sent" =>
          /\ connected
          /\ packet_count < 3 => packet_count < taught
          /\ packet_count = 3 => taught = 3

(***************************************************************************)
(* The flush time is never before the end of the pause after a failure.    *)
(***************************************************************************)
PauseCovered ==
    /\ flush_in \in Nat
    /\ failed_age \in 0 .. RetrySeconds
    /\ flush_in + failed_age >= RetrySeconds

-----------------------------------------------------------------------------
(***************************************************************************)
(* The array is empty at first, and nothing is accepted yet.               *)
(***************************************************************************)
LEMMA QueueInitially == Init => QueueInv
BY DEF Init, QueueInv, QueueShape, PacketAtFront, StrongestQueued

(***************************************************************************)
(* A spot has a sender and a positive signal-to-noise ratio, as it is kept.*)
(***************************************************************************)
LEMMA SpotShape ==
    ASSUME NEW spot \in Report
    PROVE  spot.call \in Calls /\ spot.snr \in Nat /\ spot.snr > 0
<1>1. spot.call \in Calls /\ spot.snr \in Snrs
  BY DEF Report
<1>2. \A x \in Snrs : x \in Nat \ {0}
  BY PskAssumption DEF PskAssumption
<1> QED
  BY <1>1, <1>2

(***************************************************************************)
(* A better spot of a queued sender takes the place of the one before.     *)
(***************************************************************************)
LEMMA ImproveKeeps ==
    ASSUME QueueInv, NEW report \in Report, Improve(report),
           best' = [best EXCEPT ![report.call] = IF report.snr > @ THEN report.snr ELSE @],
           packet' = packet
    PROVE  QueueInv'
<1> USE DEF QueueInv
<1>1. /\ queue \in Seq(Report) /\ Len(queue) \in Nat /\ DOMAIN queue = 1 .. Len(queue)
      /\ report.call \in Calls /\ report.snr \in Nat /\ report.snr > 0
      /\ best \in [Calls -> Nat]
      /\ reporter' = reporter
  BY SpotShape DEF QueueShape, StrongestQueued, Improve
<1>2. \A i \in 1 .. Len(queue) :
          queue[i] \in Report /\ queue[i].call \in Calls /\ queue[i].snr \in Nat
  BY <1>1, SpotShape
<1>3. queue' = [i \in 1 .. Len(queue) |->
                   IF queue[i].call = report.call /\ report.snr > queue[i].snr
                   THEN report ELSE queue[i]]
  BY <1>1 DEF Improve
<1>4. /\ queue' \in Seq(Report) /\ Len(queue') = Len(queue)
      /\ \A i \in 1 .. Len(queue) : queue'[i].call = queue[i].call
  BY <1>1, <1>2, <1>3
<1>5. \E k \in 1 .. Len(queue) : queue[k].call = report.call
  BY <1>1 DEF Improve, Queued
<1>6. QueueShape'
  BY <1>4 DEF QueueShape
<1>7. PacketAtFront'
  BY <1>1, <1>4 DEF PacketAtFront, QueueShape
<1>8. StrongestQueued'
  <2>1. best' \in [Calls -> Nat]
    BY <1>1
  <2>2. ASSUME NEW i \in 1 .. Len(queue)
        PROVE  queue'[i].snr = best'[queue'[i].call]
    <3>1. queue[i].snr = best[queue[i].call]
      BY DEF StrongestQueued
    <3>2. CASE queue[i].call = report.call
      BY <1>1, <1>2, <1>3, <3>1, <3>2
    <3>3. CASE queue[i].call # report.call
      BY <1>1, <1>2, <1>3, <3>1, <3>3
    <3> QED
      BY <3>2, <3>3
  <2>3. ASSUME NEW c \in Calls, \A i \in 1 .. Len(queue) : queue'[i].call # c
        PROVE  best'[c] = 0
    <3>1. c # report.call
      BY <1>4, <1>5, <2>3
    <3> QED
      BY <1>1, <1>4, <2>3, <3>1 DEF StrongestQueued
  <2> QED
    BY <1>4, <2>1, <2>2, <2>3 DEF StrongestQueued
<1> QED
  BY <1>6, <1>7, <1>8

(***************************************************************************)
(* The first spot of a sender goes to the end.                             *)
(***************************************************************************)
LEMMA AppendKeeps ==
    ASSUME QueueInv, NEW report \in Report, AppendNew(report),
           best' = [best EXCEPT ![report.call] = IF report.snr > @ THEN report.snr ELSE @],
           packet' = packet
    PROVE  QueueInv'
<1> USE DEF QueueInv
<1>1. /\ queue \in Seq(Report) /\ Len(queue) \in Nat /\ DOMAIN queue = 1 .. Len(queue)
      /\ report.call \in Calls /\ report.snr \in Nat /\ report.snr > 0
      /\ best \in [Calls -> Nat]
  BY SpotShape DEF QueueShape, StrongestQueued
<1>2. \A i \in 1 .. Len(queue) :
          queue[i] \in Report /\ queue[i].call \in Calls /\ queue[i].call # report.call
  BY <1>1, SpotShape DEF AppendNew, Queued
<1>3. /\ queue' \in Seq(Report) /\ Len(queue') = Len(queue) + 1
      /\ queue'[Len(queue) + 1] = report
      /\ \A i \in 1 .. Len(queue) : queue'[i] = queue[i]
  BY <1>1 DEF AppendNew
<1>4. reporter' \in {"sending", "sent"} => reporter' = reporter
  BY DEF AppendNew, Wake
<1>5. QueueShape'
  BY <1>1, <1>2, <1>3 DEF QueueShape
<1>6. PacketAtFront'
  BY <1>1, <1>3, <1>4 DEF PacketAtFront, QueueShape
<1>7. StrongestQueued'
  <2>1. best[report.call] = 0 /\ best' = [best EXCEPT ![report.call] = report.snr]
    BY <1>1, <1>2 DEF StrongestQueued
  <2>2. ASSUME NEW i \in 1 .. Len(queue) + 1
        PROVE  queue'[i].snr = best'[queue'[i].call]
    <3>1. CASE i = Len(queue) + 1
      BY <1>1, <1>3, <2>1, <3>1
    <3>2. CASE i # Len(queue) + 1
      BY <1>1, <1>2, <1>3, <2>1, <3>2 DEF StrongestQueued
    <3> QED
      BY <3>1, <3>2
  <2>3. ASSUME NEW c \in Calls, \A i \in 1 .. Len(queue) + 1 : queue'[i].call # c
        PROVE  best'[c] = 0
    <3>1. c # report.call
      BY <1>1, <1>3, <2>3
    <3>2. \A i \in 1 .. Len(queue) : queue[i].call # c
      BY <1>1, <1>3, <2>3
    <3> QED
      BY <1>1, <2>1, <3>1, <3>2 DEF StrongestQueued
  <2> QED
    BY <1>1, <1>3, <2>1, <2>2, <2>3 DEF StrongestQueued
<1> QED
  BY <1>5, <1>6, <1>7

(***************************************************************************)
(* The spots of a packet that was sent leave the front of the array; the   *)
(* others keep their order, and their senders were not in the packet.      *)
(***************************************************************************)
LEMMA SentLeave ==
    ASSUME QueueInv, HandleSent
    PROVE  /\ QueueInv'
           /\ Len(packet) <= Len(queue)
           /\ Len(queue') = Len(queue) - Len(packet)
           /\ \A i \in 1 .. Len(queue') : queue'[i] = queue[i + Len(packet)]
<1> USE DEF QueueInv
<1> DEFINE n == Len(packet)
<1>1. /\ queue \in Seq(Report) /\ Len(queue) \in Nat /\ n \in Nat /\ n <= Len(queue)
      /\ best \in [Calls -> Nat]
      /\ queue' = SubSeq(queue, n + 1, Len(queue))
      /\ best' = [c \in Calls |-> IF \E i \in 1 .. n : queue[i].call = c
                                  THEN 0 ELSE best[c]]
      /\ reporter' = "running" /\ packet' = <<>>
  BY DEF QueueShape, PacketAtFront, StrongestQueued, HandleSent
<1>2. /\ queue' \in Seq(Report) /\ Len(queue') = Len(queue) - n
      /\ \A i \in 1 .. Len(queue) - n : queue'[i] = queue[i + n]
  BY <1>1
<1>3. QueueShape'
  <2>1. ASSUME NEW i \in 1 .. Len(queue'), NEW j \in 1 .. Len(queue'),
               queue'[i].call = queue'[j].call
        PROVE  i = j
    <3>1. i + n \in 1 .. Len(queue) /\ j + n \in 1 .. Len(queue)
      BY <1>1, <1>2
    <3>2. queue[i + n].call = queue[j + n].call
      BY <1>2, <2>1
    <3>3. i + n = j + n
      BY <3>1, <3>2 DEF QueueShape
    <3> QED
      BY <1>1, <1>2, <3>3
  <2> QED
    BY <1>1, <1>2, <2>1 DEF QueueShape
<1>4. StrongestQueued'
  <2>1. ASSUME NEW i \in 1 .. Len(queue')
        PROVE  queue'[i].snr = best'[queue'[i].call]
    <3>1. i + n \in 1 .. Len(queue) /\ queue'[i] = queue[i + n]
      BY <1>1, <1>2
    <3>2. \A j \in 1 .. n : queue[j].call # queue[i + n].call
      BY <1>1, <3>1 DEF QueueShape
    <3>3. queue[i + n].call \in Calls
      BY <1>1, <3>1, SpotShape
    <3> QED
      BY <1>1, <3>1, <3>2, <3>3 DEF StrongestQueued
  <2>2. ASSUME NEW c \in Calls, \A i \in 1 .. Len(queue') : queue'[i].call # c
        PROVE  best'[c] = 0
    <3>1. CASE \E i \in 1 .. n : queue[i].call = c
      BY <1>1, <3>1
    <3>2. CASE ~ \E i \in 1 .. n : queue[i].call = c
      <4>1. ASSUME NEW i \in 1 .. Len(queue)
            PROVE  queue[i].call # c
        <5>1. CASE i <= n
          BY <3>2, <5>1, <1>1
        <5>2. CASE i > n
          <6>1. i - n \in 1 .. Len(queue') /\ queue'[i - n] = queue[i]
            BY <1>1, <1>2, <5>2
          <6> QED
            BY <2>2, <6>1
        <5> QED
          BY <1>1, <5>1, <5>2
      <4> QED
        BY <1>1, <3>2, <4>1 DEF StrongestQueued
    <3> QED
      BY <3>1, <3>2
  <2>3. best' \in [Calls -> Nat]
    BY <1>1
  <2> QED
    BY <2>1, <2>2, <2>3 DEF StrongestQueued
<1> QED
  BY <1>1, <1>2, <1>3, <1>4 DEF PacketAtFront

(***************************************************************************)
(* A packet is a copy of the front of the array.                           *)
(***************************************************************************)
LEMMA BuiltFromFront ==
    ASSUME QueueInv, BuildPacket
    PROVE  /\ QueueInv'
           /\ Len(packet') \in Nat /\ Len(packet') <= Len(queue)
           /\ \A i \in 1 .. Len(packet') : packet'[i] = queue[i]
<1> USE DEF QueueInv
<1> DEFINE n == IF Len(queue) < ImmediateCount THEN Len(queue) ELSE ImmediateCount
<1>1. /\ queue \in Seq(Report) /\ Len(queue) \in Nat
      /\ n \in Nat /\ n <= Len(queue)
      /\ packet' = SubSeq(queue, 1, n)
      /\ queue' = queue /\ best' = best
  BY PskAssumption DEF QueueShape, BuildPacket, history
<1>2. /\ packet' \in Seq(Report) /\ Len(packet') = n
      /\ \A i \in 1 .. n : packet'[i] = queue[i]
  BY <1>1
<1> QED
  BY <1>1, <1>2 DEF QueueShape, PacketAtFront, StrongestQueued

(***************************************************************************)
(* Every step keeps the array in order.                                    *)
(***************************************************************************)
LEMMA QueueStep == QueueInv /\ [Next]_vars => QueueInv'
<1> SUFFICES ASSUME QueueInv, [Next]_vars
             PROVE  QueueInv'
  OBVIOUS
<1>1. CASE \E report \in Report : Enqueue(report)
  <2>1. PICK report \in Report : Enqueue(report)
    BY <1>1
  <2> QED
    BY <2>1, ImproveKeeps, AppendKeeps DEF Enqueue
<1>2. CASE BuildPacket
  BY <1>2, BuiltFromFront
<1>3. CASE HandleSent
  BY <1>3, SentLeave
<1>4. CASE HandleFailed
  BY <1>4 DEF HandleFailed, QueueInv, QueueShape, PacketAtFront, StrongestQueued
<1>5. CASE TransportSends
  BY <1>5 DEF TransportSends, QueueInv, QueueShape, PacketAtFront, StrongestQueued
<1>6. CASE TransportFails
  BY <1>6 DEF TransportFails, QueueInv, QueueShape, PacketAtFront, StrongestQueued
<1>7. CASE /\ UNCHANGED <<queue, packet, best>>
           /\ reporter' = reporter \/ reporter' \in {"running", "asleep", "done"}
  BY <1>7 DEF QueueInv, QueueShape, PacketAtFront, StrongestQueued
<1>8. CASE ThreadEnds \/ ThreadWaits \/ ThreadIdle \/ Timeout \/ Tick \/ Wakeup
              \/ Stop \/ StopJoin \/ UNCHANGED vars
  BY <1>7, <1>8 DEF ThreadEnds, ThreadWaits, ThreadIdle, Timeout, Tick, Wakeup, Stop,
                    StopJoin, vars, history, Wake
<1> QED
  BY <1>1, <1>2, <1>3, <1>4, <1>5, <1>6, <1>8 DEF Next, ThreadStep, Transport
-----------------------------------------------------------------------------
(***************************************************************************)
(* A spot leaves the array only after a packet with its sender was sent:   *)
(* psk_reporter_enqueue, while the packet is on its way without the mutex, *)
(* never moves the spots the packet was built from.                        *)
(***************************************************************************)
THEOREM UnsentKept == Spec => UnsentStaysQueued
<1> DEFINE Leaves == \A c \in Queued : c \notin Queued' =>
                        reporter = "sent" /\ \E i \in DOMAIN packet : packet[i].call = c
<1>1. QueueInv /\ [Next]_vars => [Leaves]_vars
  <2> SUFFICES ASSUME QueueInv, [Next]_vars, NEW k \in 1 .. Len(queue),
                      queue[k].call \notin Queued'
               PROVE  /\ reporter = "sent"
                      /\ \E i \in DOMAIN packet : packet[i].call = queue[k].call
    BY DEF Queued, QueueInv, QueueShape
  <2>0. /\ queue \in Seq(Report) /\ Len(queue) \in Nat
        /\ packet \in Seq(Report) /\ Len(packet) \in Nat
        /\ queue' \in Seq(Report)
    BY QueueStep DEF QueueInv, QueueShape
  <2>1. \A j \in 1 .. Len(queue') : queue'[j].call # queue[k].call
    BY <2>0 DEF Queued
  <2>2. CASE HandleSent
    <3>1. k <= Len(packet)
      <4> SUFFICES ASSUME k > Len(packet)
                   PROVE  FALSE
        BY <2>0
      <4>1. k - Len(packet) \in 1 .. Len(queue')
        BY <2>0, <2>2, SentLeave
      <4>2. queue'[k - Len(packet)] = queue[k]
        BY <2>0, <2>2, <4>1, SentLeave
      <4> QED
        BY <2>1, <4>1, <4>2
    <3>2. packet[k].call = queue[k].call
      BY <2>0, <2>2, <3>1 DEF HandleSent, QueueInv, PacketAtFront
    <3> QED
      BY <2>0, <2>2, <3>1, <3>2 DEF HandleSent
  <2>3. CASE \E report \in Report : Enqueue(report)
    <3>1. PICK report \in Report : Improve(report) \/ AppendNew(report)
      BY <2>3 DEF Enqueue
    <3>2. k \in DOMAIN queue
      BY <2>0
    <3>3. k \in 1 .. Len(queue') /\ queue'[k].call = queue[k].call
      <4>1. CASE Improve(report)
        <5>1. queue' = [i \in DOMAIN queue |->
                          IF queue[i].call = report.call /\ report.snr > queue[i].snr
                          THEN report ELSE queue[i]]
          BY <4>1 DEF Improve
        <5>2. DOMAIN queue' = 1 .. Len(queue)
          BY <2>0, <5>1
        <5>3. queue'[k].call = queue[k].call
          BY <3>2, <5>1
        <5> QED
          BY <2>0, <5>2, <5>3
      <4>2. CASE AppendNew(report)
        BY <2>0, <4>2 DEF AppendNew
      <4> QED
        BY <3>1, <4>1, <4>2
    <3> QED
      BY <2>1, <3>3
  <2>4. CASE UNCHANGED queue
    BY <2>0, <2>1, <2>4
  <2> QED
    BY <2>2, <2>3, <2>4 DEF Next, ThreadStep, Transport, ThreadEnds, ThreadWaits,
       ThreadIdle, BuildPacket, HandleFailed, Timeout, TransportSends, TransportFails,
       Tick, Wakeup, Stop, StopJoin, vars
<1> QED
  BY <1>1, QueueInitially, QueueStep, PTL DEF Spec, UnsentStaysQueued

(***************************************************************************)
(* A packet is built from the strongest spots accepted (enqueue replaces a *)
(* queued spot only by a stronger one).                                    *)
(***************************************************************************)
THEOREM StrongestSent == Spec => StrongestSpotSent
<1> DEFINE Strongest == reporter # "sending" /\ reporter' = "sending" =>
               \A i \in DOMAIN packet' : packet'[i].snr = best[packet'[i].call]
<1>1. QueueInv /\ [Next]_vars => [Strongest]_vars
  <2> SUFFICES ASSUME QueueInv, [Next]_vars,
                      reporter # "sending", reporter' = "sending"
               PROVE  \A i \in DOMAIN packet' : packet'[i].snr = best[packet'[i].call]
    OBVIOUS
  <2>1. BuildPacket
    BY DEF Next, ThreadStep, Transport, ThreadEnds, ThreadWaits, ThreadIdle,
       HandleSent, HandleFailed, Timeout, TransportSends, TransportFails, Tick, Wakeup,
       Stop, StopJoin, Enqueue, Improve, AppendNew, Wake, vars
  <2>2. DOMAIN packet' = 1 .. Len(packet')
    BY <2>1, BuiltFromFront DEF QueueInv, QueueShape
  <2>3. \A i \in 1 .. Len(packet') : i \in 1 .. Len(queue) /\ packet'[i] = queue[i]
    BY <2>1, BuiltFromFront DEF QueueInv, QueueShape
  <2> QED
    BY <2>2, <2>3 DEF QueueInv, StrongestQueued
<1> QED
  BY <1>1, QueueInitially, QueueStep, PTL DEF Spec, StrongestSpotSent

(***************************************************************************)
(* A packet without the templates goes only where three with them went:    *)
(* udp_transport's socket and packet_count are lost together.              *)
(***************************************************************************)
THEOREM TemplatesBeforeData == Spec => []TemplatesTaught
<1>1. Init => CountBehind
  <2> SUFFICES ASSUME Init PROVE CountBehind
    OBVIOUS
  <2>1. packet_count = 0 /\ taught = 0 /\ reporter = "running" /\ templates \in BOOLEAN
    BY DEF Init
  <2>2. reporter # "sending" /\ reporter # "sent"
    BY <2>1
  <2>3. packet_count \in 0 .. 3 /\ taught \in 0 .. 3 /\ packet_count <= taught
        /\ ~(packet_count > 0)
    BY <2>1
  <2> QED
    BY <2>1, <2>2, <2>3 DEF CountBehind
<1>2. CountBehind /\ [Next]_vars => CountBehind'
  <2> SUFFICES ASSUME CountBehind, [Next]_vars
               PROVE  CountBehind'
    OBVIOUS
  <2> USE DEF CountBehind
  <2>1. CASE \E report \in Report : Enqueue(report)
    BY <2>1 DEF Enqueue, Improve, AppendNew, Wake
  <2>2. CASE BuildPacket
    <3>1. /\ reporter' = "sending" /\ reporter = "running"
          /\ UNCHANGED <<packet_count, taught, connected>>
          /\ templates' = (packet_count < 3 \/ template_age >= TemplateSeconds)
      BY <2>2 DEF BuildPacket, history
    <3>2. templates' \in BOOLEAN /\ (packet_count < 3 => templates')
      BY <3>1
    <3> QED
      BY <3>1, <3>2
  <2>3. CASE HandleSent
    BY <2>3 DEF HandleSent, Older
  <2>4. CASE HandleFailed
    BY <2>4 DEF HandleFailed
  <2>5. CASE TransportSends
    BY <2>5 DEF TransportSends
  <2>6. CASE TransportFails
    BY <2>6 DEF TransportFails
  <2>7. CASE ThreadEnds \/ ThreadWaits \/ ThreadIdle \/ Timeout \/ Tick \/ Wakeup
    BY <2>7 DEF ThreadEnds, ThreadWaits, ThreadIdle, Timeout, Tick, Wakeup, history
  <2>8. CASE Stop \/ StopJoin \/ UNCHANGED vars
    BY <2>8 DEF Stop, StopJoin, Wake, vars, history
  <2> QED
    BY <2>1, <2>2, <2>3, <2>4, <2>5, <2>6, <2>7, <2>8 DEF Next, ThreadStep, Transport
<1>3. CountBehind => TemplatesTaught
  BY DEF CountBehind, TemplatesTaught
<1> QED
  BY <1>1, <1>2, <1>3, PTL DEF Spec

(***************************************************************************)
(* After a failure the next attempt waits for the pause, unless a full     *)
(* packet is queued: nothing the thread does brings the flush time         *)
(* forward.                                                                *)
(***************************************************************************)
THEOREM RetriesPaced == Spec => RetryPaced
<1>1. Init => PauseCovered
  BY PskAssumption DEF Init, PauseCovered, NextFlush
<1>2. PauseCovered /\ [Next]_vars => PauseCovered'
  <2> SUFFICES ASSUME PauseCovered, [Next]_vars
               PROVE  PauseCovered'
    OBVIOUS
  <2> USE PskAssumption DEF PauseCovered
  <2>1. CASE ThreadIdle \/ HandleSent
    BY <2>1 DEF ThreadIdle, HandleSent, NextFlush, history
  <2>2. CASE HandleFailed
    BY <2>2 DEF HandleFailed
  <2>3. CASE Tick
    BY <2>3 DEF Tick, Older
  <2>4. CASE UNCHANGED <<flush_in, failed_age>>
    BY <2>4
  <2> QED
    BY <2>1, <2>2, <2>3, <2>4 DEF Next, ThreadStep, Transport, ThreadEnds, ThreadWaits,
       BuildPacket, Timeout, TransportSends, TransportFails, Wakeup, Stop, StopJoin,
       Enqueue, vars, timers, history
<1> DEFINE Paced == reporter # "sending" /\ reporter' = "sending" =>
                      failed_age = RetrySeconds \/ Len(queue) >= ImmediateCount
<1>3. PauseCovered /\ [Next]_vars => [Paced]_vars
  <2> SUFFICES ASSUME PauseCovered, [Next]_vars,
                      reporter # "sending", reporter' = "sending"
               PROVE  failed_age = RetrySeconds \/ Len(queue) >= ImmediateCount
    OBVIOUS
  <2>1. BuildPacket
    BY DEF Next, ThreadStep, Transport, ThreadEnds, ThreadWaits, ThreadIdle,
       HandleSent, HandleFailed, Timeout, TransportSends, TransportFails, Tick, Wakeup,
       Stop, StopJoin, Enqueue, Improve, AppendNew, Wake, vars
  <2> QED
    BY <2>1, PskAssumption DEF BuildPacket, PauseCovered
<1> QED
  BY <1>1, <1>2, <1>3, PTL DEF Spec, RetryPaced

-----------------------------------------------------------------------------
(***************************************************************************)
(* A set of numbers has a least one.                                       *)
(***************************************************************************)
LEMMA LeastNatural ==
    ASSUME NEW S \in SUBSET Nat, S # {}
    PROVE  \E n \in S : \A m \in S : n <= m
<1>1. \E R : IsWellFoundedOn(R, Nat) /\ \A x, y \in Nat : y < x => <<y, x>> \in R
  <2>1. IsWellFoundedOn(OpToRel(<, Nat), Nat)
    BY NatLessThanWellFounded
  <2>2. \A x, y \in Nat : y < x => <<y, x>> \in OpToRel(<, Nat)
    BY DEF OpToRel
  <2> QED
    BY <2>1, <2>2, Zenon
<1>2. PICK R : IsWellFoundedOn(R, Nat) /\ \A x, y \in Nat : y < x => <<y, x>> \in R
  BY <1>1
<1>3. PICK x \in S : \A y \in S : ~(<<y, x>> \in R)
  BY <1>2, WFMin
<1>4. \A y \in S : ~(y < x)
  BY <1>2, <1>3, Zenon
<1> QED
  BY <1>4

(***************************************************************************)
(* Induction up to n, on a set.                                            *)
(***************************************************************************)
LEMMA UpTo ==
    ASSUME NEW n \in Nat, NEW S, 0 \in S,
           \A m \in 0 .. n - 1 : m \in S => m + 1 \in S
    PROVE  0 .. n \subseteq S
<1> DEFINE Bad == {m \in 0 .. n : m \notin S}
<1> SUFFICES ASSUME Bad # {}
             PROVE  FALSE
  OBVIOUS
<1>1. Bad \in SUBSET Nat
  OBVIOUS
<1>2. PICK m \in Bad : \A k \in Bad : m <= k
  BY <1>1, LeastNatural
<1>3. m # 0 /\ m - 1 \in 0 .. n - 1
  BY <1>2
<1>4. m - 1 \in S
  BY <1>2, <1>3
<1>5. (m - 1) + 1 = m
  BY <1>2
<1> QED
  BY <1>2, <1>3, <1>4, <1>5

-----------------------------------------------------------------------------
(***************************************************************************)
(* The table of recent senders: an entry per sender, as many as the table  *)
(* has slots. Which of them a new spot of their sender would be ignored    *)
(* for, and the table's state, relative to a set of senders to keep.       *)
(***************************************************************************)
Entry == [call : Calls, age : 0 .. FlushSeconds]

Fresh(table) == {table[i].call : i \in {j \in DOMAIN table : table[j].age < FlushSeconds}}

Kept(table, keep) ==
    /\ table \in Seq(Entry) /\ Len(table) <= RecentSize
    /\ \A i, j \in 1 .. Len(table) : table[i].call = table[j].call => i = j
    /\ \A i \in 1 .. Len(table) : table[i].age < FlushSeconds => table[i].call \in keep

Has(table, entry) == \E i \in 1 .. Len(table) : table[i] = entry

(***************************************************************************)
(* A table with entries has an oldest one, the first of its age.           *)
(***************************************************************************)
LEMMA OldestEntry ==
    ASSUME NEW table \in Seq(Entry), table # <<>>
    PROVE  \E i \in DOMAIN table : \A j \in DOMAIN table :
               table[i].age > table[j].age \/ (table[i].age = table[j].age /\ i <= j)
<1> DEFINE Left(j) == FlushSeconds - table[j].age
           Lefts   == {Left(j) : j \in DOMAIN table}
<1>0. DOMAIN table = 1 .. Len(table) /\ Len(table) \in Nat /\ 1 \in DOMAIN table
  OBVIOUS
<1>1. \A j \in DOMAIN table : table[j].age \in 0 .. FlushSeconds
  <2>1. \A j \in DOMAIN table : table[j] \in Entry
    BY <1>0
  <2> QED
    BY <2>1 DEF Entry
<1>2. FlushSeconds \in Nat
  BY PskAssumption
<1>3. \A j \in DOMAIN table : Left(j) \in Nat
  BY <1>1, <1>2
<1>4. Lefts \in SUBSET Nat /\ Lefts # {}
  BY <1>0, <1>3
<1> HIDE DEF Lefts
<1>5. PICK l \in Lefts : \A m \in Lefts : l <= m
  BY <1>4, LeastNatural
<1> DEFINE Oldest == {j \in DOMAIN table : Left(j) = l}
<1>6. Oldest \in SUBSET Nat /\ Oldest # {}
  BY <1>0, <1>5 DEF Lefts
<1> HIDE DEF Oldest
<1>7. PICK i \in Oldest : \A j \in Oldest : i <= j
  BY <1>6, LeastNatural
<1>8. i \in DOMAIN table /\ Left(i) = l
  BY <1>7 DEF Oldest
<1>9. ASSUME NEW j \in DOMAIN table
      PROVE  table[i].age > table[j].age \/ (table[i].age = table[j].age /\ i <= j)
  <2>1. l <= Left(j)
    BY <1>5 DEF Lefts
  <2>2. CASE Left(j) = l
    <3>1. i <= j
      BY <1>7, <2>2 DEF Oldest
    <3>2. table[i].age = table[j].age
      BY <1>1, <1>2, <1>8, <2>2
    <3> QED
      BY <3>1, <3>2
  <2>3. CASE Left(j) # l
    BY <1>1, <1>2, <1>8, <2>1, <2>3
  <2> QED
    BY <2>2, <2>3
<1> QED
  BY <1>8, <1>9

(***************************************************************************)
(* A full table without an entry for call has one for a sender that need   *)
(* not be kept, when those to keep, call among them, fit into the table.   *)
(***************************************************************************)
LEMMA SomeForgettable ==
    ASSUME NEW keep, IsFiniteSet(keep), Cardinality(keep) <= RecentSize,
           NEW table, Kept(table, keep), Len(table) = RecentSize,
           NEW call \in keep, \A i \in 1 .. Len(table) : table[i].call # call
    PROVE  \E i \in 1 .. Len(table) : table[i].call \notin keep
<1> DEFINE others == keep \ {call}
           name   == [i \in 1 .. RecentSize |-> table[i].call]
<1>0. RecentSize \in Nat
  BY PskAssumption
<1>1. IsFiniteSet(others) /\ Cardinality(others) = Cardinality(keep) - 1
  BY FS_RemoveElement
<1>2. Cardinality(keep) \in Nat
  BY FS_CardinalityType
<1>3. SUFFICES ASSUME \A i \in 1 .. Len(table) : table[i].call \in keep
               PROVE  FALSE
  OBVIOUS
<1>4. name \in [1 .. RecentSize -> others]
  BY <1>3
<1>5. \A i, j \in 1 .. RecentSize : name[i] = name[j] => i = j
  BY DEF Kept
<1> HIDE DEF others, name
<1>6. name \in Injection(1 .. RecentSize, others)
  BY <1>4, <1>5 DEF Injection, IsInjective
<1>7. Cardinality(1 .. RecentSize) <= Cardinality(others)
  BY <1>1, <1>6, FS_Injection
<1>8. Cardinality(1 .. RecentSize) = RecentSize
  BY <1>0, FS_Interval
<1> QED
  BY <1>0, <1>1, <1>2, <1>7, <1>8

(***************************************************************************)
(* mark_recent for one sender: it has an entry of age 0, and the entry of  *)
(* another sender to keep stays. Only one that is too old to matter is     *)
(* overwritten.                                                            *)
(***************************************************************************)
LEMMA OneMarked ==
    ASSUME NEW keep, IsFiniteSet(keep), Cardinality(keep) <= RecentSize,
           NEW table, Kept(table, keep), NEW call \in keep, call \in Calls
    PROVE  /\ Kept(MarkOne(table, call), keep)
           /\ Has(MarkOne(table, call), [call |-> call, age |-> 0])
           /\ \A entry : Has(table, entry) /\ entry.age < FlushSeconds /\ entry.call # call
                 => Has(MarkOne(table, call), entry)
<1> DEFINE known == {i \in DOMAIN table : table[i].call = call}
           new   == [call |-> call, age |-> 0]
<1>0. /\ table \in Seq(Entry) /\ Len(table) \in Nat /\ DOMAIN table = 1 .. Len(table)
      /\ Len(table) <= RecentSize /\ RecentSize \in Nat \ {0}
      /\ FlushSeconds \in Nat \ {0}
  BY PskAssumption DEF Kept
<1>1. new \in Entry /\ new.call = call /\ new.age = 0
  BY <1>0 DEF Entry
<1>2. PICK slot : slot = MarkSlot(table, call)
  OBVIOUS
<1>3. PICK marked : marked = MarkOne(table, call)
  OBVIOUS
<1>4. marked = [i \in DOMAIN table \cup {slot} |-> IF i = slot THEN new ELSE table[i]]
  BY <1>2, <1>3 DEF MarkOne
<1>5. ASSUME NEW n \in Nat, DOMAIN table \cup {slot} = 1 .. n, n <= RecentSize, slot \in 1 .. n,
             \A i \in 1 .. Len(table) : i # slot => table[i].call # call,
             slot \in 1 .. Len(table) =>
                 table[slot].call = call \/ ~(table[slot].age < FlushSeconds)
      PROVE  /\ Kept(marked, keep)
             /\ Has(marked, new)
             /\ \A entry : Has(table, entry) /\ entry.age < FlushSeconds /\ entry.call # call
                   => Has(marked, entry)
  <2>0. /\ marked = [i \in 1 .. n |-> IF i = slot THEN new ELSE table[i]]
        /\ \A i \in 1 .. n : i # slot => i \in 1 .. Len(table)
        /\ 1 .. Len(table) \subseteq 1 .. n
    BY <1>0, <1>4, <1>5
  <2> HIDE DEF new
  <2>1. \A i \in 1 .. n : (IF i = slot THEN new ELSE table[i]) \in Entry
    BY <1>0, <1>1, <2>0
  <2>2. marked \in Seq(Entry) /\ Len(marked) = n
    BY <2>0, <2>1
  <2>3. /\ marked[slot] = new
        /\ \A i \in 1 .. n : i # slot => marked[i] = table[i] /\ table[i].call # call
    BY <1>5, <2>0
  <2>4. \A i, j \in 1 .. n : marked[i].call = marked[j].call => i = j
    BY <1>1, <2>0, <2>3 DEF Kept
  <2>5. \A i \in 1 .. n : marked[i].age < FlushSeconds => marked[i].call \in keep
    BY <1>1, <2>0, <2>3 DEF Kept
  <2>6. Kept(marked, keep)
    BY <1>5, <2>2, <2>4, <2>5 DEF Kept
  <2>7. ASSUME NEW entry, Has(table, entry), entry.age < FlushSeconds, entry.call # call
        PROVE  Has(marked, entry)
    <3>1. PICK i \in 1 .. Len(table) : table[i] = entry
      BY <2>7 DEF Has
    <3>2. i # slot
      BY <1>5, <2>7, <3>1
    <3> QED
      BY <2>0, <2>2, <2>3, <3>1, <3>2 DEF Has
  <2>8. Has(marked, new)
    BY <1>5, <2>2, <2>3 DEF Has
  <2> QED
    BY <2>6, <2>7, <2>8
<1> HIDE DEF new
<1>6. CASE known # {}
  <2>1. slot \in known
    BY <1>2, <1>6 DEF MarkSlot
  <2>2. /\ DOMAIN table \cup {slot} = 1 .. Len(table) /\ slot \in 1 .. Len(table)
        /\ table[slot].call = call
    BY <1>0, <2>1
  <2>3. \A i \in 1 .. Len(table) : i # slot => table[i].call # call
    BY <2>2 DEF Kept
  <2> QED
    BY <1>0, <1>3, <1>5, <2>2, <2>3 DEF new
<1>7. CASE known = {} /\ Len(table) < RecentSize
  <2>1. slot = Len(table) + 1
    BY <1>2, <1>7 DEF MarkSlot
  <2>2. /\ DOMAIN table \cup {slot} = 1 .. Len(table) + 1 /\ slot \in 1 .. Len(table) + 1
        /\ slot \notin 1 .. Len(table) /\ Len(table) + 1 <= RecentSize
        /\ Len(table) + 1 \in Nat
    BY <1>0, <1>7, <2>1
  <2>3. \A i \in 1 .. Len(table) : table[i].call # call
    BY <1>0, <1>7
  <2> QED
    BY <1>3, <1>5, <2>2, <2>3 DEF new
<1>8. CASE known = {} /\ ~(Len(table) < RecentSize)
  <2>1. Len(table) = RecentSize /\ table # <<>>
    <3>0. ~(Len(table) < RecentSize)
      BY <1>8
    <3>1. Len(table) = RecentSize
      <4>1. \A l, r \in Nat : l <= r /\ ~(l < r) => l = r
        OBVIOUS
      <4> QED
        BY <1>0, <3>0, <4>1, Zenon
    <3>2. Len(<<>>) = 0
      OBVIOUS
    <3> QED
      BY <1>0, <3>1, <3>2
  <2>2. slot = CHOOSE i \in DOMAIN table : \A j \in DOMAIN table :
                   table[i].age > table[j].age \/ (table[i].age = table[j].age /\ i <= j)
    BY <1>2, <1>8 DEF MarkSlot
  <2>3. /\ slot \in DOMAIN table
        /\ \A j \in DOMAIN table :
               table[slot].age > table[j].age \/ (table[slot].age = table[j].age /\ slot <= j)
    BY <1>0, <2>1, <2>2, OldestEntry, Zenon
  <2>4. \A i \in 1 .. Len(table) : table[i].call # call
    BY <1>0, <1>8
  <2>5. PICK i \in 1 .. Len(table) : table[i].call \notin keep
    BY <2>1, <2>4, SomeForgettable
  <2>6. ~(table[i].age < FlushSeconds) /\ table[i].age \in 0 .. FlushSeconds
        /\ table[slot].age \in 0 .. FlushSeconds
    <3>1. ~(table[i].age < FlushSeconds)
      BY <2>5 DEF Kept
    <3>2. table[i] \in Entry /\ table[slot] \in Entry
      BY <1>0, <2>3
    <3> QED
      BY <3>1, <3>2 DEF Entry
  <2>7. ~(table[slot].age < FlushSeconds)
    BY <1>0, <2>3, <2>6
  <2>8. DOMAIN table \cup {slot} = 1 .. Len(table) /\ slot \in 1 .. Len(table)
    BY <1>0, <2>3
  <2> QED
    BY <1>0, <1>3, <1>5, <2>4, <2>7, <2>8 DEF new
<1> QED
  BY <1>6, <1>7, <1>8 DEF new

(***************************************************************************)
(* mark_recent, one spot of a packet after the other.                      *)
(***************************************************************************)
LEMMA MarkedInTurn ==
    ASSUME NEW reports \in Seq(Report)
    PROVE  \E marked :
              /\ marked[0] = recent
              /\ \A i \in 1 .. Len(reports) :
                    marked[i] = MarkOne(marked[i - 1], reports[i].call)
              /\ MarkRecent(reports) = marked[Len(reports)]
<1> DEFINE N == Len(reports)
           Loop(f, m) == f = [i \in 0 .. m |-> IF i = 0 THEN recent
                                               ELSE MarkOne(f[i - 1], reports[i].call)]
           marked == CHOOSE f : Loop(f, N)
<1>1. N \in Nat
  OBVIOUS
<1>2. \E f : Loop(f, N)
  <2> DEFINE Good == {m \in 0 .. N : \E f : Loop(f, m)}
  <2>1. 0 \in Good
    <3> DEFINE f == [i \in 0 .. 0 |-> recent]
    <3>1. f = [i \in 0 .. 0 |-> IF i = 0 THEN recent
                                ELSE MarkOne(f[i - 1], reports[i].call)]
      OBVIOUS
    <3> HIDE DEF f
    <3>2. Loop(f, 0)
      BY <3>1
    <3> QED
      BY <1>1, <3>2
  <2>2. ASSUME NEW m \in 0 .. N - 1, m \in Good
        PROVE  m + 1 \in Good
    <3>1. PICK f : Loop(f, m)
      BY <2>2
    <3> DEFINE g == [i \in 0 .. m + 1 |-> IF i \in 0 .. m THEN f[i]
                                          ELSE MarkOne(f[m], reports[m + 1].call)]
               h == [i \in 0 .. m + 1 |-> IF i = 0 THEN recent
                                          ELSE MarkOne(g[i - 1], reports[i].call)]
    <3>2. ASSUME NEW i \in 0 .. m + 1
          PROVE  g[i] = h[i]
      <4>1. CASE i = 0
        BY <3>1, <4>1
      <4>2. CASE i \in 1 .. m
        <5>1. i \in 0 .. m /\ i - 1 \in 0 .. m /\ i \in 0 .. m + 1 /\ i - 1 \in 0 .. m + 1
          BY <4>2
        <5>2. g[i] = f[i] /\ g[i - 1] = f[i - 1]
          BY <5>1
        <5>3. f[i] = MarkOne(f[i - 1], reports[i].call)
          BY <3>1, <4>2, <5>1
        <5> QED
          BY <4>2, <5>1, <5>2, <5>3
      <4>3. CASE i = m + 1
        <5>1. m \in 0 .. m /\ m \in 0 .. m + 1 /\ i - 1 = m /\ i \notin 0 .. m /\ i # 0
          BY <4>3
        <5>2. g[m] = f[m] /\ g[i] = MarkOne(f[m], reports[m + 1].call)
          BY <4>3, <5>1
        <5> QED
          BY <4>3, <5>1, <5>2
      <4> QED
        BY <4>1, <4>2, <4>3
    <3>3. g = h
      BY <3>2
    <3> HIDE DEF g
    <3>4. Loop(g, m + 1)
      BY <3>3
    <3> QED
      BY <1>1, <3>4
  <2> HIDE DEF Good
  <2>3. 0 .. N \subseteq Good
    BY <1>1, <2>1, <2>2, UpTo
  <2>4. N \in Good
    BY <1>1, <2>3
  <2> QED
    BY <2>4, Zenon DEF Good
<1>3. Loop(marked, N)
  BY <1>2, Zenon
<1>4. MarkRecent(reports) = marked[N]
  BY DEF MarkRecent
<1> HIDE DEF marked
<1>5. 0 \in 0 .. N /\ \A i \in 1 .. N : i \in 0 .. N /\ i # 0
  BY <1>1
<1>6. marked = [i \in 0 .. N |-> IF i = 0 THEN recent
                                 ELSE MarkOne(marked[i - 1], reports[i].call)]
  BY <1>3
<1>7. /\ marked[0] = recent
      /\ \A i \in 1 .. N : marked[i] = MarkOne(marked[i - 1], reports[i].call)
  BY <1>5, <1>6
<1> QED
  BY <1>4, <1>7

(***************************************************************************)
(* The whole packet: every sender of it has an entry of age 0, and the     *)
(* other senders to keep have theirs, when all of them fit into the table. *)
(***************************************************************************)
LEMMA PacketMarked ==
    ASSUME NEW keep, IsFiniteSet(keep), Cardinality(keep) <= RecentSize, Kept(recent, keep),
           NEW reports \in Seq(Report), \A n \in 1 .. Len(reports) : reports[n].call \in keep
    PROVE  /\ Kept(MarkRecent(reports), keep)
           /\ \A n \in 1 .. Len(reports) :
                 Has(MarkRecent(reports), [call |-> reports[n].call, age |-> 0])
           /\ \A i \in 1 .. Len(recent) :
                 recent[i].age < FlushSeconds
                 /\ (\A n \in 1 .. Len(reports) : reports[n].call # recent[i].call)
                 => Has(MarkRecent(reports), recent[i])
<1> DEFINE N      == Len(reports)
           New(n) == [call |-> reports[n].call, age |-> 0]
           Spared(i) == /\ i \in 1 .. Len(recent) /\ recent[i].age < FlushSeconds
                        /\ \A n \in 1 .. N : reports[n].call # recent[i].call
<1>1. N \in Nat /\ FlushSeconds \in Nat \ {0}
  BY PskAssumption
<1>2. \A n \in 1 .. N : reports[n].call \in keep /\ reports[n].call \in Calls
  <2>1. \A n \in 1 .. N : reports[n] \in Report
    OBVIOUS
  <2> QED
    BY <2>1 DEF Report
<1>3. PICK marked :
          /\ marked[0] = recent
          /\ \A i \in 1 .. N : marked[i] = MarkOne(marked[i - 1], reports[i].call)
          /\ MarkRecent(reports) = marked[N]
  BY MarkedInTurn
<1> DEFINE Done == {m \in 0 .. N : /\ Kept(marked[m], keep)
                                   /\ \A n \in 1 .. m : Has(marked[m], New(n))
                                   /\ \A i : Spared(i) => Has(marked[m], recent[i])}
<1> HIDE DEF Spared
<1>4. 0 \in Done
  <2>1. \A i : Spared(i) => Has(recent, recent[i])
    BY DEF Spared, Has
  <2>2. 0 \in 0 .. N /\ \A n \in 1 .. 0 : FALSE
    BY <1>1
  <2> QED
    BY <1>3, <2>1, <2>2
<1>5. ASSUME NEW m \in 0 .. N - 1, m \in Done
      PROVE  m + 1 \in Done
  <2>0. m + 1 \in 1 .. N /\ (m + 1) - 1 = m /\ m + 1 \in 0 .. N
    BY <1>1
  <2>1. PICK call : call = reports[m + 1].call
    OBVIOUS
  <2>2. PICK table : table = marked[m]
    OBVIOUS
  <2>3. PICK next : next = MarkOne(table, call)
    OBVIOUS
  <2>4. marked[m + 1] = next
    BY <1>3, <2>0, <2>1, <2>2, <2>3
  <2>5. /\ Kept(table, keep) /\ call \in keep /\ call \in Calls
        /\ \A n \in 1 .. m : Has(table, New(n))
        /\ \A i : Spared(i) => Has(table, recent[i])
    BY <1>2, <1>5, <2>0, <2>1, <2>2
  <2>6. /\ Kept(next, keep)
        /\ Has(next, [call |-> call, age |-> 0])
        /\ \A entry : Has(table, entry) /\ entry.age < FlushSeconds /\ entry.call # call
              => Has(next, entry)
    <3>1. Kept(table, keep) /\ call \in keep /\ call \in Calls
      BY <2>5
    <3> QED
      BY <2>3, <3>1, OneMarked
  <2>7. Has(next, New(m + 1))
    BY <2>1, <2>6
  <2>8. ASSUME NEW entry, Has(table, entry), entry.age < FlushSeconds, entry.call # call
        PROVE  Has(next, entry)
    BY <2>6, <2>8
  <2>9. ASSUME NEW n \in 1 .. m + 1
        PROVE  Has(next, New(n))
    <3>1. CASE reports[n].call = call
      <4>1. New(n) = New(m + 1)
        BY <2>1, <3>1
      <4> QED
        BY <2>7, <4>1, Zenon
    <3>2. CASE reports[n].call # call
      <4>1. n \in 1 .. m
        BY <2>0, <2>1, <3>2
      <4>2. New(n).age < FlushSeconds /\ New(n).call # call
        BY <1>1, <3>2
      <4>3. Has(table, New(n))
        BY <2>5, <4>1
      <4> HIDE DEF New
      <4> QED
        BY <2>8, <4>2, <4>3
    <3> QED
      BY <3>1, <3>2
  <2>10. ASSUME NEW i, Spared(i)
         PROVE  Has(next, recent[i])
    <3>1. recent[i].age < FlushSeconds /\ recent[i].call # call
      BY <2>0, <2>1, <2>10 DEF Spared
    <3>2. Has(table, recent[i])
      BY <2>5, <2>10
    <3> QED
      BY <2>8, <3>1, <3>2
  <2> HIDE DEF New
  <2> QED
    BY <2>0, <2>4, <2>6, <2>9, <2>10
<1> HIDE DEF Done
<1>6. 0 .. N \subseteq Done
  BY <1>1, <1>4, <1>5, UpTo
<1>7. N \in Done
  BY <1>1, <1>6
<1>8. \A i \in 1 .. Len(recent) : Spared(i) <=>
          /\ recent[i].age < FlushSeconds
          /\ \A n \in 1 .. N : reports[n].call # recent[i].call
  BY DEF Spared
<1> QED
  BY <1>3, <1>7, <1>8 DEF Done

-----------------------------------------------------------------------------
(***************************************************************************)
(* A sender whose spot was sent in the last FlushSeconds is in the table,  *)
(* or still in the packet that was sent and not yet marked; no spot of     *)
(* such a sender is queued, but for the ones in that packet.               *)
(***************************************************************************)
InPacket == {packet[i].call : i \in DOMAIN packet}

Unmarked(call) == reporter = "sent" /\ call \in InPacket

SentKnown ==
    \A c \in Calls : sent_age[c] < FlushSeconds =>
        \/ \E i \in 1 .. Len(recent) : recent[i].call = c /\ recent[i].age <= sent_age[c]
        \/ Unmarked(c)

QueuedUnsent ==
    \A i \in 1 .. Len(queue) :
        sent_age[queue[i].call] = FlushSeconds \/ Unmarked(queue[i].call)

RecentInv ==
    /\ Kept(recent, Calls)
    /\ sent_age \in [Calls -> 0 .. FlushSeconds]
    /\ SentKnown /\ QueuedUnsent

(***************************************************************************)
(* The table has room: when a packet is marked, its senders and those that *)
(* the table still stands for are not more than its slots.                 *)
(***************************************************************************)
RoomInTable ==
    reporter = "sent" => Cardinality(Fresh(recent) \cup InPacket) <= RecentSize

LEMMA SendersFinite ==
    ASSUME recent \in Seq(Entry), packet \in Seq(Report)
    PROVE  IsFiniteSet(Fresh(recent) \cup InPacket)
<1> DEFINE InTable == {recent[i].call : i \in DOMAIN recent}
           f       == [i \in 1 .. Len(recent) |-> recent[i].call]
           g       == [i \in 1 .. Len(packet) |-> packet[i].call]
<1>1. /\ Len(recent) \in Nat /\ DOMAIN recent = 1 .. Len(recent)
      /\ Len(packet) \in Nat /\ DOMAIN packet = 1 .. Len(packet)
  OBVIOUS
<1>2. IsFiniteSet(1 .. Len(recent)) /\ IsFiniteSet(1 .. Len(packet))
  BY <1>1, FS_Interval
<1>3. f \in Surjection(1 .. Len(recent), InTable)
  BY <1>1 DEF Surjection
<1>4. g \in Surjection(1 .. Len(packet), InPacket)
  BY <1>1 DEF Surjection, InPacket
<1>5. Fresh(recent) \subseteq InTable
  BY DEF Fresh
<1> HIDE DEF InTable, f, g
<1>6. IsFiniteSet(InTable) /\ IsFiniteSet(InPacket)
  BY <1>2, <1>3, <1>4, FS_Surjection
<1>7. IsFiniteSet(Fresh(recent))
  BY <1>5, <1>6, FS_Subset
<1> QED
  BY <1>6, <1>7, FS_Union

LEMMA RecentInitially == Init => RecentInv
<1> SUFFICES ASSUME Init
             PROVE  RecentInv
  OBVIOUS
<1>1. FlushSeconds \in Nat \ {0} /\ RecentSize \in Nat
  BY PskAssumption
<1>2. recent = <<>> /\ queue = <<>> /\ sent_age = [c \in Calls |-> FlushSeconds]
  BY DEF Init
<1>3. Kept(recent, Calls)
  BY <1>1, <1>2 DEF Kept
<1>4. sent_age \in [Calls -> 0 .. FlushSeconds] /\ SentKnown /\ QueuedUnsent
  BY <1>1, <1>2 DEF SentKnown, QueuedUnsent
<1> QED
  BY <1>3, <1>4 DEF RecentInv

(***************************************************************************)
(* A new sender in the array was not sent lately: enqueue found no fresh   *)
(* entry of it, and it is in no packet, whose senders are still queued.    *)
(***************************************************************************)
LEMMA RecentEnqueue ==
    ASSUME QueueInv, RecentInv, NEW report \in Report, Enqueue(report)
    PROVE  RecentInv'
<1>0. /\ queue \in Seq(Report) /\ packet \in Seq(Report) /\ recent \in Seq(Entry)
      /\ Len(queue) \in Nat /\ Len(packet) \in Nat
      /\ report.call \in Calls /\ FlushSeconds \in Nat
      /\ DOMAIN recent = 1 .. Len(recent) /\ DOMAIN queue = 1 .. Len(queue)
      /\ DOMAIN packet = 1 .. Len(packet)
  BY SpotShape, PskAssumption DEF QueueInv, QueueShape, RecentInv, Kept
<1>1. recent' = recent /\ sent_age' = sent_age /\ packet' = packet
  BY DEF Enqueue
<1>2. (reporter' = "sent") = (reporter = "sent")
  BY DEF Enqueue, Improve, AppendNew, Wake
<1>3. InPacket' = InPacket /\ \A c : Unmarked(c)' = Unmarked(c)
  BY <1>1, <1>2 DEF InPacket, Unmarked
<1>4. SentKnown'
  BY <1>1, <1>3 DEF RecentInv, SentKnown
<1>5. QueuedUnsent'
  <2>1. CASE Improve(report)
    <3>1. /\ queue' = [i \in 1 .. Len(queue) |->
                         IF queue[i].call = report.call /\ report.snr > queue[i].snr
                         THEN report ELSE queue[i]]
      BY <1>0, <2>1 DEF Improve
    <3>2. Len(queue') = Len(queue) /\ \A i \in 1 .. Len(queue) : queue'[i].call = queue[i].call
      <4>1. \A i \in 1 .. Len(queue) : queue[i] \in Report
        BY <1>0
      <4>2. queue' \in Seq(Report) /\ Len(queue') = Len(queue)
        BY <1>0, <3>1, <4>1
      <4> QED
        BY <3>1, <4>2
    <3> QED
      BY <1>1, <1>3, <3>2 DEF RecentInv, QueuedUnsent
  <2>2. CASE AppendNew(report)
    <3>1. /\ Len(queue') = Len(queue) + 1
          /\ queue'[Len(queue) + 1] = report
          /\ \A i \in 1 .. Len(queue) : queue'[i] = queue[i]
      BY <1>0, <2>2 DEF AppendNew
    <3>2. \A i \in 1 .. Len(queue) : queue[i].call # report.call
      BY <1>0, <2>2 DEF AppendNew, Queued
    <3>3. ~Unmarked(report.call)
      <4>1. SUFFICES ASSUME Unmarked(report.call)
                     PROVE  FALSE
        OBVIOUS
      <4>2. PICK n \in 1 .. Len(packet) : packet[n].call = report.call
        BY <1>0, <4>1 DEF Unmarked, InPacket
      <4>3. n \in 1 .. Len(queue) /\ queue[n].call = report.call
        BY <1>0, <4>1, <4>2 DEF Unmarked, QueueInv, PacketAtFront
      <4> QED
        BY <3>2, <4>3
    <3>4. sent_age[report.call] = FlushSeconds
      <4>1. sent_age[report.call] \in 0 .. FlushSeconds
        BY <1>0 DEF RecentInv
      <4>2. SUFFICES ASSUME sent_age[report.call] < FlushSeconds
                     PROVE  FALSE
        BY <1>0, <4>1
      <4>3. PICK i \in 1 .. Len(recent) :
                recent[i].call = report.call /\ recent[i].age <= sent_age[report.call]
        BY <1>0, <3>3, <4>2 DEF RecentInv, SentKnown
      <4>4. recent[i] \in Entry
        BY <1>0
      <4>5. recent[i].age < FlushSeconds
        BY <1>0, <4>1, <4>2, <4>3, <4>4 DEF Entry
      <4> QED
        BY <1>0, <4>3, <4>5 DEF Enqueue, RecentlySent
    <3>5. ASSUME NEW i \in 1 .. Len(queue')
          PROVE  sent_age'[queue'[i].call] = FlushSeconds \/ Unmarked(queue'[i].call)
      <4>1. CASE i = Len(queue) + 1
        BY <1>1, <3>1, <3>4, <4>1
      <4>2. CASE i # Len(queue) + 1
        <5>1. i \in 1 .. Len(queue) /\ queue'[i] = queue[i]
          BY <1>0, <3>1, <4>2
        <5> QED
          BY <1>1, <5>1 DEF RecentInv, QueuedUnsent
      <4> QED
        BY <4>1, <4>2
    <3> QED
      BY <1>3, <3>5 DEF QueuedUnsent
  <2> QED
    BY <2>1, <2>2 DEF Enqueue
<1> QED
  BY <1>1, <1>4, <1>5 DEF RecentInv

(***************************************************************************)
(* The packet is marked and its spots leave the array: what is still       *)
(* queued has other senders, and no entry that matters was overwritten.    *)
(***************************************************************************)
LEMMA RecentSent ==
    ASSUME QueueInv, RecentInv, RoomInTable, HandleSent
    PROVE  RecentInv'
<1> DEFINE keep    == Fresh(recent) \cup InPacket
           reports == SubSeq(queue, 1, Len(packet))
<1>0. /\ queue \in Seq(Report) /\ packet \in Seq(Report) /\ recent \in Seq(Entry)
      /\ Len(queue) \in Nat /\ Len(packet) \in Nat /\ Len(packet) <= Len(queue)
      /\ DOMAIN recent = 1 .. Len(recent) /\ DOMAIN packet = 1 .. Len(packet)
      /\ FlushSeconds \in Nat \ {0}
  BY PskAssumption DEF QueueInv, QueueShape, PacketAtFront, RecentInv, Kept, HandleSent
<1>1. /\ recent' = MarkRecent(reports) /\ sent_age' = sent_age
      /\ reporter = "sent" /\ reporter' = "running"
  BY DEF HandleSent
<1>2. reports \in Seq(Report) /\ Len(reports) = Len(packet)
      /\ \A n \in 1 .. Len(packet) : reports[n] = queue[n] /\ reports[n].call = packet[n].call
  BY <1>0, <1>1 DEF QueueInv, PacketAtFront
<1>3. IsFiniteSet(keep) /\ Cardinality(keep) <= RecentSize
  BY <1>0, <1>1, SendersFinite DEF RoomInTable
<1>4. Kept(recent, keep)
  BY <1>0 DEF RecentInv, Kept, Fresh
<1>5. \A n \in 1 .. Len(reports) : reports[n].call \in keep
  BY <1>0, <1>2 DEF InPacket
<1> HIDE DEF keep, reports
<1>6. /\ Kept(recent', keep)
      /\ \A n \in 1 .. Len(reports) : Has(recent', [call |-> reports[n].call, age |-> 0])
      /\ \A i \in 1 .. Len(recent) :
            recent[i].age < FlushSeconds
            /\ (\A n \in 1 .. Len(reports) : reports[n].call # recent[i].call)
            => Has(recent', recent[i])
  <2>1. /\ Kept(MarkRecent(reports), keep)
        /\ \A n \in 1 .. Len(reports) :
              Has(MarkRecent(reports), [call |-> reports[n].call, age |-> 0])
        /\ \A i \in 1 .. Len(recent) :
              recent[i].age < FlushSeconds
              /\ (\A n \in 1 .. Len(reports) : reports[n].call # recent[i].call)
              => Has(MarkRecent(reports), recent[i])
    BY <1>2, <1>3, <1>4, <1>5, PacketMarked
  <2> QED
    BY <1>1, <2>1, Zenon
<1>7. Kept(recent', Calls)
  <2>1. \A i \in 1 .. Len(recent') : recent'[i] \in Entry
    BY <1>6 DEF Kept
  <2> QED
    BY <1>6, <2>1 DEF Kept, Entry
<1>8. SentKnown'
  <2> SUFFICES ASSUME NEW c \in Calls, sent_age[c] < FlushSeconds
               PROVE  \E i \in 1 .. Len(recent') :
                          recent'[i].call = c /\ recent'[i].age <= sent_age[c]
    BY <1>1 DEF SentKnown
  <2>0. sent_age[c] \in 0 .. FlushSeconds
    BY DEF RecentInv
  <2>1. CASE \E n \in 1 .. Len(reports) : reports[n].call = c
    <3>1. Has(recent', [call |-> c, age |-> 0])
      BY <1>6, <2>1
    <3> QED
      BY <2>0, <3>1 DEF Has
  <2>2. CASE \A n \in 1 .. Len(reports) : reports[n].call # c
    <3>1. c \notin InPacket
      BY <1>0, <1>2, <2>2 DEF InPacket
    <3>2. PICK i \in 1 .. Len(recent) : recent[i].call = c /\ recent[i].age <= sent_age[c]
      BY <3>1 DEF RecentInv, SentKnown, Unmarked
    <3>3. recent[i] \in Entry
      BY <1>0
    <3>4. recent[i].age < FlushSeconds
      BY <1>0, <2>0, <3>2, <3>3 DEF Entry
    <3>5. Has(recent', recent[i])
      BY <1>6, <2>2, <3>2, <3>4
    <3> QED
      BY <3>2, <3>5 DEF Has
  <2> QED
    BY <2>1, <2>2
<1>9. QueuedUnsent'
  <2>1. /\ Len(queue') = Len(queue) - Len(packet)
        /\ \A i \in 1 .. Len(queue') : queue'[i] = queue[i + Len(packet)]
    BY SentLeave
  <2> SUFFICES ASSUME NEW i \in 1 .. Len(queue')
               PROVE  sent_age'[queue'[i].call] = FlushSeconds
    BY DEF QueuedUnsent
  <2>2. i + Len(packet) \in 1 .. Len(queue) /\ i + Len(packet) \notin 1 .. Len(packet)
    BY <1>0, <2>1
  <2>3. queue[i + Len(packet)].call \notin InPacket
    BY <1>0, <2>2 DEF InPacket, QueueInv, QueueShape, PacketAtFront, HandleSent
  <2>4. sent_age[queue[i + Len(packet)].call] = FlushSeconds
    BY <2>2, <2>3 DEF RecentInv, QueuedUnsent, Unmarked
  <2> QED
    BY <1>1, <2>1, <2>4
<1> QED
  BY <1>1, <1>7, <1>8, <1>9 DEF RecentInv

(***************************************************************************)
(* A packet goes out: its senders count as sent, and wait to be marked.    *)
(***************************************************************************)
LEMMA RecentSends ==
    ASSUME QueueInv, RecentInv, TransportSends
    PROVE  RecentInv'
<1>0. /\ FlushSeconds \in Nat \ {0}
      /\ queue \in Seq(Report) /\ packet \in Seq(Report) /\ DOMAIN packet = 1 .. Len(packet)
  BY PskAssumption DEF QueueInv, QueueShape
<1>1. /\ recent' = recent /\ queue' = queue /\ packet' = packet
      /\ reporter = "sending" /\ reporter' = "sent"
      /\ sent_age' = [c \in Calls |-> IF c \in InPacket THEN 0 ELSE sent_age[c]]
  BY DEF TransportSends, InPacket
<1>2. InPacket' = InPacket
  BY <1>1 DEF InPacket
<1>3. \A c : Unmarked(c)' = (c \in InPacket) /\ ~Unmarked(c)
  BY <1>1, <1>2 DEF Unmarked
<1>4. Kept(recent', Calls) /\ sent_age' \in [Calls -> 0 .. FlushSeconds]
  BY <1>0, <1>1 DEF RecentInv
<1>5. SentKnown'
  BY <1>1, <1>3 DEF RecentInv, SentKnown
<1>6. QueuedUnsent'
  <2>1. \A i \in 1 .. Len(queue) : queue[i].call \in Calls
    BY SpotShape DEF QueueInv, QueueShape
  <2> QED
    BY <1>1, <1>3, <2>1 DEF RecentInv, QueuedUnsent
<1> QED
  BY <1>4, <1>5, <1>6 DEF RecentInv

(***************************************************************************)
(* A second passes for the table and for the senders alike.                *)
(***************************************************************************)
LEMMA RecentAges ==
    ASSUME QueueInv, RecentInv, Tick
    PROVE  RecentInv'
<1>0. /\ FlushSeconds \in Nat \ {0}
      /\ queue \in Seq(Report) /\ recent \in Seq(Entry) /\ Len(recent) \in Nat
      /\ DOMAIN recent = 1 .. Len(recent)
  BY PskAssumption DEF QueueInv, QueueShape, RecentInv, Kept
<1>1. /\ queue' = queue /\ packet' = packet /\ reporter' = reporter
      /\ recent' = [i \in 1 .. Len(recent) |->
                      [recent[i] EXCEPT !.age = Older(@, FlushSeconds)]]
      /\ sent_age' = [c \in Calls |-> Older(sent_age[c], FlushSeconds)]
  BY <1>0 DEF Tick
<1>2. \A c : Unmarked(c)' = Unmarked(c)
  BY <1>1 DEF Unmarked, InPacket
<1>3. \A age \in 0 .. FlushSeconds :
          /\ Older(age, FlushSeconds) \in 0 .. FlushSeconds
          /\ Older(age, FlushSeconds) < FlushSeconds => age < FlushSeconds
          /\ age = FlushSeconds => Older(age, FlushSeconds) = FlushSeconds
          /\ \A other \in 0 .. FlushSeconds :
                age <= other => Older(age, FlushSeconds) <= Older(other, FlushSeconds)
  BY <1>0 DEF Older
<1>4. \A i \in 1 .. Len(recent) : recent[i] \in Entry
  BY <1>0
<1>5. \A i \in 1 .. Len(recent) :
          /\ recent'[i] \in Entry
          /\ recent'[i].call = recent[i].call
          /\ recent'[i].age = Older(recent[i].age, FlushSeconds)
          /\ recent[i].call \in Calls /\ recent[i].age \in 0 .. FlushSeconds
  BY <1>1, <1>3, <1>4 DEF Entry
<1>6. recent' \in Seq(Entry) /\ Len(recent') = Len(recent)
  <2> DEFINE aged(i) == [recent[i] EXCEPT !.age = Older(@, FlushSeconds)]
  <2>1. \A i \in 1 .. Len(recent) : aged(i) \in Entry
    BY <1>1, <1>5
  <2>2. recent' = [i \in 1 .. Len(recent) |-> aged(i)]
    BY <1>1
  <2> HIDE DEF aged
  <2> QED
    BY <1>0, <2>1, <2>2
<1>7. Kept(recent', Calls)
  BY <1>5, <1>6 DEF RecentInv, Kept
<1>8. sent_age' \in [Calls -> 0 .. FlushSeconds]
      /\ \A c \in Calls : sent_age[c] \in 0 .. FlushSeconds
  BY <1>1, <1>3 DEF RecentInv
<1>9. SentKnown'
  <2> SUFFICES ASSUME NEW c \in Calls, sent_age'[c] < FlushSeconds, ~Unmarked(c)
               PROVE  \E i \in 1 .. Len(recent') :
                          recent'[i].call = c /\ recent'[i].age <= sent_age'[c]
    BY <1>2 DEF SentKnown
  <2>1. sent_age'[c] = Older(sent_age[c], FlushSeconds)
    BY <1>1
  <2>2. sent_age[c] < FlushSeconds
    BY <1>3, <1>8, <2>1
  <2>3. PICK i \in 1 .. Len(recent) : recent[i].call = c /\ recent[i].age <= sent_age[c]
    BY <2>2 DEF RecentInv, SentKnown
  <2>4. Older(recent[i].age, FlushSeconds) <= Older(sent_age[c], FlushSeconds)
    BY <1>3, <1>5, <1>8, <2>3
  <2> QED
    BY <1>5, <1>6, <2>1, <2>3, <2>4
<1>10. QueuedUnsent'
  <2>1. \A i \in 1 .. Len(queue) : queue[i].call \in Calls
    BY SpotShape DEF QueueInv, QueueShape
  <2>2. \A c \in Calls : sent_age[c] = FlushSeconds => sent_age'[c] = FlushSeconds
    BY <1>1, <1>3, <1>8
  <2> QED
    BY <1>1, <1>2, <2>1, <2>2 DEF RecentInv, QueuedUnsent
<1> QED
  BY <1>7, <1>8, <1>9, <1>10 DEF RecentInv

LEMMA RecentStep == QueueInv /\ RecentInv /\ RoomInTable /\ [Next]_vars => RecentInv'
<1> SUFFICES ASSUME QueueInv, RecentInv, RoomInTable, [Next]_vars
             PROVE  RecentInv'
  OBVIOUS
<1>1. CASE \E report \in Report : Enqueue(report)
  BY <1>1, RecentEnqueue
<1>2. CASE HandleSent
  BY <1>2, RecentSent
<1>3. CASE TransportSends
  BY <1>3, RecentSends
<1>4. CASE Tick
  BY <1>4, RecentAges
<1>5. CASE /\ UNCHANGED <<queue, recent, sent_age>>
           /\ (reporter # "sent" /\ reporter' # "sent") \/ UNCHANGED <<reporter, packet>>
  <2>1. \A c : Unmarked(c)' = Unmarked(c)
    BY <1>5 DEF Unmarked, InPacket
  <2> QED
    BY <1>5, <2>1 DEF RecentInv, SentKnown, QueuedUnsent
<1>6. CASE ThreadEnds \/ ThreadWaits \/ ThreadIdle \/ BuildPacket \/ TransportFails
              \/ HandleFailed \/ Timeout \/ Wakeup
  BY <1>5, <1>6 DEF ThreadEnds, ThreadWaits, ThreadIdle, BuildPacket, TransportFails,
                    HandleFailed, Timeout, Wakeup, history
<1>7. CASE Stop \/ StopJoin \/ UNCHANGED vars
  BY <1>5, <1>7 DEF Stop, StopJoin, Wake, vars, history
<1> QED
  BY <1>1, <1>2, <1>3, <1>4, <1>6, <1>7 DEF Next, ThreadStep, Transport

(***************************************************************************)
(* No sender is in two packets sent less than FlushSeconds apart, as long  *)
(* as the table has room for the senders it must remember: enqueue reads   *)
(* the table, reporter_thread writes it only after the packet went out,    *)
(* and mark_recent overwrites the oldest entry of a full table.            *)
(***************************************************************************)
THEOREM DuplicatesSuppressed == Spec /\ []RoomInTable => NoDuplicateSent
<1> DEFINE Unsent == reporter = "sending" /\ reporter' = "sent" =>
                       \A i \in DOMAIN packet : sent_age[packet[i].call] = FlushSeconds
<1>1. QueueInv /\ RecentInv /\ [Next]_vars => [Unsent]_vars
  <2> SUFFICES ASSUME QueueInv, RecentInv, reporter = "sending",
                      NEW i \in DOMAIN packet
               PROVE  sent_age[packet[i].call] = FlushSeconds
    OBVIOUS
  <2>1. DOMAIN packet = 1 .. Len(packet) /\ Len(packet) \in Nat /\ Len(queue) \in Nat
    BY DEF QueueInv, QueueShape
  <2>2. i \in 1 .. Len(queue) /\ packet[i].call = queue[i].call
    BY <2>1 DEF QueueInv, PacketAtFront
  <2> QED
    BY <2>2 DEF RecentInv, QueuedUnsent, Unmarked
<1> QED
  BY <1>1, QueueInitially, QueueStep, RecentInitially, RecentStep, PTL
     DEF Spec, NoDuplicateSent
=============================================================================
