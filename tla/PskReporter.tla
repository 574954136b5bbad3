---------------------------- MODULE PskReporter ----------------------------
(***************************************************************************)
(* The PSK Reporter client (src/psk_reporter.c): an array of FT8 spots in  *)
(* RAM with one entry for each sender, a table of recently sent senders,   *)
(* and a thread that sends the spots in UDP packets.                       *)
(*                                                                         *)
(* A step is what a thread does while it holds the reporter's mutex, or    *)
(* what happens while the reporter thread is in the transport without it.  *)
(* Of a spot only the sender and its SNR matter; of a packet its reports   *)
(* and whether it carries the templates. 40 reports always fit into a      *)
(* packet (27 bytes each at most, 1400 in all), so every packet takes the  *)
(* first ImmediateCount spots of the array or, if there are fewer, all.    *)
(*                                                                         *)
(* Time is the wall clock. Each time stamp is kept as its distance from    *)
(* now, as far as the code can tell: flush_in is the time until next_flush *)
(* (0: it has come), an age is the time since a stamp, cut off where every *)
(* test on it has the same outcome.                                        *)
(***************************************************************************)
EXTENDS Integers, Sequences

CONSTANTS
    Calls, Snrs,      \* senders, and the SNRs they are heard with
    QueueCapacity,    \* PSK_REPORT_QUEUE_CAPACITY
    ImmediateCount,   \* PSK_REPORT_IMMEDIATE_COUNT
    FlushSeconds,     \* PSK_REPORT_FLUSH_SECONDS
    RetrySeconds,     \* PSK_REPORT_RETRY_SECONDS
    TemplateSeconds,  \* PSK_REPORT_TEMPLATE_SECONDS
    Jitter,           \* observation_id % 31
    RecentSize        \* entries of the recent-sender table

ASSUME PskAssumption ==
    /\ Snrs \subseteq Nat \ {0}
    /\ QueueCapacity \in Nat /\ ImmediateCount \in 1 .. QueueCapacity
    /\ FlushSeconds \in Nat \ {0} /\ RetrySeconds \in 1 .. FlushSeconds
    /\ TemplateSeconds \in Nat \ {0}
    /\ Jitter \in Nat
    /\ RecentSize \in Nat \ {0}

VARIABLES
    queue,             \* the spots, oldest first
    recent,            \* the senders of recent spots, with the age of the last one
    packet_count,      \* packets since the last failure; from 3 on it does not matter
    template_age,      \* since templates_last_sent
    flush_in,          \* until next_flush
    stopping, started,
    reporter,          \* where the reporter thread is
    packet, templates, \* the packet being sent; does it carry the templates?
    connected,         \* connected_fd >= 0
    best,              \* history: strongest spot accepted for a queued sender
    sent_age,          \* history: time since a spot of the sender was sent
    failed_age,        \* history: time since the last failure
    taught             \* history: packets with templates sent on this socket

timers  == <<template_age, flush_in>>
history == <<best, sent_age, failed_age, taught>>
vars    == <<queue, recent, packet_count, timers, stopping, started, reporter, packet,
             templates, connected, history>>

-----------------------------------------------------------------------------

Report == [call : Calls, snr : Snrs]

ReporterStates == {"running", "asleep", "sending", "sent", "failed", "done"}

Wake(state) == IF state = "asleep" THEN "running" ELSE state

Older(age, limit) == IF age < limit THEN age + 1 ELSE limit

Queued == {queue[i].call : i \in DOMAIN queue}

NextFlush == FlushSeconds + Jitter

(***************************************************************************)
(* mark_recent: a sent spot takes the table entry of its sender, else an   *)
(* empty one, else the oldest. Entries are used from the first on and      *)
(* never emptied.                                                          *)
(***************************************************************************)
MarkSlot(table, call) ==
    LET known == {i \in DOMAIN table : table[i].call = call}
    IN  IF known # {} THEN CHOOSE i \in known : TRUE
        ELSE IF Len(table) < RecentSize THEN Len(table) + 1
        ELSE CHOOSE i \in DOMAIN table : \A j \in DOMAIN table :
                 table[i].age > table[j].age \/ (table[i].age = table[j].age /\ i <= j)

MarkOne(table, call) ==
    LET slot == MarkSlot(table, call)
    IN  [i \in DOMAIN table \cup {slot} |->
            IF i = slot THEN [call |-> call, age |-> 0] ELSE table[i]]

\* Mutant: a packet marks only its first sender.
MarkFirst(reports) == MarkOne(recent, reports[1].call)

MarkRecent(reports) ==
    LET marked[n \in 0 .. Len(reports)] ==
            IF n = 0 THEN recent ELSE MarkOne(marked[n - 1], reports[n].call)
    IN  marked[Len(reports)]

Init ==
    /\ queue = <<>> /\ recent = <<>>
    /\ packet_count = 0
    /\ template_age = TemplateSeconds /\ flush_in = NextFlush
    /\ stopping = FALSE /\ started = TRUE
    /\ reporter = "running"
    /\ packet = <<>> /\ templates = FALSE
    /\ connected = FALSE
    /\ best = [c \in Calls |-> 0]
    /\ sent_age = [c \in Calls |-> FlushSeconds]
    /\ failed_age = RetrySeconds
    /\ taught = 0

-----------------------------------------------------------------------------
(***************************************************************************)
(* psk_reporter_enqueue: a sender reported in the last FlushSeconds is     *)
(* ignored; a queued one keeps its stronger spot; a new one is appended    *)
(* unless the array is full or the reporter stops.                         *)
(***************************************************************************)
RecentlySent(call) ==
    \E i \in DOMAIN recent : recent[i].call = call /\ recent[i].age < FlushSeconds

\* Mutant: the latest spot replaces the queued one.
ReplaceQueued(report) ==
    /\ report.call \in Queued
    /\ queue' = [i \in DOMAIN queue |->
                    IF queue[i].call = report.call THEN report ELSE queue[i]]
    /\ UNCHANGED reporter

Improve(report) ==
    /\ report.call \in Queued
    /\ queue' = [i \in DOMAIN queue |->
                    IF queue[i].call = report.call /\ report.snr > queue[i].snr
                    THEN report ELSE queue[i]]
    /\ UNCHANGED reporter

AppendNew(report) ==
    /\ report.call \notin Queued
    /\ Len(queue) < QueueCapacity /\ ~stopping
    /\ queue' = Append(queue, report)
    /\ reporter' = IF Len(queue') >= ImmediateCount THEN Wake(reporter) ELSE reporter

Enqueue(report) ==
    /\ started
    /\ ~RecentlySent(report.call)
    /\ Improve(report) \/ AppendNew(report)
    /\ best' = [best EXCEPT ![report.call] = IF report.snr > @ THEN report.snr ELSE @]
    /\ UNCHANGED <<recent, packet_count, timers, stopping, started, packet, templates,
                   connected, sent_age, failed_age, taught>>

-----------------------------------------------------------------------------
(***************************************************************************)
(* One turn of reporter_thread: end; wait for ImmediateCount spots or the  *)
(* flush time; postpone the flush of an empty array; or build a packet and *)
(* release the mutex.                                                      *)
(***************************************************************************)
ThreadEnds ==
    /\ reporter = "running" /\ stopping
    /\ reporter' = "done"
    /\ UNCHANGED <<queue, recent, packet_count, timers, stopping, started, packet,
                   templates, connected, history>>

ThreadWaits ==
    /\ reporter = "running" /\ ~stopping
    /\ Len(queue) < ImmediateCount /\ flush_in > 0
    /\ reporter' = "asleep"
    /\ UNCHANGED <<queue, recent, packet_count, timers, stopping, started, packet,
                   templates, connected, history>>

ThreadIdle ==
    /\ reporter = "running" /\ ~stopping
    /\ queue = <<>> /\ flush_in = 0
    /\ flush_in' = NextFlush
    /\ UNCHANGED <<queue, recent, packet_count, template_age, stopping, started, reporter,
                   packet, templates, connected, history>>

\* Mutant: only full packets are sent.
BuildFullPacket ==
    /\ reporter = "running" /\ ~stopping
    /\ Len(queue) >= ImmediateCount
    /\ templates' = (packet_count < 3 \/ template_age >= TemplateSeconds)
    /\ packet' = SubSeq(queue, 1, ImmediateCount)
    /\ reporter' = "sending"
    /\ UNCHANGED <<queue, recent, packet_count, timers, stopping, started, connected,
                   history>>

BuildPacket ==
    /\ reporter = "running" /\ ~stopping
    /\ queue # <<>>
    /\ Len(queue) >= ImmediateCount \/ flush_in = 0
    /\ templates' = (packet_count < 3 \/ template_age >= TemplateSeconds)
    /\ packet' = SubSeq(queue, 1, IF Len(queue) < ImmediateCount THEN Len(queue)
                                  ELSE ImmediateCount)
    /\ reporter' = "sending"
    /\ UNCHANGED <<queue, recent, packet_count, timers, stopping, started, connected,
                   history>>

(***************************************************************************)
(* udp_transport, without the mutex: it connects if it has no socket; a    *)
(* packet that cannot be sent costs it the socket.                         *)
(***************************************************************************)
TransportSends ==
    /\ reporter = "sending"
    /\ connected' = TRUE
    /\ sent_age' = [c \in Calls |-> IF \E i \in DOMAIN packet : packet[i].call = c
                                    THEN 0 ELSE sent_age[c]]
    /\ taught' = LET before == IF connected THEN taught ELSE 0
                 IN  IF templates /\ before < 3 THEN before + 1 ELSE before
    /\ reporter' = "sent"
    /\ UNCHANGED <<queue, recent, packet_count, timers, stopping, started, packet,
                   templates, best, failed_age>>

TransportFails ==
    /\ reporter = "sending"
    /\ connected' = FALSE
    /\ taught' = 0
    /\ reporter' = "failed"
    /\ UNCHANGED <<queue, recent, packet_count, timers, stopping, started, packet,
                   templates, best, sent_age, failed_age>>

(***************************************************************************)
(* The rest of the turn, under the mutex.                                  *)
(***************************************************************************)
\* Mutant: the number of spots sent is computed again after the send.
HandleSentStale ==
    /\ reporter = "sent"
    /\ LET report_count == IF Len(queue) < ImmediateCount THEN Len(queue) ELSE ImmediateCount
       IN  /\ recent' = MarkRecent(SubSeq(queue, 1, report_count))
           /\ queue' = SubSeq(queue, report_count + 1, Len(queue))
           /\ best' = [c \in Calls |-> IF \E i \in 1 .. report_count : queue[i].call = c
                                       THEN 0 ELSE best[c]]
    /\ packet_count' = Older(packet_count, 3)
    /\ template_age' = IF templates THEN 0 ELSE template_age
    /\ flush_in' = NextFlush
    /\ reporter' = "running"
    /\ packet' = <<>>
    /\ UNCHANGED <<stopping, started, templates, connected, sent_age, failed_age, taught>>

HandleSent ==
    /\ reporter = "sent"
    /\ LET report_count == Len(packet)
       IN  /\ recent' = MarkRecent(SubSeq(queue, 1, report_count))
           /\ queue' = SubSeq(queue, report_count + 1, Len(queue))
           /\ best' = [c \in Calls |-> IF \E i \in 1 .. report_count : queue[i].call = c
                                       THEN 0 ELSE best[c]]
    /\ packet_count' = Older(packet_count, 3)
    /\ template_age' = IF templates THEN 0 ELSE template_age
    /\ flush_in' = NextFlush
    /\ reporter' = "running"
    /\ packet' = <<>>
    /\ UNCHANGED <<stopping, started, templates, connected, sent_age, failed_age, taught>>

\* Mutant: a failure does not bring the templates back.
HandleFailedUntaught ==
    /\ reporter = "failed"
    /\ flush_in' = RetrySeconds
    /\ failed_age' = 0
    /\ reporter' = "running"
    /\ packet' = <<>>
    /\ UNCHANGED <<queue, recent, packet_count, template_age, stopping, started, templates,
                   connected, best, sent_age, taught>>

\* Mutant: a failed packet is tried again at once.
HandleFailedAtOnce ==
    /\ reporter = "failed"
    /\ packet_count' = 0
    /\ template_age' = TemplateSeconds
    /\ failed_age' = 0
    /\ reporter' = "running"
    /\ packet' = <<>>
    /\ UNCHANGED <<queue, recent, flush_in, stopping, started, templates, connected, best,
                   sent_age, taught>>

HandleFailed ==
    /\ reporter = "failed"
    /\ packet_count' = 0
    /\ template_age' = TemplateSeconds
    /\ flush_in' = RetrySeconds
    /\ failed_age' = 0
    /\ reporter' = "running"
    /\ packet' = <<>>
    /\ UNCHANGED <<queue, recent, stopping, started, templates, connected, best, sent_age,
                   taught>>

-----------------------------------------------------------------------------
(***************************************************************************)
(* A second passes; the timed wait ends at next_flush or without a reason. *)
(***************************************************************************)
Tick ==
    /\ flush_in' = IF flush_in > 0 THEN flush_in - 1 ELSE 0
    /\ template_age' = Older(template_age, TemplateSeconds)
    /\ recent' = [i \in DOMAIN recent |->
                     [recent[i] EXCEPT !.age = Older(@, FlushSeconds)]]
    /\ sent_age' = [c \in Calls |-> Older(sent_age[c], FlushSeconds)]
    /\ failed_age' = Older(failed_age, RetrySeconds)
    /\ started
    /\ UNCHANGED <<queue, packet_count, stopping, started, reporter, packet, templates,
                   connected, best, taught>>

Timeout ==
    /\ reporter = "asleep" /\ flush_in = 0
    /\ reporter' = "running"
    /\ UNCHANGED <<queue, recent, packet_count, timers, stopping, started, packet,
                   templates, connected, history>>

Wakeup ==
    /\ reporter = "asleep"
    /\ reporter' = "running"
    /\ UNCHANGED <<queue, recent, packet_count, timers, stopping, started, packet,
                   templates, connected, history>>

(***************************************************************************)
(* psk_reporter_stop: ask the thread to end, join it, free the array.      *)
(***************************************************************************)
Stop ==
    /\ started /\ ~stopping
    /\ stopping' = TRUE
    /\ reporter' = Wake(reporter)
    /\ UNCHANGED <<queue, recent, packet_count, timers, started, packet, templates,
                   connected, history>>

StopJoin ==
    /\ started /\ stopping /\ reporter = "done"
    /\ started' = FALSE
    /\ connected' = FALSE
    /\ UNCHANGED <<queue, recent, packet_count, timers, stopping, reporter, packet,
                   templates, history>>

-----------------------------------------------------------------------------

ThreadStep == ThreadEnds \/ ThreadWaits \/ ThreadIdle \/ BuildPacket \/ HandleSent
                  \/ HandleFailed \/ Timeout

Transport == TransportSends \/ TransportFails

Next == (\E report \in Report : Enqueue(report)) \/ ThreadStep \/ Transport
            \/ Tick \/ Wakeup \/ Stop \/ StopJoin

(***************************************************************************)
(* The thread is scheduled, the transport returns, time passes, and a      *)
(* network that is tried again and again lets a packet through in the end. *)
(***************************************************************************)
Fairness ==
    /\ WF_vars(ThreadStep) /\ WF_vars(Transport) /\ WF_vars(Tick) /\ WF_vars(StopJoin)
    /\ SF_vars(TransportSends)

Spec == Init /\ [][Next]_vars /\ Fairness

-----------------------------------------------------------------------------
(***************************************************************************)
(* docs/industrial-grade.md "suppresses five-minute duplicates": no sender *)
(* is in a packet sent less than FlushSeconds after its last one. It holds *)
(* while the table has an entry for every sender heard in that time.       *)
(***************************************************************************)
NoDuplicateSent ==
    [][reporter = "sending" /\ reporter' = "sent" =>
          \A i \in DOMAIN packet : sent_age[packet[i].call] = FlushSeconds]_vars

(***************************************************************************)
(* A spot leaves the array only when a packet with its sender was sent,    *)
(* although the array changes while the packet is on its way.              *)
(***************************************************************************)
UnsentStaysQueued ==
    [][\A c \in Queued : c \notin Queued' =>
          reporter = "sent" /\ \E i \in DOMAIN packet : packet[i].call = c]_vars

(***************************************************************************)
(* A packet is built from the strongest spot accepted for each sender      *)
(* since it was queued.                                                    *)
(***************************************************************************)
StrongestSpotSent ==
    [][reporter # "sending" /\ reporter' = "sending" =>
          \A i \in DOMAIN packet' : packet'[i].snr = best[packet'[i].call]]_vars

(***************************************************************************)
(* The receiver of the packets knows the templates: a packet without them  *)
(* is sent only on a socket that carried three with them, because a new    *)
(* socket may have a new source port.                                      *)
(***************************************************************************)
TemplatesTaught == reporter = "sending" /\ ~templates => connected /\ taught = 3

(***************************************************************************)
(* After a failure the next attempt waits RetrySeconds, unless a full      *)
(* packet is queued: then the code tries again at once.                    *)
(***************************************************************************)
RetryPaced ==
    [][reporter # "sending" /\ reporter' = "sending" =>
          failed_age = RetrySeconds \/ Len(queue) >= ImmediateCount]_vars

(***************************************************************************)
(* Every queued spot is eventually sent, unless the reporter stops.        *)
(***************************************************************************)
EveryQueuedSpotSent ==
    \A c \in Calls : c \in Queued ~> (c \notin Queued \/ stopping)
=============================================================================
