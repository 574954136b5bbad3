---------------------------- MODULE WsprReporter ----------------------------
(***************************************************************************)
(* The WSPRnet reporter (src/reporter.c): a ring of spots in RAM, filled   *)
(* by the decoder thread and emptied by an uploader thread that retries    *)
(* its oldest spot with exponential backoff, and wspr_reporter_stop.       *)
(*                                                                         *)
(* A step is what a thread does while it holds the reporter's mutex, or    *)
(* what happens while the uploader is in the transport without it. A spot  *)
(* is known by its sequence number: its URL is formatted once and never    *)
(* changes. Time is the wall clock: retry_in is the number of seconds      *)
(* until retry_at, 0 when that time has come.                              *)
(***************************************************************************)
EXTENDS Integers

CONSTANTS
    Capacity,        \* WSPR_REPORT_QUEUE_CAPACITY
    RetryBase,       \* seconds before the first retry
    MaxRetryDelay,   \* MAX_RETRY_DELAY_SECONDS
    MaxSequence,     \* bound on the spots accepted (exploration only)
    MaxAttempts      \* attempts are counted up to here: the delay no longer grows

ASSUME ReporterAssumption ==
    /\ Capacity \in Nat \ {0}
    /\ MaxRetryDelay \in Nat
    /\ RetryBase \in 1 .. MaxRetryDelay
    /\ MaxSequence \in Nat
    /\ MaxAttempts \in Nat \ {0}

ASSUME AttemptsAssumption == RetryBase * 2 ^ (MaxAttempts - 1) >= MaxRetryDelay

VARIABLES
    queue, head, count, next_sequence,  \* the ring
    stopping, started,
    uploader,                           \* where the uploader thread is
    item,                               \* its copy of the spot it sends
    http_status,                        \* what the transport returned
    stored, refused,                    \* history: what the server did with spots
    waited                              \* history: seconds since the last failure

ring   == <<queue, head, count, next_sequence>>
server == <<stored, refused>>
vars   == <<ring, stopping, started, uploader, item, http_status, server, waited>>

-----------------------------------------------------------------------------

QueueItem == [sequence : Nat, attempts : Nat, retry_in : Nat]

NoItem == [sequence |-> 0, attempts |-> 0, retry_in |-> 0]

(***************************************************************************)
(* The uploader is about to take the mutex ("running"), in                 *)
(* pthread_cond_wait or pthread_cond_timedwait, in the transport, back     *)
(* from it, or out of its loop.                                            *)
(***************************************************************************)
UploaderStates == {"running", "asleep", "dozing", "sending", "answered", "done"}

Wake(state) == IF state \in {"asleep", "dozing"} THEN "running" ELSE state

retry_delay[attempts \in Nat] ==
    IF attempts <= 1 THEN RetryBase
    ELSE LET delay == retry_delay[attempts - 1]
         IN  IF 2 * delay > MaxRetryDelay THEN MaxRetryDelay ELSE 2 * delay

(***************************************************************************)
(* What upload_url makes of an HTTP status; 0 stands for a libcurl error   *)
(* (no connection, a timeout, a lost answer).                              *)
(***************************************************************************)
\* Mutant: every 4xx status is a refusal.
Rejects4xx(status) ==
    CASE status \in 200 .. 299 -> "OK"
      [] status \in 400 .. 499 -> "REJECTED"
      [] OTHER                 -> "RETRY"

upload_result(status) ==
    CASE status \in 200 .. 299                   -> "OK"
      [] status \in 400 .. 499 \ {408, 425, 429} -> "REJECTED"
      [] OTHER                                   -> "RETRY"

Init ==
    /\ queue = [i \in 0 .. Capacity - 1 |-> NoItem]
    /\ head = 0 /\ count = 0 /\ next_sequence = 0
    /\ stopping = FALSE /\ started = TRUE
    /\ uploader = "running"
    /\ item = NoItem
    /\ http_status = 0
    /\ stored = {} /\ refused = {}
    /\ waited = 0

-----------------------------------------------------------------------------
(***************************************************************************)
(* wspr_reporter_enqueue. A full ring and a reporter that stops refuse the *)
(* spot, and the caller gives it up: nothing changes.                      *)
(***************************************************************************)
Enqueue ==
    /\ started /\ ~stopping
    /\ count < Capacity
    /\ next_sequence < MaxSequence
    /\ next_sequence' = next_sequence + 1
    /\ queue' = [queue EXCEPT ![(head + count) % Capacity] =
                     [sequence |-> next_sequence + 1, attempts |-> 0, retry_in |-> 0]]
    /\ count' = count + 1
    /\ uploader' = Wake(uploader)
    /\ UNCHANGED <<head, stopping, started, item, http_status, server, waited>>

\* Mutant: the uploader sends when its timed wait ends, whatever ended it.
TurnWithoutTest ==
    /\ uploader = "running"
    /\ \/ stopping /\ uploader' = "done" /\ UNCHANGED item
       \/ ~stopping /\ count = 0 /\ uploader' = "asleep" /\ UNCHANGED item
       \/ ~stopping /\ count > 0 /\ uploader' = "sending" /\ item' = queue[head]
    /\ UNCHANGED <<ring, stopping, started, http_status, server, waited>>

(***************************************************************************)
(* One turn of uploader_thread's loop: end, wait for a spot, wait until    *)
(* the oldest one may be sent, or copy it and send it.                     *)
(***************************************************************************)
UploaderTurn ==
    /\ uploader = "running"
    /\ \/ stopping /\ uploader' = "done" /\ UNCHANGED item
       \/ ~stopping /\ count = 0 /\ uploader' = "asleep" /\ UNCHANGED item
       \/ /\ ~stopping /\ count > 0
          /\ IF queue[head].retry_in > 0
             THEN uploader' = "dozing" /\ UNCHANGED item
             ELSE uploader' = "sending" /\ item' = queue[head]
    /\ UNCHANGED <<ring, stopping, started, http_status, server, waited>>

(***************************************************************************)
(* pthread_cond_wait may return without a signal, and a timed wait returns *)
(* when its deadline, the oldest spot's retry_at, has come.                *)
(***************************************************************************)
Wakeup ==
    /\ uploader \in {"asleep", "dozing"}
    /\ uploader' = "running"
    /\ UNCHANGED <<ring, stopping, started, item, http_status, server, waited>>

Timeout ==
    /\ uploader = "dozing" /\ queue[head].retry_in = 0
    /\ uploader' = "running"
    /\ UNCHANGED <<ring, stopping, started, item, http_status, server, waited>>

(***************************************************************************)
(* The transport, without the mutex: the server stores the spot and its    *)
(* answer arrives or is lost, refuses it for good, or is busy or out of    *)
(* reach, as often as it likes.                                            *)
(***************************************************************************)
Transport ==
    /\ uploader = "sending"
    /\ \/ /\ stored' = stored \cup {item.sequence}
          /\ http_status' \in {200, 0}
          /\ UNCHANGED refused
       \/ /\ refused' = refused \cup {item.sequence}
          /\ http_status' = 404
          /\ UNCHANGED stored
       \/ /\ http_status' \in {0, 302, 408, 425, 429, 503}
          /\ UNCHANGED server
    /\ uploader' = "answered"
    /\ UNCHANGED <<ring, stopping, started, item, waited>>

remove_head ==
    /\ head' = (head + 1) % Capacity
    /\ count' = count - 1

NextAttempt ==
    IF queue[head].attempts < MaxAttempts THEN queue[head].attempts + 1 ELSE MaxAttempts

\* Mutant: a refused spot stays in the queue.
HandleAnswerKeepingRefused ==
    /\ uploader = "answered"
    /\ uploader' = "running"
    /\ IF count > 0 /\ upload_result(http_status) = "OK"
       THEN remove_head /\ UNCHANGED <<queue, waited>>
       ELSE UNCHANGED <<queue, head, count, waited>>
    /\ UNCHANGED <<next_sequence, stopping, started, item, http_status, server>>

(***************************************************************************)
(* The rest of the turn, under the mutex: a spot the server answered is    *)
(* removed, another one is retried after retry_delay, without any limit on *)
(* its attempts.                                                           *)
(***************************************************************************)
HandleAnswer ==
    /\ uploader = "answered"
    /\ uploader' = "running"
    /\ IF count = 0 \/ queue[head].sequence # item.sequence
       THEN UNCHANGED <<queue, head, count, waited>>
       ELSE IF upload_result(http_status) \in {"OK", "REJECTED"}
       THEN remove_head /\ UNCHANGED <<queue, waited>>
       ELSE /\ queue' = [queue EXCEPT ![head] =
                             [sequence |-> queue[head].sequence, attempts |-> NextAttempt,
                              retry_in |-> retry_delay[NextAttempt]]]
            /\ waited' = 0
            /\ UNCHANGED <<head, count>>
    /\ UNCHANGED <<next_sequence, stopping, started, item, http_status, server>>

(***************************************************************************)
(* A second passes. Only an oldest spot ever has a retry to wait for.      *)
(***************************************************************************)
Tick ==
    /\ count > 0 /\ queue[head].retry_in > 0
    /\ queue' = [queue EXCEPT ![head].retry_in = @ - 1]
    /\ waited' = waited + 1
    /\ UNCHANGED <<head, count, next_sequence, stopping, started, uploader, item,
                   http_status, server>>

(***************************************************************************)
(* wspr_reporter_stop: ask the uploader to end, then join it and free the  *)
(* ring.                                                                   *)
(***************************************************************************)
StopSilently ==  \* mutant: no signal
    /\ started /\ ~stopping
    /\ stopping' = TRUE
    /\ UNCHANGED <<ring, started, uploader, item, http_status, server, waited>>

Stop ==
    /\ started /\ ~stopping
    /\ stopping' = TRUE
    /\ uploader' = Wake(uploader)
    /\ UNCHANGED <<ring, started, item, http_status, server, waited>>

StopJoin ==
    /\ started /\ stopping /\ uploader = "done"
    /\ started' = FALSE
    /\ UNCHANGED <<ring, stopping, uploader, item, http_status, server, waited>>

-----------------------------------------------------------------------------

UploaderStep == UploaderTurn \/ Timeout \/ Transport \/ HandleAnswer

Next == Enqueue \/ UploaderStep \/ Wakeup \/ Tick \/ Stop \/ StopJoin

(***************************************************************************)
(* The uploader is scheduled, libcurl's timeouts end every transfer, and   *)
(* time passes. Nobody has to enqueue or to stop.                          *)
(***************************************************************************)
Fairness == WF_vars(UploaderStep) /\ WF_vars(Tick) /\ WF_vars(StopJoin)

Spec == Init /\ [][Next]_vars /\ Fairness

-----------------------------------------------------------------------------
(***************************************************************************)
(* The reporter implements at-least-once delivery in order: a spot that    *)
(* wspr_reporter_enqueue accepted leaves the ring only when the server     *)
(* stored it or refused it for good, however often it failed before, and   *)
(* no other spot is sent before it.                                        *)
(***************************************************************************)
Delivery == INSTANCE SpotDelivery WITH
    accepted <- next_sequence, resolved <- next_sequence - count, closed <- stopping

DeliversInOrder == Delivery!DeliverySpec

(***************************************************************************)
(* The uploader does not sleep through work: while it waits without a      *)
(* deadline the ring is empty, and a stop ends both waits.                 *)
(***************************************************************************)
UploaderAwake ==
    /\ uploader = "asleep" => count = 0
    /\ uploader \in {"asleep", "dozing"} => ~stopping

(***************************************************************************)
(* Backoff is exponential and bounded: a spot that failed n times is sent  *)
(* again once the base delay, doubled n - 1 times and bounded, has passed, *)
(* and not before, although every new spot wakes the uploader.             *)
(***************************************************************************)
BackoffHonoured ==
    uploader \in {"dozing", "sending"} /\ queue[head].attempts > 0 =>
        LET doubled == RetryBase * 2 ^ (queue[head].attempts - 1)
            delay   == IF doubled < MaxRetryDelay THEN doubled ELSE MaxRetryDelay
        IN  /\ uploader = "sending" => waited = delay
            /\ uploader = "dozing" => waited <= delay

(***************************************************************************)
(* What the uploader cannot do without: a server that is asked again and   *)
(* again stores or refuses the spot in the end, and that answer arrives.   *)
(***************************************************************************)
FinalAnswer == Transport /\ upload_result(http_status') # "RETRY"

ServerAnswers == SF_vars(FinalAnswer)

(***************************************************************************)
(* If the server answers for good whoever asks it again and again, every   *)
(* accepted spot is eventually resolved, unless the reporter stops. The    *)
(* uploader never leaves a spot for good, whatever wakes it, and a refused *)
(* spot does not hold up the ones behind it. A spot that only ever fails   *)
(* transiently does: its retries have no limit (reporter.c:196-201), so    *)
(* the assumption is part of the property.                                 *)
(***************************************************************************)
EverySpotResolved ==
    ServerAnswers =>
        \A s \in 1 .. MaxSequence :
            next_sequence >= s ~> (next_sequence - count >= s \/ stopping)

(***************************************************************************)
(* wspr_reporter_stop returns: the uploader ends whatever it waits for.    *)
(***************************************************************************)
StopReturns == stopping ~> ~started
=============================================================================
