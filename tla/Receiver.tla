------------------------------ MODULE Receiver ------------------------------
(***************************************************************************)
(* The receiver core (src/airspyhf_wsprd.c): libairspyhf's callback, the   *)
(* DSP thread, the decoder thread, the main loop with its shutdown, and    *)
(* the signal handler, around the IQ queue of module SampleQueue.          *)
(*                                                                         *)
(* A step is what a thread does between two points where another thread    *)
(* can observe or disturb it. rw, ready_mutex and the queue's mutex are    *)
(* held inside one step only; dsp_mutex is held by the DSP thread from     *)
(* TryPeek to Release (consumer = "holding"), and the main thread's        *)
(* critical sections under it (initSampleStorage, is_capture_active) are   *)
(* single steps that wait for that to end.                                 *)
(*                                                                         *)
(* Signal processing is abstracted to counting: Factor input samples make  *)
(* one output sample, Target of them make a frame. Which stations a frame  *)
(* holds, and whether decoding fails, are nondeterministic choices.        *)
(***************************************************************************)
EXTENDS SampleQueue

CONSTANTS
    Factor,          \* decimation factor
    Target,          \* capture_sample_target()
    MaxSpots,        \* most spots a frame decodes to
    MaxFrames,       \* bound on the frames captured (exploration only)
    noreport         \* the -n option

ASSUME ReceiverAssumption ==
    /\ Factor \in Nat \ {0}
    /\ Target \in Nat \ {0}
    /\ MaxSpots \in Nat
    /\ MaxFrames \in Nat
    /\ noreport \in BOOLEAN

VARIABLES
    main, dsp, decoder,                     \* where each thread is
    exit_flag, capture_flag, decode_flag,   \* rx_state
    iqIndex, phase,                         \* rx_state.iqIndex, decimator phase
    frame,                                  \* the frame being captured
    job, posted,                            \* the decoder's copy; the spot it reports
    busy,                                   \* dec.busy
    dialfreq,                               \* rx_options.dialfreq
    streaming,                              \* the device delivers transfers
    clock,                                  \* NTP says the clock is synchronized
    reporting                               \* reporting_started

dspVars     == <<dsp, capture_flag, iqIndex, phase, frame>>
decoderVars == <<decoder, decode_flag, job, posted, busy>>
mainVars    == <<main, exit_flag, dialfreq, streaming, reporting>>
vars        == <<queueVars, dspVars, decoderVars, mainVars, clock>>

-----------------------------------------------------------------------------

MainStates == {"clock", "select", "slot", "init", "poll", "polled",
               "stop_stream", "stop_queue", "join_dsp", "signal",
               "join_decoder", "stop_reporting", "done"}
DspStates == {"process", "notify", "release"}
DecoderStates == {"loop", "lock", "asleep", "woken", "taken",
                  "decode", "post", "finish", "done"}

(***************************************************************************)
(* A frame: its metadata in rx_state and, as history, the stream position  *)
(* it starts at, the frequencies its samples were received on, whether the *)
(* clock was synchronized when it started, and whether it started late:    *)
(* before the decoder had copied the frame before.                         *)
(***************************************************************************)
Frame == [start : Nat, dialfreq : Freqs,
          device_dropped_samples : Nat, queue_dropped_samples : Nat,
          from : Nat, heard : SUBSET Freqs, synchronized : BOOLEAN,
          late : BOOLEAN]

NewFrame(start, freq) ==
    [start |-> start, dialfreq |-> freq,
     device_dropped_samples |-> 0, queue_dropped_samples |-> 0,
     from |-> produced, heard |-> {}, synchronized |-> clock,
     late |-> decode_flag \/ decoder = "taken"]

(***************************************************************************)
(* The decoder's copy of a frame and the spots left to report from it; its *)
(* buffers between two frames; the absence of a spot.                      *)
(***************************************************************************)
Job == [samples_len : 0 .. Target, spots : 0 .. MaxSpots, frame : Frame]

NoJob == [samples_len |-> 0]

NoSpot == [start |-> 0]

Init ==
    /\ QueueInit
    /\ main = "clock" /\ dsp = "process" /\ decoder = "loop"
    /\ exit_flag = FALSE /\ capture_flag = FALSE /\ decode_flag = FALSE
    /\ iqIndex = 0 /\ phase = 0
    /\ dialfreq \in Freqs
    /\ streaming = TRUE
    /\ clock \in BOOLEAN
    /\ reporting = ~noreport
    /\ frame = NewFrame(0, dialfreq)
    /\ job = NoJob
    /\ posted = NoSpot
    /\ busy = FALSE

-----------------------------------------------------------------------------
(***************************************************************************)
(* The callback thread. A transfer was received on the frequency the tuner *)
(* is set to when it is delivered.                                         *)
(***************************************************************************)
RxCallback ==
    /\ streaming
    /\ \E n \in 1 .. MaxTransfer, dropped \in 0 .. MaxDeviceDrop :
          /\ produced + dropped + n <= MaxProduced
          /\ Push(n, dropped, dialfreq)
    /\ UNCHANGED <<dspVars, decoderVars, mainVars, clock>>

-----------------------------------------------------------------------------
(***************************************************************************)
(* The DSP thread: wsprDsp.                                                *)
(***************************************************************************)
DspWait == Wait /\ UNCHANGED <<dspVars, decoderVars, mainVars, clock>>

DspWakeup == SpuriousWakeup /\ UNCHANGED <<dspVars, decoderVars, mainVars, clock>>

DspPeek == TryPeek /\ UNCHANGED <<dspVars, decoderVars, mainVars, clock>>

(***************************************************************************)
(* process_sample_block up to the release of rw. The block's lost samples  *)
(* are replaced by as many zeros; the sum of the two counters is a         *)
(* uint64_t. Every Factor inputs give one output; the loop stops at the    *)
(* output that completes the frame.                                        *)
(***************************************************************************)
\* Mutant: the queue's own overruns are not replaced by zeros.
missing_device_samples(block) == block.device_dropped_samples

missing_samples(block) ==
    (block.device_dropped_samples + block.queue_dropped_samples) % (CounterMax + 1)

InputsToComplete == (Target - iqIndex) * Factor - phase

ProcessSampleBlock(block) ==
    LET input_count == missing_samples(block) + block.sample_count
        complete    == input_count >= InputsToComplete
        used        == IF complete THEN InputsToComplete ELSE input_count
    IN  /\ iqIndex' = iqIndex + (phase + used) \div Factor
        /\ phase' = (phase + used) % Factor
        /\ frame' = [frame EXCEPT
               !.device_dropped_samples = @ + block.device_dropped_samples,
               !.queue_dropped_samples = @ + block.queue_dropped_samples,
               !.heard = IF used > missing_samples(block) THEN @ \cup {block.freq} ELSE @]
        /\ capture_flag' = ~complete
        /\ dsp' = IF complete THEN "notify" ELSE "release"

DspProcess ==
    /\ consumer = "holding" /\ dsp = "process"
    /\ IF capture_flag
       THEN ProcessSampleBlock(slots[tail])
       ELSE dsp' = "release" /\ UNCHANGED <<capture_flag, iqIndex, phase, frame>>
    /\ UNCHANGED <<queueVars, decoderVars, mainVars, clock>>

(***************************************************************************)
(* A complete frame: decode_flag is set and ready_cond signalled under     *)
(* ready_mutex.                                                            *)
(***************************************************************************)
DspNotifySilently ==  \* mutant: no signal
    /\ consumer = "holding" /\ dsp = "notify"
    /\ decode_flag' = TRUE
    /\ dsp' = "release"
    /\ UNCHANGED <<queueVars, capture_flag, iqIndex, phase, frame, decoder, job, posted,
                   busy, mainVars, clock>>

DspNotify ==
    /\ consumer = "holding" /\ dsp = "notify"
    /\ decode_flag' = TRUE
    /\ decoder' = Woken(decoder)
    /\ dsp' = "release"
    /\ UNCHANGED <<queueVars, capture_flag, iqIndex, phase, frame, job, posted, busy,
                   mainVars, clock>>

DspRelease ==
    /\ dsp = "release"
    /\ Release
    /\ dsp' = "process"
    /\ UNCHANGED <<capture_flag, iqIndex, phase, frame, decoderVars, mainVars, clock>>

-----------------------------------------------------------------------------
(***************************************************************************)
(* The decoder thread: wsprDecoder.                                        *)
(***************************************************************************)
DecoderLoop ==
    /\ decoder = "loop"
    /\ decoder' = IF exit_flag THEN "done" ELSE "lock"
    /\ UNCHANGED <<queueVars, dspVars, decode_flag, job, posted, busy, mainVars, clock>>

(***************************************************************************)
(* Under ready_mutex: sleep until there is a frame or the program ends.    *)
(***************************************************************************)
DecoderTakeUnchecked ==  \* mutant: the condition is tested once, not in a loop
    /\ decoder \in {"lock", "woken"}
    /\ IF decoder = "lock" /\ ~decode_flag /\ ~exit_flag
       THEN decoder' = "asleep" /\ UNCHANGED <<decode_flag, busy>>
       ELSE /\ decode_flag' = FALSE
            /\ busy' = ~exit_flag
            /\ decoder' = "taken"
    /\ UNCHANGED <<queueVars, dspVars, job, posted, mainVars, clock>>

DecoderTake ==
    /\ decoder \in {"lock", "woken"}
    /\ IF ~decode_flag /\ ~exit_flag
       THEN decoder' = "asleep" /\ UNCHANGED <<decode_flag, busy>>
       ELSE /\ decode_flag' = FALSE
            /\ busy' = ~exit_flag
            /\ decoder' = "taken"
    /\ UNCHANGED <<queueVars, dspVars, job, posted, mainVars, clock>>

DecoderWakeup ==
    /\ decoder = "asleep"
    /\ decoder' = "woken"
    /\ UNCHANGED <<queueVars, dspVars, decode_flag, job, posted, busy, mainVars, clock>>

(***************************************************************************)
(* Under rw: the samples stored so far and their metadata are copied.      *)
(***************************************************************************)
DecoderCopy ==
    /\ decoder = "taken"
    /\ IF exit_flag
       THEN decoder' = "done" /\ UNCHANGED job
       ELSE /\ decoder' = "decode"
            /\ job' = [samples_len |-> iqIndex, spots |-> 0, frame |-> frame]
    /\ UNCHANGED <<queueVars, dspVars, decode_flag, posted, busy, mainVars, clock>>

(***************************************************************************)
(* Decoding takes any time and may fail. Spots are posted only if the      *)
(* program is not ending.                                                  *)
(***************************************************************************)
DecoderDecode ==
    /\ decoder = "decode"
    /\ \E success \in BOOLEAN, n_results \in 0 .. MaxSpots :
          /\ success \/ n_results = 0
          /\ job' = [job EXCEPT !.spots = n_results]
          /\ decoder' = IF success /\ ~exit_flag THEN "post" ELSE "finish"
    /\ UNCHANGED <<queueVars, dspVars, decode_flag, posted, busy, mainVars, clock>>

(***************************************************************************)
(* postSpots (WSPR) and the reporting loop of the FT8 branch: each spot is *)
(* reported only if the clock is synchronized now.                         *)
(***************************************************************************)
DecoderPost ==
    /\ decoder = "post"
    /\ IF job.spots = 0
       THEN decoder' = "finish" /\ UNCHANGED <<job, posted>>
       ELSE /\ job' = [job EXCEPT !.spots = @ - 1]
            /\ posted' = IF ~noreport /\ clock THEN job.frame ELSE posted
            /\ UNCHANGED decoder
    /\ UNCHANGED <<queueVars, dspVars, decode_flag, busy, mainVars, clock>>

DecoderFinish ==
    /\ decoder = "finish"
    /\ decoder' = "loop"
    /\ busy' = FALSE
    /\ job' = NoJob
    /\ posted' = NoSpot
    /\ UNCHANGED <<queueVars, dspVars, decode_flag, mainVars, clock>>

-----------------------------------------------------------------------------
(***************************************************************************)
(* The main loop. wait_for_synchronized_clock, with the loop's own test;   *)
(* MaxFrames bounds the exploration.                                       *)
(***************************************************************************)
MainClock ==
    /\ main = "clock"
    /\ \/ exit_flag /\ main' = "stop_stream"
       \/ ~exit_flag /\ clock /\ frame.start < MaxFrames /\ main' = "select"
    /\ UNCHANGED <<queueVars, dspVars, decoderVars, exit_flag, dialfreq, streaming,
                   reporting, clock>>

(***************************************************************************)
(* The hop plan chooses any band; tune_hop_band retunes the radio if it is *)
(* another one. dialfreq changes only when airspyhf_set_freq succeeded.    *)
(***************************************************************************)
MainSelect ==
    /\ main = "select"
    /\ dialfreq' \in Freqs
    /\ main' = "slot"
    /\ UNCHANGED <<queueVars, dspVars, decoderVars, exit_flag, streaming, reporting, clock>>

(***************************************************************************)
(* No band, a frequency out of range or refused by the device, or a time   *)
(* that cannot be formatted ends the program.                              *)
(***************************************************************************)
MainFails ==
    /\ main \in {"select", "slot"}
    /\ exit_flag' = TRUE
    /\ main' = "stop_stream"
    /\ UNCHANGED <<queueVars, dspVars, decoderVars, dialfreq, streaming, reporting, clock>>

(***************************************************************************)
(* The wait for the UTC slot.                                              *)
(***************************************************************************)
MainSlot ==
    /\ main = "slot"
    /\ main' = IF exit_flag THEN "stop_stream" ELSE "init"
    /\ UNCHANGED <<queueVars, dspVars, decoderVars, exit_flag, dialfreq, streaming,
                   reporting, clock>>

(***************************************************************************)
(* initSampleStorage.                                                      *)
(***************************************************************************)
InitKeepingQueue ==  \* mutant: no sample_queue_reset
    /\ main = "init"
    /\ consumer # "holding"
    /\ capture_flag' = TRUE
    /\ iqIndex' = 0
    /\ phase' = 0
    /\ frame' = NewFrame(frame.start + 1, dialfreq)
    /\ main' = "poll"
    /\ UNCHANGED <<queueVars, dsp, decoderVars, exit_flag, dialfreq, streaming, reporting,
                   clock>>

InitSampleStorage ==
    /\ main = "init"
    /\ Reset
    /\ capture_flag' = TRUE
    /\ iqIndex' = 0
    /\ phase' = 0
    /\ frame' = NewFrame(frame.start + 1, dialfreq)
    /\ main' = "poll"
    /\ UNCHANGED <<dsp, decoderVars, exit_flag, dialfreq, streaming, reporting, clock>>

(***************************************************************************)
(* The polling loop ends; is_capture_active takes dsp_mutex.               *)
(***************************************************************************)
MainPoll ==
    /\ main = "poll"
    /\ \/ ~streaming
       \/ exit_flag
       \/ consumer # "holding" /\ ~capture_flag
    /\ main' = "polled"
    /\ UNCHANGED <<queueVars, dspVars, decoderVars, exit_flag, dialfreq, streaming,
                   reporting, clock>>

(***************************************************************************)
(* A stream that stopped by itself ends the program.                       *)
(***************************************************************************)
MainPolledRetries ==  \* mutant: the loop goes on with the next frame
    /\ main = "polled"
    /\ main' = "clock"
    /\ UNCHANGED <<queueVars, dspVars, decoderVars, exit_flag, dialfreq, streaming,
                   reporting, clock>>

MainPolled ==
    /\ main = "polled"
    /\ exit_flag' = (exit_flag \/ ~streaming)
    /\ main' = "clock"
    /\ UNCHANGED <<queueVars, dspVars, decoderVars, dialfreq, streaming, reporting, clock>>

-----------------------------------------------------------------------------
(***************************************************************************)
(* Shutdown. airspyhf_stop returns when the callback thread has ended;     *)
(* a join waits for its thread.                                            *)
(***************************************************************************)
MainStopStream ==
    /\ main = "stop_stream"
    /\ streaming' = FALSE
    /\ main' = "stop_queue"
    /\ UNCHANGED <<queueVars, dspVars, decoderVars, exit_flag, dialfreq, reporting, clock>>

MainStopQueue ==
    /\ main = "stop_queue"
    /\ Stop
    /\ main' = "join_dsp"
    /\ UNCHANGED <<dspVars, decoderVars, exit_flag, dialfreq, streaming, reporting, clock>>

MainJoinDsp ==
    /\ main = "join_dsp"
    /\ consumer = "stopped"
    /\ main' = "signal"
    /\ UNCHANGED <<queueVars, dspVars, decoderVars, exit_flag, dialfreq, streaming,
                   reporting, clock>>

\* Mutant: the decoder is joined without waking it.
MainSignalMissing ==
    /\ main = "signal"
    /\ main' = "join_decoder"
    /\ UNCHANGED <<queueVars, dspVars, decoderVars, exit_flag, dialfreq, streaming,
                   reporting, clock>>

MainSignal ==
    /\ main = "signal"
    /\ decoder' = Woken(decoder)
    /\ main' = "join_decoder"
    /\ UNCHANGED <<queueVars, dspVars, decode_flag, job, posted, busy, exit_flag,
                   dialfreq, streaming, reporting, clock>>

MainJoinDecoder ==
    /\ main = "join_decoder"
    /\ decoder = "done"
    /\ main' = "stop_reporting"
    /\ UNCHANGED <<queueVars, dspVars, decoderVars, exit_flag, dialfreq, streaming,
                   reporting, clock>>

MainStopReporting ==
    /\ main = "stop_reporting"
    /\ reporting' = FALSE
    /\ main' = "done"
    /\ UNCHANGED <<queueVars, dspVars, decoderVars, exit_flag, dialfreq, streaming, clock>>

-----------------------------------------------------------------------------
(***************************************************************************)
(* The environment: SIGINT and friends, a device that stops streaming, NTP *)
(* losing or regaining the clock.                                          *)
(***************************************************************************)
SigintHandler ==
    /\ ~exit_flag
    /\ exit_flag' = TRUE
    /\ UNCHANGED <<queueVars, dspVars, decoderVars, main, dialfreq, streaming, reporting, clock>>

StreamLost ==
    /\ streaming
    /\ streaming' = FALSE
    /\ UNCHANGED <<queueVars, dspVars, decoderVars, main, exit_flag, dialfreq, reporting, clock>>

ClockChange ==
    /\ clock' = ~clock
    /\ UNCHANGED <<queueVars, dspVars, decoderVars, mainVars>>

DspStep == DspWait \/ DspPeek \/ DspProcess \/ DspNotify \/ DspRelease

DecoderStep ==
    \/ DecoderLoop \/ DecoderTake \/ DecoderCopy \/ DecoderDecode
    \/ DecoderPost \/ DecoderFinish

MainStep ==
    \/ MainClock \/ MainSelect \/ MainFails \/ MainSlot \/ InitSampleStorage
    \/ MainPoll \/ MainPolled
    \/ MainStopStream \/ MainStopQueue \/ MainJoinDsp \/ MainSignal
    \/ MainJoinDecoder \/ MainStopReporting

Environment == SigintHandler \/ StreamLost \/ ClockChange \/ DspWakeup \/ DecoderWakeup

Next == RxCallback \/ DspStep \/ DecoderStep \/ MainStep \/ Environment

(***************************************************************************)
(* Every thread runs whenever it is not blocked: the scheduler runs each   *)
(* of them, decoding ends, and the main thread gets dsp_mutex although the *)
(* DSP thread takes it again for every block. Nothing is assumed of the    *)
(* environment.                                                            *)
(***************************************************************************)
Fairness == WF_vars(DspStep) /\ WF_vars(DecoderStep) /\ SF_vars(MainStep)

Spec == Init /\ [][Next]_vars /\ Fairness

-----------------------------------------------------------------------------
(***************************************************************************)
(* Every variable has its type; a frame never holds more than Target       *)
(* samples, the size of the buffer for it.                                 *)
(***************************************************************************)
TypeOK ==
    /\ QueueTypeOK
    /\ main \in MainStates /\ dsp \in DspStates /\ decoder \in DecoderStates
    /\ exit_flag \in BOOLEAN /\ capture_flag \in BOOLEAN /\ decode_flag \in BOOLEAN
    /\ iqIndex \in 0 .. Target /\ phase \in 0 .. Factor - 1
    /\ frame \in Frame
    /\ job \in Job \cup {NoJob}
    /\ posted \in Frame \cup {NoSpot}
    /\ busy \in BOOLEAN
    /\ dialfreq \in Freqs
    /\ streaming \in BOOLEAN /\ clock \in BOOLEAN /\ reporting \in BOOLEAN

(***************************************************************************)
(* A frame holds only samples received on the frequency it is labelled     *)
(* with, in the buffer and in the decoder's copy: the label becomes the    *)
(* reported frequency. Blocks queued before the radio was retuned must     *)
(* never reach the next frame.                                             *)
(***************************************************************************)
FrameHomogeneous ==
    /\ frame.heard \subseteq {frame.dialfreq}
    /\ job # NoJob => job.frame.heard \subseteq {job.frame.dialfreq}

(***************************************************************************)
(* Sample time is continuous: while a frame is captured, the samples it    *)
(* stands for are exactly those the stream delivered or lost since the     *)
(* frame started.                                                          *)
(***************************************************************************)
Processed == IF consumer = "holding" /\ dsp # "process" THEN End(1) ELSE consumed

SampleTimeContinuous ==
    capture_flag => iqIndex * Factor + phase = Processed - frame.from

(***************************************************************************)
(* The decoder does not sleep through a request: while it waits on         *)
(* ready_cond no frame is pending and, at the end of the program, main's   *)
(* signal is still to come. The signal handler sets exit_flag without      *)
(* ready_mutex, so that last signal is what ends the wait.                 *)
(***************************************************************************)
DecoderAwake ==
    decoder = "asleep" =>
        /\ ~decode_flag
        /\ main \notin {"join_decoder", "stop_reporting", "done"}

(***************************************************************************)
(* The radio is never retuned while a frame is being captured.             *)
(***************************************************************************)
NoRetuneInCapture == [][dialfreq' # dialfreq => ~capture_flag]_vars

(***************************************************************************)
(* A spot is handed to a reporter that runs: shutdown joins the decoder    *)
(* thread before it stops reporting.                                       *)
(***************************************************************************)
ReporterAlive == [][posted' # posted /\ posted' # NoSpot => reporting]_vars

(***************************************************************************)
(* Once the program is asked to end, or the device stops streaming during  *)
(* a capture, it ends: every thread is joined, whatever it was waiting     *)
(* for. The service manager then starts it again.                          *)
(***************************************************************************)
Terminates == (exit_flag \/ (main = "poll" /\ ~streaming)) ~> main = "done"

(***************************************************************************)
(* What is decoded is a whole frame, whatever became of the frames before, *)
(* unless it started late: nothing makes main wait for a decoder that is   *)
(* still busy when a frame is complete, and initSampleStorage restarts the *)
(* one buffer.                                                             *)
(***************************************************************************)
WholeUnlessLate == decoder = "decode" => job.samples_len = Target \/ job.frame.late

(***************************************************************************)
(* docs/industrial-grade.md "unsynchronized spots are never reported": a   *)
(* reported spot comes from a frame that started under a synchronized      *)
(* clock.                                                                  *)
(***************************************************************************)
ReportedSpotsSynchronized == posted # NoSpot => posted.synchronized
=============================================================================
