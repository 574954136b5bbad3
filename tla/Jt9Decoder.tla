----------------------------- MODULE Jt9Decoder -----------------------------
(***************************************************************************)
(* The second FT8 decoder: the child process jt9, its files and its        *)
(* deadline (src/jt9_decoder.c), and the decoder thread that runs it next  *)
(* to ft8_lib (the FT8 branch of wsprDecoder, src/airspyhf_wsprd.c).       *)
(*                                                                         *)
(* Two processes run: the thread and the child, which prints lines, ends   *)
(* well or badly, or hangs. Time is counted the way the code counts it:    *)
(* elapsed is now.tv_sec - started_at.tv_sec, the seconds that have begun  *)
(* since the child was started. The polling loop sleeps 20 ms, so it polls *)
(* at least once in every second. A line of output and a result are known *)
(* by the frame they were decoded from. The warm-up is frame 0: it hears   *)
(* silence, and jt9 prints no decodes. What the merge does with the two    *)
(* lists is the subject of ResultMerge.                                    *)
(***************************************************************************)
EXTENDS Integers, Sequences, FiniteSetsExt

CONSTANTS
    DecodeTimeout,   \* JT9_DECODE_TIMEOUT_SECONDS
    WarmupTimeout,   \* JT9_WARMUP_TIMEOUT_SECONDS
    MaxResults,      \* FT8_MAX_RESULTS
    MaxFailures,     \* consecutive failures that disable jt9 (3)
    MaxFrames,       \* bound on the frames decoded (exploration only)
    MaxElapsed,      \* bound on the seconds a child is followed
    MaxLines         \* bound on the lines a child prints

ASSUME Jt9Assumption ==
    /\ DecodeTimeout \in Nat \ {0} /\ WarmupTimeout \in Nat \ {0}
    /\ MaxResults \in Nat \ {0} /\ MaxFailures \in Nat \ {0}
    /\ MaxFrames \in Nat /\ MaxLines \in Nat
    /\ MaxElapsed > DecodeTimeout /\ MaxElapsed > WarmupTimeout

VARIABLES
    jt9_enabled, failures,   \* failures is jt9_consecutive_failures
    directory, files,        \* the runtime directory, and what is in it
    active, timeout_seconds, \* struct jt9_decode_job
    child,                   \* the process, as waitpid would find it
    output,                  \* the lines in decode.out
    elapsed, polled,         \* seconds begun; whether this second has been polled
    thread,                  \* where the thread (main during the warm-up) is
    jt9_success,             \* what wait_for_child, then jt9_decoder_finish, returned
    jt9_results, jt9_count,  \* static array; its count, a local
    ft8_results, ft8_count,  \* the same of ft8_lib
    ft8_success, exit_flag,
    frame,                   \* history: number of the frame being decoded
    reported,                \* history: frames behind the results just reported
    outcomes,                \* history: whether jt9 succeeded, frame by frame
    ft8_done                 \* history: elapsed when ft8_lib returned

decoderVars == <<jt9_enabled, failures, directory>>
jobVars     == <<active, timeout_seconds, jt9_success>>
resultVars  == <<jt9_results, jt9_count, ft8_results, ft8_count, ft8_success>>
timeVars    == <<elapsed, polled, ft8_done>>
history     == <<frame, reported, outcomes>>
vars == <<decoderVars, files, jobVars, child, output, timeVars, thread, resultVars,
          exit_flag, history>>

-----------------------------------------------------------------------------
Generated == "decoded.txt ... timer.out"      \* removed after every run
Wisdom    == "jt9_wisdom.dat"                 \* kept until the decoder is freed
AllFiles  == {"wave", "decode.out", Generated, Wisdom}
Frames    == 0 .. MaxFrames
NoDecode  == 0             \* a line that is no decode

(***************************************************************************)
(* The child is unknown to the parent ("none"), running, ended and not     *)
(* reaped ("exited_0", "failed"), or gone where waitpid fails ("lost").    *)
(***************************************************************************)
ChildStates == {"none", "running", "exited_0", "failed", "lost"}

Threads == {"init", "warmup", "idle", "ft8", "wait", "kill", "finish", "conclude",
            "ended", "freed"}

Init ==
    /\ jt9_enabled = FALSE /\ failures = 0
    /\ directory = FALSE /\ files = {}
    /\ active = FALSE /\ timeout_seconds = 0 /\ jt9_success = FALSE
    /\ child = "none" /\ output = <<>>
    /\ elapsed = 0 /\ polled = FALSE /\ ft8_done = 0
    /\ thread = "init"
    /\ jt9_results = [i \in 1 .. MaxResults |-> 0] /\ jt9_count = 0
    /\ ft8_results = [i \in 1 .. MaxResults |-> 0] /\ ft8_count = 0
    /\ ft8_success = FALSE
    /\ exit_flag = FALSE
    /\ frame = 0 /\ reported = {} /\ outcomes = <<>>

(***************************************************************************)
(* jt9_decoder_init: without an executable or a directory there is only    *)
(* ft8_lib.                                                                *)
(***************************************************************************)
DecoderInit ==
    /\ thread = "init"
    /\ \E ok \in BOOLEAN :
          /\ jt9_enabled' = ok
          /\ directory' = ok
          /\ thread' = IF ok THEN "warmup" ELSE "idle"
    /\ UNCHANGED <<failures, files, jobVars, child, output, timeVars, resultVars,
                   exit_flag, history>>

-----------------------------------------------------------------------------
(***************************************************************************)
(* The files once write_wave has written the input (it may fail half-way). *)
(***************************************************************************)
WriteWave(f) == f \union {"wave"}

(***************************************************************************)
(* What remains of the files when a start has failed, when a run has been  *)
(* cleaned up, and when the decoder has been freed; rmdir removes a        *)
(* directory only if it is empty.                                          *)
(***************************************************************************)
AfterFailure(f) == f \ {"wave", "decode.out"}

AfterCleanup(f) == f \ {"wave", "decode.out", Generated}

AfterFree(f) == f \ {Generated, Wisdom}

(***************************************************************************)
(* jt9_decoder_start with this timeout. decode.out is created or truncated *)
(* and is the child's standard output. Failing to write the input, to open *)
(* the output or to spawn removes both files again.                        *)
(***************************************************************************)
StartSucceeds(timeout) ==
    /\ files' = WriteWave(files) \union {"decode.out"}
    /\ output' = <<>>
    /\ child' = "running"
    /\ active' = TRUE
    /\ timeout_seconds' = timeout
    /\ elapsed' = 0 /\ polled' = FALSE

StartFails ==
    /\ output' = <<>>
    /\ active' = FALSE
    /\ timeout_seconds' = 0
    /\ elapsed' = 0 /\ polled' = FALSE
    /\ UNCHANGED child

(***************************************************************************)
(* jt9_decoder_free, with left still in the runtime directory.             *)
(***************************************************************************)
FreeDecoder(left) ==
    /\ jt9_enabled' = FALSE
    /\ files' = AfterFree(left)
    /\ directory' = (directory /\ AfterFree(left) # {})

(***************************************************************************)
(* jt9_decoder_warmup, from its start to the wait for the child. If the    *)
(* start fails the decoder is freed.                                       *)
(***************************************************************************)
WarmupStart ==
    /\ thread = "warmup"
    /\ \/ /\ StartSucceeds(WarmupTimeout)
          /\ thread' = "wait"
          /\ UNCHANGED <<jt9_enabled, directory>>
       \/ /\ StartFails
          /\ FreeDecoder(AfterFailure(WriteWave(files)))
          /\ thread' = "idle"
    /\ ft8_done' = 0
    /\ UNCHANGED <<failures, jt9_success, resultVars, exit_flag, history>>

(***************************************************************************)
(* The decoder thread takes a frame (Receiver models how) and starts jt9.  *)
(* Both counts are locals, set to 0 for each frame.                        *)
(***************************************************************************)
FrameStart ==
    /\ thread = "idle" /\ ~exit_flag /\ frame < MaxFrames
    /\ frame' = frame + 1
    /\ jt9_count' = 0 /\ ft8_count' = 0
    /\ reported' = {}
    /\ thread' = "ft8"
    /\ \/ jt9_enabled /\ StartSucceeds(DecodeTimeout)
       \/ jt9_enabled /\ StartFails /\ files' = AfterFailure(WriteWave(files))
       \/ ~jt9_enabled /\ UNCHANGED <<files, output, child, active, timeout_seconds,
                                      elapsed, polled>>
    /\ ft8_done' = 0
    /\ UNCHANGED <<decoderVars, jt9_success, jt9_results, ft8_results, ft8_success,
                   exit_flag, outcomes>>

(***************************************************************************)
(* ft8_decode_frame takes any time, while the child runs. Without a child  *)
(* jt9_decoder_finish is not called.                                       *)
(***************************************************************************)
Ft8Decode ==
    /\ thread = "ft8"
    /\ \E success \in BOOLEAN, count \in 0 .. MaxResults :
          /\ success \/ count = 0
          /\ ft8_success' = success
          /\ ft8_count' = count
          /\ ft8_results' = [i \in 1 .. MaxResults |->
                                IF i <= count THEN frame ELSE ft8_results[i]]
    /\ ft8_done' = elapsed
    /\ jt9_success' = FALSE
    /\ thread' = IF active THEN "wait" ELSE "conclude"
    /\ UNCHANGED <<decoderVars, files, active, timeout_seconds, child, output, elapsed,
                   polled, jt9_results, jt9_count, exit_flag, history>>

-----------------------------------------------------------------------------
(***************************************************************************)
(* One turn of wait_for_child. The child's end is looked for before the    *)
(* clock is read: a child that ended in time is not killed.                *)
(***************************************************************************)
WaitForChild ==
    /\ thread = "wait"
    /\ polled' = TRUE
    /\ \/ /\ child \in {"exited_0", "failed", "lost"}
          /\ jt9_success' = (child = "exited_0")
          /\ child' = "none"
          /\ thread' = "finish"
       \/ /\ child = "running"
          /\ thread' = IF elapsed >= timeout_seconds THEN "kill" ELSE "wait"
          /\ UNCHANGED <<child, jt9_success>>
    /\ UNCHANGED <<decoderVars, files, active, timeout_seconds, output, elapsed,
                   ft8_done, resultVars, exit_flag, history>>

\* Mutant: the child is abandoned at its deadline.
AbandonChild ==
    /\ thread = "kill"
    /\ jt9_success' = FALSE
    /\ thread' = "finish"
    /\ UNCHANGED <<decoderVars, files, active, timeout_seconds, child, output, timeVars,
                   resultVars, exit_flag, history>>

\* Mutant: the child is waited for without SIGKILL.
AwaitChild ==
    /\ thread = "kill"
    /\ child # "running"
    /\ child' = "none"
    /\ jt9_success' = FALSE
    /\ thread' = "finish"
    /\ UNCHANGED <<decoderVars, files, active, timeout_seconds, output, timeVars,
                   resultVars, exit_flag, history>>

(***************************************************************************)
(* SIGKILL and a blocking waitpid, which reaps the child even if it ended  *)
(* by itself since the poll; the run has failed all the same.              *)
(***************************************************************************)
KillChild ==
    /\ thread = "kill"
    /\ child' = "none"
    /\ jt9_success' = FALSE
    /\ thread' = "finish"
    /\ UNCHANGED <<decoderVars, files, active, timeout_seconds, output, timeVars,
                   resultVars, exit_flag, history>>

(***************************************************************************)
(* The rest of jt9_decoder_finish. The output is read only if the child    *)
(* ended well and the file can be opened. Lines that are no decodes, like  *)
(* jt9's closing line, are skipped; reading ends when the array is full.   *)
(***************************************************************************)
EndJob ==
    /\ output' = <<>>
    /\ active' = FALSE
    /\ timeout_seconds' = 0

jt9_parse_decode_line(line) == line # NoDecode

\* Mutant: every line is counted, decode or not.
ReadAll(lines) == SubSeq(lines, 1, Min({Len(lines), MaxResults}))

Read(lines) ==
    LET results[n \in 0 .. Len(lines)] ==
            IF n = 0 THEN <<>>
            ELSE IF Len(results[n - 1]) < MaxResults /\ jt9_parse_decode_line(lines[n])
                 THEN Append(results[n - 1], lines[n])
                 ELSE results[n - 1]
    IN  results[Len(lines)]

Parse ==
    /\ jt9_count' = Len(Read(output))
    /\ jt9_results' = [i \in 1 .. MaxResults |->
                          IF i <= Len(Read(output)) THEN Read(output)[i]
                          ELSE jt9_results[i]]

DecoderFinish ==
    /\ thread = "finish" /\ frame # 0
    /\ \/ jt9_success /\ Parse /\ UNCHANGED jt9_success
       \/ jt9_success' = FALSE /\ jt9_count' = 0 /\ UNCHANGED jt9_results
    /\ EndJob
    /\ files' = AfterCleanup(files)
    /\ thread' = "conclude"
    /\ UNCHANGED <<decoderVars, child, timeVars, ft8_results, ft8_count, ft8_success,
                   exit_flag, history>>

(***************************************************************************)
(* The end of the warm-up: its results are ignored, and a failure frees    *)
(* the decoder.                                                            *)
(***************************************************************************)
WarmupFinish ==
    /\ thread = "finish" /\ frame = 0
    /\ \/ /\ jt9_success
          /\ files' = AfterCleanup(files)
          /\ UNCHANGED <<jt9_enabled, directory>>
       \/ FreeDecoder(AfterCleanup(files))
    /\ EndJob
    /\ jt9_success' = FALSE
    /\ thread' = "idle"
    /\ UNCHANGED <<failures, child, timeVars, resultVars, exit_flag, history>>

(***************************************************************************)
(* The thread draws its conclusion from both decoders. Three failures in a *)
(* row end the use of jt9. Results of either are reported, unless the      *)
(* program is ending; which of jt9's are new is left to ResultMerge.       *)
(***************************************************************************)
Reported ==
    IF (ft8_success \/ jt9_success) /\ ~exit_flag
    THEN {ft8_results[i] : i \in 1 .. ft8_count} \union
         {jt9_results[i] : i \in 1 .. jt9_count}
    ELSE {}

\* Mutant: a success does not end a run of failures.
CountEveryFailure ==
    IF jt9_success \/ ~jt9_enabled
    THEN UNCHANGED <<decoderVars, files>>
    ELSE /\ failures' = failures + 1
         /\ IF failures + 1 >= MaxFailures
            THEN FreeDecoder(files)
            ELSE UNCHANGED <<jt9_enabled, directory, files>>

CountFailures ==
    IF jt9_success \/ ~jt9_enabled
    THEN /\ failures' = IF jt9_success THEN 0 ELSE failures
         /\ UNCHANGED <<jt9_enabled, directory, files>>
    ELSE /\ failures' = failures + 1
         /\ IF failures + 1 >= MaxFailures
            THEN FreeDecoder(files)
            ELSE UNCHANGED <<jt9_enabled, directory, files>>

Conclude ==
    /\ thread = "conclude"
    /\ CountFailures
    /\ reported' = Reported
    /\ outcomes' = Append(outcomes, jt9_success)
    /\ thread' = "idle"
    /\ UNCHANGED <<jobVars, child, output, timeVars, resultVars, exit_flag, frame>>

-----------------------------------------------------------------------------
(***************************************************************************)
(* The end of the thread, and jt9_decoder_free once main has joined it,    *)
(* which may free the decoder a second time.                               *)
(***************************************************************************)
ThreadEnds ==
    /\ thread = "idle" /\ exit_flag
    /\ thread' = "ended"
    /\ UNCHANGED <<decoderVars, files, jobVars, child, output, timeVars, resultVars,
                   exit_flag, history>>

MainFrees ==
    /\ thread = "ended"
    /\ FreeDecoder(files)
    /\ thread' = "freed"
    /\ UNCHANGED <<failures, jobVars, child, output, timeVars, resultVars, exit_flag,
                   history>>

SigintHandler ==
    /\ ~exit_flag
    /\ exit_flag' = TRUE
    /\ UNCHANGED <<decoderVars, files, jobVars, child, output, timeVars, thread,
                   resultVars, history>>

-----------------------------------------------------------------------------
(***************************************************************************)
(* The child prints lines, creates its files, and ends; or it hangs.     *)
(***************************************************************************)
ChildPrints ==
    /\ child = "running" /\ Len(output) < MaxLines
    /\ \E line \in {frame, NoDecode} : output' = Append(output, line)
    /\ UNCHANGED <<decoderVars, files, jobVars, child, timeVars, thread, resultVars,
                   exit_flag, history>>

ChildCreates ==
    /\ child = "running"
    /\ \E file \in {Generated, Wisdom} \ files : files' = files \union {file}
    /\ UNCHANGED <<decoderVars, jobVars, child, output, timeVars, thread, resultVars,
                   exit_flag, history>>

ChildEnds ==
    /\ child = "running"
    /\ child' \in {"exited_0", "failed", "lost"}
    /\ UNCHANGED <<decoderVars, files, jobVars, output, timeVars, thread, resultVars,
                   exit_flag, history>>

(***************************************************************************)
(* A second begins. The polling loop has looked at the child in the one    *)
(* that ends; everything but ft8_lib and that loop takes no time.          *)
(***************************************************************************)
Tick ==
    /\ active /\ elapsed < MaxElapsed
    /\ \/ thread = "ft8"
       \/ thread = "wait" /\ polled
    /\ elapsed' = elapsed + 1
    /\ polled' = FALSE
    /\ UNCHANGED <<decoderVars, files, jobVars, child, output, ft8_done, thread,
                   resultVars, exit_flag, history>>

-----------------------------------------------------------------------------
Decoder ==
    \/ DecoderInit \/ WarmupStart \/ WarmupFinish
    \/ Ft8Decode \/ WaitForChild \/ KillChild \/ DecoderFinish \/ Conclude
    \/ ThreadEnds \/ MainFrees

Next ==
    \/ Decoder \/ FrameStart \/ SigintHandler
    \/ ChildPrints \/ ChildCreates \/ ChildEnds \/ Tick

(***************************************************************************)
(* The thread runs and seconds pass. Nothing is assumed of the child.      *)
(***************************************************************************)
Spec == Init /\ [][Next]_vars /\ WF_vars(Decoder) /\ WF_vars(Tick)

-----------------------------------------------------------------------------
(***************************************************************************)
(* Nothing is left behind. A child that runs, or has ended and was not     *)
(* reaped, exists only between the start of a job and the end of           *)
(* wait_for_child, whatever it did and whenever it did it. Between frames  *)
(* the RAM directory holds nothing but the FFT wisdom, and neither files   *)
(* nor the directory outlive the use of jt9: not after a start that        *)
(* failed, a kill, a failed warm-up, or the third failure.                 *)
(***************************************************************************)
NothingLeft ==
    /\ child # "none" => active /\ thread \in {"ft8", "wait", "kill"}
    /\ thread \in {"idle", "ended", "freed"} =>
          /\ files \subseteq (IF jt9_enabled THEN {Wisdom} ELSE {})
          /\ directory = jt9_enabled

(***************************************************************************)
(* The results reported for a frame were decoded from that frame, though   *)
(* both result arrays are static and keep those of earlier frames.         *)
(***************************************************************************)
OwnResults == reported \subseteq {frame}

AllFailed(results) ==
    /\ Len(results) >= MaxFailures
    /\ \A i \in Len(results) - MaxFailures + 1 .. Len(results) : ~results[i]

(***************************************************************************)
(* jt9 is given up after a frame exactly if it was in use and the last     *)
(* MaxFailures (three) frames, this one included, all failed.              *)
(***************************************************************************)
DisabledAfterThree ==
    [][outcomes' # outcomes =>
          jt9_enabled' = (jt9_enabled /\ ~AllFailed(outcomes'))]_vars

(***************************************************************************)
(* The thread always gets through a frame, also next to a child that never *)
(* ends.                                                                   *)
(***************************************************************************)
EveryFrameConcluded ==
    thread \in {"ft8", "wait", "kill", "finish", "conclude"} ~> thread = "idle"

=============================================================================
