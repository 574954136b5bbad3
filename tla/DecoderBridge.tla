--------------------------- MODULE DecoderBridge ----------------------------
(***************************************************************************)
(* The bridge to the WSPR decoder (src/decoder_bridge.c).                  *)
(* decode_wspr_frame writes a frame to a temporary directory, runs the     *)
(* wsprd core on it as a child process, reads wspr_spots.txt back and      *)
(* removes what was created.                                               *)
(*                                                                         *)
(* The core's files are in the runtime directory, under the same names for *)
(* every frame. The service manager may kill the program and the core with *)
(* it (its control group) between any two steps; a new program then starts *)
(* in the same directory if that is configured and preserved, and in a new *)
(* one otherwise. A line of wspr_spots.txt is known by its frame and by    *)
(* the form of its message: "full" (callsign, grid and power; types 1 and  *)
(* 3) or "extended" (a compound callsign and power; type 2).               *)
(***************************************************************************)
EXTENDS Integers, Sequences

CONSTANTS
    Forms,        \* forms of message that are heard
    MaxResults,   \* the capacity passed by wsprDecoder, 50
    MaxLines,     \* bound on the lines of one run
    MaxFrames     \* bound on the frames decoded (exploration only)

ASSUME BridgeAssumption ==
    /\ Forms \subseteq {"full", "extended"}
    /\ MaxResults \in Nat \ {0}
    /\ MaxLines \in Nat /\ MaxFrames \in Nat

VARIABLES
    configured,   \* AIRSPYHF_WSPRD_RUNTIME_DIR is set, and preserved over a crash
    directory,    \* whether the runtime directory exists
    generated,    \* the core's files in it
    spots,        \* the lines of wspr_spots.txt
    temporary,    \* frames whose temporary directory exists
    inputs,       \* frames whose .c2 file exists
    core,         \* the child, as waitpid would find it
    thread,       \* where the decoder thread is
    results,      \* the lines parsed into dec_results, up to result_count
    exit_flag,
    frame,        \* history: number of the frame being decoded
    printed,      \* history: the decodes of this frame's core, unless it fails
    failed_at,    \* history: the step of this frame that failed
    posted,       \* history: what was handed to postSpots for this frame
    crashed       \* history: frames during which the program was killed

fileVars   == <<directory, generated, spots, temporary, inputs>>
frameVars  == <<frame, printed, failed_at, posted>>
vars == <<configured, fileVars, core, thread, results, exit_flag, frameVars, crashed>>

-----------------------------------------------------------------------------
GeneratedFiles == {"ALL_WSPR.TXT", "wspr_spots.txt", "wspr_timer.out"}
AllFiles       == GeneratedFiles \union {"hashtable.txt"}
Line           == [frame : 1 .. MaxFrames, form : Forms]

Cut(lines) == IF Len(lines) <= MaxResults THEN lines ELSE SubSeq(lines, 1, MaxResults)

Threads == {"idle", "begin", "write", "fork", "wait", "parse", "unlink", "sweep", "rmdir",
            "post", "ended", "exited", "dead"}

Init ==
    /\ configured \in BOOLEAN /\ directory = configured
    /\ generated = {} /\ spots = <<>>
    /\ temporary = {} /\ inputs = {}
    /\ core = "none"
    /\ thread = "idle"
    /\ results = <<>>
    /\ exit_flag = FALSE
    /\ frame = 0 /\ printed = <<>> /\ failed_at = "none" /\ posted = <<>>
    /\ crashed = {}

(***************************************************************************)
(* wsprDecoder takes a frame; Receiver models how.                         *)
(***************************************************************************)
TakeFrame ==
    /\ thread = "idle" /\ ~exit_flag /\ frame < MaxFrames
    /\ frame' = frame + 1
    /\ printed' = <<>> /\ failed_at' = "none" /\ posted' = <<>>
    /\ results' = <<>>
    /\ thread' = "begin"
    /\ UNCHANGED <<configured, fileVars, core, exit_flag, crashed>>

(***************************************************************************)
(* get_runtime_directory creates a directory of its own on the first call, *)
(* unless one is configured; then the temporary directory is made. What    *)
(* cannot be made, or named, is a failure with nothing to clean up.        *)
(***************************************************************************)
get_runtime_directory ==
    IF configured THEN UNCHANGED directory ELSE directory' \in {directory, TRUE}

Begin ==
    /\ thread = "begin"
    /\ get_runtime_directory
    /\ \/ /\ directory'
          /\ temporary' = temporary \union {frame}
          /\ thread' = "write"
          /\ UNCHANGED failed_at
       \/ /\ failed_at' = "begin"
          /\ thread' = "post"
          /\ UNCHANGED temporary
    /\ UNCHANGED <<configured, generated, spots, inputs, core, results, exit_flag,
                   frame, printed, posted, crashed>>

(***************************************************************************)
(* write_c2. A failure may leave a part of the file.                       *)
(***************************************************************************)
WriteInput ==
    /\ thread = "write"
    /\ \/ /\ inputs' = inputs \union {frame}
          /\ thread' = "fork"
          /\ UNCHANGED failed_at
       \/ /\ inputs' \in {inputs, inputs \union {frame}}
          /\ failed_at' = "write"
          /\ thread' = "unlink"
    /\ UNCHANGED <<configured, directory, generated, spots, temporary, core,
                   results, exit_flag, frame, printed, posted, crashed>>

(***************************************************************************)
(* run_core: fork, and the wait, which has no deadline. A core that could  *)
(* not be executed ends with status 127.                                   *)
(***************************************************************************)
Fork ==
    /\ thread = "fork"
    /\ \/ core' = "running" /\ thread' = "wait" /\ UNCHANGED failed_at
       \/ failed_at' = "core" /\ thread' = "unlink" /\ UNCHANGED core
    /\ UNCHANGED <<configured, fileVars, results, exit_flag, frame, printed, posted,
                   crashed>>

\* Mutant: the status of the core is not looked at.
WaitForAnyEnd ==
    /\ thread = "wait" /\ core \in {"exited_0", "failed"}
    /\ thread' = "parse"
    /\ core' = "none"
    /\ UNCHANGED <<configured, fileVars, results, exit_flag, frameVars, crashed>>

WaitForCore ==
    /\ thread = "wait"
    /\ \/ core = "exited_0" /\ thread' = "parse" /\ UNCHANGED failed_at
       \/ core = "failed" /\ failed_at' = "core" /\ thread' = "unlink"
    /\ core' = "none"
    /\ UNCHANGED <<configured, fileVars, results, exit_flag, frame, printed, posted,
                   crashed>>

(***************************************************************************)
(* parse_results. The conversion needs twelve fields; a type 2 message has *)
(* no grid, which leaves eleven. The first such line fails the frame, and  *)
(* result_count stays 0.                                                   *)
(***************************************************************************)
Fields(line) == IF line.form = "full" THEN 12 ELSE 11

Parse ==
    /\ thread = "parse"
    /\ \/ /\ "wspr_spots.txt" \in generated
          /\ \A i \in 1 .. Len(Cut(spots)) : Fields(spots[i]) = 12
          /\ results' = Cut(spots)
          /\ UNCHANGED failed_at
       \/ /\ "wspr_spots.txt" \in generated
          /\ \E i \in 1 .. Len(Cut(spots)) : Fields(spots[i]) # 12
          /\ failed_at' = "line"
          /\ UNCHANGED results
       \/ /\ failed_at' = "open"
          /\ UNCHANGED results
    /\ thread' = "unlink"
    /\ UNCHANGED <<configured, fileVars, core, exit_flag, frame, printed, posted,
                   crashed>>

(***************************************************************************)
(* The clean-up, on success and failure alike: the input, the core's       *)
(* files, which are swept one by one, and the temporary directory, which   *)
(* can be removed only when it is empty.                                   *)
(***************************************************************************)
UnlinkInput ==
    /\ thread = "unlink"
    /\ inputs' = inputs \ {frame}
    /\ thread' = "sweep"
    /\ UNCHANGED <<configured, directory, generated, spots, temporary, core,
                   results, exit_flag, frameVars, crashed>>

SweepOrder == <<"ALL_WSPR.TXT", "wspr_spots.txt", "wspr_timer.out">>

RemoveFirst ==
    \E i \in 1 .. 3 :
        /\ SweepOrder[i] \in generated
        /\ \A j \in 1 .. (i - 1) : SweepOrder[j] \notin generated
        /\ generated' = generated \ {SweepOrder[i]}

Swept == generated \intersect GeneratedFiles = {}

\* Mutant: the sweep ends at the first file that exists.
SweepOne ==
    /\ thread = "sweep"
    /\ \/ RemoveFirst
       \/ Swept /\ UNCHANGED generated
    /\ thread' = "rmdir"
    /\ UNCHANGED <<configured, directory, spots, temporary, inputs, core, results,
                   exit_flag, frameVars, crashed>>

Sweep ==
    /\ thread = "sweep"
    /\ \/ RemoveFirst /\ UNCHANGED thread
       \/ Swept /\ thread' = "rmdir" /\ UNCHANGED generated
    /\ UNCHANGED <<configured, directory, spots, temporary, inputs, core, results,
                   exit_flag, frameVars, crashed>>

RemoveTemporary ==
    /\ thread = "rmdir"
    /\ temporary' = IF frame \in inputs THEN temporary ELSE temporary \ {frame}
    /\ thread' = "post"
    /\ UNCHANGED <<configured, directory, generated, spots, inputs, core, results,
                   exit_flag, frameVars, crashed>>

(***************************************************************************)
(* wsprDecoder: the spots are posted unless the decode failed or the       *)
(* program is ending.                                                      *)
(***************************************************************************)
Post ==
    /\ thread = "post"
    /\ posted' = IF failed_at = "none" /\ ~exit_flag THEN results ELSE <<>>
    /\ thread' = "idle"
    /\ UNCHANGED <<configured, fileVars, core, results, exit_flag, frame, printed,
                   failed_at, crashed>>

-----------------------------------------------------------------------------
(***************************************************************************)
(* The core. It opens its files, wspr_spots.txt for writing anew, before   *)
(* it decodes; it prints, writes the hash table and ends, or fails, or     *)
(* hangs.                                                                  *)
(***************************************************************************)
CoreOpens ==
    /\ core = "running"
    /\ generated' = generated \union GeneratedFiles
    /\ spots' = <<>>
    /\ core' = "decoding"
    /\ UNCHANGED <<configured, directory, temporary, inputs, thread, results,
                   exit_flag, frameVars, crashed>>

CorePrints ==
    /\ core = "decoding" /\ Len(spots) < MaxLines
    /\ \E form \in Forms :
          /\ spots' = Append(spots, [frame |-> frame, form |-> form])
          /\ printed' = Append(printed, [frame |-> frame, form |-> form])
    /\ UNCHANGED <<configured, directory, generated, temporary, inputs, core, thread,
                   results, exit_flag, frame, failed_at, posted, crashed>>

CoreEnds ==
    /\ core = "decoding"
    /\ core' = "exited_0"
    /\ generated' \in {generated, generated \union {"hashtable.txt"}}
    /\ UNCHANGED <<configured, directory, spots, temporary, inputs, thread, results,
                   exit_flag, frameVars, crashed>>

CoreFails ==
    /\ core \in {"running", "decoding"}
    /\ core' = "failed"
    /\ printed' = <<>>
    /\ UNCHANGED <<configured, fileVars, thread, results, exit_flag, frame, failed_at,
                   posted, crashed>>

-----------------------------------------------------------------------------
(***************************************************************************)
(* The end of the program: the decoder thread is joined, and the handler   *)
(* registered with atexit removes a directory of the program's own.        *)
(***************************************************************************)
SigintHandler ==
    /\ ~exit_flag /\ thread \notin {"ended", "exited", "dead"}
    /\ exit_flag' = TRUE
    /\ UNCHANGED <<configured, fileVars, core, thread, results, frameVars, crashed>>

ThreadEnds ==
    /\ thread = "idle" /\ exit_flag
    /\ thread' = "ended"
    /\ UNCHANGED <<configured, fileVars, core, results, exit_flag, frameVars,
                   crashed>>

CleanupProcessRuntime ==
    /\ thread = "ended"
    /\ IF configured
       THEN UNCHANGED <<directory, generated>>
       ELSE /\ generated' = generated \ AllFiles
            /\ directory' = (directory /\ (generated \ AllFiles # {} \/ temporary # {}))
    /\ thread' = "exited"
    /\ UNCHANGED <<configured, spots, temporary, inputs, core, results, exit_flag,
                   frameVars, crashed>>

(***************************************************************************)
(* The control group is killed; the service manager starts it again.       *)
(***************************************************************************)
Crash ==
    /\ thread \notin {"exited", "dead"}
    /\ crashed' = crashed \union {frame}
    /\ core' = "none"
    /\ thread' = "dead"
    /\ UNCHANGED <<configured, fileVars, results, exit_flag, frameVars>>

Restart ==
    /\ thread = "dead" /\ frame < MaxFrames
    /\ thread' = "idle"
    /\ results' = <<>> /\ exit_flag' = FALSE
    /\ printed' = <<>> /\ failed_at' = "none" /\ posted' = <<>>
    /\ IF configured
       THEN UNCHANGED fileVars
       ELSE /\ directory' = FALSE /\ generated' = {} /\ spots' = <<>>
            /\ temporary' = {} /\ inputs' = {}
    /\ UNCHANGED <<configured, core, frame, crashed>>

-----------------------------------------------------------------------------
Decoder ==
    \/ Begin \/ WriteInput \/ Fork \/ WaitForCore \/ Parse
    \/ UnlinkInput \/ Sweep \/ RemoveTemporary \/ Post

Core == CoreOpens \/ CorePrints \/ CoreEnds \/ CoreFails

Next ==
    \/ TakeFrame \/ Decoder \/ Core
    \/ SigintHandler \/ ThreadEnds \/ CleanupProcessRuntime
    \/ Crash \/ Restart

Spec == Init /\ [][Next]_vars

-----------------------------------------------------------------------------
(***************************************************************************)
(* What is posted for a frame is the output of that frame's core, which    *)
(* ended well, in order and whole as far as the array goes; or nothing.    *)
(* It holds although every run uses the same file, and a killed run leaves *)
(* its own behind.                                                         *)
(***************************************************************************)
PostedWhole == posted \in {<<>>, Cut(printed)}

(***************************************************************************)
(* A frame leaves the runtime directory as it should be, with nothing but  *)
(* the hash table in it: also what an earlier run left when it was killed  *)
(* is gone, except for that run's own temporary directory. A program that  *)
(* ends by itself leaves no directory of its own in RAM.                   *)
(***************************************************************************)
RuntimeSwept ==
    /\ thread \in {"idle", "ended"} /\ failed_at # "begin" /\ frame \notin crashed =>
          /\ generated \subseteq {"hashtable.txt"}
          /\ temporary \subseteq crashed
    /\ thread = "exited" /\ ~configured => ~directory

(***************************************************************************)
(* "Decoded spots are printed and uploaded automatically" (README.md): if  *)
(* the core ended well and its file could be read, its decodes are posted. *)
(* Not so for the code: a type 2 message fails parse_results, and with it  *)
(* every spot of the frame.                                                *)
(***************************************************************************)
DecodedSpotsPosted ==
    thread = "idle" /\ ~exit_flag /\ failed_at # "open" => posted = Cut(printed)

=============================================================================
