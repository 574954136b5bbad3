------------------------------ MODULE Service ------------------------------
(***************************************************************************)
(* The life of the process under its service manager: the startup of main  *)
(* with the clean-up each of its failures needs, the main loop as far as   *)
(* the watchdog and the health report see it, the shutdown, and systemd    *)
(* with the timers of airspyhf-wsprd.service.                              *)
(*                                                                         *)
(* Threads are reduced to being alive, busy or ended and to the resources  *)
(* they touch; what they compute is in Receiver, Jt9Decoder and            *)
(* BandAdvisor. Time is counted in units, of which every timer below is a  *)
(* multiple, in counters that stop at the largest value anything compares  *)
(* them with. Whatever polls four times a second has polled before a unit  *)
(* is over.                                                                *)
(***************************************************************************)
EXTENDS Naturals, Sequences, FiniteSets, SequencesExt

CONSTANTS
    PingInterval,    \* 10 s between two heartbeats
    DecodeDeadline,  \* 90 s
    DeviceTimeout,   \* what the calls that open, set up and start the device
                     \* take together, at most (the library's and libusb's)
    WarmupTimeout,   \* 60 s for the warm-up of jt9
    BootTimeout,     \* 45 s for the first band advice
    QueryTimeout,    \* 42 s for a round of band queries
    UploadTimeout,   \* 15 s for an upload to WSPRnet
    WatchdogSec, TimeoutStartSec, TimeoutStopSec, RestartSec

(* The timers of the service file leave room for those of the program:     *)
(* several heartbeats in a watchdog period, and all waits of the startup.  *)
ASSUME ServiceAssumption ==
    /\ PingInterval \in Nat \ {0} /\ DecodeDeadline \in Nat
    /\ DeviceTimeout \in Nat /\ WarmupTimeout \in Nat /\ BootTimeout \in Nat
    /\ QueryTimeout \in Nat /\ UploadTimeout \in Nat
    /\ WatchdogSec \in Nat /\ TimeoutStartSec \in Nat
    /\ TimeoutStopSec \in Nat /\ RestartSec \in Nat
    /\ PingInterval < WatchdogSec
    /\ DeviceTimeout + WarmupTimeout + BootTimeout < TimeoutStartSec

VARIABLES
    options,   \* mode, reporting, health server, adaptive hopping
    p,         \* the process: position, exit_flag, exit code, what is left to clean up
    held,      \* the resources that are initialized
    thread,    \* the state of each thread
    age,       \* how long the decode, the query and the current wait have lasted
    health,    \* struct wspr_health_server
    clock,     \* does the kernel say the clock is synchronized?
    unit       \* systemd: state of the unit, its timers, who was asked to stop

vars == <<options, p, held, thread, age, health, clock, unit>>

Threads == {"stream", "dsp", "decoder", "advisor", "health"}

(* What a thread touches while it is alive. The decoder posts spots, and   *)
(* the health server asks the reporter for the depth of its queue.         *)
Uses(t) ==
    CASE t = "stream"  -> {"device", "queue"}
      [] t = "dsp"     -> {"queue", "locks"}
      [] t = "decoder" -> {"locks"} \cup (IF options.reporting THEN {"reporter"} ELSE {})
                            \cup (IF options.mode = "FT8" THEN {"ft8"} ELSE {})
      [] t = "advisor" -> {"advisor"}
      [] t = "health"  -> {"health"} \cup (IF options.reporting THEN {"reporter"} ELSE {})

Alive(t) == thread[t] \in {"idle", "busy"}

-----------------------------------------------------------------------------
(* The startup: the steps of main in order. A step that cannot fail has no *)
(* clean-up; a step that may fail without ending the program is not fatal. *)

FreeAll == <<"close", "locks", "queue">>
FreeDecoders == <<"reporter", "ft8", "jt9">> \o FreeAll
FreeThreads == <<"reporter", "ft8", "jt9", "close", "queue", "locks">>

Fatal(cleanup) == [may_fail |-> TRUE, fatal |-> TRUE, cleanup |-> cleanup]
NotFatal == [may_fail |-> TRUE, fatal |-> FALSE, cleanup |-> << >>]
Safe == [may_fail |-> FALSE, fatal |-> FALSE, cleanup |-> << >>]

Step ==
    [open      |-> Fatal(<< >>),
     configure |-> Fatal(<<"close">>),
     locks     |-> Safe,
     queue     |-> Fatal(<<"close", "locks">>),
     reporter  |-> Fatal(FreeAll),
     ft8       |-> Fatal(<<"reporter">> \o FreeAll),
     jt9       |-> NotFatal,
     warmup    |-> NotFatal,
     decoder   |-> Fatal(FreeDecoders),
     dsp       |-> Fatal(<<"flag", "join_decoder">> \o FreeThreads),
     stream    |-> Fatal(<<"flag", "stop_queue", "join_dsp", "join_decoder">> \o FreeThreads),
     advisor   |-> NotFatal,
     boot      |-> NotFatal,
     health    |-> NotFatal,
     ready     |-> Safe]

Order == <<"open", "configure", "locks", "queue", "reporter", "ft8", "jt9", "warmup",
           "decoder", "dsp", "stream", "advisor", "boot", "health", "ready">>

(* The steps the options leave out.                                        *)
Skipped(step) ==
    \/ step = "reporter" /\ ~options.reporting
    \/ step \in {"ft8", "jt9"} /\ options.mode = "WSPR"
    \/ step = "warmup" /\ "jt9" \notin held
    \/ step = "advisor" /\ ~options.adaptive
    \/ step = "boot" /\ (options.mode = "WSPR" \/ thread.advisor = "none")
    \/ step = "health" /\ ~options.health

(* Mutant: the reporter is stopped while the health server still runs.     *)
ShutdownHealthLast ==
    <<"advisor", "stop_stream", "close", "stop_queue", "join_dsp", "join_decoder",
      "reporter", "health", "ft8", "jt9", "queue", "locks">>

(* The end of main after its loop.                                         *)
Shutdown ==
    <<"advisor", "stop_stream", "close", "stop_queue", "join_dsp", "join_decoder",
      "health", "reporter", "ft8", "jt9", "queue", "locks">>

-----------------------------------------------------------------------------
(* A process that has just been started: nothing is held, no thread runs.  *)
Fresh == [pc |-> "startup", step |-> 1, exit_flag |-> FALSE, exit_code |-> 0, todo |-> << >>,
          polled |-> FALSE, last_ping |-> PingInterval]
NoThread == [t \in Threads |-> "none"]
NoAge == [decode |-> 0, query |-> 0, wait |-> 0]
NoHealth == [started |-> FALSE, receiver_state |-> "none", clock_synchronized |-> FALSE]

Init ==
    /\ options \in [mode : {"WSPR", "FT8"}, reporting : BOOLEAN, health : BOOLEAN,
                    adaptive : BOOLEAN]
    /\ p = Fresh /\ held = {} /\ thread = NoThread /\ age = NoAge
    /\ health = NoHealth
    /\ clock \in BOOLEAN
    /\ unit = [state |-> "starting", timer |-> 0, asked |-> FALSE]

InStartup == p.pc = "startup"
InLoop == p.pc \in {"clock_wait", "waiting", "capturing"}
At(step) == InStartup /\ Order[p.step] = step

(* What the health server stores, once it is started.                      *)
wspr_health_set_receiver_state(state) ==
    IF health.started THEN [health EXCEPT !.receiver_state = state] ELSE health

Onward ==
    IF p.step = Len(Order) THEN [p EXCEPT !.pc = "clock_wait"]
    ELSE [p EXCEPT !.step = @ + 1]

StartSkips ==
    /\ InStartup /\ Skipped(Order[p.step])
    /\ p' = Onward
    /\ UNCHANGED <<options, held, thread, age, health, clock, unit>>

(* What a step that succeeds leaves behind.                                *)
Gained(step) ==
    CASE step = "open" -> {"device"}
      [] step \in {"locks", "queue", "reporter", "ft8", "jt9", "advisor", "health"} -> {step}
      [] OTHER -> {}

StartSucceeds ==
    /\ InStartup /\ ~Skipped(Order[p.step])
    /\ LET step == Order[p.step]
       IN  /\ step = "boot" => thread.advisor = "idle"
           /\ held' = held \cup Gained(step)
           /\ thread' = IF step \in Threads
                        THEN [thread EXCEPT ![step] = IF step = "advisor" /\ options.mode = "FT8"
                                                      THEN "busy" ELSE "idle"]
                        ELSE thread
           /\ health' = IF step = "health"
                        THEN [started |-> TRUE, receiver_state |-> "waiting",
                              clock_synchronized |-> clock]
                        ELSE IF step = "ready" THEN wspr_health_set_receiver_state("clock_wait")
                        ELSE health
           /\ unit' = IF step = "ready" /\ unit.state = "starting"
                      THEN [unit EXCEPT !.state = "running", !.timer = 0] ELSE unit
    /\ p' = Onward
    /\ age' = [age EXCEPT !.wait = 0]
    /\ UNCHANGED <<options, clock>>

(* jt9 and the advisor are given up and the program goes on; any other     *)
(* failure releases what the steps before it have acquired.                *)
StartFails ==
    /\ InStartup /\ ~Skipped(Order[p.step])
    /\ LET step == Order[p.step]
       IN  /\ Step[step].may_fail
           /\ step = "boot" => age.wait = BootTimeout
           /\ held' = IF step = "warmup" THEN held \ {"jt9"} ELSE held
           /\ p' = IF Step[step].fatal
                   THEN [p EXCEPT !.pc = "cleanup", !.todo = Step[step].cleanup, !.exit_code = 1]
                   ELSE Onward
    /\ age' = [age EXCEPT !.wait = 0]
    /\ UNCHANGED <<options, thread, health, clock, unit>>

-----------------------------------------------------------------------------
(* The loop.                                                               *)

(* Mutant: a decode is never found overdue.                                *)
decoder_never_timed_out == FALSE

decoder_timed_out == thread.decoder = "busy" /\ age.decode > DecodeDeadline

(* Mutant: the heartbeat is due only when the watchdog already is.         *)
PingDueLate == p.last_ping >= WatchdogSec

(* service_watchdog_ping sends at most one heartbeat in ten seconds.       *)
PingDue == p.last_ping >= PingInterval

(* health_watchdog_ping: publish the clock, and either the overdue decode  *)
(* or, when the last one is old enough, a heartbeat.                       *)
HealthWatchdogPing ==
    /\ health' = [health EXCEPT !.clock_synchronized = health.started /\ clock,
                                !.receiver_state = IF health.started /\ decoder_timed_out
                                                   THEN "decoder_timeout" ELSE @]
    /\ p' = [p EXCEPT !.polled = TRUE,
                      !.last_ping = IF ~decoder_timed_out /\ PingDue THEN 0 ELSE @]
    /\ unit' = IF ~decoder_timed_out /\ PingDue THEN [unit EXCEPT !.timer =
                  IF unit.state = "running" THEN 0 ELSE @] ELSE unit

(* Each wait of the loop polls every 250 ms. The wait for the clock does   *)
(* so only while the clock is not synchronized.                            *)
LoopPoll ==
    /\ InLoop /\ ~p.exit_flag
    /\ p.pc = "clock_wait" => ~clock
    /\ HealthWatchdogPing
    /\ UNCHANGED <<options, held, thread, age, clock>>

(* From one wait to the next: the clock is synchronized, the slot begins,  *)
(* the frame is complete.                                                  *)
LoopMoves ==
    /\ InLoop /\ ~p.exit_flag
    /\ \E next \in {"clock_wait", "waiting", "capturing"} :
         /\ <<p.pc, next>> \in {<<"clock_wait", "waiting">>, <<"waiting", "capturing">>,
                                <<"capturing", "clock_wait">>}
         /\ next = "waiting" => clock
         /\ next = "clock_wait" => thread.stream = "idle"
         /\ p' = [p EXCEPT !.pc = next, !.polled = FALSE]
         /\ health' = IF next = "waiting" /\ health.started
                      THEN [health EXCEPT !.receiver_state = next, !.clock_synchronized = TRUE]
                      ELSE wspr_health_set_receiver_state(next)
    /\ UNCHANGED <<options, held, thread, age, clock, unit>>

Leaving(code) == [p EXCEPT !.pc = "cleanup", !.todo = Shutdown, !.exit_flag = TRUE,
                           !.exit_code = code]

(* Mutant: a lost stream ends the loop without setting the exit code.      *)
LoopFailsQuietly ==
    /\ InLoop /\ ~p.exit_flag
    /\ p.pc = "capturing" => thread.stream = "ended"
    /\ p' = Leaving(0)
    /\ health' = wspr_health_set_receiver_state("stopping")
    /\ UNCHANGED <<options, held, thread, age, clock, unit>>

(* The next band cannot be tuned to, the time cannot be formatted, or the  *)
(* device no longer streams during a capture.                              *)
LoopFails ==
    /\ InLoop /\ ~p.exit_flag
    /\ p.pc = "capturing" => thread.stream = "ended"
    /\ p' = Leaving(1)
    /\ health' = wspr_health_set_receiver_state("stopping")
    /\ UNCHANGED <<options, held, thread, age, clock, unit>>

LoopEnds ==
    /\ InLoop /\ p.exit_flag
    /\ p' = Leaving(p.exit_code)
    /\ health' = wspr_health_set_receiver_state("stopping")
    /\ UNCHANGED <<options, held, thread, age, clock, unit>>

-----------------------------------------------------------------------------
(* The other threads.                                                      *)

(* The timer of systemd that is running.                                   *)
Limit ==
    CASE unit.state = "starting" -> TimeoutStartSec
      [] unit.state = "running"  -> WatchdogSec
      [] unit.state = "stopping" -> TimeoutStopSec
      [] unit.state = "restart"  -> RestartSec
      [] unit.state = "dead"     -> 0

Becomes(t, state) == thread' = [thread EXCEPT ![t] = state]

DecodeBegins ==
    /\ InLoop /\ ~p.exit_flag /\ thread.decoder = "idle"
    /\ Becomes("decoder", "busy")
    /\ UNCHANGED <<options, p, held, age, health, clock, unit>>

(* The decode ends; main polls again before the unit is over. A kill that  *)
(* is due comes first.                                                     *)
DecodeEnds ==
    /\ thread.decoder = "busy" /\ unit.timer < Limit
    /\ Becomes("decoder", "idle")
    /\ age' = [age EXCEPT !.decode = 0]
    /\ p' = [p EXCEPT !.polled = FALSE]
    /\ UNCHANGED <<options, held, health, clock, unit>>

QueryBegins ==
    /\ InLoop /\ thread.advisor = "idle"
    /\ Becomes("advisor", "busy")
    /\ UNCHANGED <<options, p, held, age, health, clock, unit>>

QueryEnds ==
    /\ thread.advisor = "busy"
    /\ Becomes("advisor", "idle")
    /\ age' = [age EXCEPT !.query = 0]
    /\ UNCHANGED <<options, p, held, health, clock, unit>>

StreamLost ==
    /\ thread.stream = "idle"
    /\ Becomes("stream", "ended")
    /\ UNCHANGED <<options, p, held, age, health, clock, unit>>

(* A thread ends once it is told to and has finished what it was doing.    *)
Told(t) ==
    /\ p.pc = "cleanup"
    /\ CASE t = "dsp"     -> ~Contains(p.todo, "stop_queue")
         [] t = "decoder" -> p.exit_flag
         [] t = "advisor" -> p.todo # << >> /\ Head(p.todo) = "advisor"
         [] t = "health"  -> p.todo # << >> /\ Head(p.todo) = "health"
         [] t = "stream"  -> FALSE

ThreadEnds ==
    \E t \in Threads :
        /\ Told(t) /\ thread[t] = "idle"
        /\ Becomes(t, "ended")
        /\ UNCHANGED <<options, p, held, age, health, clock, unit>>

-----------------------------------------------------------------------------
(* Clean-up, one operation after the other, after a failed startup and at  *)
(* the end. A join waits for its thread; stopping the reporter may wait    *)
(* for the upload under way; a device that fails to stop or to close makes *)
(* the end a failure.                                                      *)
JoinOf(op) ==
    CASE op = "join_dsp"     -> "dsp"
      [] op = "join_decoder" -> "decoder"
      [] op = "advisor"      -> "advisor"
      [] op = "health"       -> "health"
      [] OTHER               -> "none"

Released(op) ==
    CASE op = "close" -> {"device"}
      [] op \in {"locks", "queue", "reporter", "ft8", "jt9", "advisor", "health"} -> {op}
      [] OTHER -> {}

Cleanup ==
    /\ p.pc = "cleanup" /\ p.todo # << >>
    /\ LET op == Head(p.todo)
       IN  /\ JoinOf(op) # "none" => ~Alive(JoinOf(op))
           /\ held' = held \ Released(op)
           /\ thread' = IF op = "stop_stream" THEN [thread EXCEPT !.stream = "ended"] ELSE thread
           /\ health' = IF op = "health" THEN NoHealth ELSE health
           /\ \E code \in {p.exit_code} \cup (IF op \in {"stop_stream", "close"} THEN {1} ELSE {}) :
                p' = [p EXCEPT !.todo = Tail(@), !.exit_code = code,
                               !.exit_flag = @ \/ op = "flag"]
    /\ age' = [age EXCEPT !.wait = 0]
    /\ UNCHANGED <<options, clock, unit>>

Gone(u) ==
    /\ held' = {} /\ thread' = NoThread /\ age' = NoAge /\ health' = NoHealth
    /\ unit' = [u EXCEPT !.timer = 0]

(* main returns; systemd starts a failed process again, not one that was   *)
(* stopped or that ended well.                                             *)
Exit ==
    /\ p.pc = "cleanup" /\ p.todo = << >>
    /\ Gone([unit EXCEPT !.state = IF unit.state # "stopping" /\ p.exit_code # 0
                                   THEN "restart" ELSE "dead"])
    /\ p' = [Fresh EXCEPT !.pc = "exited", !.exit_code = p.exit_code]
    /\ UNCHANGED <<options, clock>>

-----------------------------------------------------------------------------
(* systemd and its operator.                                               *)

Running == p.pc # "exited"

Kill ==
    /\ Running /\ unit.timer >= Limit
    /\ Gone([unit EXCEPT !.state = IF unit.state = "stopping" THEN "dead" ELSE "restart"])
    /\ p' = [Fresh EXCEPT !.pc = "exited", !.exit_code = 1]
    /\ UNCHANGED <<options, clock>>

Restart ==
    /\ unit.state = "restart" /\ unit.timer >= Limit
    /\ unit' = [state |-> "starting", timer |-> 0, asked |-> FALSE]
    /\ p' = Fresh
    /\ UNCHANGED <<options, held, thread, age, health, clock>>

(* systemctl stop, which sends SIGTERM, or a signal of somebody else.      *)
Asked ==
    \/ /\ unit.state \in {"starting", "running"}
       /\ p' = [p EXCEPT !.exit_flag = TRUE]
       /\ \/ unit' = [unit EXCEPT !.state = "stopping", !.timer = 0, !.asked = TRUE]
          \/ ~unit.asked /\ unit' = [unit EXCEPT !.asked = TRUE]
       /\ UNCHANGED <<options, held, thread, age, health, clock>>
    \/ /\ unit.state = "restart"
       /\ unit' = [unit EXCEPT !.state = "dead", !.asked = TRUE]
       /\ UNCHANGED <<options, p, held, thread, age, health, clock>>

ClockChange ==
    /\ InLoop
    /\ clock' = ~clock
    /\ UNCHANGED <<options, p, held, thread, age, health, unit>>

(* A unit passes when nothing that takes no time is left to do. The time   *)
(* of the device is spent where it is opened.                              *)
Waiting ==
    \/ At("open") /\ age.wait < DeviceTimeout
    \/ At("warmup") /\ ~Skipped("warmup") /\ age.wait < WarmupTimeout
    \/ At("boot") /\ ~Skipped("boot") /\ age.wait < BootTimeout
    \/ InLoop /\ ~p.exit_flag /\ p.polled
    \/ /\ p.pc = "cleanup" /\ p.todo # << >>
       /\ LET op == Head(p.todo)
          IN  \/ JoinOf(op) # "none" /\ thread[JoinOf(op)] = "busy"
              \/ op = "reporter" /\ "reporter" \in held /\ age.wait < UploadTimeout
    \/ ~Running

Older(n, limit) == IF n < limit THEN n + 1 ELSE n

DecodeCap == DecodeDeadline + WatchdogSec + TimeoutStopSec + 1

Tick ==
    /\ unit.state # "dead" /\ unit.timer < Limit /\ Waiting
    /\ thread.advisor = "busy" => age.query < QueryTimeout
    /\ age' = [decode |-> IF thread.decoder = "busy" THEN Older(age.decode, DecodeCap) ELSE 0,
               query |-> IF thread.advisor = "busy" THEN age.query + 1 ELSE 0,
               wait |-> IF InLoop \/ ~Running THEN 0
                        ELSE Older(age.wait, DeviceTimeout + WarmupTimeout + BootTimeout)]
    /\ p' = [p EXCEPT !.polled = FALSE, !.last_ping = Older(@, WatchdogSec)]
    /\ unit' = [unit EXCEPT !.timer = @ + 1]
    /\ UNCHANGED <<options, held, thread, health, clock>>

Next ==
    \/ StartSkips \/ StartSucceeds \/ StartFails
    \/ LoopPoll \/ LoopMoves \/ LoopFails \/ LoopEnds
    \/ DecodeBegins \/ DecodeEnds \/ QueryBegins \/ QueryEnds \/ StreamLost \/ ThreadEnds
    \/ Cleanup \/ Exit
    \/ Kill \/ Restart \/ Asked \/ ClockChange \/ Tick

Spec == Init /\ [][Next]_vars

-----------------------------------------------------------------------------
(* Properties.                                                             *)

(***************************************************************************)
(* In every order of startup, failure and shutdown, whatever a thread that *)
(* is still alive touches is still there: its queue, its locks, the        *)
(* reporter it posts to or asks. And a process that ends by itself has     *)
(* released everything it held and left no thread running.                 *)
(***************************************************************************)
UsesHeld ==
    /\ \A t \in Threads : Alive(t) => Uses(t) \subseteq held
    /\ p.pc = "cleanup" /\ p.todo = << >> => held = {} /\ \A t \in Threads : ~Alive(t)

(***************************************************************************)
(* A decoder that hangs is not left hanging: the heartbeat is withheld     *)
(* once a decode is older than 90 s, or stops with the loop, and systemd   *)
(* ends the process one watchdog period later, or at the stop timeout when *)
(* it was asked to stop (docs/industrial-grade.md: "A hung process is      *)
(* killed and restarted automatically").                                   *)
(***************************************************************************)
HungCaught ==
    thread.decoder = "busy" =>
        age.decode <= DecodeDeadline + WatchdogSec
                        + (IF unit.state = "stopping" THEN TimeoutStopSec ELSE 0)

(***************************************************************************)
(* systemd never ends a process that is well: the startup stays within its *)
(* timeout however long jt9 and the first band advice take, if the device  *)
(* is started in what they leave of it (75 of 180 s); and the watchdog     *)
(* strikes only when a decode is overdue by nearly its whole period, or    *)
(* when main has left its loop and waits for a thread.                     *)
(***************************************************************************)
KillJustified ==
    [][Kill => \/ unit.state = "stopping"
               \/ p.pc = "cleanup"
               \/ /\ unit.state = "running" /\ thread.decoder = "busy"
                  /\ age.decode >= DecodeDeadline + WatchdogSec - PingInterval]_vars

(***************************************************************************)
(* The service is never left dead without anybody having asked for it: a   *)
(* lost device, a failed step or a kill always ends in an exit status that *)
(* makes systemd start it again (docs/industrial-grade.md: "unlimited      *)
(* 15-second restarts after receiver or USB failures").                    *)
(***************************************************************************)
ServiceSelfHeals == unit.state = "dead" => unit.asked
=============================================================================
