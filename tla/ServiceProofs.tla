---------------------------- MODULE ServiceProofs ----------------------------
(***************************************************************************)
(* The life of the process under systemd, for all values of its timers:    *)
(* what its threads use is there, a hung decode is ended, a healthy        *)
(* process is not, and a failure is followed by a restart.                 *)
(***************************************************************************)
EXTENDS Service, TLAPS

Positions == {"startup", "clock_wait", "waiting", "capturing", "cleanup", "exited"}
UnitStates == {"starting", "running", "stopping", "restart", "dead"}

(* The operations of the clean-up lists.                                   *)
Operations ==
    {"flag", "stop_queue", "stop_stream", "join_dsp", "join_decoder", "close", "locks",
     "advisor", "health", "queue", "reporter", "ft8", "jt9"}

Processes ==
    [pc : Positions, step : 1 .. 15, exit_flag : BOOLEAN, exit_code : {0, 1},
     todo : Seq(Operations), polled : BOOLEAN, last_ping : Nat]
ThreadStates == {"none", "idle", "busy", "ended"}
Units == [state : UnitStates, timer : Nat, asked : BOOLEAN]
Ages == [decode : Nat, query : Nat, wait : Nat]

(***************************************************************************)
(* The types the invariants need.                                          *)
(***************************************************************************)
ServiceShape ==
    /\ options.mode \in {"WSPR", "FT8"}
    /\ p \in Processes
    /\ thread \in [Threads -> ThreadStates]
    /\ age \in Ages
    /\ unit \in Units

(***************************************************************************)
(* Where the process can be in each state of the unit.                     *)
(***************************************************************************)
Phases ==
    /\ p.pc = "startup" => unit.state \in {"starting", "stopping"}
    /\ InLoop => unit.state \in {"running", "stopping"}
    /\ p.pc = "cleanup" => unit.state \in {"starting", "running", "stopping"}
    /\ p.pc = "exited" =>
          /\ unit.state \in {"restart", "dead"}
          /\ held = {} /\ thread = NoThread /\ age = NoAge

(***************************************************************************)
(* A stop that nobody asked for ends in an exit status other than 0.       *)
(***************************************************************************)
StopsExplained ==
    /\ unit.state \in {"stopping", "dead"} => unit.asked
    /\ p.pc \notin {"cleanup", "exited"} /\ p.exit_flag => unit.asked
    /\ p.pc = "cleanup" /\ p.exit_code = 0 => unit.asked

LifeInv == ServiceShape /\ Phases /\ StopsExplained

(* The i-th step of the startup is over.                                   *)
Done(i) == InLoop \/ (InStartup /\ p.step > i)

(***************************************************************************)
(* Until the clean-up begins, what the finished steps acquired is held, no *)
(* more than that is, and no thread runs before its step.                  *)
(***************************************************************************)
StartupHeld ==
    InStartup \/ InLoop =>
        /\ /\ "device" \in held <=> Done(1)
           /\ "locks" \in held <=> Done(3)
           /\ "queue" \in held <=> Done(4)
           /\ "reporter" \in held <=> Done(5) /\ options.reporting
           /\ "ft8" \in held <=> Done(6) /\ options.mode = "FT8"
           /\ "jt9" \in held => Done(7)
           /\ "advisor" \in held => Done(12)
           /\ "health" \in held => Done(14)
           /\ held \subseteq {"device", "locks", "queue", "reporter", "ft8", "jt9",
                              "advisor", "health"}
        /\ /\ Alive("decoder") => Done(9)
           /\ Alive("dsp") => Done(10)
           /\ Alive("stream") => Done(11)
           /\ Alive("advisor") => "advisor" \in held
           /\ Alive("health") => "health" \in held

(* The operation waits for the end of the thread, or brings it about.      *)
Ends(op, t) == JoinOf(op) = t \/ (op = "stop_stream" /\ t = "stream")

(* What the list releases before it has ended the thread does not touch    *)
(* what the thread uses.                                                   *)
EndsInTime(todo, t) ==
    \E i \in 1 .. Len(todo) :
        /\ Ends(todo[i], t)
        /\ \A j \in 1 .. Len(todo) : j < i => Released(todo[j]) \cap Uses(t) = {}

(* The list releases the resource.                                         *)
Releases(todo, r) == \E i \in 1 .. Len(todo) : r \in Released(todo[i])

(***************************************************************************)
(* What is left of the clean-up releases everything that is held, and ends *)
(* every thread before it releases what the thread uses.                   *)
(***************************************************************************)
CleanupCovers ==
    p.pc = "cleanup" =>
        /\ \A r \in held : Releases(p.todo, r)
        /\ \A t \in Threads :
              Alive(t) => Uses(t) \subseteq held /\ EndsInTime(p.todo, t)

HeldInv == LifeInv /\ StartupHeld /\ CleanupCovers

(***************************************************************************)
(* A decode is no older than what the timer of systemd allows for.         *)
(***************************************************************************)
HungBound ==
    /\ unit.state # "dead" => unit.timer <= Limit
    /\ thread.decoder = "busy" =>
          /\ ~InStartup /\ unit.state # "starting"
          /\ age.decode <= DecodeDeadline + unit.timer
                             + (IF unit.state = "stopping" THEN WatchdogSec ELSE 0)
    /\ thread.decoder # "busy" => age.decode = 0

HungInv == LifeInv /\ HungBound

(***************************************************************************)
(* The startup has taken no longer than its three waits.                    *)
(***************************************************************************)
StartPace ==
    InStartup =>
        /\ ~p.polled
        /\ age.wait > 0 =>
              \/ p.step = 1 /\ age.wait <= DeviceTimeout
              \/ p.step = 8 /\ "jt9" \in held /\ age.wait <= WarmupTimeout
              \/ /\ p.step = 13 /\ options.mode # "WSPR" /\ thread.advisor # "none"
                 /\ age.wait <= BootTimeout
        /\ unit.state = "starting" =>
              unit.timer <= (IF p.step > 1 THEN DeviceTimeout ELSE 0)
                              + (IF p.step > 8 THEN WarmupTimeout ELSE 0)
                              + (IF p.step > 13 THEN BootTimeout ELSE 0) + age.wait

(***************************************************************************)
(* The watchdog of a process in its loop is behind by no more than one     *)
(* heartbeat and the time the decode is overdue, unless main is about to   *)
(* poll.                                                                   *)
(***************************************************************************)
LoopPace ==
    unit.state = "running" =>
        /\ unit.timer <= p.last_ping
        /\ InLoop /\ p.polled /\ ~decoder_timed_out => p.last_ping < PingInterval
        /\ InLoop =>
              \/ unit.timer <= PingInterval
                                 + (IF decoder_timed_out THEN age.decode - DecodeDeadline
                                                         ELSE 0)
              \/ ~p.polled /\ ~decoder_timed_out /\ unit.timer < WatchdogSec

PaceInv == HungInv /\ StartPace /\ LoopPace

-----------------------------------------------------------------------------
(***************************************************************************)
(* The startup has fifteen steps, in this order.                           *)
(***************************************************************************)
LEMMA OrderOfSteps ==
    /\ Len(Order) = 15
    /\ Order[1] = "open"     /\ Order[2] = "configure" /\ Order[3] = "locks"
    /\ Order[4] = "queue"    /\ Order[5] = "reporter"  /\ Order[6] = "ft8"
    /\ Order[7] = "jt9"      /\ Order[8] = "warmup"    /\ Order[9] = "decoder"
    /\ Order[10] = "dsp"     /\ Order[11] = "stream"   /\ Order[12] = "advisor"
    /\ Order[13] = "boot"    /\ Order[14] = "health"   /\ Order[15] = "ready"
BY DEF Order

(***************************************************************************)
(* A change of one field keeps a record in its type.                       *)
(***************************************************************************)
LEMMA ProcessKept ==
    ASSUME NEW q \in Processes
    PROVE  /\ \A x \in Positions : [q EXCEPT !.pc = x] \in Processes
           /\ \A x \in 1 .. 15 : [q EXCEPT !.step = x] \in Processes
           /\ \A x \in BOOLEAN : [q EXCEPT !.exit_flag = x] \in Processes
           /\ \A x \in BOOLEAN : [q EXCEPT !.polled = x] \in Processes
           /\ \A x \in {0, 1} : [q EXCEPT !.exit_code = x] \in Processes
           /\ \A x \in Seq(Operations) : [q EXCEPT !.todo = x] \in Processes
           /\ \A x \in Nat : [q EXCEPT !.last_ping = x] \in Processes
BY DEF Processes

LEMMA UnitKept ==
    ASSUME NEW u \in Units
    PROVE  /\ \A x \in UnitStates : [u EXCEPT !.state = x] \in Units
           /\ \A x \in Nat : [u EXCEPT !.timer = x] \in Units
           /\ \A x \in BOOLEAN : [u EXCEPT !.asked = x] \in Units
BY DEF Units

(***************************************************************************)
(* The fields of the records, and what a fresh process is.                 *)
(***************************************************************************)
LEMMA Fields ==
    /\ \A q \in Processes :
          /\ q.pc \in Positions /\ q.step \in 1 .. 15 /\ q.exit_flag \in BOOLEAN
          /\ q.exit_code \in {0, 1} /\ q.todo \in Seq(Operations)
          /\ q.polled \in BOOLEAN /\ q.last_ping \in Nat
    /\ \A u \in Units : u.state \in UnitStates /\ u.timer \in Nat /\ u.asked \in BOOLEAN
    /\ \A a \in Ages : a.decode \in Nat /\ a.query \in Nat /\ a.wait \in Nat
BY DEF Processes, Units, Ages

LEMMA FreshTypes ==
    /\ Fresh \in Processes
    /\ NoThread \in [Threads -> ThreadStates]
    /\ NoAge \in Ages
<1>1. <<>> \in Seq(Operations)
  OBVIOUS
<1> QED
  BY <1>1, ServiceAssumption
  DEF ServiceAssumption, Fresh, NoThread, NoAge, Processes, Positions, ThreadStates, Ages

(***************************************************************************)
(* The lists of clean-up operations, written out.                          *)
(***************************************************************************)
LEMMA ListsOfSteps ==
    /\ Step.open.cleanup = <<>>
    /\ Step.configure.cleanup = <<"close">>
    /\ Step.queue.cleanup = <<"close", "locks">>
    /\ Step.reporter.cleanup = <<"close", "locks", "queue">>
    /\ Step.ft8.cleanup = <<"reporter", "close", "locks", "queue">>
    /\ Step.decoder.cleanup = <<"reporter", "ft8", "jt9", "close", "locks", "queue">>
    /\ Step.dsp.cleanup = <<"flag", "join_decoder", "reporter", "ft8", "jt9", "close",
                            "queue", "locks">>
    /\ Step.stream.cleanup = <<"flag", "stop_queue", "join_dsp", "join_decoder",
                               "reporter", "ft8", "jt9", "close", "queue", "locks">>
BY DEF Step, Fatal, Safe, NotFatal, FreeAll, FreeDecoders, FreeThreads

(***************************************************************************)
(* Each step of the startup: may it fail, does that end the program, and   *)
(* what the clean-up is then.                                              *)
(***************************************************************************)
LEMMA StepTable ==
    /\ Step["open"] = Fatal(<<>>)
    /\ Step["configure"] = Fatal(<<"close">>)
    /\ Step["queue"] = Fatal(<<"close", "locks">>)
    /\ Step["reporter"] = Fatal(<<"close", "locks", "queue">>)
    /\ Step["ft8"] = Fatal(<<"reporter", "close", "locks", "queue">>)
    /\ Step["decoder"] = Fatal(<<"reporter", "ft8", "jt9", "close", "locks", "queue">>)
    /\ Step["dsp"] = Fatal(<<"flag", "join_decoder", "reporter", "ft8", "jt9", "close",
                             "queue", "locks">>)
    /\ Step["stream"] = Fatal(<<"flag", "stop_queue", "join_dsp", "join_decoder",
                                "reporter", "ft8", "jt9", "close", "queue", "locks">>)
    /\ \A step \in {"locks", "ready"} : Step[step] = Safe
    /\ \A step \in {"jt9", "warmup", "advisor", "boot", "health"} : Step[step] = NotFatal
<1>1. \A step \in {"open", "configure", "queue", "reporter", "ft8", "decoder", "dsp",
                  "stream"} : \E cleanup : Step[step] = Fatal(cleanup)
  BY DEF Step
<1>2. \A step \in {"open", "configure", "queue", "reporter", "ft8", "decoder", "dsp",
                  "stream"} : Step[step] = Fatal(Step[step].cleanup)
  <2> TAKE step \in {"open", "configure", "queue", "reporter", "ft8", "decoder", "dsp",
                    "stream"}
  <2>1. PICK cleanup : Step[step] = Fatal(cleanup)
    BY <1>1
  <2>2. Fatal(cleanup).cleanup = cleanup
    BY DEF Fatal
  <2> QED
    BY <2>1, <2>2
<1>3. \A step \in {"locks", "ready"} : Step[step] = Safe
  BY DEF Step
<1>4. \A step \in {"jt9", "warmup", "advisor", "boot", "health"} : Step[step] = NotFatal
  BY DEF Step
<1> QED
  BY <1>2, <1>3, <1>4, ListsOfSteps

(***************************************************************************)
(* The clean-ups, by the number of the step that fails.                    *)
(***************************************************************************)
LEMMA FatalSteps ==
    \A i \in 1 .. 15 :
        /\ Step[Order[i]].fatal <=> i \in {1, 2, 4, 5, 6, 9, 10, 11}
        /\ Step[Order[i]].fatal => Step[Order[i]].cleanup \in Seq(Operations)
        /\ i = 15 => ~Step[Order[i]].may_fail
<1> SUFFICES ASSUME NEW i \in 1 .. 15
             PROVE  /\ Step[Order[i]].fatal <=> i \in {1, 2, 4, 5, 6, 9, 10, 11}
                    /\ Step[Order[i]].fatal => Step[Order[i]].cleanup \in Seq(Operations)
                    /\ i = 15 => ~Step[Order[i]].may_fail
  OBVIOUS
<1>1. CASE i \in {1, 2, 4, 5, 6, 9, 10, 11}
  <2>1. PICK cleanup : /\ Step[Order[i]] = Fatal(cleanup)
                       /\ cleanup \in Seq(Operations)
    <3>1. CASE i = 1
      <4>1. <<>> \in Seq(Operations)
        BY DEF Operations
      <4> QED
        BY <3>1, <4>1, OrderOfSteps, StepTable
    <3>2. CASE i = 2
      <4>1. <<"close">> \in Seq(Operations)
        BY DEF Operations
      <4> QED
        BY <3>2, <4>1, OrderOfSteps, StepTable
    <3>3. CASE i = 4
      <4>1. <<"close", "locks">> \in Seq(Operations)
        BY DEF Operations
      <4> QED
        BY <3>3, <4>1, OrderOfSteps, StepTable
    <3>4. CASE i = 5
      <4>1. <<"close", "locks", "queue">> \in Seq(Operations)
        BY DEF Operations
      <4> QED
        BY <3>4, <4>1, OrderOfSteps, StepTable
    <3>5. CASE i = 6
      <4>1. <<"reporter", "close", "locks", "queue">> \in Seq(Operations)
        BY DEF Operations
      <4> QED
        BY <3>5, <4>1, OrderOfSteps, StepTable
    <3>6. CASE i = 9
      <4>1. <<"reporter", "ft8", "jt9", "close", "locks", "queue">> \in Seq(Operations)
        BY DEF Operations
      <4> QED
        BY <3>6, <4>1, OrderOfSteps, StepTable
    <3>7. CASE i = 10
      <4>1. <<"flag", "join_decoder", "reporter", "ft8", "jt9", "close", "queue",
               "locks">> \in Seq(Operations)
        BY DEF Operations
      <4> QED
        BY <3>7, <4>1, OrderOfSteps, StepTable
    <3>8. CASE i = 11
      <4>1. <<"flag", "stop_queue", "join_dsp", "join_decoder", "reporter", "ft8", "jt9",
               "close", "queue", "locks">> \in Seq(Operations)
        BY DEF Operations
      <4> QED
        BY <3>8, <4>1, OrderOfSteps, StepTable
    <3> QED
      BY <1>1, <3>1, <3>2, <3>3, <3>4, <3>5, <3>6, <3>7, <3>8
  <2> QED
    BY <1>1, <2>1 DEF Fatal
<1>2. CASE i \in {3, 15}
  BY <1>2, OrderOfSteps, StepTable DEF Safe
<1>3. CASE i \in {7, 8, 12, 13, 14}
  BY <1>3, OrderOfSteps, StepTable DEF NotFatal
<1> QED
  BY <1>1, <1>2, <1>3

(***************************************************************************)
(* The start of a process.                                                 *)
(***************************************************************************)
LEMMA LifeInitially == Init => LifeInv
<1> SUFFICES ASSUME Init PROVE LifeInv
  OBVIOUS
<1>1. ServiceShape
  BY FreshTypes DEF Init, ServiceShape, Units, UnitStates
<1> QED
  BY <1>1 DEF Init, LifeInv, Phases, StopsExplained, Fresh, InLoop

(***************************************************************************)
(* Every step keeps the types.                                             *)
(***************************************************************************)
LEMMA OnwardKept == p \in Processes => Onward \in Processes
<1> SUFFICES ASSUME p \in Processes PROVE Onward \in Processes
  OBVIOUS
<1>1. CASE p.step = 15
  BY <1>1, OrderOfSteps, ProcessKept DEF Onward, Positions
<1>2. CASE p.step # 15
  <2>1. p.step + 1 \in 1 .. 15
    <3>1. p.step \in 1 .. 15
      BY Fields
    <3> QED
      BY <1>2, <3>1
  <2> QED
    BY <1>2, <2>1, OrderOfSteps, ProcessKept DEF Onward
<1> QED
  BY <1>1, <1>2

LEMMA LeavingKept ==
    ASSUME p \in Processes, NEW code \in {0, 1}
    PROVE  Leaving(code) \in Processes
<1>1. Shutdown \in Seq(Operations)
  BY DEF Shutdown, Operations
<1> QED
  BY <1>1 DEF Leaving, Processes, Positions

LEMMA ShapeStep == ServiceShape /\ [Next]_vars => ServiceShape'
<1> SUFFICES ASSUME ServiceShape, [Next]_vars
             PROVE  ServiceShape'
  OBVIOUS
<1> USE DEF ServiceShape
<1>0. /\ p.step \in 1 .. 15 /\ p.pc \in Positions /\ p.exit_code \in {0, 1}
      /\ p.todo \in Seq(Operations) /\ p.exit_flag \in BOOLEAN
      /\ p.last_ping \in Nat /\ unit.timer \in Nat /\ unit.state \in UnitStates
      /\ age.decode \in Nat /\ age.query \in Nat /\ age.wait \in Nat
  BY Fields
<1>1. CASE StartSkips
  BY <1>1, OnwardKept DEF StartSkips
<1>2. CASE StartSucceeds
  <2>1. thread' \in [Threads -> ThreadStates]
    BY <1>2 DEF StartSucceeds, ThreadStates
  <2>2. p' \in Processes
    BY <1>2, OnwardKept DEF StartSucceeds
  <2>3. age' \in Ages
    BY <1>2 DEF StartSucceeds, Ages
  <2>4. unit' \in {unit, [unit EXCEPT !.state = "running", !.timer = 0]}
    BY <1>2 DEF StartSucceeds
  <2>5. unit' \in Units
    <3>1. CASE unit' = [unit EXCEPT !.state = "running", !.timer = 0]
      BY <3>1 DEF Units, UnitStates
    <3> QED
      BY <2>4, <3>1
  <2> QED
    BY <1>2, <2>1, <2>2, <2>3, <2>5 DEF StartSucceeds
<1>3. CASE StartFails
  <2>1. CASE p' = Onward
    BY <1>3, <2>1, OnwardKept DEF StartFails, Ages
  <2>2. CASE /\ Step[Order[p.step]].fatal
             /\ p' = [p EXCEPT !.pc = "cleanup", !.todo = Step[Order[p.step]].cleanup,
                               !.exit_code = 1]
    <3>1. p' \in Processes
      BY <1>0, <2>2, FatalSteps DEF Processes, Positions
    <3> QED
      BY <1>3, <3>1 DEF StartFails, Ages
  <2> QED
    BY <1>3, <2>1, <2>2 DEF StartFails
<1>4. CASE LoopPoll
  <2>1. unit' \in Units
    <3>1. \/ unit' = unit
          \/ \E n \in {0, unit.timer} : unit' = [unit EXCEPT !.timer = n]
      BY <1>4 DEF LoopPoll, HealthWatchdogPing
    <3>2. CASE \E n \in {0, unit.timer} : unit' = [unit EXCEPT !.timer = n]
      BY <1>0, <3>2 DEF Units
    <3> QED
      BY <3>1, <3>2
  <2>2. p' \in Processes
    BY <1>4 DEF LoopPoll, HealthWatchdogPing, Processes
  <2> QED
    BY <1>4, <2>1, <2>2 DEF LoopPoll
<1>5. CASE LoopMoves
  <2>1. p' \in Processes
    BY <1>5 DEF LoopMoves, Processes, Positions
  <2> QED
    BY <1>5, <2>1 DEF LoopMoves
<1>6. CASE LoopFails \/ LoopEnds
  BY <1>0, <1>6, LeavingKept DEF LoopFails, LoopEnds
<1>7. CASE DecodeBegins \/ DecodeEnds \/ QueryBegins \/ QueryEnds \/ StreamLost
              \/ ThreadEnds
  <2>1. thread' \in [Threads -> ThreadStates]
    BY <1>7 DEF DecodeBegins, DecodeEnds, QueryBegins, QueryEnds, StreamLost, ThreadEnds,
                Becomes, ThreadStates
  <2>2. p' \in Processes
    BY <1>7, ProcessKept DEF DecodeBegins, DecodeEnds, QueryBegins, QueryEnds, StreamLost,
                             ThreadEnds
  <2>3. age' \in Ages
    BY <1>7 DEF DecodeBegins, DecodeEnds, QueryBegins, QueryEnds, StreamLost, ThreadEnds,
                Ages
  <2> QED
    BY <1>7, <2>1, <2>2, <2>3
    DEF DecodeBegins, DecodeEnds, QueryBegins, QueryEnds, StreamLost, ThreadEnds
<1>8. CASE Cleanup
  <2>1. Tail(p.todo) \in Seq(Operations)
    BY <1>0, <1>8 DEF Cleanup
  <2>2. thread' \in [Threads -> ThreadStates]
    BY <1>8 DEF Cleanup, ThreadStates
  <2>3. PICK code \in {0, 1} :
            p' = [p EXCEPT !.todo = Tail(@), !.exit_code = code,
                           !.exit_flag = @ \/ Head(p.todo) = "flag"]
    BY <1>0, <1>8 DEF Cleanup
  <2>4. p' \in Processes
    <3> DEFINE flag == p.exit_flag \/ Head(p.todo) = "flag"
    <3>1. flag \in BOOLEAN
      OBVIOUS
    <3>2. p' = [p EXCEPT !.todo = Tail(p.todo), !.exit_code = code, !.exit_flag = flag]
      BY <2>3
    <3> HIDE DEF flag
    <3> QED
      BY <2>1, <3>1, <3>2 DEF Processes
  <2> QED
    BY <1>8, <2>2, <2>4 DEF Cleanup, Ages
<1>9. CASE Exit \/ Kill
  <2>1. p' \in Processes
    BY <1>0, <1>9, FreshTypes DEF Exit, Kill, Processes, Positions
  <2>2. unit' \in Units
    <3>1. \E x \in {"restart", "dead"} :
             unit' = [[unit EXCEPT !.state = x] EXCEPT !.timer = 0]
      BY <1>9 DEF Exit, Kill, Gone
    <3>2. PICK x \in {"restart", "dead"} :
             unit' = [[unit EXCEPT !.state = x] EXCEPT !.timer = 0]
      BY <3>1
    <3>3. [unit EXCEPT !.state = x] \in Units
      BY UnitKept DEF UnitStates
    <3> QED
      BY <3>2, <3>3, UnitKept
  <2> QED
    BY <1>9, <2>1, <2>2, FreshTypes DEF Exit, Kill, Gone
<1>10. CASE Restart
  BY <1>10, FreshTypes DEF Restart, Units, UnitStates
<1>11. CASE Asked
  <2>1. p' \in Processes
    BY <1>11, ProcessKept DEF Asked
  <2>2. unit' \in Units
    <3>1. PICK x \in {"stopping", "dead", unit.state}, n \in {0, unit.timer} :
             unit' = [unit EXCEPT !.state = x, !.timer = n, !.asked = TRUE]
      BY <1>11 DEF Asked, Units
    <3>2. x \in UnitStates /\ n \in Nat
      BY <1>0 DEF UnitStates
    <3> QED
      BY <3>1, <3>2 DEF Units
  <2> QED
    BY <1>11, <2>1, <2>2 DEF Asked
<1>12. CASE ClockChange
  BY <1>12 DEF ClockChange
<1>13. CASE Tick
  <2>1. age' \in Ages
    BY <1>0, <1>13 DEF Tick, Older, Ages
  <2>2. Older(p.last_ping, WatchdogSec) \in Nat
    BY <1>0 DEF Older
  <2>3. p' = [p EXCEPT !.polled = FALSE, !.last_ping = Older(p.last_ping, WatchdogSec)]
    BY <1>13 DEF Tick
  <2>4. p' \in Processes
    BY <2>2, <2>3 DEF Processes
  <2>5. unit' \in Units
    <3>1. unit' = [unit EXCEPT !.timer = unit.timer + 1] /\ unit.timer + 1 \in Nat
      BY <1>0, <1>13 DEF Tick
    <3> QED
      BY <3>1, UnitKept
  <2> QED
    BY <1>13, <2>1, <2>4, <2>5 DEF Tick
<1>14. CASE UNCHANGED vars
  BY <1>14 DEF vars
<1> QED
  BY <1>1, <1>2, <1>3, <1>4, <1>5, <1>6, <1>7, <1>8, <1>9, <1>10, <1>11, <1>12, <1>13,
     <1>14 DEF Next

-----------------------------------------------------------------------------
(***************************************************************************)
(* What each action does to the fields of the process, the unit and the    *)
(* ages.                                                                   *)
(***************************************************************************)
LEMMA OnwardEffect ==
    ASSUME ServiceShape, InStartup, p' = Onward
    PROVE  /\ p.step < 15 => p'.pc = "startup" /\ p'.step = p.step + 1
           /\ p.step = 15 => p'.pc = "clock_wait" /\ p'.step = p.step
           /\ p'.exit_flag = p.exit_flag /\ p'.exit_code = p.exit_code
           /\ p'.polled = p.polled /\ p'.last_ping = p.last_ping /\ p'.todo = p.todo
<1>1. p.step \in 1 .. 15 /\ p.pc = "startup"
  BY Fields DEF ServiceShape, InStartup
<1>2. CASE p.step = 15
  <2>1. p' = [p EXCEPT !.pc = "clock_wait"]
    BY <1>2, OrderOfSteps DEF Onward
  <2> QED
    BY <1>1, <1>2, <2>1 DEF ServiceShape, Processes
<1>3. CASE p.step < 15
  <2>1. p' = [p EXCEPT !.step = p.step + 1]
    BY <1>3, OrderOfSteps DEF Onward
  <2> QED
    BY <1>1, <1>3, <2>1 DEF ServiceShape, Processes
<1> QED
  BY <1>1, <1>2, <1>3

LEMMA StartSkipsEffect ==
    ASSUME ServiceShape, StartSkips
    PROVE  p.step < 15 /\ p'.pc = "startup" /\ p'.step = p.step + 1
           /\ p'.exit_flag = p.exit_flag /\ p'.polled = p.polled
<1>1. p.step \in 1 .. 15
  BY Fields DEF ServiceShape
<1>2. p.step # 15
  BY OrderOfSteps DEF StartSkips, Skipped
<1> QED
  BY <1>1, <1>2, OnwardEffect DEF StartSkips

LEMMA StartSucceedsEffect ==
    ASSUME ServiceShape, StartSucceeds
    PROVE  /\ p' = Onward /\ age'.wait = 0 /\ age'.decode = age.decode
           /\ p.step < 15 \/ unit.state # "starting" => unit' = unit
           /\ p.step = 15 /\ unit.state = "starting" =>
                 unit'.state = "running" /\ unit'.timer = 0 /\ unit'.asked = unit.asked
<1>1. p.step \in 1 .. 15
  BY Fields DEF ServiceShape
<1>2. Order[p.step] = "ready" <=> p.step = 15
  BY <1>1, OrderOfSteps
<1>3. age' = [age EXCEPT !.wait = 0] /\ p' = Onward
  BY DEF StartSucceeds
<1>4. unit' = IF Order[p.step] = "ready" /\ unit.state = "starting"
              THEN [unit EXCEPT !.state = "running", !.timer = 0] ELSE unit
  BY DEF StartSucceeds
<1>5. p.step = 15 /\ unit.state = "starting" =>
         unit'.state = "running" /\ unit'.timer = 0 /\ unit'.asked = unit.asked
  BY <1>2, <1>4 DEF ServiceShape, Units
<1> QED
  BY <1>1, <1>2, <1>3, <1>4, <1>5 DEF ServiceShape, Ages

LEMMA StartFailsEffect ==
    ASSUME ServiceShape, StartFails
    PROVE  /\ p.step < 15 /\ age'.wait = 0 /\ age'.decode = age.decode
           /\ \/ p.step \notin {1, 2, 4, 5, 6, 9, 10, 11} /\ p' = Onward
              \/ /\ p.step \in {1, 2, 4, 5, 6, 9, 10, 11}
                 /\ p'.pc = "cleanup" /\ p'.todo = Step[Order[p.step]].cleanup
                 /\ p'.exit_code = 1 /\ p'.exit_flag = p.exit_flag
<1>1. p.step \in 1 .. 15
  BY Fields DEF ServiceShape
<1>2. Step[Order[p.step]].may_fail
  BY DEF StartFails
<1>3. p.step < 15
  <2>1. ~Step["ready"].may_fail
    BY StepTable DEF Safe
  <2> QED
    BY <1>1, <1>2, <2>1, OrderOfSteps
<1>4. age' = [age EXCEPT !.wait = 0]
  BY DEF StartFails
<1>5. CASE Step[Order[p.step]].fatal
  <2>1. p' = [p EXCEPT !.pc = "cleanup", !.todo = Step[Order[p.step]].cleanup,
                       !.exit_code = 1]
    BY <1>5 DEF StartFails
  <2> QED
    BY <1>1, <1>3, <1>4, <1>5, <2>1, FatalSteps DEF ServiceShape, Ages, Processes
<1>6. CASE ~Step[Order[p.step]].fatal
  <2>1. p' = Onward
    BY <1>6 DEF StartFails
  <2> QED
    BY <1>1, <1>3, <1>4, <1>6, <2>1, FatalSteps DEF ServiceShape, Ages
<1> QED
  BY <1>5, <1>6

LEMMA LoopPollEffect ==
    ASSUME ServiceShape, LoopPoll
    PROVE  /\ p'.pc = p.pc /\ p'.exit_flag = p.exit_flag /\ p'.polled
           /\ unit'.state = unit.state /\ unit'.asked = unit.asked
           /\ \/ /\ ~decoder_timed_out /\ p.last_ping >= PingInterval
                 /\ p'.last_ping = 0
                 /\ unit'.timer = IF unit.state = "running" THEN 0 ELSE unit.timer
              \/ /\ decoder_timed_out \/ ~(p.last_ping >= PingInterval)
                 /\ p'.last_ping = p.last_ping /\ unit' = unit
<1>1. CASE ~decoder_timed_out /\ PingDue
  <2>1. p' = [p EXCEPT !.polled = TRUE, !.last_ping = 0]
    BY <1>1 DEF LoopPoll, HealthWatchdogPing
  <2>2. unit' = [unit EXCEPT !.timer = IF unit.state = "running" THEN 0 ELSE @]
    BY <1>1 DEF LoopPoll, HealthWatchdogPing
  <2>3. ~decoder_timed_out /\ p.last_ping >= PingInterval
    BY <1>1 DEF PingDue
  <2> QED
    BY <2>1, <2>2, <2>3 DEF ServiceShape, Processes, Units
<1>2. CASE ~(~decoder_timed_out /\ PingDue)
  <2>1. p' = [p EXCEPT !.polled = TRUE, !.last_ping = p.last_ping]
    BY <1>2 DEF LoopPoll, HealthWatchdogPing
  <2>2. unit' = unit
    BY <1>2 DEF LoopPoll, HealthWatchdogPing
  <2>3. decoder_timed_out \/ ~(p.last_ping >= PingInterval)
    BY <1>2 DEF PingDue
  <2> QED
    BY <2>1, <2>2, <2>3 DEF ServiceShape, Processes
<1> QED
  BY <1>1, <1>2

LEMMA LoopMovesEffect ==
    ASSUME ServiceShape, LoopMoves
    PROVE  /\ p'.pc \in {"clock_wait", "waiting", "capturing"} /\ p'.exit_flag = p.exit_flag
           /\ ~p'.polled /\ p'.last_ping = p.last_ping
<1>1. PICK next \in {"clock_wait", "waiting", "capturing"} :
          p' = [p EXCEPT !.pc = next, !.polled = FALSE]
  BY DEF LoopMoves
<1> QED
  BY <1>1 DEF ServiceShape, Processes

LEMMA LeavesEffect ==
    ASSUME ServiceShape, LoopFails \/ LoopEnds
    PROVE  /\ InLoop /\ p'.pc = "cleanup" /\ p'.todo = Shutdown
           /\ p'.exit_code = 1 \/ p.exit_flag
           /\ p'.last_ping = p.last_ping
           /\ UNCHANGED <<options, held, thread, age, unit>>
<1>1. PICK code : /\ p' = Leaving(code)
                  /\ code = 1 \/ p.exit_flag
  BY DEF LoopFails, LoopEnds
<1> QED
  BY <1>1 DEF LoopFails, LoopEnds, ServiceShape, Processes, Leaving

(* The actions of the other threads.                                       *)
ThreadActs ==
    DecodeBegins \/ DecodeEnds \/ QueryBegins \/ QueryEnds \/ StreamLost \/ ThreadEnds

LEMMA ThreadActsEffect ==
    ASSUME ServiceShape, ThreadActs
    PROVE  /\ UNCHANGED <<options, held, health, clock, unit>>
           /\ p'.pc = p.pc /\ p'.step = p.step /\ p'.todo = p.todo
           /\ p'.exit_flag = p.exit_flag /\ p'.exit_code = p.exit_code
           /\ p'.last_ping = p.last_ping
           /\ age'.wait = age.wait
           /\ \A t \in Threads : Alive(t)' => Alive(t)
           /\ thread # NoThread
           /\ thread["advisor"] # "none" => thread'["advisor"] # "none"
           /\ (p' = p /\ ~DecodeEnds) \/ (DecodeEnds /\ ~p'.polled)
<1>1. p' = p \/ (DecodeEnds /\ p' = [p EXCEPT !.polled = FALSE])
  BY DEF ThreadActs, DecodeBegins, DecodeEnds, QueryBegins, QueryEnds, StreamLost, ThreadEnds
<1>2. UNCHANGED <<options, held, health, clock, unit>>
  BY DEF ThreadActs, DecodeBegins, DecodeEnds, QueryBegins, QueryEnds, StreamLost, ThreadEnds
<1>3. \/ age' = age \/ age' = [age EXCEPT !.decode = 0] \/ age' = [age EXCEPT !.query = 0]
  BY DEF ThreadActs, DecodeBegins, DecodeEnds, QueryBegins, QueryEnds, StreamLost, ThreadEnds
<1>4. PICK t \in Threads, state \in {"idle", "busy", "ended"} :
          /\ thread' = [thread EXCEPT ![t] = state]
          /\ thread[t] \in {"idle", "busy"}
  BY DEF ThreadActs, DecodeBegins, DecodeEnds, QueryBegins, QueryEnds, StreamLost, ThreadEnds,
         Becomes, Threads
<1>5. \A u \in Threads : thread'[u] \in {"idle", "busy"} => thread[u] \in {"idle", "busy"}
  BY <1>4 DEF ServiceShape
<1>6. thread # NoThread
  BY <1>4 DEF NoThread
<1>7. thread["advisor"] # "none" => thread'["advisor"] # "none"
  BY <1>4 DEF ServiceShape, Threads
<1>8. /\ p'.pc = p.pc /\ p'.step = p.step /\ p'.todo = p.todo
      /\ p'.exit_flag = p.exit_flag /\ p'.exit_code = p.exit_code
      /\ p'.last_ping = p.last_ping
  BY <1>1 DEF ServiceShape, Processes
<1>9. age'.wait = age.wait
  BY <1>3 DEF ServiceShape, Ages
<1>10. (p' = p /\ ~DecodeEnds) \/ (DecodeEnds /\ ~p'.polled)
  <2>1. CASE DecodeEnds
    BY <2>1 DEF DecodeEnds, ServiceShape, Processes
  <2> QED
    BY <1>1, <2>1
<1> QED
  BY <1>2, <1>5, <1>6, <1>7, <1>8, <1>9, <1>10 DEF Alive

LEMMA CleanupEffect ==
    ASSUME ServiceShape, Cleanup
    PROVE  /\ p.pc = "cleanup" /\ p.todo # <<>>
           /\ p'.pc = "cleanup" /\ p'.todo = Tail(p.todo) /\ p'.last_ping = p.last_ping
           /\ p'.exit_code = p.exit_code \/ p'.exit_code = 1
           /\ age'.decode = age.decode
           /\ JoinOf(Head(p.todo)) # "none" => ~Alive(JoinOf(Head(p.todo)))
           /\ held' = held \ Released(Head(p.todo))
           /\ thread' = IF Head(p.todo) = "stop_stream"
                        THEN [thread EXCEPT !.stream = "ended"] ELSE thread
           /\ UNCHANGED <<options, unit>>
<1>1. PICK code \in {p.exit_code, 1} :
          p' = [p EXCEPT !.todo = Tail(@), !.exit_code = code,
                         !.exit_flag = @ \/ Head(p.todo) = "flag"]
  BY DEF Cleanup
<1>2. /\ p'.pc = p.pc /\ p'.todo = Tail(p.todo) /\ p'.last_ping = p.last_ping
      /\ p'.exit_code = code
  BY <1>1 DEF ServiceShape, Processes
<1>3. age'.decode = age.decode
  BY DEF Cleanup, ServiceShape, Ages
<1> QED
  BY <1>2, <1>3 DEF Cleanup

LEMMA EndsEffect ==
    ASSUME ServiceShape, Exit \/ Kill
    PROVE  /\ p'.pc = "exited" /\ ~p'.exit_flag
           /\ held' = {} /\ thread' = NoThread /\ age' = NoAge
           /\ unit'.timer = 0 /\ unit'.asked = unit.asked /\ p.pc # "exited"
           /\ \/ unit'.state = "restart"
              \/ unit'.state = "dead" /\ unit.state = "stopping"
              \/ unit'.state = "dead" /\ p.pc = "cleanup" /\ p.exit_code = 0
<1>1. PICK x \in {"restart", "dead"} :
          /\ unit' = [[unit EXCEPT !.state = x] EXCEPT !.timer = 0]
          /\ x = "dead" => unit.state = "stopping" \/ (p.pc = "cleanup" /\ p.exit_code = 0)
  BY DEF Exit, Kill, Gone
<1>2. unit'.state = x /\ unit'.timer = 0 /\ unit'.asked = unit.asked
  BY <1>1 DEF ServiceShape, Units
<1>3. p'.pc = "exited" /\ ~p'.exit_flag
  BY DEF Exit, Kill, Fresh
<1> QED
  BY <1>1, <1>2, <1>3 DEF Exit, Kill, Gone, Running

LEMMA AskedEffect ==
    ASSUME ServiceShape, Asked
    PROVE  /\ unit'.asked /\ UNCHANGED <<options, held, thread, age, health, clock>>
           /\ \/ /\ unit.state \in {"starting", "running"}
                 /\ p'.pc = p.pc /\ p'.step = p.step /\ p'.todo = p.todo
                 /\ p'.exit_code = p.exit_code
                 /\ p'.polled = p.polled /\ p'.last_ping = p.last_ping
                 /\ \/ unit'.state = "stopping" /\ unit'.timer = 0
                    \/ unit'.state = unit.state /\ unit'.timer = unit.timer
              \/ /\ unit.state = "restart" /\ unit'.state = "dead" /\ p' = p
<1>1. CASE unit.state = "restart" /\ unit' = [unit EXCEPT !.state = "dead", !.asked = TRUE]
           /\ p' = p
  BY <1>1 DEF Asked, ServiceShape, Units
<1>2. CASE /\ unit.state \in {"starting", "running"}
           /\ p' = [p EXCEPT !.exit_flag = TRUE]
           /\ \/ unit' = [unit EXCEPT !.state = "stopping", !.timer = 0, !.asked = TRUE]
              \/ unit' = [unit EXCEPT !.asked = TRUE]
  <2>1. /\ p'.pc = p.pc /\ p'.step = p.step /\ p'.todo = p.todo
        /\ p'.exit_code = p.exit_code /\ p'.polled = p.polled
        /\ p'.last_ping = p.last_ping
    BY <1>2 DEF ServiceShape, Processes
  <2>2. /\ unit'.asked
        /\ \/ unit'.state = "stopping" /\ unit'.timer = 0
           \/ unit'.state = unit.state /\ unit'.timer = unit.timer
    BY <1>2 DEF ServiceShape, Units
  <2> QED
    BY <1>2, <2>1, <2>2 DEF Asked
<1> QED
  BY <1>1, <1>2 DEF Asked

LEMMA TickEffect ==
    ASSUME ServiceShape, Tick
    PROVE  /\ UNCHANGED <<options, held, thread, health, clock>>
           /\ p'.pc = p.pc /\ p'.step = p.step /\ p'.todo = p.todo
           /\ p'.exit_flag = p.exit_flag /\ p'.exit_code = p.exit_code /\ ~p'.polled
           /\ p'.last_ping = Older(p.last_ping, WatchdogSec)
           /\ unit'.state = unit.state /\ unit'.asked = unit.asked
           /\ unit.timer < Limit /\ unit'.timer = unit.timer + 1 /\ unit.state # "dead"
           /\ age'.decode = IF thread.decoder = "busy" THEN Older(age.decode, DecodeCap) ELSE 0
           /\ age'.query = IF thread.advisor = "busy" THEN age.query + 1 ELSE 0
           /\ age'.wait = IF InLoop \/ ~Running THEN 0
                          ELSE Older(age.wait, DeviceTimeout + WarmupTimeout + BootTimeout)
           /\ age' \in Ages
<1>1. p' = [p EXCEPT !.polled = FALSE, !.last_ping = Older(p.last_ping, WatchdogSec)]
  BY DEF Tick
<1>2. /\ p'.pc = p.pc /\ p'.step = p.step /\ p'.todo = p.todo
      /\ p'.exit_flag = p.exit_flag /\ p'.exit_code = p.exit_code /\ ~p'.polled
      /\ p'.last_ping = Older(p.last_ping, WatchdogSec)
  BY <1>1 DEF ServiceShape, Processes
<1>3. unit' = [unit EXCEPT !.timer = unit.timer + 1]
  BY DEF Tick
<1>4. unit'.state = unit.state /\ unit'.asked = unit.asked /\ unit'.timer = unit.timer + 1
  BY <1>3 DEF ServiceShape, Units
<1>5. age' \in Ages
  BY Fields DEF Tick, ServiceShape, Older, Ages
<1> QED
  BY <1>2, <1>4, <1>5 DEF Tick

(***************************************************************************)
(* Every step keeps the unit and the process in step.                      *)
(***************************************************************************)
LEMMA LifeStep == LifeInv /\ [Next]_vars => LifeInv'
<1> SUFFICES ASSUME LifeInv, [Next]_vars
             PROVE  Phases' /\ StopsExplained'
  BY ShapeStep DEF LifeInv
<1> USE DEF LifeInv, Phases, StopsExplained, InLoop
<1>0. /\ ServiceShape /\ p.step \in 1 .. 15 /\ p.exit_code \in {0, 1}
      /\ unit.state \in UnitStates /\ p.pc \in Positions
  BY Fields DEF ServiceShape
<1>1. CASE StartSkips
  BY <1>0, <1>1, StartSkipsEffect DEF StartSkips, InStartup
<1>2. CASE StartSucceeds
  <2>1. p.pc = "startup" /\ unit.state \in {"starting", "stopping"}
    BY <1>2 DEF StartSucceeds, InStartup
  <2>2. /\ p.step < 15 => p'.pc = "startup" /\ unit' = unit
        /\ p.step = 15 => p'.pc = "clock_wait" /\ unit'.state \in {"running", "stopping"}
        /\ unit'.asked = unit.asked /\ p'.exit_flag = p.exit_flag
        /\ unit'.state = "stopping" => unit.state = "stopping"
        /\ unit'.state # "dead"
    BY <1>0, <1>2, <2>1, StartSucceedsEffect, OnwardEffect DEF InStartup
  <2> QED
    BY <1>0, <2>1, <2>2
<1>3. CASE StartFails
  <2>1. /\ p.pc = "startup" /\ unit.state \in {"starting", "stopping"}
        /\ unit' = unit
    BY <1>3 DEF StartFails, InStartup
  <2>2. /\ p'.pc \in {"startup", "cleanup"} /\ p'.exit_flag = p.exit_flag
        /\ p'.pc = "cleanup" => p'.exit_code = 1
    BY <1>0, <1>3, <2>1, StartFailsEffect, OnwardEffect DEF InStartup
  <2> QED
    BY <2>1, <2>2
<1>4. CASE LoopPoll
  BY <1>0, <1>4, LoopPollEffect DEF LoopPoll
<1>5. CASE LoopMoves
  <2>1. unit' = unit /\ p'.pc \in {"clock_wait", "waiting", "capturing"} /\ InLoop
        /\ p'.exit_flag = p.exit_flag
    BY <1>0, <1>5, LoopMovesEffect DEF LoopMoves
  <2> QED
    BY <2>1
<1>6. CASE LoopFails \/ LoopEnds
  BY <1>0, <1>6, LeavesEffect
<1>7. CASE ThreadActs
  BY <1>0, <1>7, ThreadActsEffect
<1>8. CASE Cleanup
  BY <1>0, <1>8, CleanupEffect
<1>9. CASE Exit \/ Kill
  BY <1>0, <1>9, EndsEffect
<1>10. CASE Restart
  BY <1>10 DEF Restart, Fresh
<1>11. CASE Asked
  BY <1>0, <1>11, AskedEffect
<1>12. CASE ClockChange
  BY <1>12 DEF ClockChange
<1>13. CASE Tick
  <2>1. p.pc = "exited" => age' = NoAge
    <3> SUFFICES ASSUME p.pc = "exited" PROVE age' = NoAge
      OBVIOUS
    <3>1. thread.decoder = "none" /\ thread.advisor = "none"
      BY DEF NoThread, Threads
    <3> QED
      BY <1>13, <3>1 DEF Tick, Running, NoAge
  <2> QED
    BY <1>0, <1>13, <2>1, TickEffect
<1>14. CASE UNCHANGED vars
  BY <1>14 DEF vars
<1> QED
  BY <1>1, <1>2, <1>3, <1>4, <1>5, <1>6, <1>7, <1>8, <1>9, <1>10, <1>11, <1>12, <1>13,
     <1>14 DEF Next, ThreadActs

(***************************************************************************)
(* The service is never left dead unless somebody asked for it: every end  *)
(* of main that is not a stop has an exit status systemd restarts.         *)
(***************************************************************************)
THEOREM SelfHeals == Spec => []ServiceSelfHeals
<1>1. LifeInv => ServiceSelfHeals
  BY DEF LifeInv, StopsExplained, ServiceSelfHeals
<1> QED
  BY <1>1, LifeInitially, LifeStep, PTL DEF Spec

-----------------------------------------------------------------------------
(***************************************************************************)
(* A hung decode: its age and the timer of the unit go together.           *)
(***************************************************************************)

(* The timers of the unit and of the program, as numbers.                  *)
LEMMA TimersAreNumbers ==
    /\ PingInterval \in Nat /\ DecodeDeadline \in Nat /\ WatchdogSec \in Nat
    /\ TimeoutStartSec \in Nat /\ TimeoutStopSec \in Nat /\ RestartSec \in Nat
    /\ DeviceTimeout \in Nat /\ WarmupTimeout \in Nat /\ BootTimeout \in Nat
    /\ PingInterval > 0 /\ PingInterval < WatchdogSec
    /\ DeviceTimeout + WarmupTimeout + BootTimeout < TimeoutStartSec
BY ServiceAssumption DEF ServiceAssumption

LEMMA LimitOf ==
    /\ unit.state = "starting" => Limit = TimeoutStartSec
    /\ unit.state = "running" => Limit = WatchdogSec
    /\ unit.state = "stopping" => Limit = TimeoutStopSec
    /\ unit.state = "restart" => Limit = RestartSec
BY DEF Limit

(***************************************************************************)
(* The state of the decoder changes only when it is created, when a decode *)
(* begins or ends, and when the process ends.                              *)
(***************************************************************************)
LEMMA DecoderEffect ==
    ASSUME ServiceShape
    PROVE  /\ StartSucceeds => \/ thread'.decoder = thread.decoder
                               \/ thread'.decoder = "idle"
           /\ Cleanup => thread'.decoder = thread.decoder
           /\ QueryBegins \/ QueryEnds \/ StreamLost => thread'.decoder = thread.decoder
           /\ ThreadEnds => thread'.decoder = thread.decoder
                            \/ (thread.decoder = "idle" /\ thread'.decoder = "ended")
           /\ DecodeBegins => thread.decoder = "idle" /\ thread'.decoder = "busy"
           /\ DecodeEnds => thread.decoder = "busy" /\ thread'.decoder = "idle"
<1> USE DEF ServiceShape, Threads
<1>1. ASSUME StartSucceeds
      PROVE  thread'.decoder = thread.decoder \/ thread'.decoder = "idle"
  BY <1>1 DEF StartSucceeds
<1>2. ASSUME Cleanup PROVE thread'.decoder = thread.decoder
  BY <1>2 DEF Cleanup
<1>3. ASSUME QueryBegins \/ QueryEnds \/ StreamLost PROVE thread'.decoder = thread.decoder
  BY <1>3 DEF QueryBegins, QueryEnds, StreamLost, Becomes
<1>4. ASSUME ThreadEnds
      PROVE  \/ thread'.decoder = thread.decoder
             \/ thread.decoder = "idle" /\ thread'.decoder = "ended"
  <2>1. PICK t \in Threads : thread[t] = "idle" /\ thread' = [thread EXCEPT ![t] = "ended"]
    BY <1>4 DEF ThreadEnds, Becomes
  <2> QED
    BY <2>1
<1>5. ASSUME DecodeBegins PROVE thread.decoder = "idle" /\ thread'.decoder = "busy"
  BY <1>5 DEF DecodeBegins, Becomes
<1>6. ASSUME DecodeEnds PROVE thread.decoder = "busy" /\ thread'.decoder = "idle"
  BY <1>6 DEF DecodeEnds, Becomes
<1> QED
  BY <1>1, <1>2, <1>3, <1>4, <1>5, <1>6

LEMMA HungInitially == Init => HungInv
<1> SUFFICES ASSUME Init PROVE HungBound
  BY LifeInitially DEF HungInv
<1> QED
  BY TimersAreNumbers DEF Init, HungBound, NoThread, NoAge, Threads, Limit

LEMMA HungStep == HungInv /\ [Next]_vars => HungInv'
<1> SUFFICES ASSUME HungInv, [Next]_vars
             PROVE  HungBound'
  BY LifeStep DEF HungInv
<1> USE TimersAreNumbers DEF HungInv, HungBound
<1>0. /\ LifeInv /\ ServiceShape /\ p.step \in 1 .. 15
      /\ unit.state \in UnitStates /\ unit.timer \in Nat /\ age.decode \in Nat
  BY Fields DEF ServiceShape, LifeInv
<1>1. CASE StartSkips \/ ClockChange
  <2>1. unit' = unit /\ thread' = thread /\ age' = age
    BY <1>1 DEF StartSkips, ClockChange
  <2>2. InStartup' => InStartup
    <3>1. CASE StartSkips
      BY <3>1 DEF StartSkips
    <3>2. CASE ClockChange
      BY <3>2 DEF ClockChange, InStartup
    <3> QED
      BY <1>1, <3>1, <3>2
  <2> QED
    BY <2>1, <2>2 DEF Limit
<1>2. CASE StartSucceeds
  <2>1. InStartup /\ thread.decoder # "busy"
    BY <1>2 DEF StartSucceeds
  <2>2. thread'.decoder # "busy" /\ age'.decode = age.decode
    BY <1>0, <1>2, <2>1, DecoderEffect, StartSucceedsEffect
  <2>3. unit' = unit \/ (unit'.state = "running" /\ unit'.timer = 0)
    BY <1>0, <1>2, StartSucceedsEffect
  <2>4. unit'.state # "dead" => unit'.timer <= Limit'
    <3>1. CASE unit' = unit
      BY <3>1 DEF Limit
    <3>2. CASE unit'.state = "running" /\ unit'.timer = 0
      BY <3>2 DEF Limit
    <3> QED
      BY <2>3, <3>1, <3>2
  <2>5. age'.decode = 0
    BY <2>1, <2>2
  <2> QED
    BY <2>2, <2>4, <2>5
<1>3. CASE StartFails
  <2>1. InStartup /\ thread' = thread /\ unit' = unit /\ thread.decoder # "busy"
    BY <1>3 DEF StartFails
  <2>2. age'.decode = age.decode
    BY <1>0, <1>3, StartFailsEffect
  <2> QED
    BY <2>1, <2>2 DEF Limit
<1>4. CASE LoopPoll
  <2>1. /\ unit'.state = unit.state /\ thread' = thread /\ age' = age
        /\ p'.pc = p.pc /\ InLoop
        /\ \/ unit'.timer = unit.timer
           \/ unit'.timer = 0 /\ ~decoder_timed_out
    BY <1>0, <1>4, LoopPollEffect DEF LoopPoll
  <2>2. unit'.state # "dead" => unit'.timer <= Limit'
    <3>1. Limit' = Limit
      BY <2>1 DEF Limit
    <3>2. unit.state # "dead" => Limit \in Nat
      BY <1>0 DEF Limit, UnitStates
    <3> QED
      BY <1>0, <2>1, <3>1, <3>2
  <2>3. thread.decoder = "busy" /\ ~decoder_timed_out => age.decode <= DecodeDeadline
    BY <1>0 DEF decoder_timed_out
  <2>4. ~InStartup'
    BY <2>1 DEF InLoop, InStartup
  <2> QED
    BY <1>0, <2>1, <2>2, <2>3, <2>4
<1>5. CASE LoopMoves
  <2>1. /\ unit' = unit /\ thread' = thread /\ age' = age
        /\ p'.pc \in {"clock_wait", "waiting", "capturing"}
    BY <1>0, <1>5, LoopMovesEffect DEF LoopMoves
  <2> QED
    BY <2>1 DEF Limit, InStartup
<1>6. CASE LoopFails \/ LoopEnds
  BY <1>0, <1>6, LeavesEffect DEF Limit, InStartup
<1>7. CASE ThreadActs
  <2>1. unit' = unit /\ p'.pc = p.pc
    BY <1>0, <1>7, ThreadActsEffect
  <2>2. CASE DecodeBegins
    <3>1. /\ age' = age /\ thread.decoder = "idle" /\ InLoop
          /\ unit.state \in {"running", "stopping"}
      BY <1>0, <2>2 DEF DecodeBegins, LifeInv, Phases
    <3> QED
      BY <1>0, <2>1, <3>1 DEF Limit, InStartup, InLoop
  <2>3. CASE DecodeEnds
    <3>1. age'.decode = 0 /\ thread'.decoder = "idle"
      BY <1>0, <2>3, DecoderEffect DEF DecodeEnds, ServiceShape, Ages
    <3> QED
      BY <2>1, <3>1 DEF Limit
  <2>4. CASE QueryBegins \/ QueryEnds \/ StreamLost \/ ThreadEnds
    <3>1. age'.decode = age.decode
      <4>1. age' = age \/ age' = [age EXCEPT !.query = 0]
        BY <2>4 DEF QueryBegins, QueryEnds, StreamLost, ThreadEnds
      <4> QED
        BY <1>0, <4>1 DEF ServiceShape, Ages
    <3>2. thread'.decoder = "busy" <=> thread.decoder = "busy"
      BY <1>0, <2>4, DecoderEffect
    <3> QED
      BY <2>1, <3>1, <3>2 DEF Limit, InStartup
  <2> QED
    BY <1>7, <2>2, <2>3, <2>4 DEF ThreadActs
<1>8. CASE Cleanup
  <2>1. /\ unit' = unit /\ age'.decode = age.decode /\ thread'.decoder = thread.decoder
        /\ p'.pc = "cleanup"
    BY <1>0, <1>8, CleanupEffect, DecoderEffect
  <2> QED
    BY <2>1 DEF Limit, InStartup
<1>9. CASE Exit \/ Kill
  <2>1. thread'.decoder = "none" /\ age'.decode = 0
    BY <1>0, <1>9, EndsEffect DEF NoThread, NoAge, Threads
  <2>2. unit'.timer = 0 /\ unit'.state \in {"restart", "dead"}
    BY <1>0, <1>9, EndsEffect
  <2> QED
    BY <2>1, <2>2 DEF Limit
<1>10. CASE Restart
  <2>1. unit'.state = "starting" /\ unit'.timer = 0 /\ thread' = thread /\ age' = age
    BY <1>10 DEF Restart
  <2>2. p.pc = "exited"
    BY <1>0, <1>10 DEF Restart, LifeInv, Phases, InLoop, ServiceShape, Processes, Positions
  <2>3. thread.decoder = "none" /\ age.decode = 0
    BY <1>0, <2>2 DEF LifeInv, Phases, NoThread, NoAge, Threads
  <2> QED
    BY <2>1, <2>3 DEF Limit
<1>11. CASE Asked
  <2>1. thread' = thread /\ age' = age
    BY <1>0, <1>11, AskedEffect
  <2>2. CASE unit.state = "restart" /\ unit'.state = "dead" /\ p' = p
    <3>1. p.pc = "exited"
      BY <1>0, <2>2 DEF LifeInv, Phases, InLoop, ServiceShape, Processes, Positions
    <3>2. thread.decoder = "none" /\ age.decode = 0
      BY <1>0, <3>1 DEF LifeInv, Phases, NoThread, NoAge, Threads
    <3> QED
      BY <2>1, <2>2, <3>2
  <2>3. CASE /\ unit.state \in {"starting", "running"} /\ p'.pc = p.pc
             /\ \/ unit'.state = "stopping" /\ unit'.timer = 0
                \/ unit'.state = unit.state /\ unit'.timer = unit.timer
    <3>1. CASE unit'.state = unit.state /\ unit'.timer = unit.timer
      BY <2>1, <2>3, <3>1 DEF Limit, InStartup
    <3>2. CASE unit'.state = "stopping" /\ unit'.timer = 0
      BY <1>0, <2>1, <2>3, <3>2 DEF Limit, InStartup
    <3> QED
      BY <2>3, <3>1, <3>2
  <2> QED
    BY <1>0, <1>11, <2>2, <2>3, AskedEffect
<1>12. CASE Tick
  <2>1. /\ unit'.state = unit.state /\ unit'.timer = unit.timer + 1 /\ thread' = thread
        /\ unit.timer < Limit /\ p'.pc = p.pc
        /\ age'.decode = IF thread.decoder = "busy" THEN Older(age.decode, DecodeCap) ELSE 0
    BY <1>0, <1>12, TickEffect
  <2>2. Limit \in Nat /\ Limit' = Limit
    BY <1>0, <2>1 DEF Limit, UnitStates
  <2>3. unit.timer + 1 <= Limit
    BY <1>0, <2>1, <2>2
  <2>4. Older(age.decode, DecodeCap) <= age.decode + 1
    BY <1>0 DEF Older
  <2>5. thread.decoder = "busy" =>
           age'.decode <= DecodeDeadline + unit'.timer
                            + (IF unit'.state = "stopping" THEN WatchdogSec ELSE 0)
    BY <1>0, <2>1, <2>4 DEF Older
  <2> QED
    BY <2>1, <2>2, <2>3, <2>5 DEF InStartup
<1>13. CASE UNCHANGED vars
  BY <1>13 DEF vars, Limit, InStartup
<1> QED
  BY <1>1, <1>2, <1>3, <1>4, <1>5, <1>6, <1>7, <1>8, <1>9, <1>10, <1>11, <1>12, <1>13
  DEF Next, ThreadActs

(***************************************************************************)
(* A decode that hangs is ended by the watchdog, or by the stop timeout,   *)
(* within one period of its deadline.                                      *)
(***************************************************************************)
THEOREM HungIsCaught == Spec => []HungCaught
<1>1. HungInv => HungCaught
  <2> SUFFICES ASSUME HungInv, thread.decoder = "busy"
               PROVE  age.decode <= DecodeDeadline + WatchdogSec
                        + (IF unit.state = "stopping" THEN TimeoutStopSec ELSE 0)
    BY DEF HungCaught
  <2>1. /\ unit.state \in UnitStates /\ unit.timer \in Nat /\ age.decode \in Nat
        /\ p.pc \in Positions
    BY Fields DEF ServiceShape, LifeInv, HungInv
  <2>2. unit.state \in {"running", "stopping"}
    BY <2>1 DEF HungInv, HungBound, LifeInv, Phases, InLoop, InStartup, Positions, NoThread,
                Threads
  <2>3. unit.state = "running" => unit.timer <= WatchdogSec
    BY LimitOf DEF HungInv, HungBound
  <2>4. unit.state = "stopping" => unit.timer <= TimeoutStopSec
    BY LimitOf DEF HungInv, HungBound
  <2> QED
    BY <2>1, <2>2, <2>3, <2>4, TimersAreNumbers DEF HungInv, HungBound
<1> QED
  BY <1>1, HungInitially, HungStep, PTL DEF Spec

-----------------------------------------------------------------------------
(***************************************************************************)
(* The pace of the startup and of the loop.                                *)
(***************************************************************************)
LEMMA PaceInitially == Init => PaceInv
<1> SUFFICES ASSUME Init PROVE StartPace /\ LoopPace
  BY HungInitially DEF PaceInv
<1> QED
  BY TimersAreNumbers DEF Init, StartPace, LoopPace, Fresh, NoAge, InStartup

LEMMA StartPaceStep == PaceInv /\ [Next]_vars => StartPace'
<1> SUFFICES ASSUME PaceInv, [Next]_vars, InStartup'
             PROVE  StartPace'
  BY DEF StartPace
<1> USE TimersAreNumbers
<1>0. /\ LifeInv /\ ServiceShape /\ p.step \in 1 .. 15
      /\ unit.state \in UnitStates /\ unit.timer \in Nat /\ age.wait \in Nat
      /\ StartPace
      /\ (InStartup' <=> p'.pc = "startup") /\ (InStartup <=> p.pc = "startup")
  BY Fields DEF ServiceShape, LifeInv, PaceInv, HungInv, InStartup
<1>1. CASE StartSkips
  <2>1. /\ p.step < 15 /\ p'.step = p.step + 1 /\ p'.polled = p.polled /\ InStartup
        /\ UNCHANGED <<options, held, thread, age, unit>>
    BY <1>0, <1>1, StartSkipsEffect DEF StartSkips
  <2>2. age.wait = 0
    <3>1. p.step # 1 /\ (p.step = 8 => "jt9" \notin held)
      BY <1>1, OrderOfSteps DEF StartSkips, Skipped
    <3>2. p.step = 13 => options.mode = "WSPR" \/ thread.advisor = "none"
      BY <1>1, OrderOfSteps DEF StartSkips, Skipped
    <3> QED
      BY <1>0, <2>1, <3>1, <3>2 DEF StartPace
  <2> QED
    BY <1>0, <2>1, <2>2 DEF StartPace
<1>2. CASE StartSucceeds
  <2>1. /\ p.step < 15 /\ p'.step = p.step + 1 /\ p'.polled = p.polled /\ InStartup
        /\ unit' = unit /\ age'.wait = 0
    BY <1>0, <1>2, StartSucceedsEffect, OnwardEffect DEF StartSucceeds
  <2>2. /\ age.wait > 0 => \/ p.step = 1 /\ age.wait <= DeviceTimeout
                           \/ p.step = 8 /\ age.wait <= WarmupTimeout
                           \/ p.step = 13 /\ age.wait <= BootTimeout
        /\ ~p.polled
        /\ unit.state = "starting" =>
              unit.timer <= (IF p.step > 1 THEN DeviceTimeout ELSE 0)
                              + (IF p.step > 8 THEN WarmupTimeout ELSE 0)
                              + (IF p.step > 13 THEN BootTimeout ELSE 0) + age.wait
    BY <1>0, <2>1 DEF StartPace
  <2> QED
    BY <1>0, <2>1, <2>2 DEF StartPace
<1>3. CASE StartFails
  <2>1. InStartup /\ unit' = unit
    BY <1>3 DEF StartFails
  <2>2. /\ p.step < 15 /\ p'.step = p.step + 1 /\ p'.polled = p.polled /\ age'.wait = 0
    BY <1>0, <1>3, <2>1, StartFailsEffect, OnwardEffect
  <2>3. /\ age.wait > 0 => \/ p.step = 1 /\ age.wait <= DeviceTimeout
                           \/ p.step = 8 /\ age.wait <= WarmupTimeout
                           \/ p.step = 13 /\ age.wait <= BootTimeout
        /\ ~p.polled
        /\ unit.state = "starting" =>
              unit.timer <= (IF p.step > 1 THEN DeviceTimeout ELSE 0)
                              + (IF p.step > 8 THEN WarmupTimeout ELSE 0)
                              + (IF p.step > 13 THEN BootTimeout ELSE 0) + age.wait
    BY <1>0, <2>1 DEF StartPace
  <2> QED
    BY <1>0, <2>1, <2>2, <2>3 DEF StartPace
<1>4. CASE LoopPoll \/ LoopMoves \/ LoopFails \/ LoopEnds \/ Cleanup
  BY <1>0, <1>4, LoopPollEffect, LoopMovesEffect, LeavesEffect, CleanupEffect
  DEF LoopPoll, LoopMoves, InLoop
<1>5. CASE Exit \/ Kill
  BY <1>0, <1>5, EndsEffect
<1>6. CASE ThreadActs
  <2>1. ~DecodeEnds
    <3>1. InStartup
      BY <1>0, <1>6, ThreadActsEffect
    <3> QED
      BY <3>1 DEF DecodeEnds, PaceInv, HungInv, HungBound
  <2>2. /\ p' = p /\ unit' = unit /\ held' = held /\ options' = options
        /\ age'.wait = age.wait
        /\ thread["advisor"] # "none" => thread'["advisor"] # "none"
    BY <1>0, <1>6, <2>1, ThreadActsEffect
  <2> QED
    BY <1>0, <2>2 DEF StartPace
<1>7. CASE Restart
  <2>1. p.pc = "exited"
    BY <1>0, <1>7 DEF Restart, LifeInv, Phases, InLoop, ServiceShape, Processes, Positions
  <2>2. age.wait = 0
    BY <2>1, <1>0 DEF LifeInv, Phases, NoAge
  <2> QED
    BY <1>7, <2>2 DEF Restart, Fresh, StartPace
<1>8. CASE Asked
  <2>1. UNCHANGED <<options, held, thread, age>>
    BY <1>0, <1>8, AskedEffect
  <2>2. /\ p'.step = p.step /\ p'.polled = p.polled /\ p'.pc = p.pc
        /\ unit'.state = "starting" => unit.state = "starting" /\ unit'.timer = unit.timer
    BY <1>0, <1>8, AskedEffect
  <2> QED
    BY <1>0, <2>1, <2>2 DEF StartPace
<1>9. CASE ClockChange
  BY <1>0, <1>9 DEF ClockChange, StartPace
<1>10. CASE Tick
  <2>1. /\ UNCHANGED <<options, held, thread>> /\ p'.step = p.step /\ ~p'.polled
        /\ p'.pc = p.pc /\ unit'.state = unit.state /\ unit'.timer = unit.timer + 1
        /\ age'.wait = IF InLoop \/ ~Running THEN 0
                       ELSE Older(age.wait, DeviceTimeout + WarmupTimeout + BootTimeout)
    BY <1>0, <1>10, TickEffect
  <2>2. p.pc = "startup" /\ InStartup /\ ~InLoop /\ Running
    BY <1>0, <2>1 DEF InLoop, Running
  <2>3. \/ p.step = 1 /\ age.wait < DeviceTimeout
        \/ p.step = 8 /\ "jt9" \in held /\ age.wait < WarmupTimeout
        \/ /\ p.step = 13 /\ options.mode # "WSPR" /\ thread.advisor # "none"
           /\ age.wait < BootTimeout
    <3>1. \/ Order[p.step] = "open" /\ age.wait < DeviceTimeout
          \/ Order[p.step] = "warmup" /\ ~Skipped("warmup") /\ age.wait < WarmupTimeout
          \/ Order[p.step] = "boot" /\ ~Skipped("boot") /\ age.wait < BootTimeout
      BY <1>10, <2>2 DEF Tick, Waiting, At
    <3>2. /\ Order[p.step] = "open" => p.step = 1
          /\ Order[p.step] = "warmup" => p.step = 8
          /\ Order[p.step] = "boot" => p.step = 13
      BY <1>0, OrderOfSteps
    <3> QED
      BY <3>1, <3>2 DEF Skipped
  <2>4. age'.wait = age.wait + 1
    BY <1>0, <2>1, <2>2, <2>3 DEF Older
  <2>5. unit.state = "starting" =>
              unit.timer <= (IF p.step > 1 THEN DeviceTimeout ELSE 0)
                              + (IF p.step > 8 THEN WarmupTimeout ELSE 0)
                              + (IF p.step > 13 THEN BootTimeout ELSE 0) + age.wait
    BY <1>0, <2>2 DEF StartPace
  <2> QED
    BY <1>0, <2>1, <2>3, <2>4, <2>5 DEF StartPace
<1>11. CASE UNCHANGED vars
  BY <1>0, <1>11 DEF vars, StartPace
<1> QED
  BY <1>1, <1>2, <1>3, <1>4, <1>5, <1>6, <1>7, <1>8, <1>9, <1>10, <1>11
  DEF Next, ThreadActs

(* What is left of the watchdog period while a decode is overdue.          *)
Overdue == IF decoder_timed_out THEN age.decode - DecodeDeadline ELSE 0

LEMMA LoopPaceStep == PaceInv /\ [Next]_vars => LoopPace'
<1> SUFFICES ASSUME PaceInv, [Next]_vars, unit'.state = "running"
             PROVE  LoopPace'
  BY DEF LoopPace
<1> USE TimersAreNumbers
<1>0. /\ LifeInv /\ ServiceShape /\ p.step \in 1 .. 15 /\ p.last_ping \in Nat
      /\ unit.state \in UnitStates /\ unit.timer \in Nat /\ age.decode \in Nat
      /\ LoopPace
  BY Fields DEF ServiceShape, LifeInv, PaceInv, HungInv
<1>a. ASSUME unit.state = "running", unit' = unit, p'.last_ping = p.last_ping, ~InLoop'
      PROVE  LoopPace'
  BY <1>0, <1>a DEF LoopPace
<1>b. Overdue \in Nat /\ (Overdue > 0 => decoder_timed_out /\ thread.decoder = "busy")
      /\ (~decoder_timed_out => Overdue = 0)
  BY <1>0 DEF Overdue, decoder_timed_out
<1>c. unit.state = "running" =>
        /\ unit.timer <= p.last_ping
        /\ InLoop /\ p.polled /\ ~decoder_timed_out => p.last_ping < PingInterval
        /\ InLoop => \/ unit.timer <= PingInterval + Overdue
                     \/ ~p.polled /\ ~decoder_timed_out /\ unit.timer < WatchdogSec
  BY <1>0 DEF LoopPace, Overdue
<1>d. ASSUME /\ unit'.timer <= p'.last_ping
             /\ InLoop' /\ p'.polled /\ ~decoder_timed_out' => p'.last_ping < PingInterval
             /\ InLoop' => \/ unit'.timer <= PingInterval + Overdue'
                           \/ /\ ~p'.polled /\ ~decoder_timed_out'
                              /\ unit'.timer < WatchdogSec
      PROVE  LoopPace'
  BY <1>d DEF LoopPace, Overdue
<1>1. CASE StartSkips \/ StartFails
  <2>1. InStartup /\ unit' = unit
    BY <1>1 DEF StartSkips, StartFails
  <2> QED
    BY <1>0, <2>1 DEF LifeInv, Phases, InStartup
<1>2. CASE StartSucceeds
  <2>1. InStartup /\ unit.state # "running"
    BY <1>0, <1>2 DEF StartSucceeds, LifeInv, Phases, InStartup
  <2>2. unit'.timer = 0 /\ p' = Onward
    BY <1>0, <1>2, <2>1, StartSucceedsEffect
  <2>3. p'.polled = p.polled /\ p'.last_ping = p.last_ping
    BY <1>0, <2>1, <2>2, OnwardEffect
  <2>4. ~p.polled
    BY <2>1 DEF PaceInv, StartPace
  <2>5. Overdue' \in Nat
    <3>1. age'.decode = age.decode
      BY <1>0, <1>2, StartSucceedsEffect
    <3> QED
      BY <1>0, <3>1 DEF Overdue, decoder_timed_out
  <2>6. ~p'.polled /\ p'.last_ping \in Nat
    BY <1>0, <2>3, <2>4
  <2>7. unit'.timer <= PingInterval + Overdue'
    <3>1. unit'.timer = 0
      BY <2>2
    <3>2. \A n \in Nat : 0 <= PingInterval + n
      OBVIOUS
    <3> QED
      BY <2>5, <3>1, <3>2
  <2> QED
    BY <2>2, <2>6, <2>7, <1>d
<1>3. CASE LoopPoll
  <2>1. /\ p'.pc = p.pc /\ p'.polled /\ unit.state = "running" /\ InLoop
        /\ thread' = thread /\ age' = age
        /\ \/ ~decoder_timed_out /\ p'.last_ping = 0 /\ unit'.timer = 0
           \/ /\ decoder_timed_out \/ ~(p.last_ping >= PingInterval)
              /\ p'.last_ping = p.last_ping /\ unit'.timer = unit.timer
    BY <1>0, <1>3, LoopPollEffect DEF LoopPoll
  <2>2. Overdue' = Overdue /\ (decoder_timed_out' <=> decoder_timed_out)
    BY <2>1 DEF Overdue, decoder_timed_out
  <2>3. CASE ~decoder_timed_out /\ p'.last_ping = 0 /\ unit'.timer = 0
    BY <1>b, <2>2, <2>3, <1>d
  <2>4. CASE /\ ~decoder_timed_out /\ ~(p.last_ping >= PingInterval)
             /\ p'.last_ping = p.last_ping /\ unit'.timer = unit.timer
    <3>1. unit.timer <= p.last_ping /\ p.last_ping < PingInterval
      BY <1>0, <1>c, <2>1, <2>4
    <3> QED
      BY <1>0, <1>b, <2>2, <2>4, <3>1, <1>d
  <2>5. CASE decoder_timed_out /\ p'.last_ping = p.last_ping /\ unit'.timer = unit.timer
    <3>1. unit.timer <= p.last_ping
      BY <1>c, <2>1
    <3>2. unit.timer <= PingInterval + Overdue
      BY <1>c, <2>1, <2>5
    <3> QED
      BY <2>2, <2>5, <3>1, <3>2, <1>d
  <2> QED
    BY <2>1, <2>3, <2>4, <2>5
<1>4. CASE LoopMoves
  <2>1. /\ unit' = unit /\ thread' = thread /\ age' = age /\ InLoop
        /\ p'.last_ping = p.last_ping /\ ~p'.polled
    BY <1>0, <1>4, LoopMovesEffect DEF LoopMoves
  <2>2. Overdue' = Overdue /\ (decoder_timed_out' <=> decoder_timed_out)
    BY <2>1 DEF Overdue, decoder_timed_out
  <2> QED
    BY <1>c, <2>1, <2>2, <1>d
<1>5. CASE LoopFails \/ LoopEnds
  BY <1>0, <1>5, <1>a, LeavesEffect DEF InLoop
<1>6. CASE ThreadActs
  <2>1. /\ unit' = unit /\ unit.state = "running" /\ p'.last_ping = p.last_ping
        /\ (InLoop' <=> InLoop)
    BY <1>0, <1>6, ThreadActsEffect DEF InLoop
  <2>2. CASE DecodeEnds
    <3>1. thread'.decoder = "idle" /\ ~p'.polled
      BY <1>0, <1>6, <2>2, DecoderEffect, ThreadActsEffect
    <3>2. ~decoder_timed_out'
      BY <3>1 DEF decoder_timed_out
    <3>3. unit.timer < WatchdogSec
      BY <2>1, <2>2, LimitOf DEF DecodeEnds
    <3> QED
      BY <1>c, <2>1, <3>1, <3>2, <3>3, <1>d
  <2>3. CASE DecodeBegins
    <3>1. thread.decoder = "idle" /\ age' = age /\ age.decode = 0 /\ p' = p
      BY <2>3 DEF DecodeBegins, PaceInv, HungInv, HungBound
    <3>2. ~decoder_timed_out /\ ~decoder_timed_out' /\ Overdue = 0 /\ Overdue' = 0
      BY <3>1 DEF decoder_timed_out, Overdue
    <3> QED
      BY <1>c, <2>1, <3>1, <3>2, <1>d
  <2>4. CASE ~DecodeEnds /\ ~DecodeBegins
    <3>1. age'.decode = age.decode
      <4>1. age' = age \/ age' = [age EXCEPT !.query = 0]
        BY <1>6, <2>4 DEF ThreadActs, QueryBegins, QueryEnds, StreamLost, ThreadEnds
      <4> QED
        BY <1>0, <4>1 DEF ServiceShape, Ages
    <3>2. p' = p /\ (thread'.decoder = "busy" <=> thread.decoder = "busy")
      BY <1>0, <1>6, <2>4, ThreadActsEffect, DecoderEffect DEF ThreadActs
    <3>3. Overdue' = Overdue /\ (decoder_timed_out' <=> decoder_timed_out)
      BY <3>1, <3>2 DEF Overdue, decoder_timed_out
    <3> QED
      BY <1>c, <2>1, <3>2, <3>3, <1>d
  <2> QED
    BY <2>2, <2>3, <2>4
<1>7. CASE Cleanup
  BY <1>0, <1>7, <1>a, CleanupEffect DEF InLoop
<1>8. CASE Exit \/ Kill
  BY <1>0, <1>8, EndsEffect
<1>9. CASE Restart
  BY <1>9 DEF Restart
<1>10. CASE Asked
  <2>1. /\ unit'.state = unit.state /\ unit'.timer = unit.timer
        /\ p'.pc = p.pc /\ p'.polled = p.polled /\ p'.last_ping = p.last_ping
        /\ thread' = thread /\ age' = age
    BY <1>0, <1>10, AskedEffect
  <2>2. Overdue' = Overdue /\ (decoder_timed_out' <=> decoder_timed_out)
    BY <2>1 DEF Overdue, decoder_timed_out
  <2> QED
    BY <1>c, <2>1, <2>2, <1>d DEF InLoop
<1>11. CASE ClockChange
  BY <1>0, <1>11 DEF ClockChange, LoopPace, InLoop, decoder_timed_out
<1>12. CASE Tick
  <2>1. /\ unit'.state = unit.state /\ unit'.timer = unit.timer + 1 /\ thread' = thread
        /\ unit.timer < Limit /\ p'.pc = p.pc /\ ~p'.polled
        /\ p'.last_ping = Older(p.last_ping, WatchdogSec)
        /\ age'.decode = IF thread.decoder = "busy" THEN Older(age.decode, DecodeCap) ELSE 0
    BY <1>0, <1>12, TickEffect
  <2>2. unit.timer < WatchdogSec
    BY <2>1, LimitOf
  <2>3. unit'.timer <= p'.last_ping
    BY <1>0, <1>c, <2>1, <2>2 DEF Older
  <2>4. ASSUME InLoop PROVE unit'.timer <= PingInterval + Overdue'
    <3>1. p.polled
      BY <1>12, <2>4 DEF Tick, Waiting, At, InStartup, InLoop, Running
    <3>2. CASE ~decoder_timed_out
      <4>1. unit.timer < PingInterval
        BY <1>0, <1>c, <2>1, <2>4, <3>1, <3>2
      <4>2. Overdue' \in Nat
        <5>1. age'.decode \in Nat
          BY <1>0, <2>1 DEF Older
        <5> QED
          BY <5>1 DEF Overdue, decoder_timed_out
      <4> QED
        BY <1>0, <2>1, <4>1, <4>2
    <3>3. CASE decoder_timed_out
      <4>1. thread.decoder = "busy" /\ age.decode > DecodeDeadline
        BY <3>3 DEF decoder_timed_out
      <4>2. age.decode <= DecodeDeadline + unit.timer
        <5>1. unit.state # "stopping"
          BY <2>1
        <5> QED
          BY <1>0, <4>1, <5>1 DEF PaceInv, HungInv, HungBound
      <4>3. age'.decode = age.decode + 1
        BY <1>0, <2>1, <2>2, <4>1, <4>2 DEF Older, DecodeCap
      <4>4. decoder_timed_out' /\ Overdue' = Overdue + 1
        BY <1>0, <2>1, <3>3, <4>1, <4>3 DEF decoder_timed_out, Overdue
      <4> QED
        BY <1>0, <1>b, <1>c, <2>1, <2>4, <3>1, <4>4
    <3> QED
      BY <3>2, <3>3
  <2>5. InLoop' <=> InLoop
    BY <2>1 DEF InLoop
  <2> QED
    BY <2>1, <2>3, <2>4, <2>5, <1>d
<1>13. CASE UNCHANGED vars
  BY <1>0, <1>13 DEF vars, LoopPace, InLoop, decoder_timed_out
<1> QED
  BY <1>1, <1>2, <1>3, <1>4, <1>5, <1>6, <1>7, <1>8, <1>9, <1>10, <1>11, <1>12, <1>13
  DEF Next, ThreadActs

LEMMA PaceStep == PaceInv /\ [Next]_vars => PaceInv'
BY HungStep, StartPaceStep, LoopPaceStep DEF PaceInv

(***************************************************************************)
(* systemd ends only a process that was told to stop, that has left its    *)
(* loop, or whose decode is overdue by nearly the whole watchdog period.   *)
(***************************************************************************)
THEOREM KillsAreJustified == Spec => KillJustified
<1>1. ASSUME PaceInv, Kill
      PROVE  \/ unit.state = "stopping"
             \/ p.pc = "cleanup"
             \/ /\ unit.state = "running" /\ thread.decoder = "busy"
                /\ age.decode >= DecodeDeadline + WatchdogSec - PingInterval
  <2> USE TimersAreNumbers
  <2>0. /\ LifeInv /\ p.step \in 1 .. 15 /\ p.pc \in Positions
        /\ unit.state \in UnitStates /\ unit.timer \in Nat /\ age.decode \in Nat
        /\ age.wait \in Nat
    BY <1>1, Fields DEF ServiceShape, LifeInv, PaceInv, HungInv
  <2>1. p.pc # "exited" /\ unit.timer >= Limit
    BY <1>1 DEF Kill, Running
  <2>2. CASE InStartup
    <3> SUFFICES ASSUME unit.state = "starting" PROVE FALSE
      BY <2>0, <2>2 DEF LifeInv, Phases, InStartup
    <3>1. /\ unit.timer <= (IF p.step > 1 THEN DeviceTimeout ELSE 0)
                              + (IF p.step > 8 THEN WarmupTimeout ELSE 0)
                              + (IF p.step > 13 THEN BootTimeout ELSE 0) + age.wait
          /\ age.wait > 0 => \/ p.step = 1 /\ age.wait <= DeviceTimeout
                             \/ p.step = 8 /\ age.wait <= WarmupTimeout
                             \/ p.step = 13 /\ age.wait <= BootTimeout
      BY <1>1, <2>2 DEF PaceInv, StartPace
    <3>2. unit.timer <= DeviceTimeout + WarmupTimeout + BootTimeout
      BY <2>0, <3>1
    <3> QED
      BY <2>0, <2>1, <3>2, LimitOf
  <2>3. CASE InLoop
    <3> SUFFICES ASSUME unit.state = "running"
                 PROVE  /\ thread.decoder = "busy"
                        /\ age.decode >= DecodeDeadline + WatchdogSec - PingInterval
      BY <2>0, <2>3 DEF LifeInv, Phases
    <3>1. unit.timer >= WatchdogSec
      BY <2>1, LimitOf
    <3>2. unit.timer <= PingInterval
                         + (IF decoder_timed_out THEN age.decode - DecodeDeadline ELSE 0)
      BY <1>1, <2>0, <2>3, <3>1 DEF PaceInv, LoopPace
    <3>3. decoder_timed_out
      BY <2>0, <3>1, <3>2
    <3> QED
      BY <2>0, <3>1, <3>2, <3>3 DEF decoder_timed_out
  <2> QED
    BY <2>0, <2>1, <2>2, <2>3 DEF Positions, InStartup, InLoop
<1>2. PaceInv /\ [Next]_vars =>
         [Kill => \/ unit.state = "stopping"
                  \/ p.pc = "cleanup"
                  \/ /\ unit.state = "running" /\ thread.decoder = "busy"
                     /\ age.decode >= DecodeDeadline + WatchdogSec - PingInterval]_vars
  BY <1>1
<1> QED
  BY <1>2, PaceInitially, PaceStep, PTL DEF Spec, KillJustified

-----------------------------------------------------------------------------
(***************************************************************************)
(* What the steps of the startup acquire and the clean-up releases.        *)
(***************************************************************************)
Resources == {"device", "locks", "queue", "reporter", "ft8", "jt9", "advisor", "health"}

LEMMA GainedBy ==
    /\ Gained(Order[1]) = {"device"}
    /\ \A i \in {3, 4, 5, 6, 7, 12, 14} : Gained(Order[i]) = {Order[i]}
    /\ \A i \in {2, 8, 9, 10, 11, 13, 15} : Gained(Order[i]) = {}
BY OrderOfSteps DEF Gained

LEMMA ReleasedBy ==
    /\ Released("close") = {"device"}
    /\ \A op \in {"locks", "queue", "reporter", "ft8", "jt9", "advisor", "health"} :
          Released(op) = {op}
    /\ \A op \in {"flag", "stop_queue", "stop_stream", "join_dsp", "join_decoder"} :
          Released(op) = {}
BY DEF Released

LEMMA SkippedSteps ==
    ASSUME NEW i \in 1 .. 15, Skipped(Order[i])
    PROVE  /\ i \in {5, 6, 7, 8, 12, 13, 14}
           /\ i = 5 => ~options.reporting
           /\ i = 6 => options.mode = "WSPR"
BY OrderOfSteps DEF Skipped

LEMMA NeededSteps ==
    ASSUME NEW i \in 1 .. 15, ~Skipped(Order[i])
    PROVE  /\ i = 5 => options.reporting
           /\ i = 6 => options.mode # "WSPR"
BY OrderOfSteps DEF Skipped

(***************************************************************************)
(* What StartupHeld says, step by step: of the resources, of the threads.  *)
(***************************************************************************)
HeldPart(step) ==
    /\ "device" \in held <=> step > 1
    /\ "locks" \in held <=> step > 3
    /\ "queue" \in held <=> step > 4
    /\ "reporter" \in held <=> step > 5 /\ options.reporting
    /\ "ft8" \in held <=> step > 6 /\ options.mode = "FT8"
    /\ "jt9" \in held => step > 7
    /\ "advisor" \in held => step > 12
    /\ "health" \in held => step > 14
    /\ held \subseteq Resources

ThreadPart(step) ==
    /\ Alive("decoder") => step > 9
    /\ Alive("dsp") => step > 10
    /\ Alive("stream") => step > 11
    /\ Alive("advisor") => "advisor" \in held
    /\ Alive("health") => "health" \in held

LEMMA StartupParts ==
    ASSUME ServiceShape
    PROVE  /\ InStartup => (StartupHeld <=> HeldPart(p.step) /\ ThreadPart(p.step))
           /\ InLoop => (StartupHeld <=> HeldPart(16) /\ ThreadPart(16))
<1>1. p.step \in 1 .. 15
  BY Fields DEF ServiceShape
<1>2. ASSUME InStartup PROVE \A i \in 1 .. 15 : Done(i) <=> p.step > i
  BY <1>2 DEF Done, InStartup, InLoop
<1>3. ASSUME InLoop PROVE \A i \in 1 .. 15 : Done(i) /\ 16 > i
  BY <1>3 DEF Done
<1>4. ASSUME InStartup PROVE StartupHeld <=> HeldPart(p.step) /\ ThreadPart(p.step)
  BY <1>2, <1>4 DEF StartupHeld, HeldPart, ThreadPart, Resources
<1>5. ASSUME InLoop PROVE StartupHeld <=> HeldPart(16) /\ ThreadPart(16)
  BY <1>3, <1>5 DEF StartupHeld, HeldPart, ThreadPart, Resources
<1> QED
  BY <1>4, <1>5

LEMMA StartupHeldStep == HeldInv /\ [Next]_vars => StartupHeld'
<1> SUFFICES ASSUME HeldInv, [Next]_vars, InStartup' \/ InLoop'
             PROVE  StartupHeld'
  BY DEF StartupHeld
<1>0. /\ LifeInv /\ ServiceShape /\ ServiceShape' /\ StartupHeld /\ p.step \in 1 .. 15
      /\ p'.step \in 1 .. 15
      /\ options.mode \in {"WSPR", "FT8"}
  BY Fields, ShapeStep DEF ServiceShape, HeldInv, LifeInv
<1>a. ASSUME InStartup \/ InLoop, p'.pc = p.pc \/ (InLoop /\ InLoop'), p'.step = p.step,
             UNCHANGED <<options, held>>, \A t \in Threads : Alive(t)' => Alive(t)
      PROVE  StartupHeld'
  <2>1. \A i \in 1 .. 15 : Done(i)' <=> Done(i)
    BY <1>a DEF Done, InStartup, InLoop
  <2> QED
    BY <1>0, <1>a, <2>1 DEF StartupHeld, Threads
<1>n. PICK next \in 1 .. 16 : next = p.step + 1
  BY <1>0
<1>b. ASSUME InStartup, p' = Onward, HeldPart(next)', ThreadPart(next)'
      PROVE  StartupHeld'
  <2>1. \A i \in 1 .. 15 : Done(i)' <=> next > i
    <3>1. CASE p.step < 15
      BY <1>0, <1>b, <1>n, <3>1, OnwardEffect DEF InStartup, InLoop, Done
    <3>2. CASE p.step = 15
      BY <1>0, <1>b, <1>n, <3>2, OnwardEffect DEF InStartup, InLoop, Done
    <3> QED
      BY <1>0, <3>1, <3>2
  <2> QED
    BY <1>b, <1>n, <2>1 DEF StartupHeld, HeldPart, ThreadPart, Resources
<1>c. ASSUME InStartup
      PROVE  HeldPart(p.step) /\ ThreadPart(p.step)
  BY <1>0, <1>c, StartupParts
<1>1. CASE StartSkips
  <2>1. /\ InStartup /\ p' = Onward /\ UNCHANGED <<options, held, thread>>
        /\ Skipped(Order[p.step])
    BY <1>1 DEF StartSkips
  <2>2. HeldPart(next)'
    BY <1>0, <1>c, <1>n, <2>1, SkippedSteps DEF HeldPart
  <2>3. ThreadPart(next)'
    BY <1>0, <1>c, <1>n, <2>1 DEF ThreadPart, Alive
  <2> QED
    BY <1>b, <2>1, <2>2, <2>3
<1>2. CASE StartSucceeds
  <2>1. /\ InStartup /\ p' = Onward /\ options' = options /\ ~Skipped(Order[p.step])
        /\ held' = held \cup Gained(Order[p.step])
    BY <1>2 DEF StartSucceeds
  <2>2. HeldPart(next)'
    <3>1. HeldPart(p.step)
      BY <1>c, <2>1
    <3>2. CASE p.step = 1
      BY <1>n, <2>1, <3>1, <3>2, GainedBy DEF HeldPart, Resources
    <3>3. CASE p.step \in {3, 4, 5, 6, 7, 12, 14}
      <4>1. held' = held \cup {Order[p.step]}
        BY <2>1, <3>3, GainedBy
      <4>2. /\ p.step = 5 => options.reporting
            /\ p.step = 6 => options.mode = "FT8"
        BY <1>0, <2>1, NeededSteps
      <4>3. /\ Order[p.step] \in Resources \ {"device"}
            /\ Order[p.step] = "locks" <=> p.step = 3
            /\ Order[p.step] = "queue" <=> p.step = 4
            /\ Order[p.step] = "reporter" <=> p.step = 5
            /\ Order[p.step] = "ft8" <=> p.step = 6
            /\ Order[p.step] = "jt9" <=> p.step = 7
            /\ Order[p.step] = "advisor" <=> p.step = 12
            /\ Order[p.step] = "health" <=> p.step = 14
        BY <3>3, OrderOfSteps DEF Resources
      <4>4. ("device" \in held)' <=> next > 1
        BY <1>0, <1>n, <2>1, <3>1, <3>3, <4>1, <4>2, <4>3 DEF HeldPart
      <4>5. ("locks" \in held)' <=> next > 3
        BY <1>0, <1>n, <2>1, <3>1, <3>3, <4>1, <4>2, <4>3 DEF HeldPart
      <4>6. ("queue" \in held)' <=> next > 4
        BY <1>0, <1>n, <2>1, <3>1, <3>3, <4>1, <4>2, <4>3 DEF HeldPart
      <4>7. ("reporter" \in held)' <=> next > 5 /\ options'.reporting
        BY <1>0, <1>n, <2>1, <3>1, <3>3, <4>1, <4>2, <4>3 DEF HeldPart
      <4>8. ("ft8" \in held)' <=> next > 6 /\ options'.mode = "FT8"
        BY <1>0, <1>n, <2>1, <3>1, <3>3, <4>1, <4>2, <4>3 DEF HeldPart
      <4>9. ("jt9" \in held)' => next > 7
        BY <1>0, <1>n, <2>1, <3>1, <3>3, <4>1, <4>2, <4>3 DEF HeldPart
      <4>10. ("advisor" \in held)' => next > 12
        BY <1>0, <1>n, <2>1, <3>1, <3>3, <4>1, <4>2, <4>3 DEF HeldPart
      <4>11. ("health" \in held)' => next > 14
        BY <1>0, <1>n, <2>1, <3>1, <3>3, <4>1, <4>2, <4>3 DEF HeldPart
      <4>12. (held \subseteq Resources)'
        BY <1>0, <1>n, <2>1, <3>1, <3>3, <4>1, <4>2, <4>3 DEF HeldPart
      <4> QED
        BY <4>4, <4>5, <4>6, <4>7, <4>8, <4>9, <4>10, <4>11, <4>12 DEF HeldPart
    <3>4. CASE p.step \in {2, 8, 9, 10, 11, 13, 15}
      <4>1. held' = held
        BY <2>1, <3>4, GainedBy
      <4> QED
        BY <1>n, <2>1, <3>1, <3>4, <4>1 DEF HeldPart
    <3> QED
      BY <1>0, <3>2, <3>3, <3>4
  <2>3. ThreadPart(next)'
    <3>1. ThreadPart(p.step)
      BY <1>c, <2>1
    <3>2. held \subseteq held'
      BY <2>1
    <3>3. CASE p.step \in {9, 10, 11, 12, 14}
      <4>1. \A t \in Threads : t # Order[p.step] => thread'[t] = thread[t]
        BY <1>0, <1>2 DEF StartSucceeds, ServiceShape
      <4>2. /\ p.step = 12 => "advisor" \in held'
            /\ p.step = 14 => "health" \in held'
        BY <2>1, GainedBy, OrderOfSteps
      <4> QED
        BY <1>n, <3>1, <3>2, <3>3, <4>1, <4>2, OrderOfSteps DEF ThreadPart, Alive, Threads
    <3>4. CASE p.step \in {1, 2, 3, 4, 5, 6, 7, 8, 13, 15}
      <4>1. Order[p.step] \notin Threads
        BY <3>4, OrderOfSteps DEF Threads
      <4>2. thread' = thread
        BY <1>2, <4>1 DEF StartSucceeds
      <4> QED
        BY <1>n, <3>1, <3>2, <3>4, <4>2 DEF ThreadPart, Alive
    <3> QED
      BY <1>0, <3>3, <3>4
  <2> QED
    BY <1>b, <2>1, <2>2, <2>3
<1>3. CASE StartFails
  <2>1. InStartup /\ UNCHANGED <<options, thread>>
    BY <1>3 DEF StartFails
  <2>2. p.step \in {3, 7, 8, 12, 13, 14, 15} /\ p' = Onward
    BY <1>0, <1>3, StartFailsEffect DEF InStartup, InLoop
  <2>3. /\ held' = held \/ (p.step = 8 /\ held' = held \ {"jt9"})
        /\ Step[Order[p.step]].may_fail
    <3>1. Order[p.step] = "warmup" => p.step = 8
      BY <1>0, OrderOfSteps
    <3> QED
      BY <1>3, <3>1 DEF StartFails
  <2>4. p.step \notin {3, 15}
    BY <2>3, OrderOfSteps, StepTable DEF Safe
  <2>5. HeldPart(next)'
    BY <1>0, <1>c, <1>n, <2>1, <2>2, <2>3, <2>4 DEF HeldPart
  <2>6. ThreadPart(next)'
    BY <1>0, <1>c, <1>n, <2>1, <2>3 DEF ThreadPart, Alive
  <2> QED
    BY <1>b, <2>1, <2>2, <2>5, <2>6
<1>4. CASE LoopPoll
  <2>1. p'.step = p.step
    BY <1>0, <1>4 DEF LoopPoll, HealthWatchdogPing, ServiceShape, Processes
  <2> QED
    BY <1>0, <1>4, <1>a, <2>1, LoopPollEffect DEF LoopPoll, Alive
<1>5. CASE LoopMoves
  <2>1. p'.step = p.step
    BY <1>0, <1>5 DEF LoopMoves, ServiceShape, Processes
  <2> QED
    BY <1>0, <1>5, <1>a, <2>1, LoopMovesEffect DEF LoopMoves, Alive, InLoop
<1>6. CASE LoopFails \/ LoopEnds \/ Cleanup \/ Exit \/ Kill
  BY <1>0, <1>6, LeavesEffect, CleanupEffect, EndsEffect DEF InStartup, InLoop
<1>7. CASE ThreadActs
  BY <1>0, <1>7, <1>a, ThreadActsEffect DEF InStartup, InLoop
<1>8. CASE Restart
  <2>1. p.pc = "exited"
    BY <1>0, <1>8 DEF Restart, LifeInv, Phases, InLoop, ServiceShape, Processes, Positions
  <2>2. held' = {} /\ thread' = NoThread /\ p' = Fresh
    BY <1>8, <2>1, <1>0 DEF Restart, LifeInv, Phases
  <2>3. \A t \in Threads : ~Alive(t)'
    BY <2>2 DEF Alive, NoThread
  <2> QED
    BY <2>2, <2>3 DEF StartupHeld, Fresh, Done, InStartup, InLoop, Threads
<1>9. CASE Asked
  <2>1. /\ UNCHANGED <<options, held, thread>> /\ p'.pc = p.pc /\ p'.step = p.step
    BY <1>0, <1>9, AskedEffect
  <2> QED
    BY <1>a, <2>1 DEF Alive, InStartup, InLoop
<1>10. CASE Tick
  BY <1>0, <1>10, <1>a, TickEffect DEF Alive, InStartup, InLoop
<1>11. CASE ClockChange \/ UNCHANGED vars
  BY <1>0, <1>11 DEF ClockChange, vars, StartupHeld, Alive, Done, InStartup, InLoop
<1> QED
  BY <1>1, <1>2, <1>3, <1>4, <1>5, <1>6, <1>7, <1>8, <1>9, <1>10, <1>11
  DEF Next, ThreadActs

-----------------------------------------------------------------------------
(***************************************************************************)
(* The clean-up lists, entry by entry, and what each of them covers.       *)
(***************************************************************************)
LEMMA ReleasesAt ==
    ASSUME NEW todo, NEW i \in 1 .. Len(todo), NEW r, r \in Released(todo[i])
    PROVE  Releases(todo, r)
BY DEF Releases

(* A device that cannot be configured.                                     *)
LEMMA ConfigureCovers ==
    ASSUME NEW todo, todo = <<"close">>
    PROVE  /\ \A r \in {"device"} : Releases(todo, r)
<1>1. /\ Len(todo) = 1 /\ todo[1] = "close"
  OBVIOUS
<1>2. Releases(todo, "device")
  BY <1>1, 1 \in 1 .. Len(todo), ReleasedBy DEF Releases
<1> QED
  BY <1>2

(* No memory for the queue.                                                *)
LEMMA QueueCovers ==
    ASSUME NEW todo, todo = <<"close", "locks">>
    PROVE  /\ \A r \in {"device", "locks"} : Releases(todo, r)
<1>1. /\ Len(todo) = 2 /\ todo[1] = "close" /\ todo[2] = "locks"
  OBVIOUS
<1>2. Releases(todo, "device")
  BY <1>1, 1 \in 1 .. Len(todo), ReleasedBy DEF Releases
<1>3. Releases(todo, "locks")
  BY <1>1, 2 \in 1 .. Len(todo), ReleasedBy DEF Releases
<1> QED
  BY <1>2, <1>3

(* A reporter that cannot be started.                                      *)
LEMMA ReporterCovers ==
    ASSUME NEW todo, todo = <<"close", "locks", "queue">>
    PROVE  /\ \A r \in {"device", "locks", "queue"} : Releases(todo, r)
<1>1. /\ Len(todo) = 3 /\ todo[1] = "close" /\ todo[2] = "locks" /\ todo[3] = "queue"
  OBVIOUS
<1>2. Releases(todo, "device")
  BY <1>1, 1 \in 1 .. Len(todo), ReleasedBy DEF Releases
<1>3. Releases(todo, "locks")
  BY <1>1, 2 \in 1 .. Len(todo), ReleasedBy DEF Releases
<1>4. Releases(todo, "queue")
  BY <1>1, 3 \in 1 .. Len(todo), ReleasedBy DEF Releases
<1> QED
  BY <1>2, <1>3, <1>4

(* An FT8 decoder that cannot be started.                                  *)
LEMMA Ft8Covers ==
    ASSUME NEW todo, todo = <<"reporter", "close", "locks", "queue">>
    PROVE  /\ \A r \in {"device", "locks", "queue", "reporter"} : Releases(todo, r)
<1>1. /\ Len(todo) = 4 /\ todo[1] = "reporter" /\ todo[2] = "close"
      /\ todo[3] = "locks" /\ todo[4] = "queue"
  OBVIOUS
<1>2. Releases(todo, "device")
  BY <1>1, 2 \in 1 .. Len(todo), ReleasedBy DEF Releases
<1>3. Releases(todo, "locks")
  BY <1>1, 3 \in 1 .. Len(todo), ReleasedBy DEF Releases
<1>4. Releases(todo, "queue")
  BY <1>1, 4 \in 1 .. Len(todo), ReleasedBy DEF Releases
<1>5. Releases(todo, "reporter")
  BY <1>1, 1 \in 1 .. Len(todo), ReleasedBy DEF Releases
<1> QED
  BY <1>2, <1>3, <1>4, <1>5

(* A decoder thread that cannot be created.                                *)
LEMMA DecoderCovers ==
    ASSUME NEW todo, todo = <<"reporter", "ft8", "jt9", "close", "locks", "queue">>
    PROVE  /\ \A r \in {"device", "locks", "queue", "reporter", "ft8", "jt9"} : Releases(todo, r)
<1>1. /\ Len(todo) = 6 /\ todo[1] = "reporter" /\ todo[2] = "ft8" /\ todo[3] = "jt9"
      /\ todo[4] = "close" /\ todo[5] = "locks" /\ todo[6] = "queue"
  OBVIOUS
<1>2. Releases(todo, "device")
  BY <1>1, 4 \in 1 .. Len(todo), ReleasedBy DEF Releases
<1>3. Releases(todo, "locks")
  BY <1>1, 5 \in 1 .. Len(todo), ReleasedBy DEF Releases
<1>4. Releases(todo, "queue")
  BY <1>1, 6 \in 1 .. Len(todo), ReleasedBy DEF Releases
<1>5. Releases(todo, "reporter")
  BY <1>1, 1 \in 1 .. Len(todo), ReleasedBy DEF Releases
<1>6. Releases(todo, "ft8")
  BY <1>1, 2 \in 1 .. Len(todo), ReleasedBy DEF Releases
<1>7. Releases(todo, "jt9")
  BY <1>1, 3 \in 1 .. Len(todo), ReleasedBy DEF Releases
<1> QED
  BY <1>2, <1>3, <1>4, <1>5, <1>6, <1>7

(* A DSP thread that cannot be created.                                    *)
LEMMA DspCovers ==
    ASSUME NEW todo, todo = <<"flag", "join_decoder", "reporter", "ft8", "jt9", "close",
                     "queue", "locks">>
    PROVE  /\ \A r \in {"device", "locks", "queue", "reporter", "ft8", "jt9"} : Releases(todo, r)
           /\ EndsInTime(todo, "decoder")
<1>1. /\ Len(todo) = 8 /\ todo[1] = "flag" /\ todo[2] = "join_decoder"
      /\ todo[3] = "reporter" /\ todo[4] = "ft8" /\ todo[5] = "jt9"
      /\ todo[6] = "close" /\ todo[7] = "queue" /\ todo[8] = "locks"
  OBVIOUS
<1>2. Releases(todo, "device")
  BY <1>1, 6 \in 1 .. Len(todo), ReleasedBy DEF Releases
<1>3. Releases(todo, "locks")
  BY <1>1, 8 \in 1 .. Len(todo), ReleasedBy DEF Releases
<1>4. Releases(todo, "queue")
  BY <1>1, 7 \in 1 .. Len(todo), ReleasedBy DEF Releases
<1>5. Releases(todo, "reporter")
  BY <1>1, 3 \in 1 .. Len(todo), ReleasedBy DEF Releases
<1>6. Releases(todo, "ft8")
  BY <1>1, 4 \in 1 .. Len(todo), ReleasedBy DEF Releases
<1>7. Releases(todo, "jt9")
  BY <1>1, 5 \in 1 .. Len(todo), ReleasedBy DEF Releases
<1>8. EndsInTime(todo, "decoder")
  <2>1. Ends(todo[2], "decoder")
    BY <1>1 DEF Ends, JoinOf
  <2>2. \A j \in 1 .. Len(todo) : j < 2 => Released(todo[j]) \cap Uses("decoder") = {}
    BY <1>1, ReleasedBy DEF Uses
  <2> QED
    BY <1>1, <2>1, <2>2 DEF EndsInTime
<1> QED
  BY <1>2, <1>3, <1>4, <1>5, <1>6, <1>7, <1>8

(* A device that cannot be started.                                        *)
LEMMA StreamCovers ==
    ASSUME NEW todo, todo = <<"flag", "stop_queue", "join_dsp", "join_decoder", "reporter",
                     "ft8", "jt9", "close", "queue", "locks">>
    PROVE  /\ \A r \in {"device", "locks", "queue", "reporter", "ft8", "jt9"} : Releases(todo, r)
           /\ EndsInTime(todo, "decoder")
           /\ EndsInTime(todo, "dsp")
<1>1. /\ Len(todo) = 10 /\ todo[1] = "flag" /\ todo[2] = "stop_queue"
      /\ todo[3] = "join_dsp" /\ todo[4] = "join_decoder" /\ todo[5] = "reporter"
      /\ todo[6] = "ft8" /\ todo[7] = "jt9" /\ todo[8] = "close" /\ todo[9] = "queue"
      /\ todo[10] = "locks"
  OBVIOUS
<1>2. Releases(todo, "device")
  BY <1>1, 8 \in 1 .. Len(todo), ReleasedBy DEF Releases
<1>3. Releases(todo, "locks")
  BY <1>1, 10 \in 1 .. Len(todo), ReleasedBy DEF Releases
<1>4. Releases(todo, "queue")
  BY <1>1, 9 \in 1 .. Len(todo), ReleasedBy DEF Releases
<1>5. Releases(todo, "reporter")
  BY <1>1, 5 \in 1 .. Len(todo), ReleasedBy DEF Releases
<1>6. Releases(todo, "ft8")
  BY <1>1, 6 \in 1 .. Len(todo), ReleasedBy DEF Releases
<1>7. Releases(todo, "jt9")
  BY <1>1, 7 \in 1 .. Len(todo), ReleasedBy DEF Releases
<1>8. EndsInTime(todo, "decoder")
  <2>1. Ends(todo[4], "decoder")
    BY <1>1 DEF Ends, JoinOf
  <2>2. \A j \in 1 .. Len(todo) : j < 4 => Released(todo[j]) \cap Uses("decoder") = {}
    BY <1>1, ReleasedBy DEF Uses
  <2> QED
    BY <1>1, <2>1, <2>2 DEF EndsInTime
<1>9. EndsInTime(todo, "dsp")
  <2>1. Ends(todo[3], "dsp")
    BY <1>1 DEF Ends, JoinOf
  <2>2. \A j \in 1 .. Len(todo) : j < 3 => Released(todo[j]) \cap Uses("dsp") = {}
    BY <1>1, ReleasedBy DEF Uses
  <2> QED
    BY <1>1, <2>1, <2>2 DEF EndsInTime
<1> QED
  BY <1>2, <1>3, <1>4, <1>5, <1>6, <1>7, <1>8, <1>9

(* The end of main after its loop.                                         *)
LEMMA ShutdownCovers ==
    ASSUME NEW todo, todo = <<"advisor", "stop_stream", "close", "stop_queue", "join_dsp",
                     "join_decoder", "health", "reporter", "ft8", "jt9", "queue",
                     "locks">>
    PROVE  /\ \A r \in {"device", "locks", "queue", "reporter", "ft8", "jt9", "advisor", "health"} : Releases(todo, r)
           /\ EndsInTime(todo, "stream")
           /\ EndsInTime(todo, "dsp")
           /\ EndsInTime(todo, "decoder")
           /\ EndsInTime(todo, "advisor")
           /\ EndsInTime(todo, "health")
<1>1. /\ Len(todo) = 12 /\ todo[1] = "advisor" /\ todo[2] = "stop_stream"
      /\ todo[3] = "close" /\ todo[4] = "stop_queue" /\ todo[5] = "join_dsp"
      /\ todo[6] = "join_decoder" /\ todo[7] = "health" /\ todo[8] = "reporter"
      /\ todo[9] = "ft8" /\ todo[10] = "jt9" /\ todo[11] = "queue"
      /\ todo[12] = "locks"
  OBVIOUS
<1>2. Releases(todo, "device")
  BY <1>1, 3 \in 1 .. Len(todo), ReleasedBy DEF Releases
<1>3. Releases(todo, "locks")
  BY <1>1, 12 \in 1 .. Len(todo), ReleasedBy DEF Releases
<1>4. Releases(todo, "queue")
  BY <1>1, 11 \in 1 .. Len(todo), ReleasedBy DEF Releases
<1>5. Releases(todo, "reporter")
  BY <1>1, 8 \in 1 .. Len(todo), ReleasedBy DEF Releases
<1>6. Releases(todo, "ft8")
  BY <1>1, 9 \in 1 .. Len(todo), ReleasedBy DEF Releases
<1>7. Releases(todo, "jt9")
  BY <1>1, 10 \in 1 .. Len(todo), ReleasedBy DEF Releases
<1>8. Releases(todo, "advisor")
  BY <1>1, 1 \in 1 .. Len(todo), ReleasedBy DEF Releases
<1>9. Releases(todo, "health")
  BY <1>1, 7 \in 1 .. Len(todo), ReleasedBy DEF Releases
<1>10. EndsInTime(todo, "stream")
  <2>1. Ends(todo[2], "stream")
    BY <1>1 DEF Ends, JoinOf
  <2>2. \A j \in 1 .. Len(todo) : j < 2 => Released(todo[j]) \cap Uses("stream") = {}
    BY <1>1, ReleasedBy DEF Uses
  <2> QED
    BY <1>1, <2>1, <2>2 DEF EndsInTime
<1>11. EndsInTime(todo, "dsp")
  <2>1. Ends(todo[5], "dsp")
    BY <1>1 DEF Ends, JoinOf
  <2>2. \A j \in 1 .. Len(todo) : j < 5 => Released(todo[j]) \cap Uses("dsp") = {}
    BY <1>1, ReleasedBy DEF Uses
  <2> QED
    BY <1>1, <2>1, <2>2 DEF EndsInTime
<1>12. EndsInTime(todo, "decoder")
  <2>1. Ends(todo[6], "decoder")
    BY <1>1 DEF Ends, JoinOf
  <2>2. \A j \in 1 .. Len(todo) : j < 6 => Released(todo[j]) \cap Uses("decoder") = {}
    BY <1>1, ReleasedBy DEF Uses
  <2> QED
    BY <1>1, <2>1, <2>2 DEF EndsInTime
<1>13. EndsInTime(todo, "advisor")
  <2>1. Ends(todo[1], "advisor")
    BY <1>1 DEF Ends, JoinOf
  <2>2. \A j \in 1 .. Len(todo) : j < 1 => Released(todo[j]) \cap Uses("advisor") = {}
    BY <1>1, ReleasedBy DEF Uses
  <2> QED
    BY <1>1, <2>1, <2>2 DEF EndsInTime
<1>14. EndsInTime(todo, "health")
  <2>1. Ends(todo[7], "health")
    BY <1>1 DEF Ends, JoinOf
  <2>2. \A j \in 1 .. Len(todo) : j < 7 => Released(todo[j]) \cap Uses("health") = {}
    BY <1>1, ReleasedBy DEF Uses
  <2> QED
    BY <1>1, <2>1, <2>2 DEF EndsInTime
<1> QED
  BY <1>2, <1>3, <1>4, <1>5, <1>6, <1>7, <1>8, <1>9, <1>10, <1>11, <1>12, <1>13, <1>14

(***************************************************************************)
(* A failure of the startup hands over to a clean-up that covers what has  *)
(* been acquired so far.                                                   *)
(***************************************************************************)
LEMMA FailureCovers ==
    ASSUME ServiceShape, HeldPart(p.step), ThreadPart(p.step),
           p.step \in {1, 2, 4, 5, 6, 9, 10, 11}
    PROVE  /\ \A r \in held : Releases(Step[Order[p.step]].cleanup, r)
           /\ \A t \in Threads :
                 Alive(t) => /\ Uses(t) \subseteq held
                             /\ EndsInTime(Step[Order[p.step]].cleanup, t)
<1> DEFINE todo == Step[Order[p.step]].cleanup
<1>1. /\ Alive("decoder") => p.step > 9
      /\ Alive("dsp") => p.step > 10
      /\ ~Alive("stream") /\ ~Alive("advisor") /\ ~Alive("health")
  BY DEF ThreadPart, HeldPart
<1>2. /\ Alive("decoder") => Uses("decoder") \subseteq held
      /\ Alive("dsp") => Uses("dsp") \subseteq held
  <2>1. Alive("dsp") => Uses("dsp") \subseteq held
    BY <1>1 DEF HeldPart, Uses
  <2>2. Uses("decoder") = {"locks"} \cup (IF options.reporting THEN {"reporter"} ELSE {})
                            \cup (IF options.mode = "FT8" THEN {"ft8"} ELSE {})
    BY DEF Uses
  <2>3. Alive("decoder") => /\ "locks" \in held
                            /\ options.reporting => "reporter" \in held
                            /\ options.mode = "FT8" => "ft8" \in held
    BY <1>1 DEF HeldPart
  <2>4. Alive("decoder") => Uses("decoder") \subseteq held
    BY <2>2, <2>3
  <2> QED
    BY <2>1, <2>4
<1>3. CASE p.step = 1
  BY <1>1, <1>3 DEF HeldPart, Resources, Threads
<1>4. CASE p.step = 2
  <2>1. Step[Order[p.step]] = Step["configure"]
    BY <1>4, OrderOfSteps
  <2>2. \A r \in held : Releases(todo, r)
    <3>1. held \subseteq {"device"}
      BY <1>4 DEF HeldPart, Resources
    <3>2. \A r \in {"device"} : Releases(todo, r)
      BY <2>1, ListsOfSteps, ConfigureCovers
    <3> QED
      BY <3>1, <3>2
  <2> QED
    BY <1>1, <1>4, <2>2 DEF Threads
<1>5. CASE p.step = 4
  <2>1. Step[Order[p.step]] = Step["queue"]
    BY <1>5, OrderOfSteps
  <2>2. \A r \in held : Releases(todo, r)
    <3>1. held \subseteq {"device", "locks"}
      BY <1>5 DEF HeldPart, Resources
    <3>2. \A r \in {"device", "locks"} : Releases(todo, r)
      BY <2>1, ListsOfSteps, QueueCovers
    <3> QED
      BY <3>1, <3>2
  <2> QED
    BY <1>1, <1>5, <2>2 DEF Threads
<1>6. CASE p.step = 5
  <2>1. Step[Order[p.step]] = Step["reporter"]
    BY <1>6, OrderOfSteps
  <2>2. \A r \in held : Releases(todo, r)
    <3>1. held \subseteq {"device", "locks", "queue"}
      BY <1>6 DEF HeldPart, Resources
    <3>2. \A r \in {"device", "locks", "queue"} : Releases(todo, r)
      BY <2>1, ListsOfSteps, ReporterCovers
    <3> QED
      BY <3>1, <3>2
  <2> QED
    BY <1>1, <1>6, <2>2 DEF Threads
<1>7. CASE p.step = 6
  <2>1. Step[Order[p.step]] = Step["ft8"]
    BY <1>7, OrderOfSteps
  <2>2. \A r \in held : Releases(todo, r)
    <3>1. held \subseteq {"device", "locks", "queue", "reporter"}
      BY <1>7 DEF HeldPart, Resources
    <3>2. \A r \in {"device", "locks", "queue", "reporter"} : Releases(todo, r)
      BY <2>1, ListsOfSteps, Ft8Covers
    <3> QED
      BY <3>1, <3>2
  <2> QED
    BY <1>1, <1>7, <2>2 DEF Threads
<1>8. CASE p.step = 9
  <2>1. Step[Order[p.step]] = Step["decoder"]
    BY <1>8, OrderOfSteps
  <2>2. \A r \in held : Releases(todo, r)
    <3>1. held \subseteq {"device", "locks", "queue", "reporter", "ft8", "jt9"}
      BY <1>8 DEF HeldPart, Resources
    <3>2. \A r \in {"device", "locks", "queue", "reporter", "ft8", "jt9"} : Releases(todo, r)
      BY <2>1, ListsOfSteps, DecoderCovers
    <3> QED
      BY <3>1, <3>2
  <2> QED
    BY <1>1, <1>8, <2>2 DEF Threads
<1>9. CASE p.step = 10
  <2>1. Step[Order[p.step]] = Step["dsp"]
    BY <1>9, OrderOfSteps
  <2>2. \A r \in held : Releases(todo, r)
    <3>1. held \subseteq {"device", "locks", "queue", "reporter", "ft8", "jt9"}
      BY <1>9 DEF HeldPart, Resources
    <3>2. \A r \in {"device", "locks", "queue", "reporter", "ft8", "jt9"} : Releases(todo, r)
      BY <2>1, ListsOfSteps, DspCovers
    <3> QED
      BY <3>1, <3>2
  <2>3. EndsInTime(todo, "decoder")
    BY <2>1, ListsOfSteps, DspCovers
  <2> QED
    BY <1>1, <1>2, <1>9, <2>2, <2>3 DEF Threads
<1>10. CASE p.step = 11
  <2>1. Step[Order[p.step]] = Step["stream"]
    BY <1>10, OrderOfSteps
  <2>2. \A r \in held : Releases(todo, r)
    <3>1. held \subseteq {"device", "locks", "queue", "reporter", "ft8", "jt9"}
      BY <1>10 DEF HeldPart, Resources
    <3>2. \A r \in {"device", "locks", "queue", "reporter", "ft8", "jt9"} : Releases(todo, r)
      BY <2>1, ListsOfSteps, StreamCovers
    <3> QED
      BY <3>1, <3>2
  <2>3. EndsInTime(todo, "decoder") /\ EndsInTime(todo, "dsp")
    BY <2>1, ListsOfSteps, StreamCovers
  <2> QED
    BY <1>1, <1>2, <1>10, <2>2, <2>3 DEF Threads
<1> QED
  BY <1>3, <1>4, <1>5, <1>6, <1>7, <1>8, <1>9, <1>10

(***************************************************************************)
(* In the loop every thread has what it uses.                              *)
(***************************************************************************)
LEMMA AllUsesHeld ==
    ASSUME HeldPart(16), ThreadPart(16), NEW t \in Threads, Alive(t)
    PROVE  Uses(t) \subseteq held
<1>1. /\ "device" \in held /\ "locks" \in held /\ "queue" \in held
      /\ options.reporting => "reporter" \in held
      /\ options.mode = "FT8" => "ft8" \in held
  BY DEF HeldPart
<1>2. CASE t \in {"stream", "dsp"}
  BY <1>1, <1>2 DEF Uses
<1>3. CASE t = "decoder"
  BY <1>1, <1>3 DEF Uses
<1>4. CASE t \in {"advisor", "health"}
  <2>1. t \in held
    BY <1>4 DEF ThreadPart
  <2> QED
    BY <1>1, <1>4, <2>1 DEF Uses
<1> QED
  BY <1>2, <1>3, <1>4 DEF Threads

LEMMA StartupUsesHeld ==
    ASSUME ServiceShape, HeldPart(p.step), ThreadPart(p.step), NEW t \in Threads, Alive(t)
    PROVE  Uses(t) \subseteq held
<1>0. p.step \in 1 .. 15
  BY Fields DEF ServiceShape
<1>1. CASE t = "stream" \/ t = "dsp"
  <2>1. "queue" \in held /\ "device" \in held /\ "locks" \in held
    BY <1>0, <1>1 DEF HeldPart, ThreadPart
  <2> QED
    BY <1>1, <2>1 DEF Uses
<1>2. CASE t = "decoder"
  <2>1. /\ "locks" \in held
        /\ options.reporting => "reporter" \in held
        /\ options.mode = "FT8" => "ft8" \in held
    BY <1>0, <1>2 DEF HeldPart, ThreadPart
  <2> QED
    BY <1>2, <2>1 DEF Uses
<1>3. CASE t \in {"advisor", "health"}
  <2>1. t \in held /\ (t = "health" /\ options.reporting => "reporter" \in held)
    <3>1. t \in held
      BY <1>3 DEF ThreadPart
    <3>2. t = "health" => p.step > 14
      BY <3>1 DEF HeldPart
    <3> QED
      BY <1>0, <3>1, <3>2 DEF HeldPart
  <2> QED
    BY <1>3, <2>1 DEF Uses
<1> QED
  BY <1>1, <1>2, <1>3 DEF Threads

(***************************************************************************)
(* One operation of the clean-up leaves the rest covered.                  *)
(***************************************************************************)
LEMMA CleanupKeepsCover ==
    ASSUME HeldInv, Cleanup
    PROVE  CleanupCovers'
<1>0. /\ ServiceShape /\ p.todo \in Seq(Operations)
  BY Fields DEF HeldInv, LifeInv, ServiceShape
<1>1. /\ p.pc = "cleanup" /\ p.todo # <<>> /\ p'.todo = Tail(p.todo)
      /\ JoinOf(p.todo[1]) # "none" => ~Alive(JoinOf(p.todo[1]))
      /\ held' = held \ Released(p.todo[1])
      /\ thread' = IF p.todo[1] = "stop_stream"
                   THEN [thread EXCEPT !.stream = "ended"] ELSE thread
      /\ options' = options
  BY <1>0, CleanupEffect
<1>2. /\ \A r \in held : Releases(p.todo, r)
      /\ \A t \in Threads :
            Alive(t) => Uses(t) \subseteq held /\ EndsInTime(p.todo, t)
  BY <1>1 DEF HeldInv, CleanupCovers
<1>3. /\ Len(p.todo) \in Nat /\ Len(p.todo) > 0 /\ Len(Tail(p.todo)) = Len(p.todo) - 1
      /\ \A i \in 1 .. Len(p.todo) - 1 : Tail(p.todo)[i] = p.todo[i + 1]
  BY <1>0, <1>1
<1>4. ASSUME NEW r \in held' PROVE Releases(p.todo, r)'
  <2>1. PICK i \in 1 .. Len(p.todo) : r \in Released(p.todo[i])
    BY <1>1, <1>2, <1>4 DEF Releases
  <2>2. i - 1 \in 1 .. Len(p'.todo) /\ p'.todo[i - 1] = p.todo[i]
    <3>1. i # 1
      BY <1>1, <1>4, <2>1
    <3> QED
      BY <1>1, <1>3, <3>1
  <2> QED
    BY <2>1, <2>2 DEF Releases
<1>5. ASSUME NEW t \in Threads, Alive(t)'
      PROVE  Uses(t)' \subseteq held' /\ EndsInTime(p.todo, t)'
  <2>1. Alive(t) /\ ~(p.todo[1] = "stop_stream" /\ t = "stream")
    BY <1>0, <1>1, <1>5 DEF Alive, ServiceShape
  <2>2. PICK i \in 1 .. Len(p.todo) :
            /\ Ends(p.todo[i], t)
            /\ \A j \in 1 .. Len(p.todo) : j < i => Released(p.todo[j]) \cap Uses(t) = {}
    BY <1>2, <2>1 DEF EndsInTime
  <2>3. i # 1
    BY <1>1, <2>1, <2>2 DEF Ends, Threads
  <2>4. Uses(t)' = Uses(t)
    BY <1>1 DEF Uses
  <2>5. Released(p.todo[1]) \cap Uses(t) = {}
    BY <1>3, <2>2, <2>3
  <2>6. Uses(t)' \subseteq held'
    BY <1>1, <1>2, <2>1, <2>4, <2>5
  <2>7. /\ i - 1 \in 1 .. Len(p'.todo) /\ Ends(p'.todo[i - 1], t)
        /\ \A j \in 1 .. Len(p'.todo) :
              j < i - 1 => Released(p'.todo[j]) \cap Uses(t) = {}
    <3>1. i - 1 \in 1 .. Len(p'.todo) /\ p'.todo[i - 1] = p.todo[i]
      BY <1>1, <1>3, <2>3
    <3>2. ASSUME NEW j \in 1 .. Len(p'.todo), j < i - 1
          PROVE  Released(p'.todo[j]) \cap Uses(t) = {}
      <4>1. j + 1 \in 1 .. Len(p.todo) /\ j + 1 < i /\ p'.todo[j] = p.todo[j + 1]
        BY <1>1, <1>3, <3>2
      <4> QED
        BY <2>2, <4>1
    <3> QED
      BY <2>2, <3>1, <3>2
  <2> QED
    BY <2>4, <2>6, <2>7 DEF EndsInTime
<1> QED
  BY <1>4, <1>5 DEF CleanupCovers

LEMMA CleanupCoversStep == HeldInv /\ [Next]_vars => CleanupCovers'
<1> SUFFICES ASSUME HeldInv, [Next]_vars, p'.pc = "cleanup"
             PROVE  CleanupCovers'
  BY DEF CleanupCovers
<1>0. /\ ServiceShape /\ StartupHeld /\ CleanupCovers /\ p.step \in 1 .. 15
  BY Fields DEF HeldInv, LifeInv, ServiceShape
<1>a. ASSUME p.pc = "cleanup", p'.todo = p.todo, UNCHANGED <<options, held>>,
             \A t \in Threads : Alive(t)' => Alive(t)
      PROVE  CleanupCovers'
  <2>1. \A t \in Threads : Uses(t)' = Uses(t)
    BY <1>a DEF Uses
  <2> QED
    BY <1>0, <1>a, <2>1 DEF CleanupCovers, EndsInTime, Releases
<1>1. CASE StartSkips \/ StartSucceeds
  BY <1>0, <1>1, StartSkipsEffect, StartSucceedsEffect, OnwardEffect DEF StartSucceeds
<1>2. CASE StartFails
  <2>1. InStartup /\ HeldPart(p.step) /\ ThreadPart(p.step)
    BY <1>0, <1>2, StartupParts DEF StartFails
  <2>2. /\ p.step \in {1, 2, 4, 5, 6, 9, 10, 11}
        /\ p'.todo = Step[Order[p.step]].cleanup
    BY <1>0, <1>2, <2>1, StartFailsEffect, OnwardEffect
  <2>3. UNCHANGED <<options, thread>> /\ held' = held
    <3>1. Order[p.step] # "warmup"
      BY <2>2, OrderOfSteps
    <3> QED
      BY <1>2, <3>1 DEF StartFails
  <2>4. \A t \in Threads : Uses(t)' = Uses(t) /\ (Alive(t)' <=> Alive(t))
    BY <2>3 DEF Uses, Alive
  <2> QED
    BY <1>0, <2>1, <2>2, <2>3, <2>4, FailureCovers DEF CleanupCovers, EndsInTime
<1>3. CASE LoopPoll \/ LoopMoves
  BY <1>0, <1>3, LoopPollEffect, LoopMovesEffect DEF LoopPoll, LoopMoves, InLoop
<1>4. CASE LoopFails \/ LoopEnds
  <2>1. InLoop /\ p'.todo = Shutdown /\ UNCHANGED <<options, held, thread>>
    BY <1>0, <1>4, LeavesEffect
  <2>2. HeldPart(16) /\ ThreadPart(16)
    BY <1>0, <2>1, StartupParts
  <2>3. \A t \in Threads : Uses(t)' = Uses(t) /\ (Alive(t)' <=> Alive(t))
    BY <2>1 DEF Uses, Alive
  <2>4. \A r \in Resources : Releases(Shutdown, r)
    BY ShutdownCovers DEF Shutdown, Resources
  <2>5. \A t \in Threads : EndsInTime(Shutdown, t)
    BY ShutdownCovers DEF Shutdown, Threads
  <2>6. \A r \in held' : Releases(p.todo, r)'
    BY <2>1, <2>2, <2>4 DEF HeldPart
  <2>7. \A t \in Threads : EndsInTime(p.todo, t)'
    BY <2>1, <2>3, <2>5 DEF EndsInTime
  <2> QED
    BY <2>1, <2>2, <2>3, <2>6, <2>7, AllUsesHeld DEF CleanupCovers
<1>5. CASE ThreadActs
  BY <1>0, <1>5, <1>a, ThreadActsEffect
<1>6. CASE Cleanup
  BY <1>6, CleanupKeepsCover
<1>7. CASE Exit \/ Kill
  BY <1>0, <1>7, EndsEffect
<1>8. CASE Restart
  BY <1>8 DEF Restart, Fresh
<1>9. CASE Asked
  <2>1. /\ UNCHANGED <<options, held, thread>> /\ p'.pc = p.pc /\ p'.todo = p.todo
    BY <1>0, <1>9, AskedEffect
  <2> QED
    BY <1>a, <2>1 DEF Alive
<1>10. CASE Tick
  BY <1>0, <1>10, <1>a, TickEffect DEF Alive
<1>11. CASE ClockChange \/ UNCHANGED vars
  BY <1>a, <1>11 DEF ClockChange, vars, Alive, InLoop
<1> QED
  BY <1>1, <1>2, <1>3, <1>4, <1>5, <1>6, <1>7, <1>8, <1>9, <1>10, <1>11
  DEF Next, ThreadActs

LEMMA HeldInitially == Init => HeldInv
<1> SUFFICES ASSUME Init PROVE StartupHeld /\ CleanupCovers
  BY LifeInitially DEF HeldInv
<1>1. p = Fresh /\ held = {} /\ \A t \in Threads : ~Alive(t)
  BY DEF Init, NoThread, Alive
<1> QED
  BY <1>1 DEF StartupHeld, CleanupCovers, Fresh, Done, InLoop, InStartup, Threads

LEMMA HeldStep == HeldInv /\ [Next]_vars => HeldInv'
BY LifeStep, StartupHeldStep, CleanupCoversStep DEF HeldInv

(***************************************************************************)
(* What a live thread uses is held, in every startup, failure and          *)
(* shutdown; and a process that ends by itself leaves nothing behind.      *)
(***************************************************************************)
THEOREM UsesAreHeld == Spec => []UsesHeld
<1>1. HeldInv => UsesHeld
  <2> SUFFICES ASSUME HeldInv PROVE UsesHeld
    OBVIOUS
  <2>0. ServiceShape /\ p.pc \in Positions
    BY Fields DEF HeldInv, LifeInv, ServiceShape
  <2>1. ASSUME NEW t \in Threads, Alive(t) PROVE Uses(t) \subseteq held
    <3>1. CASE InStartup
      BY <2>0, <2>1, <3>1, StartupParts, StartupUsesHeld DEF HeldInv
    <3>2. CASE InLoop
      BY <2>0, <2>1, <3>2, StartupParts, AllUsesHeld DEF HeldInv
    <3>3. CASE p.pc = "cleanup"
      BY <2>1, <3>3 DEF HeldInv, CleanupCovers
    <3>4. p.pc # "exited"
      BY <2>1 DEF HeldInv, LifeInv, Phases, NoThread, Alive
    <3> QED
      BY <2>0, <3>1, <3>2, <3>3, <3>4 DEF Positions, InStartup, InLoop
  <2>2. ASSUME p.pc = "cleanup", p.todo = <<>>
        PROVE  held = {} /\ \A t \in Threads : ~Alive(t)
    <3>1. Len(p.todo) = 0
      BY <2>2
    <3>2. \A r : ~Releases(p.todo, r)
      BY <3>1 DEF Releases
    <3>3. \A t : ~EndsInTime(p.todo, t)
      BY <3>1 DEF EndsInTime
    <3> QED
      BY <2>2, <3>2, <3>3 DEF HeldInv, CleanupCovers
  <2> QED
    BY <2>1, <2>2 DEF UsesHeld
<1> QED
  BY <1>1, HeldInitially, HeldStep, PTL DEF Spec
=============================================================================
