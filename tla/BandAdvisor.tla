---------------------------- MODULE BandAdvisor ----------------------------
(***************************************************************************)
(* Adaptive band hopping: the advisor thread of band_advisor.c, which asks *)
(* a web service every hour which bands are worth listening to, and the    *)
(* part of main that takes its advice, waits for it at boot, picks the     *)
(* band of every frame and finally stops the thread.                       *)
(*                                                                         *)
(* Time is the UTC clock in units of a few seconds (Timing gives the unit  *)
(* of each mode). A thread that can run does so before the clock moves on: *)
(* the seconds of a request and the minutes of a dwell are long against    *)
(* scheduling. A web request ends when its answer comes or at its timeout, *)
(* so it is the one thing that takes a chosen amount of time.              *)
(*                                                                         *)
(* An answer of a service is abstracted to what the parser tells apart: a  *)
(* sequence of rows (wspr.live, best frequency) or of receivers (active    *)
(* monitors), with Bad standing for text that does not parse, together     *)
(* with the sizes of the chunks it arrives in.                             *)
(***************************************************************************)
EXTENDS HopPlan, SequencesExt

CONSTANTS
    Timing,       \* per mode: slot, dwell, capture, interval, timeouts, boot wait
    Candidates,   \* per mode: the plan of -B auto
    Answers,      \* per service: the answers it may give
    Bad,          \* text that does not parse
    Start, Horizon  \* the clock when main starts, and where the run stops

VARIABLES
    mode,   \* "WSPR" or "FT8"
    now,    \* UTC, in units
    adv,    \* struct wspr_band_advisor and the position of its thread
    main,   \* main: where it is, and the frame it is waiting for
    hop,    \* advised_hop_plan, advice_available and the band tuned to
    last    \* history: the dwell and the band of the frame captured last

vars == <<mode, now, adv, main, hop, last>>

ADVISOR_RESULT_BANDS == 4
ADVISOR_RESPONSE_CAPACITY == 4   \* in chunk units: 2048 bytes, and 8 MiB for
                                 \* the monitors

T == Timing[mode]

(* Whole slots make a dwell and an hour; a request to wspr.live starts in  *)
(* a slot and is over before the capture of it ends (90 s and 12 s against *)
(* 114 s) and long before the next one is due; the wait at boot is longer  *)
(* than a round of FT8 requests (45 s against 30 s and 12 s).              *)
ASSUME TimingAssumption ==
    /\ \A m \in {"WSPR", "FT8"} :
          /\ Timing[m].slot \in Nat \ {0} /\ Timing[m].dwell \in Nat \ {0}
          /\ Timing[m].capture \in Nat /\ Timing[m].phase \in Nat
          /\ Timing[m].interval \in Nat /\ Timing[m].boot \in Nat
          /\ Timing[m].dwell % Timing[m].slot = 0
          /\ Timing[m].interval % Timing[m].slot = 0
          /\ Timing[m].capture < Timing[m].slot
          /\ Start[m] \subseteq Nat
    /\ LET wspr == Timing["WSPR"] IN
          /\ wspr.timeout["wspr.live"] \in Nat
          /\ 0 < wspr.phase /\ wspr.phase + wspr.timeout["wspr.live"] < wspr.capture
          /\ wspr.timeout["wspr.live"] < wspr.interval
    /\ LET ft8 == Timing["FT8"] IN
          /\ ft8.timeout["monitors"] \in Nat /\ ft8.timeout["regional"] \in Nat
          /\ ft8.timeout["monitors"] + ft8.timeout["regional"] < ft8.boot

-----------------------------------------------------------------------------
(* Receiving an answer: the buffer keeps one byte for the terminator, and  *)
(* a chunk that does not fit fails the whole transfer.                     *)
receive_response(length, bytes) ==
    IF \/ length >= ADVISOR_RESPONSE_CAPACITY
       \/ bytes > ADVISOR_RESPONSE_CAPACITY - length - 1
    THEN -1 ELSE length + bytes

Received(answer) ==
    FoldLeft(LAMBDA length, bytes :
                IF length < 0 THEN length ELSE receive_response(length, bytes),
             0, answer.chunks) >= 0

-----------------------------------------------------------------------------
(* The parsers. Each gives a plan, empty when the answer is of no use.     *)

InPlan(plan, db) == plan_contains_database_band(plan, db)

(* wspr.live: rows of band, stations and spots, best first. Rows are read  *)
(* until four bands are chosen; a malformed row before that spoils all.    *)
wspr_advisor_parse_response(candidates, rows) ==
    LET AddRow(plan, row) ==
            IF plan = Bad \/ Len(plan) = ADVISOR_RESULT_BANDS THEN plan
            ELSE IF row = Bad \/ row.stations = 0 \/ row.spots = 0 THEN Bad
            ELSE IF ~InPlan(candidates, row.band) \/ InPlan(plan, row.band)
                 THEN plan
            ELSE Append(plan, SelectSeq(candidates,
                     LAMBDA b : b.database_band = row.band)[1])
        plan == FoldLeft(AddRow, << >>, rows)
    IN  IF plan = Bad \/ Len(plan) < 2 THEN << >> ELSE plan

(* The best-frequency service: frequencies, best first. The first one that *)
(* is the dial of a candidate, or in its passband, is the recommendation.  *)
InPassband(frequency, dial) ==
    frequency = dial \/ frequency \in (dial + 200) .. (dial + 3000)

ft8_advisor_parse_response(candidates, rows) ==
    LET Hits(row) == SelectSeq(candidates,
                         LAMBDA b : InPassband(row, b.frequency_hz))
        stops == {i \in DOMAIN rows : rows[i] = Bad \/ Hits(rows[i]) # << >>}
        at == CHOOSE i \in stops : \A j \in stops : i <= j
    IN  IF stops = {} \/ rows[at] = Bad THEN << >> ELSE <<Hits(rows[at])[1]>>

(* A receiver of the active monitors names its bands, or else its          *)
(* frequency; a band counts once for every time it is named, a frequency   *)
(* for the first candidate whose megahertz it is in.                       *)
count_monitor_bands(b, receiver) ==
    Cardinality({i \in DOMAIN receiver.bands : receiver.bands[i] = b.name})

MonitorRange(b) ==
    b.database_band * 1000000 ..
        (IF b.database_band = 28 THEN 29999999
         ELSE b.database_band * 1000000 + 999999)

count_monitor_frequency(candidates, index, receiver) ==
    LET hits == {i \in DOMAIN candidates :
                    receiver.frequency \in MonitorRange(candidates[i])}
    IN  IF index \in hits /\ \A i \in hits : index <= i THEN 1 ELSE 0

MonitorCounts(candidates, receivers) ==
    [index \in DOMAIN candidates |->
        FoldLeft(LAMBDA count, receiver :
                    count + IF "bands" \in DOMAIN receiver
                            THEN count_monitor_bands(candidates[index], receiver)
                            ELSE IF "frequency" \in DOMAIN receiver
                            THEN count_monitor_frequency(candidates, index, receiver)
                            ELSE 0,
                 0, receivers)]

(* The four highest counts, the earlier candidate first among equals.      *)
ft8_monitor_parse_response(candidates, receivers) ==
    LET counts == MonitorCounts(candidates, receivers)
        heard == {i \in DOMAIN candidates : counts[i] > 0}
        order == SetToSortSeq(heard, LAMBDA i, j :
                     counts[i] > counts[j] \/ (counts[i] = counts[j] /\ i < j))
        plan == [i \in 1 .. Len(order) |-> candidates[order[i]]]
    IN  IF (\E i \in DOMAIN receivers : receivers[i] = Bad) \/ Len(plan) < 2
        THEN << >>
        ELSE SubSeq(plan, 1, IF Len(plan) < ADVISOR_RESULT_BANDS
                             THEN Len(plan) ELSE ADVISOR_RESULT_BANDS)

(* What a request may bring: a plan, or none because it failed, timed out, *)
(* did not fit or was of no use. A URL or a query is always formatted: the *)
(* locator was validated and sixteen bands fit.                            *)
Query(service, Parse(_)) ==
    {<< >>} \cup {IF Received(answer) THEN Parse(answer.rows) ELSE << >> :
                    answer \in Answers[service]}

query_band_advice ==
    Query("wspr.live", LAMBDA rows : wspr_advisor_parse_response(Candidates.WSPR, rows))

query_ft8_band_advice ==
    Query("regional", LAMBDA rows : ft8_advisor_parse_response(Candidates.FT8, rows))

query_ft8_monitor_advice ==
    Query("monitors", LAMBDA rows : ft8_monitor_parse_response(Candidates.FT8, rows))

Outcomes(service) ==
    CASE service = "wspr.live" -> query_band_advice
      [] service = "regional"  -> query_ft8_band_advice
      [] service = "monitors"  -> query_ft8_monitor_advice

-----------------------------------------------------------------------------
(* The state.                                                              *)

Services == IF mode = "FT8" THEN <<"monitors", "regional">> ELSE <<"wspr.live">>

(* Mutant: the FT8 advisor asks at the minute WSPR asks at.                *)
first_query_aligned(t) ==
    t + ((Timing["WSPR"].phase + Timing["WSPR"].slot - (t % Timing["WSPR"].slot))
            % Timing["WSPR"].slot)

(* FT8 asks at once; WSPR at second 90 of the two-minute slot.             *)
first_query(t) ==
    IF mode = "FT8" THEN t
    ELSE t + ((T.phase + T.slot - (t % T.slot)) % T.slot)

(* The advisor is started once the device streams; FT8 then waits for the  *)
(* first advice, WSPR goes straight to its loop.                           *)
Init ==
    /\ mode \in {"WSPR", "FT8"}
    /\ now \in Start[mode]
    /\ adv = [pc |-> "wait", next |-> first_query(now), service |-> 1, left |-> 0,
              stopping |-> FALSE, update_ready |-> FALSE, pending |-> << >>,
              first |-> "none"]
    /\ main = [pc |-> IF mode = "FT8" THEN "boot" ELSE "clock",
               left |-> T.boot, frame |-> 0, exit_flag |-> FALSE,
               fresh |-> FALSE, joining |-> 0]
    /\ hop = [advised |-> << >>, advice_available |-> FALSE, band |-> NoBand]
    /\ last = [dwell |-> 0, band |-> NoBand]

-----------------------------------------------------------------------------
(* The advisor thread.                                                     *)

(* Mutant: the wait for the next query does not look at stopping.          *)
WaitOverDeaf == now >= adv.next

(* The wait ends at the time of the next query, or when stopping is set.   *)
WaitOver == now >= adv.next \/ adv.stopping

wait_until ==
    /\ adv.pc = "wait" /\ WaitOver
    /\ adv' = IF adv.stopping THEN [adv EXCEPT !.pc = "exited"]
              ELSE [adv EXCEPT !.pc = "query", !.service = 1,
                               !.left = T.timeout[Services[1]]]
    /\ UNCHANGED <<mode, now, main, hop, last>>

(* Mutant: the next query is an hour after the end of this one.            *)
next_query_drifting == now + T.interval

(* An hour after the last query was due, so that the phase is kept.        *)
next_query ==
    IF adv.next + T.interval <= now THEN now + T.interval
    ELSE adv.next + T.interval

(* A request ends with an answer of the service, or with none. FT8 falls   *)
(* back to the regional service when the monitors are of no use; advice is *)
(* published under the mutex and wakes whoever waits for it.               *)
QueryEnds ==
    /\ adv.pc = "query"
    /\ \E plan \in Outcomes(Services[adv.service]) :
         LET done == [adv EXCEPT !.pc = "wait", !.next = next_query, !.left = 0]
         IN  /\ adv.left = 0 => plan = << >>
             /\ adv' = IF plan # << >>
                       THEN [done EXCEPT !.pending = plan, !.update_ready = TRUE,
                                         !.first = IF @ = "none" THEN "advice" ELSE @]
                       ELSE IF adv.service < Len(Services)
                       THEN [adv EXCEPT !.service = @ + 1,
                                        !.left = T.timeout[Services[adv.service + 1]]]
                       ELSE [done EXCEPT !.first = IF @ = "none" THEN "failed" ELSE @]
    /\ UNCHANGED <<mode, now, main, hop, last>>

-----------------------------------------------------------------------------
(* main.                                                                   *)

(* The wait at boot ends with the advice or at its deadline; a signal does *)
(* not end it.                                                             *)
MainBoot ==
    /\ main.pc = "boot" /\ (adv.update_ready \/ main.left = 0)
    /\ adv' = [adv EXCEPT !.update_ready = FALSE]
    /\ hop' = IF adv.update_ready
              THEN [hop EXCEPT !.advised = adv.pending, !.advice_available = TRUE]
              ELSE hop
    /\ main' = [main EXCEPT !.pc = "clock", !.left = 0]
    /\ UNCHANGED <<mode, now, last>>

Leave == [main EXCEPT !.pc = "join", !.left = 0, !.exit_flag = TRUE]
Stopped == [adv EXCEPT !.stopping = TRUE]

next_frame_start == (now \div T.slot + 1) * T.slot

(* Mutant: advice is taken before every frame.                             *)
TakesAdviceAlways(frame) == adv.update_ready

(* The advice is taken only before the first frame of a dwell.             *)
TakesAdvice(frame) == adv.update_ready /\ frame % T.dwell = 0

(* The band of the next frame: from the advice, exploring one dwell in     *)
(* six, or from the local plan.                                            *)
BandFor(advised, available, frame) ==
    IF available
    THEN wspr_adaptive_hop_band_at_dwell(advised, Candidates[mode], frame \div T.dwell)
    ELSE wspr_hop_band_at_dwell(Candidates[mode], frame \div T.dwell)

(* The clock is found synchronized, after however long a wait, and no      *)
(* signal came: choose the band and tune. The tuning may fail, which ends  *)
(* the program.                                                            *)
MainSelect ==
    /\ main.pc = "clock" /\ ~main.exit_flag
    /\ LET frame == next_frame_start
            take  == TakesAdvice(frame)
            plan  == IF take THEN adv.pending ELSE hop.advised
            some  == take \/ hop.advice_available
            band  == BandFor(plan, some, frame)
        IN  \/ /\ hop' = [advised |-> plan, advice_available |-> some, band |-> band]
               /\ main' = [main EXCEPT !.pc = "wait", !.frame = frame, !.fresh = FALSE]
               /\ adv' = [adv EXCEPT !.update_ready = @ /\ ~take]
            \/ /\ band # hop.band
               /\ hop' = [hop EXCEPT !.advised = plan, !.advice_available = some]
               /\ main' = Leave
               /\ adv' = [Stopped EXCEPT !.update_ready = @ /\ ~take]
    /\ UNCHANGED <<mode, now, last>>

(* The slot begins: the frame is captured on the band tuned to.            *)
MainCapture ==
    /\ main.pc = "wait" /\ now >= main.frame /\ ~main.exit_flag
    /\ main' = [main EXCEPT !.pc = "capture", !.left = T.capture]
    /\ last' = [dwell |-> now \div T.dwell, band |-> hop.band]
    /\ UNCHANGED <<mode, now, adv, hop>>

(* The frame is complete, possibly a little late, or the stream is lost.   *)
MainCaptured ==
    /\ main.pc = "capture" /\ ~main.exit_flag
    /\ \/ /\ main.left <= 0
          /\ main' = [main EXCEPT !.pc = "clock", !.left = 0, !.fresh = TRUE]
          /\ UNCHANGED adv
       \/ main' = Leave /\ adv' = Stopped
    /\ UNCHANGED <<mode, now, hop, last>>

(* Every wait of the loop looks at exit_flag four times a second.          *)
MainLeave ==
    /\ main.pc \in {"clock", "wait", "capture"} /\ main.exit_flag
    /\ main' = Leave
    /\ adv' = Stopped
    /\ UNCHANGED <<mode, now, hop, last>>

MainJoin ==
    /\ main.pc = "join" /\ adv.pc = "exited"
    /\ main' = [main EXCEPT !.pc = "done"]
    /\ UNCHANGED <<mode, now, adv, hop, last>>

-----------------------------------------------------------------------------
(* The environment.                                                        *)

Signal ==
    /\ ~main.exit_flag
    /\ main' = [main EXCEPT !.exit_flag = TRUE]
    /\ UNCHANGED <<mode, now, adv, hop, last>>

AdvisorIdle ==
    \/ adv.pc = "exited"
    \/ adv.pc = "wait" /\ ~WaitOver
    \/ adv.pc = "query" /\ adv.left > 0

MainIdle ==
    \/ main.pc = "boot" /\ main.left > 0 /\ ~adv.update_ready
    \/ main.pc = "clock" /\ ~main.exit_flag                      \* not synchronized
    \/ main.pc = "wait" /\ now < main.frame /\ ~main.exit_flag
    \/ main.pc = "capture" /\ main.left > -1 /\ ~main.exit_flag  \* one unit late at most
    \/ main.pc = "join" /\ adv.pc # "exited"

Tick ==
    /\ now < Horizon[mode] /\ AdvisorIdle /\ MainIdle
    /\ now' = now + 1
    /\ adv' = IF adv.pc = "query" THEN [adv EXCEPT !.left = @ - 1] ELSE adv
    /\ main' = [main EXCEPT !.fresh = FALSE,
                            !.left = IF main.pc \in {"boot", "capture"} THEN @ - 1 ELSE @,
                            !.joining = IF main.pc = "join" THEN @ + 1 ELSE @]
    /\ UNCHANGED <<mode, hop, last>>

Next ==
    \/ wait_until \/ QueryEnds
    \/ MainBoot \/ MainSelect \/ MainCapture \/ MainCaptured \/ MainLeave \/ MainJoin
    \/ Signal \/ Tick

Spec == Init /\ [][Next]_vars

-----------------------------------------------------------------------------
(* Properties.                                                             *)

(***************************************************************************)
(* Two frames of the same dwell are captured on the same band, whatever    *)
(* advice arrives, however late a capture ends and whichever slots are     *)
(* missed: advice is taken only before the first frame of a dwell          *)
(* (docs/industrial-grade.md: "plans change only at mode boundaries").     *)
(***************************************************************************)
DwellStable ==
    [][last'.dwell = last.dwell /\ last.band # NoBand => last'.band = last.band]_last

(***************************************************************************)
(* The wait at boot is long enough: when the first round of queries gives  *)
(* advice, in time for its own timeouts, main has it before it chooses the *)
(* first band (README: FT8 "obtains and activates advice before the first  *)
(* capture, with a bounded 45-second wait").                               *)
(***************************************************************************)
BootAdviceSeen ==
    mode = "FT8" /\ main.pc \in {"wait", "capture"}
        => /\ adv.first # "none"
           /\ adv.first = "advice" => hop.advice_available

(***************************************************************************)
(* A WSPR frame ends before the advice of its last half minute could still *)
(* be under way: when main, straight after a capture, chooses the band of  *)
(* a new dwell, no query is in progress, so the dwell is spent by the      *)
(* latest advice and not by that of an hour ago.                           *)
(***************************************************************************)
AdviceSettled ==
    [][mode = "WSPR" /\ main.fresh /\ main'.pc = "wait" /\ main'.frame % T.dwell = 0
        => adv.pc # "query" /\ ~adv'.update_ready]_main

(***************************************************************************)
(* Stopping the advisor takes no longer than the requests of one round:    *)
(* a thread that sleeps until the next hour is woken, and one that is in a *)
(* request finishes the round and starts no other.                         *)
(***************************************************************************)
StopBounded ==
    main.joining <= IF mode = "FT8" THEN T.timeout["monitors"] + T.timeout["regional"]
                    ELSE T.timeout["wspr.live"]
=============================================================================
