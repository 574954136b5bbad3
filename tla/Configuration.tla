--------------------------- MODULE Configuration ---------------------------
(***************************************************************************)
(* What main accepts on its command line before it opens the receiver      *)
(* (airspyhf_wsprd.c, station.c), and the frequencies the accepted options *)
(* make the schedule tune.                                                 *)
(*                                                                         *)
(* options is a record of what getopt leaves behind: "" and 0 stand for an *)
(* option that was not given. A callsign or grid is a sequence of the      *)
(* character classes its check tells apart: "L" a letter (up to R and up   *)
(* to X are "R" and "X" classes in a grid), "D" a digit, "/" and "?".      *)
(***************************************************************************)
EXTENDS HopPlan

VARIABLE invoked    \* [options, ranked]: the command lines, and the advice that comes

FT8_AUDIO_RATE == 12000
WSPR_OUTPUT_RATE == 375

automatic_hop_bands ==
    <<"80m", "40m", "30m", "20m", "17m", "15m", "12m", "10m">>

(***************************************************************************)
(* 3 to 12 characters with a letter and a digit, no slash at either end    *)
(* and no two in a row.                                                    *)
(***************************************************************************)
station_normalize_callsign(s) ==
    /\ Len(s) \in 3 .. 12
    /\ s[1] # "/" /\ s[Len(s)] # "/"
    /\ \A i \in DOMAIN s : s[i] \in {"L", "D", "/"}
    /\ \A i \in 2 .. Len(s) : ~(s[i] = "/" /\ s[i - 1] = "/")
    /\ \E i \in DOMAIN s : s[i] = "L"
    /\ \E i \in DOMAIN s : s[i] = "D"

station_normalize_grid(s) ==
    /\ Len(s) \in {4, 6}
    /\ s[1] = "R" /\ s[2] = "R" /\ s[3] = "D" /\ s[4] = "D"
    /\ Len(s) = 6 => s[5] \in {"R", "X"} /\ s[6] \in {"R", "X"}

(***************************************************************************)
(* The IQ center is 1500 Hz above the dial frequency, and must lie in one  *)
(* of the receiver's two ranges.                                           *)
(***************************************************************************)
calculate_receiver_frequency(o, dial) ==
    LET tuned  == dial + o.shift + o.upconverter
        center == tuned + 1500
    IN /\ tuned > 0
       /\ center \in 9000 .. 31000000 \/ center \in 60000000 .. 260000000

(***************************************************************************)
(* The bands the receiver hops over, << >> when the list is no plan.       *)
(***************************************************************************)
Plan(o) ==
    hop_plan_parse(IF o.hop = <<"auto">> THEN automatic_hop_bands ELSE o.hop,
                   o.mode = "FT8")

Preset(o) == IF o.mode = "FT8" THEN find_ft8_band(o.band) ELSE find_band(o.band)

DialFrequency(o) ==
    IF o.hop # << >> THEN Plan(o)[1].frequency_hz
    ELSE IF o.band # "" THEN Preset(o).frequency_hz
    ELSE o.frequency

(***************************************************************************)
(* ft8_resampler_init and wspr_decimator_init: a whole number of samples   *)
(* for each one the decoder gets.                                          *)
(***************************************************************************)
RateUsable(o) ==
    LET decoder_rate == IF o.mode = "FT8" THEN FT8_AUDIO_RATE ELSE WSPR_OUTPUT_RATE
    IN o.rate > 0 /\ o.rate % decoder_rate = 0

(***************************************************************************)
(* Only the band the receiver starts on is checked.                        *)
(***************************************************************************)
FirstHopTunable(o) ==
    o.hop # << >> => calculate_receiver_frequency(o, Plan(o)[1].frequency_hz)

(***************************************************************************)
(* Every band of the plan can be tuned.                                    *)
(***************************************************************************)
HopsTunable(o) ==
    \A i \in DOMAIN Plan(o) : calculate_receiver_frequency(o, Plan(o)[i].frequency_hz)

(***************************************************************************)
(* The checks of main, in its order.                                       *)
(***************************************************************************)
Accepted(o) ==
    /\ station_normalize_callsign(o.call) /\ station_normalize_grid(o.grid)
    /\ ~(o.band # "" /\ o.frequency # 0)
    /\ ~(o.hop # << >> /\ o.frequency # 0)
    /\ o.hop # << >> => Plan(o) # << >>
    /\ o.band # "" => Preset(o) # NoBand
    /\ DialFrequency(o) # 0
    /\ RateUsable(o)
    /\ calculate_receiver_frequency(o, DialFrequency(o))
    /\ o.hop # << >> => HopsTunable(o)

-----------------------------------------------------------------------------
(***************************************************************************)
(* The band of a dwell under accepted options with a hop list: with "auto" *)
(* and advice the ranked bands and the explored ones, else the plan's.     *)
(***************************************************************************)
BandAt(o, ranked, slot) ==
    IF o.hop = <<"auto">> /\ ranked # << >>
    THEN wspr_adaptive_hop_band_at_dwell(ranked, Plan(o), slot)
    ELSE wspr_hop_band_at_dwell(Plan(o), slot)

(***************************************************************************)
(* Whatever the options, once they are accepted no dwell can fail to tune; *)
(* and over whole rounds of the schedule each of the ranked bands gets the *)
(* same number of dwells, as does each of the explored ones.               *)
(***************************************************************************)
ScheduleSound(o, ranked) ==
    LET plan  == Plan(o)
        used  == IF o.hop = <<"auto">> THEN ranked ELSE << >>
        group(b) == plan_contains_database_band(used, b.database_band)
        left  == Len(plan) - Len(used)
        round == IF used = << >> \/ left = 0 THEN Len(plan)
                 ELSE 6 * Len(used) * left
        at    == [s \in 0 .. round - 1 |-> BandAt(o, ranked, s)]
        share(b) == Cardinality({s \in DOMAIN at : at[s] = b})
    IN (Accepted(o) /\ o.hop # << >>) =>
          /\ \A s \in DOMAIN at : calculate_receiver_frequency(o, at[s].frequency_hz)
          /\ \A i, j \in DOMAIN plan :
                group(plan[i]) = group(plan[j]) => share(plan[i]) = share(plan[j])
          /\ \A i \in DOMAIN plan : share(plan[i]) > 0

(***************************************************************************)
(* Options that main accepts give a schedule all of whose dwells can be    *)
(* tuned, and which is fair among the bands of equal standing.             *)
(***************************************************************************)
HopScheduleSound == \A c \in invoked : ScheduleSound(c.options, c.ranked)
=============================================================================
