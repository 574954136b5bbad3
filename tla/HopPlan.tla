------------------------------ MODULE HopPlan ------------------------------
(***************************************************************************)
(* The band plan of bands.c: the band tables, the parser of the -B list    *)
(* and the schedule that says which band a UTC slot is spent on. The       *)
(* receiver computes the schedule anew for every frame from the time       *)
(* alone, so the schedule has no state: it is a function of the plan, the  *)
(* advice and the number of the dwell.                                     *)
(*                                                                         *)
(* A band is [name, frequency_hz, database_band]; a plan is a sequence of  *)
(* bands. NoBand is the NULL the functions return when they have no band.  *)
(***************************************************************************)
EXTENDS Integers, Sequences, FiniteSets

WSPR_MAX_HOP_BANDS == 16

(* Megahertz, kilohertz and hertz.                                         *)
Hz(mhz, khz, hz) == (mhz * 1000 + khz) * 1000 + hz

Band(name, hz, db) == [name |-> name, frequency_hz |-> hz, database_band |-> db]

NoBand == [name |-> "none", frequency_hz |-> 0, database_band |-> 0]

(* The alias of each row and the band it stands for. 2200m is the one band *)
(* whose number in the wspr.live database is negative.                     *)
band_frequencies ==
    << <<"lf",    Band("2200m", Hz(0, 136, 0), -1)>>,
       <<"2200m", Band("2200m", Hz(0, 136, 0), -1)>>,
       <<"mf",    Band("630m", Hz(0, 474, 200), 0)>>,
       <<"630m",  Band("630m", Hz(0, 474, 200), 0)>>,
       <<"160m",  Band("160m", Hz(1, 836, 600), 1)>>,
       <<"80m",   Band("80m", Hz(3, 568, 600), 3)>>,
       <<"60m",   Band("60m", Hz(5, 287, 200), 5)>>,
       <<"40m",   Band("40m", Hz(7, 38, 600), 7)>>,
       <<"30m",   Band("30m", Hz(10, 138, 700), 10)>>,
       <<"20m",   Band("20m", Hz(14, 95, 600), 14)>>,
       <<"17m",   Band("17m", Hz(18, 104, 600), 18)>>,
       <<"15m",   Band("15m", Hz(21, 94, 600), 21)>>,
       <<"12m",   Band("12m", Hz(24, 924, 600), 24)>>,
       <<"10m",   Band("10m", Hz(28, 124, 600), 28)>>,
       <<"4m",    Band("4m", Hz(70, 91, 0), 70)>>,
       <<"2m",    Band("2m", Hz(144, 489, 0), 144)>>,
       <<"1.25m", Band("1.25m", Hz(222, 280, 0), 222)>>,
       <<"1m25",  Band("1.25m", Hz(222, 280, 0), 222)>> >>

ft8_band_frequencies ==
    << <<"160m", Band("160m", Hz(1, 840, 0), 1)>>,
       <<"80m",  Band("80m", Hz(3, 573, 0), 3)>>,
       <<"60m",  Band("60m", Hz(5, 357, 0), 5)>>,
       <<"40m",  Band("40m", Hz(7, 74, 0), 7)>>,
       <<"30m",  Band("30m", Hz(10, 136, 0), 10)>>,
       <<"20m",  Band("20m", Hz(14, 74, 0), 14)>>,
       <<"17m",  Band("17m", Hz(18, 100, 0), 18)>>,
       <<"15m",  Band("15m", Hz(21, 74, 0), 21)>>,
       <<"12m",  Band("12m", Hz(24, 915, 0), 24)>>,
       <<"10m",  Band("10m", Hz(28, 74, 0), 28)>> >>

(* The first row whose alias is the name; names arrive in lower case.      *)
FindIn(table, name) ==
    IF \E i \in DOMAIN table : table[i][1] = name
    THEN table[CHOOSE i \in DOMAIN table :
                  /\ table[i][1] = name
                  /\ \A j \in 1 .. (i - 1) : table[j][1] # name][2]
    ELSE NoBand

find_band(name) == FindIn(band_frequencies, name)

find_ft8_band(name) == FindIn(ft8_band_frequencies, name)

(* The list is its fields, trimmed: an empty field (two commas, a trailing *)
(* comma) is "" and names no band. Any bad field refuses the whole list; a *)
(* band is refused a second time under its other alias too, because the    *)
(* comparison is between canonical names.                                  *)
hop_plan_parse(fields, ft8) ==
    LET Of(name) == IF ft8 THEN find_ft8_band(name) ELSE find_band(name)
        plan     == [i \in DOMAIN fields |-> Of(fields[i])]
        usable   == /\ Len(plan) \in 2 .. WSPR_MAX_HOP_BANDS
                    /\ \A i \in DOMAIN plan : plan[i] # NoBand
                    /\ \A i, j \in DOMAIN plan :
                          plan[i].name = plan[j].name => i = j
    IN  IF usable THEN plan ELSE << >>

-----------------------------------------------------------------------------
(* The schedule. A slot is the number of the dwell: utc_seconds divided by *)
(* the dwell time of the mode.                                             *)

wspr_hop_band_at_dwell(plan, slot) ==
    IF Len(plan) = 0 THEN NoBand ELSE plan[(slot % Len(plan)) + 1]

plan_contains_database_band(plan, db) ==
    \E i \in DOMAIN plan : plan[i].database_band = db

(* The places of the candidates that the advice leaves out.                *)
LeftOut(ranked, candidates) ==
    {i \in DOMAIN candidates :
        ~plan_contains_database_band(ranked, candidates[i].database_band)}

(* The k-th of a set of places has k - 1 of them before it.                *)
Below(places, i) == {j \in places : j < i}

Nth(places, k) == CHOOSE i \in places : Cardinality(Below(places, i)) = k - 1

(* Those candidates in the order of the plan.                              *)
Excluded(ranked, candidates) ==
    LET left == LeftOut(ranked, candidates)
    IN [k \in 1 .. Cardinality(left) |-> candidates[Nth(left, k)]]

(* Every sixth dwell explores, provided something is left out.             *)
IsExploration(slot, excluded) == slot % 6 = 5 /\ Len(excluded) # 0

explored_index(slot, excluded) == ((slot \div 6) % Len(excluded)) + 1

(* Mutant: the rotation counts the exploring dwells too.                   *)
ranked_slot_raw(slot, excluded) == slot

(* The dwells spent exploring are taken out of the count, which keeps the  *)
(* rotation over the ranked bands continuous.                              *)
ranked_slot(slot, excluded) ==
    IF Len(excluded) = 0 THEN slot ELSE slot - (slot \div 6)

wspr_adaptive_hop_band_at_dwell(ranked, candidates, slot) ==
    LET excluded == Excluded(ranked, candidates)
    IN  IF Len(ranked) = 0 \/ Len(candidates) = 0 THEN NoBand
        ELSE IF IsExploration(slot, excluded)
             THEN excluded[explored_index(slot, excluded)]
             ELSE ranked[(ranked_slot(slot, excluded) % Len(ranked)) + 1]
=============================================================================
