--------------------------- MODULE MCBandAdvisor ---------------------------
(***************************************************************************)
(* Adaptive hopping for TLC. A unit of time is 6 s for WSPR and 3 s for    *)
(* FT8; the dwells are two slots long and the hourly interval is shortened *)
(* so that several queries fall into a run, which keeps the phases of the  *)
(* query, the capture and the slot. The run starts in the dwell before an  *)
(* exploring one.                                                          *)
(***************************************************************************)
EXTENDS BandAdvisor

MCTiming ==
    [WSPR |-> [slot |-> 20, dwell |-> 40, capture |-> 19, phase |-> 15,
               interval |-> 40, boot |-> 0, timeout |-> ("wspr.live" :> 2)],
     FT8  |-> [slot |-> 5, dwell |-> 10, capture |-> 4, phase |-> 0, interval |-> 20,
               boot |-> 15, timeout |-> ("monitors" :> 10) @@ ("regional" :> 4)]]

MCCandidates == 
    [WSPR |-> <<Band("80m", 3568600, 3), Band("40m", 7038600, 7),Band("20m", 14095600, 14)>>,
     FT8 |-> <<Band("80m", 3573000, 3), Band("40m", 7074000, 7),Band("20m", 14074000, 14)>>]

Row(band, stations, spots) == [band |-> band, stations |-> stations, spots |-> spots]

MCAnswers ==
    ("wspr.live" :>
        {[chunks |-> <<1, 2>>, rows |-> <<Row(14, 3, 9), Row(10, 2, 5), Row(14, 1, 1), Row(7, 1, 1)>>],
         [chunks |-> <<2>>, rows |-> <<Row(7, 3, 9), Row(3, 2, 5), Bad>>],
         [chunks |-> <<2, 2>>, rows |-> <<Row(7, 3, 9), Row(3, 2, 5)>>]}) @@
    ("monitors" :>
        {[chunks |-> <<3>>,
          rows |-> <<[bands |-> <<"20m", "80m">>], [frequency |-> 14070000],
                     [frequency |-> 29000000], [callsign |-> "x"]>>],
         [chunks |-> <<1>>, rows |-> <<[bands |-> <<"20m", "80m">>], Bad>>]}) @@
    ("regional" :>
        {[chunks |-> <<1>>, rows |-> <<3573100, 7075500, Bad>>]})

MCStart == [WSPR |-> 4 * 40 .. (4 * 40 + 39), FT8 |-> 4 * 10 .. (4 * 10 + 9)]

MCHorizon == [WSPR |-> 4 * 40 + 100, FT8 |-> 4 * 10 + 50]
=============================================================================
