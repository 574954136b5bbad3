----------------------------- MODULE MCDecoding -----------------------------
(***************************************************************************)
(* What is computed from the samples of a frame, and from the command      *)
(* line. An initial state is the start of a machine (frames of the FT8     *)
(* decoder, runs of the WSPR core, the Fano decoder at its root) or one    *)
(* input of an algorithm that has no state; only the machine named by      *)
(* topic takes steps.                                                      *)
(*                                                                         *)
(* FT8: three callsigns, two of them with the same 12-bit hash and the     *)
(* third in their probe chain, in a table of three slots that fills and    *)
(* wraps; an entry that is not refreshed is dropped at the end of the next *)
(* frame, so that holes appear in front of younger entries. Payloads share *)
(* their CRC. jt9 prints the text of one of ft8_lib's decodes at, within   *)
(* and beyond the tolerance, with and without a callsign.                  *)
(*                                                                         *)
(* A value is named twice (HashValue, MCHash): TLC evaluates a definition  *)
(* once, but one that a configuration gives to a constant at every use.    *)
(***************************************************************************)
EXTENDS Ft8Decoder, FanoDecoder, WsprCore, CandidateHeap, Configuration, TLC

VARIABLE input      \* [topic, ...]: what is computed

-----------------------------------------------------------------------------
(* Frames of FT8 *)

CONSTANTS c1, c2, c3

HashValue == (c1 :> 4) @@ (c2 :> 5) @@ (c3 :> 0)
MCHash == HashValue

Message(type, to, de, extra, crc) ==
    [type |-> type, to |-> to, de |-> de, cq |-> FALSE, extra |-> extra, crc |-> crc]

PayloadsValue ==
    {Message("std", Token, Clear(c1), 1, 0),
     Message("std", Token, Clear(c3), 2, 0),
     Message("std", Clear(c2), Hashed22(c1), 3, 1),
     Message("nonstd", Clear(c2), Hashed12(c1), 4, 1),
     [Message("nonstd", Hashed12(c3), Clear(c1), 5, 1) EXCEPT !.cq = TRUE],
     Message("std", Clear(c3), NotACall, 6, 0),
     Message("std", NotACall, Clear(c2), 6, 1),
     Message("free", Token, Token, 7, 0),
     Message("contest", Token, Token, 8, 0)}
MCPayloads == PayloadsValue

\* The text of the first payload.
Cq1 == [to |-> Printed(NoCall, FALSE), de |-> Printed(c1, FALSE), extra |-> 1]
\* The text of the fourth, not resolved.
Unresolved4 == [to |-> Printed(c2, FALSE), de |-> Printed(NoCall, TRUE), extra |-> 4]

Print9(text, frequency, call) == [message |-> text, frequency |-> frequency, call |-> call]

Jt9ListsValue ==
    {<<>>,
     <<Print9(Cq1, 1010, c1), Print9(Cq1, 1011, c1)>>,
     <<Print9(Unresolved4, 1010, NoCall), Print9(Unresolved4, 1000, c2)>>}
MCJt9Lists == Jt9ListsValue

TextsValue ==
    [to : Printeds, de : Printeds, extra : {m.extra : m \in PayloadsValue}]
MCTexts == TextsValue

-----------------------------------------------------------------------------
(* Messages of FT8 *)

Spellings == <<"K1ABC", "W9XYZ", "3DA0XYZ", "3XA0XYZ", "K1ABC/R", "W9XYZ/P", "PJ4/K1ABC",
               "YW18FIFA", "KH1/KH7Z", "LONGCALL123", "G4A", "AB0XYZ", "1A0C", "R0A/P">>

Extras == {"EN37", "AA00", "RR99", "-30", "-05", "+00", "+99", "R-30", "R+15",
           "-31", "-34", "-35", "-99", "R-31", "R-35", "RRR", "RR73", "73", ""}

MessageInputs ==
    {i \in {[topic |-> "message", to |-> to, de |-> Spellings[d], extra |-> extra] :
               to \in {"CQ", "QRZ", "K1ABC", "3DA0XYZ", "W9XYZ/P", "PJ4/K1ABC"},
               d \in DOMAIN Spellings, extra \in Extras} :
        i.to # i.de /\ (i.to = "K1ABC" \/ i.extra \in {"EN37", "R-30", "73"})}

FreeInputs ==
    {[topic |-> "free", text |-> text] :
       text \in {"TNX BOB 73 GL", "CQ WORLD     ", "/?-.+0AZ09 XY", "0",
                 "?????????????", "    A    B   "}}

(* Hashes without collisions; the largest has all 22 bits. *)
Hash22(c) ==
    262143 * (CASE c = "DE" -> 14 [] c = "CQ" -> 15 [] c = "QRZ" -> 16
                [] OTHER -> (CHOOSE i \in DOMAIN Spellings : Spellings[i] = c) - 1)

Packing == INSTANCE Ft8Message

-----------------------------------------------------------------------------
(* Sync scores *)

Searches == {[scores |-> s, num_candidates |-> n, min_score |-> 1] :
                s \in [1 .. 5 -> 0 .. 3], n \in {3, 4}}

-----------------------------------------------------------------------------
(* Command lines *)

OptionsOf(mode, band, hop, frequency, station, rate, offset) ==
    [mode |-> mode, band |-> band, hop |-> hop, frequency |-> frequency,
     call |-> station[1], grid |-> station[2], rate |-> rate,
     shift |-> offset[1], upconverter |-> offset[2]]

Stations == {<< <<"L", "D", "L">>, <<"R", "R", "D", "D">> >>,
             << <<"L", "L", "L">>, <<"R", "R", "D", "D">> >>,
             << <<"L", "D", "/", "/", "L">>, <<"R", "R", "D", "D", "R", "X">> >>,
             << <<"L", "/", "L", "D", "L">>, <<"R", "X", "D", "D">> >>}

HopLists == {<< >>, <<"auto">>, <<"20m", "40m", "30m">>, <<"20m", "4m">>, <<"lf", "20m">>,
             <<"lf", "2200m">>, <<"20m", "">>, <<"20m">>, <<"10m", "2m", "1m25">>}

(* Shift and upconverter; the last ones leave a band out of reach. *)
Offsets == {<<0, 0>>, <<0, 125000000>>, <<-1500, 0>>, <<-2000000, 0>>, <<-135000, 0>>,
            <<0, 50000000>>, <<0, 20000000>>}

(* Every other band of the plan, one band, or all of it, as the advice. *)
Advised(plan) ==
    {<< >>, plan, SubSeq(plan, 3, 3),
     SelectSeq(plan, LAMBDA b : b.frequency_hz \in 5000000 .. 15000000)}

Good == << <<"L", "D", "L">>, <<"R", "R", "D", "D">> >>

CommandLines ==
    {[options |-> o, ranked |-> << >>] : o \in
        {OptionsOf(mode, band, hop, frequency, Good, 768000, offset) :
            mode \in {"WSPR", "FT8"}, band \in {"", "20m", "4m"}, hop \in HopLists,
            frequency \in {0, 14095600}, offset \in Offsets}
        \cup {OptionsOf(mode, "", <<"20m", "40m">>, 0, station, rate, <<0, 0>>) :
                 mode \in {"WSPR", "FT8"}, station \in Stations,
                 rate \in {768000, 912000, 100000}}}
    \cup
    UNION {{[options |-> OptionsOf(mode, "", <<"auto">>, 0, Good, 768000, <<0, 125000000>>),
             ranked |-> r] :
               r \in Advised(hop_plan_parse(automatic_hop_bands, mode = "FT8"))} :
             mode \in {"WSPR", "FT8"}}

-----------------------------------------------------------------------------
(* WSPR payloads *)

Alphabet == "0123456789ABCDEFGHIJKLMNOPQRSTUVWXYZ /<>."

(* The codes of the characters. *)
Spell(s) ==
    [i \in 1 .. Len(s) |->
        (CHOOSE k \in 1 .. Len(Alphabet) : SubSeq(Alphabet, k, k) = SubSeq(s, i, i)) - 1]

K1ABC == Spell("K1ABC")
PJ4K1ABC == Spell("PJ4/K1ABC")

MCNHash(call) == CASE call = K1ABC -> 100 [] call = PJ4K1ABC -> 32399 [] OTHER -> 7

(* Calls, or grids when the payload has a hash, the first and the last     *)
(* value of a call and one that is none.                                   *)
PayloadCalls ==
    {pack_call(Spell(c)) : c \in {"K1ABC", "AB0XYZ", "G4A", "1A0C", "K52UDF", "O91XXI"}}
        \cup {0, 262177559, 262177560}

(* Grids, prefixes and hashes at the edges of their ranges. *)
PayloadMiddles ==
    {0, 1, 35, 36, 37, 100, 1368, 1369, 1370, 17884, 17885, 27231, 27232, 27267,
     27268, 27357, 27358, 32399, 32400}

Known == [h \in PayloadMiddles \cup {7} |->
            CASE h = 100 -> K1ABC [] h = 32399 -> PJ4K1ABC [] OTHER -> << >>]

PowerBits == {0, 63, 64, 126, 127} \cup {low \in 0 .. 127 : low % 3 = 1}

PayloadInputs ==
    {<<n1, 128 * middle + low>> :
        n1 \in PayloadCalls, middle \in PayloadMiddles, low \in PowerBits}

-----------------------------------------------------------------------------
(* The machines *)

MCMessage(i) == [k \in 0 .. 80 |-> IF k < 50 THEN ((k * k * i + 3 * k + i) \div 4) % 2 ELSE 0]
SentValue == {MCMessage(i) : i \in 1 .. 3}
MCSent == SentValue
FadingsValue == {s .. (s + 5) : s \in {0, 40, 100, 156}}
MCFadings == FadingsValue

(* The hashes, and what is left of them when digits are cut off.           *)
HashesValue == {7, 100, 10, 1, 32399, 3239, 323, 32, 3}
MCHashes == HashesValue
OptionsValue == {[usehashtable |-> h, subtraction |-> s] : h, s \in BOOLEAN}
                \ {[usehashtable |-> FALSE, subtraction |-> FALSE]}
MCOptions == OptionsValue

(* K1ABC with a grid, PJ4/K1ABC and grids with hashes, those of the two or *)
(* what may be left of one; NYN/K1ABC and K1/03, which are generated as    *)
(* 000/K1ABC and K1/T; and a power for which nothing is printed.           *)
AirsValue ==
    LET call      == pack_call(K1ABC)
        plain     == <<call, pack_grid4_power(Spell("FN20"), 37)>>
        prefixed  == get_wspr_channel_symbols([call |-> PJ4K1ABC, grid |-> << >>, power |-> 37])
        hashed(h) == <<pack_call(Spell("N20AAF")), 128 * h + 26>>
    IN {{plain, prefixed, hashed(32399)},
        {plain, hashed(32)},
        {<<call, 103>>, hashed(7)},
        {<<pack_call(Spell("03")), 128 * 17257 + 103>>, <<call, 127>>}}
MCAirs == AirsValue

FanoIdle ==
    /\ sent = << >> /\ received = << >> /\ np = 0 /\ path = << >>
    /\ branch = << >> /\ gamma = << >> /\ t = 0 /\ fano_pc = 0

(* No run; a payload and a table for it, or nothing on the air. *)
CoreIdle(air, known) ==
    /\ onair = air /\ hashtab = known
    /\ options = << >> /\ core_pc = "idle" /\ ipass = 0 /\ nwat = 0 /\ ndecodes_pass = 0
    /\ hash_file = << >> /\ cut_line = << >> /\ decodes = << >> /\ ndecoded = 0
    /\ run = 0 /\ spelled = {} /\ misread = {} /\ torn = {}

DecodingInit ==
    /\ Ft8Init
    /\ \/ /\ input \in MessageInputs \cup FreeInputs \cup {[topic |-> "ft8"]}
          /\ FanoIdle /\ CoreIdle({}, << >>) /\ searched = {} /\ invoked = {}
       \/ /\ input = [topic |-> "heap"] /\ FanoIdle /\ CoreIdle({}, << >>) /\ invoked = {}
          /\ \E s \in Searches : searched = {s}
       \/ /\ input = [topic |-> "config"] /\ FanoIdle /\ CoreIdle({}, << >>) /\ searched = {}
          /\ \E c \in CommandLines : invoked = {c}
       \/ /\ input = [topic |-> "payload"] /\ FanoIdle /\ searched = {} /\ invoked = {}
          /\ \E payload \in PayloadInputs : CoreIdle({payload}, Known)
       \/ /\ input = [topic |-> "fano"] /\ FanoInit /\ CoreIdle({}, << >>)
          /\ searched = {} /\ invoked = {}
       \/ /\ input = [topic |-> "core"] /\ CoreInit /\ FanoIdle
          /\ searched = {} /\ invoked = {}

DecodingNext ==
    /\ UNCHANGED <<input, searched, invoked>>
    /\ \/ input.topic = "ft8" /\ Ft8Next /\ UNCHANGED <<fanoVars, coreVars>>
       \/ input.topic = "fano" /\ FanoNext /\ UNCHANGED <<ft8Vars, coreVars>>
       \/ input.topic = "core" /\ CoreNext /\ UNCHANGED <<ft8Vars, fanoVars>>

-----------------------------------------------------------------------------
(***************************************************************************)
(* An FT8 message that ftx_message_encode packs is printed as it was by    *)
(* ftx_message_decode, whichever of the layouts it needs, and free text    *)
(* as its thirteen characters. Reports below -30 dB are the exception:     *)
(* packgrid does not check their range, and they are printed as an         *)
(* acknowledgement, as a grid or not at all, never as another report.      *)
(***************************************************************************)
MessagesRoundTrip ==
    /\ input.topic = "message" => Packing!RoundTrips(input.to, input.de, input.extra)
    /\ input.topic = "free" => Packing!FreeTextPrinted(input.text)
=============================================================================
