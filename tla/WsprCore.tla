------------------------------ MODULE WsprCore ------------------------------
(***************************************************************************)
(* One run after another of the vendored WSPR decoder (core/wsprd.c, main) *)
(* over the frames the bridge gives it: three passes over the candidates,  *)
(* what becomes of each message that is decoded, the spots that are         *)
(* printed, and the callsign hash table that is kept in hashtable.txt      *)
(* from one run to the next.                                               *)
(*                                                                         *)
(* The signal processing is outside the model: a candidate of a pass, if   *)
(* it decodes, decodes to any payload at any frequency, which includes the *)
(* false decodes and the same signal found again in a later pass.          *)
(*                                                                         *)
(* Three variables are history: spelled has the callsigns that were        *)
(* spelled out in frames the table stands for, misread those that only the *)
(* signals generated for subtraction spelled, and torn what was read from  *)
(* lines of the file that were cut short.                                  *)
(***************************************************************************)
EXTENDS WsprCodec

CONSTANTS
    Airs,           \* what may be on the air in a frame: sets of payloads
    Freqs,          \* frequencies of candidates, in Hz
    Hashes,         \* the hashes of the callsigns involved
    Options,        \* the options the bridge passes: -H and -s
    MaxCandidates,  \* candidates of a pass
    MaxSpots,       \* entries of decodes[], 50
    BlockLines,     \* whole lines of hashtable.txt in front of the first one
                    \* that can be cut: those in 4096 bytes, at least 170
    MaxDecodes,     \* bound on the decodes, frames together (exploration only)
    MaxRuns         \* bound on the runs (exploration only)

(***************************************************************************)
(* A payload has 28 and 22 bits; the hashes that are received, and those   *)
(* whose last digits are cut off, are among those of the instance.         *)
(***************************************************************************)
ASSUME CoreAssumption ==
    /\ Freqs \subseteq Int
    /\ MaxSpots \in Nat
    /\ BlockLines \in Nat \ {0}
    /\ \A h \in Hashes : h \in Nat /\ (h >= 10 => h \div 10 \in Hashes)
    /\ \A air \in Airs : \A payload \in air :
          /\ payload[1] \in Nat /\ payload[1] < Values28
          /\ payload[2] \in Nat /\ payload[2] < Values22
          /\ Ntype(payload[2]) < 0 => payload[2] \div 128 \in Hashes

VARIABLES
    onair,          \* the payloads in the frame of this run
    options,        \* [usehashtable, subtraction]
    core_pc, ipass,
    nwat,           \* candidates of the pass not tried yet
    ndecodes_pass,  \* messages decoded in the pass
    hashtab,        \* the table of this run
    hash_file,      \* the whole lines of hashtable.txt
    cut_line,       \* the hash and the call read from a last line cut short
    decodes,        \* the spots of this run, as [call, freq, line, hash]
    ndecoded,       \* messages decoded so far (for the bound)
    run,
    spelled, misread, torn   \* history

file     == <<hash_file, cut_line>>
history  == <<spelled, misread, torn>>
coreVars == <<onair, options, core_pc, ipass, nwat, ndecodes_pass, hashtab, file,
              decodes, ndecoded, run, history>>

NoTable == [h \in Hashes |-> << >>]

npasses == IF options.subtraction THEN 3 ELSE 1

-----------------------------------------------------------------------------
CoreInit ==
    /\ onair \in Airs /\ options \in Options
    /\ core_pc = "start"
    /\ ipass = 0 /\ nwat = 0 /\ ndecodes_pass = 0
    /\ hashtab = NoTable /\ hash_file = NoTable /\ cut_line = << >>
    /\ decodes = << >> /\ ndecoded = 0
    /\ run = 1 /\ spelled = {} /\ misread = {} /\ torn = {}

(***************************************************************************)
(* The table starts as the file has it, or empty with -H. A last line that *)
(* was cut short is entered as far as it goes.                             *)
(***************************************************************************)
LoadTable ==
    /\ core_pc = "start"
    /\ IF options.usehashtable /\ cut_line # << >>
       THEN /\ hashtab' = [hash_file EXCEPT ![cut_line[1]] = cut_line[2]]
            /\ torn' = torn \cup {cut_line}
       ELSE /\ hashtab' = IF options.usehashtable THEN hash_file ELSE NoTable
            /\ torn' = torn
    /\ core_pc' = "pass"
    /\ UNCHANGED <<onair, options, ipass, nwat, ndecodes_pass, file, decodes, ndecoded,
                   run, spelled, misread>>

(***************************************************************************)
(* A pass looks for candidates in what is left of the signal; the second   *)
(* is skipped when the first decoded nothing.                               *)
(***************************************************************************)
BeginPass ==
    /\ core_pc = "pass" /\ ipass < npasses
    /\ ipass' = IF ipass = 1 /\ ndecodes_pass = 0 /\ npasses > 2 THEN 2 ELSE ipass
    /\ \E n \in 0 .. MaxCandidates : nwat' = n
    /\ ndecodes_pass' = 0
    /\ core_pc' = "decode"
    /\ UNCHANGED <<onair, options, hashtab, file, decodes, ndecoded, run, history>>

(***************************************************************************)
(* Mutant: only the spots of the pass are compared.                        *)
(***************************************************************************)
DupeOfPass(call, freq) ==
    \E i \in DOMAIN decodes :
        /\ i + ndecodes_pass > Len(decodes) /\ decodes[i].call = call
        /\ freq - decodes[i].freq < 4 /\ decodes[i].freq - freq < 4

(***************************************************************************)
(* The same callsign within 4 Hz was printed before.                       *)
(***************************************************************************)
Dupe(call, freq) ==
    \E i \in DOMAIN decodes :
        /\ decodes[i].call = call
        /\ freq - decodes[i].freq < 4 /\ decodes[i].freq - freq < 4

(***************************************************************************)
(* The callsign by which a message is compared: what was unpacked, also    *)
(* when no line was printed from it.                                       *)
(***************************************************************************)
Callsign(payload, line) ==
    IF line = Blank THEN CString(unpackcall(payload[1])) ELSE line.call

NotDecoded ==
    /\ core_pc = "decode" /\ nwat > 0
    /\ nwat' = nwat - 1
    /\ UNCHANGED <<onair, options, core_pc, ipass, ndecodes_pass, hashtab, file,
                   decodes, ndecoded, run, history>>

(***************************************************************************)
(* A decoded message is unpacked into the table; if it is to be printed,   *)
(* its signal is generated again and subtracted, which unpacks what was    *)
(* generated; a line that generates nothing ends the pass. A message that  *)
(* is no duplicate becomes a spot. Nothing tests that decodes[] has room   *)
(* for it: what the program does after it wrote beyond the end is          *)
(* undefined, and the model leaves it there, to crash.                     *)
(***************************************************************************)
Decoded ==
    /\ core_pc = "decode" /\ nwat > 0 /\ ndecoded < MaxDecodes
    /\ \E payload \in onair :
         LET u     == unpk_(payload[1], payload[2], hashtab)
             call  == Callsign(payload, u.line)
             again == IF options.subtraction /\ ~u.noprint
                      THEN get_wspr_channel_symbols(u.line) ELSE payload
             stuck == again = << >>
             v     == IF options.subtraction /\ ~u.noprint /\ ~stuck
                      THEN unpk_(again[1], again[2], u.hashtab) ELSE u
         IN /\ nwat' = IF stuck THEN 0 ELSE nwat - 1
            /\ hashtab' = v.hashtab
            /\ spelled' = IF u.hashtab = hashtab THEN spelled ELSE spelled \cup {u.line.call}
            /\ misread' = IF v.hashtab = u.hashtab THEN misread
                          ELSE misread \cup {<<payload, v.line.call>>}
            /\ \E freq \in Freqs :
                 LET print == ~u.noprint /\ ~stuck /\ ~Dupe(call, freq)
                     room  == Len(decodes) < MaxSpots
                 IN /\ decodes' = IF print /\ room
                                  THEN Append(decodes, [call |-> call, freq |-> freq,
                                                        line |-> u.line,
                                                        hash |-> payload[2] \div 128])
                                  ELSE decodes
                    /\ core_pc' = IF print /\ ~room THEN "overrun" ELSE core_pc
    /\ ndecodes_pass' = ndecodes_pass + 1
    /\ ndecoded' = ndecoded + 1
    /\ UNCHANGED <<onair, options, ipass, file, run, torn>>

EndPass ==
    /\ core_pc = "decode" /\ nwat = 0
    /\ ipass' = ipass + 1
    /\ core_pc' = "pass"
    /\ UNCHANGED <<onair, options, nwat, ndecodes_pass, hashtab, file, decodes, ndecoded,
                   run, history>>

(***************************************************************************)
(* The spots in the order of their frequencies, found order among equals.  *)
(***************************************************************************)
Sorted(spots) ==
    LET before(i, j) ==
            spots[i].freq < spots[j].freq \/ (spots[i].freq = spots[j].freq /\ i < j)
        place(k) == CHOOSE i \in DOMAIN spots :
                       Cardinality({j \in DOMAIN spots : before(j, i)}) = k - 1
    IN [k \in DOMAIN spots |-> spots[place(k)]]

(***************************************************************************)
(* The spots are printed, and the file is emptied to be written again; it  *)
(* is complete when it is closed.                                          *)
(***************************************************************************)
PrintSpots ==
    /\ core_pc = "pass" /\ ipass >= npasses
    /\ decodes' = Sorted(decodes)
    /\ hash_file' = IF options.usehashtable THEN NoTable ELSE hash_file
    /\ cut_line' = IF options.usehashtable THEN << >> ELSE cut_line
    /\ core_pc' = "save"
    /\ UNCHANGED <<onair, options, ipass, nwat, ndecodes_pass, hashtab, ndecoded, run, history>>

SaveTable ==
    /\ core_pc = "save"
    /\ hash_file' = IF options.usehashtable THEN hashtab ELSE hash_file
    /\ core_pc' = "exit"
    /\ UNCHANGED <<onair, options, ipass, nwat, ndecodes_pass, hashtab, cut_line, decodes,
                   ndecoded, run, history>>

(***************************************************************************)
(* What fgets and sscanf make of "%5d %s %s" cut anywhere, nothing if no   *)
(* digit is left: the first digits of the hash with the call of the line   *)
(* before, which hcall still holds, or the hash and the first characters   *)
(* of its call. The grid matters to no message here.                       *)
(***************************************************************************)
LeadingDigits(h) ==
    {h} \cup {n \in {h \div 10, h \div 100, h \div 1000, h \div 10000} : n > 0}

CutLine(h, call, before) ==
    {<< >>} \cup {<<n, before>> : n \in LeadingDigits(h)}
            \cup {<<h, SubSeq(call, 1, k)>> : k \in 1 .. Len(call)}

(***************************************************************************)
(* The core is killed while it writes the table in the order of the        *)
(* hashes: stdio has written the lines in blocks, whose last one ends      *)
(* anywhere in a line.                                                     *)
(***************************************************************************)
DiesSaving ==
    /\ core_pc = "save" /\ options.usehashtable
    /\ \E last \in Hashes :
         LET whole == {h \in Hashes : h < last /\ hashtab[h] # << >>}
         IN /\ hashtab[last] # << >> /\ Cardinality(whole) >= BlockLines
            /\ hash_file' = [h \in Hashes |-> IF h < last THEN hashtab[h] ELSE << >>]
            /\ \E before \in whole :
                 /\ \A h \in whole : h <= before
                 /\ cut_line' \in CutLine(last, hashtab[last], hashtab[before])
    /\ core_pc' = "exit"
    /\ UNCHANGED <<onair, options, ipass, nwat, ndecodes_pass, hashtab, decodes, ndecoded,
                   run, history>>

(***************************************************************************)
(* The core is killed anywhere else; the next frame starts with the file   *)
(* it leaves, an empty one while nothing of the table is written.          *)
(***************************************************************************)
CoreDies ==
    /\ core_pc \notin {"start", "exit"}
    /\ core_pc' = "exit"
    /\ UNCHANGED <<onair, options, ipass, nwat, ndecodes_pass, hashtab, file, decodes,
                   ndecoded, run, history>>

(***************************************************************************)
(* The bridge runs the core for the next frame.                            *)
(***************************************************************************)
NextRun ==
    /\ core_pc = "exit" /\ run < MaxRuns
    /\ run' = run + 1 /\ onair' \in Airs
    /\ core_pc' = "start"
    /\ ipass' = 0 /\ nwat' = 0 /\ ndecodes_pass' = 0
    /\ decodes' = << >> /\ hashtab' = NoTable
    /\ IF options.usehashtable THEN UNCHANGED history
       ELSE spelled' = {} /\ misread' = {} /\ torn' = {}
    /\ UNCHANGED <<options, file, ndecoded>>

CoreNext ==
    \/ LoadTable \/ BeginPass \/ NotDecoded \/ Decoded \/ EndPass
    \/ PrintSpots \/ SaveTable \/ DiesSaving \/ CoreDies \/ NextRun

CoreSpec == CoreInit /\ [][CoreNext]_coreVars

-----------------------------------------------------------------------------
(***************************************************************************)
(* A callsign may be put to a hash if it has that hash and was spelled out *)
(* in this frame or in one the table was carried over from, or in the      *)
(* signal generated for such a frame's message; or if that is what a line  *)
(* of hashtable.txt said that a kill had cut short.                        *)
(***************************************************************************)
Vouched(hash, call) ==
    \/ /\ NHash(call) = hash
       /\ call \in spelled \cup {m[2] : m \in misread}
    \/ <<hash, call>> \in torn

(***************************************************************************)
(* The core reports a callsign once within 4 Hz, whichever passes it was   *)
(* found in, and puts a name to a hash only if the frames the table stands *)
(* for vouch for it. The exceptions are the code's: a table whose writing  *)
(* was cut short (wsprd.c:1549-1557) names whom its last line names, and   *)
(* the messages of a prefix NYN or of a call like K1/03 (~Regenerable) are *)
(* generated for subtraction as those of another callsign, which enters    *)
(* the table too; no other message has that effect.                        *)
(***************************************************************************)
CoreSpotsHonest ==
    /\ \A i, j \in DOMAIN decodes :
          i < j /\ decodes[i].call = decodes[j].call =>
             decodes[i].freq - decodes[j].freq >= 4 \/ decodes[j].freq - decodes[i].freq >= 4
    /\ \A i \in DOMAIN decodes :
          decodes[i].call # Unresolved /\ At(decodes[i].call, 1) = Less =>
             \E c \in spelled \cup {m[2] : m \in misread} \cup {t[2] : t \in torn} :
                decodes[i].call = Bracketed(c) /\ Vouched(decodes[i].hash, c)
    /\ \A m \in misread : ~Regenerable(m[1][1], m[1][2])

(***************************************************************************)
(* get_wspr_channel_symbols gives back the payload a printed line came     *)
(* from, so the signal that wsprd subtracts is the one it decoded. Left    *)
(* out are the payloads whose line does not say all of them (Canonical),   *)
(* and hashes that were read from a line cut short: the callsign printed   *)
(* for one has another hash, so another signal is generated for it.        *)
(***************************************************************************)
TornName(payload) ==
    /\ Ntype(payload[2]) < 0
    /\ <<payload[2] \div 128, hashtab[payload[2] \div 128]>> \in torn

SubtractsDecoded ==
    \A payload \in onair : TornName(payload) \/ PacksBack(payload[1], payload[2], hashtab)
=============================================================================
