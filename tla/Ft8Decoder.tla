----------------------------- MODULE Ft8Decoder -----------------------------
(***************************************************************************)
(* The FT8 side of the decoder thread (src/ft8_decoder.c and the message   *)
(* decoding of src/ft8_lib/ft8/message.c it calls), frame after frame, and *)
(* the merge with jt9's decodes that ends each frame (ResultMerge).        *)
(*                                                                         *)
(* FT8 sends a long callsign as a hash. The receiver can only print it if  *)
(* it has heard the callsign in clear before, so decodes of one frame are  *)
(* read with what earlier frames left in callsign_table: an open-addressed *)
(* hash table whose entries grow older by one each frame and are cleared   *)
(* in the middle of their probe chains.                                    *)
(*                                                                         *)
(* A payload is the set of fields the decoder looks at. Which candidates a *)
(* pass finds, and what they decode to, is the air's choice.               *)
(***************************************************************************)
EXTENDS ResultMerge

CONSTANTS
    Hash,             \* callsign -> its 22-bit hash
    Divisor12,        \* hash22 \div Divisor12 is the 12-bit hash (2^10)
    Divisor10,        \* hash22 \div Divisor10 the 10-bit one (2^12)
    TableSize,        \* FT8_CALLSIGN_TABLE_SIZE
    MaxAge,           \* 10 frames
    Reportable,       \* the callsigns normalize_report_callsign accepts
    Payloads,         \* what may be on the air
    Passes,           \* 3
    Jt9Lists,         \* what jt9 may print
    NoMessage

ASSUME Ft8Assumption ==
    /\ Hash \in [Calls -> Nat]
    /\ Divisor12 \in Nat \ {0} /\ Divisor10 \in Nat \ {0}
    /\ Divisor10 % Divisor12 = 0
    /\ TableSize \in Nat \ {0} /\ MaxAge \in Nat /\ Passes \in Nat \ {0}
    /\ Reportable \subseteq Calls
    /\ Capacity > 0

VARIABLES
    table,       \* callsign_table
    decoded,     \* decoded[]: the payloads of this frame, by their CRC
    pass,        \* the pass over the waterfall
    buckets,     \* frequency_decoded
    at,          \* where the decoder thread is: "decode" or "merge"
    heard        \* history: frames since a callsign was heard in clear

ft8Vars == <<primary, additional, addition, given,
             table, decoded, pass, buckets, at, heard>>

-----------------------------------------------------------------------------
(***************************************************************************)
(* callsign_table. Slots are probed in turn from a home that follows from  *)
(* the hash; the 10 bits it uses are part of every form of the hash.       *)
(***************************************************************************)
Empty == [call |-> NoCall, hash |-> 0, age |-> 0]

Slots == 0 .. TableSize - 1

\* Mutant: the shift of the 22-bit form is used for every form.
HomeUnshifted(hash, divisor) == ((hash \div Divisor10) * 23) % TableSize

Home(hash, divisor) == ((hash \div (Divisor10 \div divisor)) * 23) % TableSize

Probed(home, p) == (home + p) % TableSize

\* The first probe of a slot the loop stops at; TableSize if there is none.
FirstProbe(home, stops) ==
    IF stops = {} THEN TableSize
    ELSE CHOOSE p \in Slots :
            /\ Probed(home, p) \in stops
            /\ \A q \in 0 .. p - 1 : Probed(home, q) \notin stops

(***************************************************************************)
(* The callsign goes to the first free slot, or is refreshed where it is;  *)
(* a full table drops it.                                                  *)
(***************************************************************************)
save_callsign(tab, call) ==
    LET home == Home(Hash[call], 1)
        p == FirstProbe(home, {i \in Slots : tab[i].call = NoCall
                                   \/ (tab[i].hash = Hash[call] /\ tab[i].call = call)})
    IN  IF p = TableSize THEN tab
        ELSE [tab EXCEPT ![Probed(home, p)] =
                  [call |-> call, hash |-> Hash[call], age |-> 0]]

lookup_callsign(tab, hash, divisor) ==
    LET home == Home(hash, divisor)
        p == FirstProbe(home, {i \in Slots : tab[i].call = NoCall
                                   \/ tab[i].hash \div divisor = hash})
    IN  IF p = TableSize THEN NoCall ELSE tab[Probed(home, p)].call

\* Mutant: an entry is never too old.
callsign_table_never_clears(tab) ==
    [i \in Slots |-> IF tab[i].call = NoCall \/ tab[i].age > MaxAge THEN tab[i]
                     ELSE [tab[i] EXCEPT !.age = @ + 1]]

callsign_table_age(tab) ==
    [i \in Slots |-> IF tab[i].call = NoCall \/ tab[i].age > MaxAge THEN Empty
                     ELSE [tab[i] EXCEPT !.age = @ + 1]]

-----------------------------------------------------------------------------
(***************************************************************************)
(* A payload: its type, the fields "to" and "de", the rest of it, and the  *)
(* CRC that serves as its hash. A field is a token such as CQ (or a string *)
(* too short for a callsign, which is not saved), a callsign in clear, a   *)
(* hash of either length, or bits that are no callsign.                    *)
(***************************************************************************)
Token == [kind |-> "token", call |-> NoCall, hash |-> 0]
Clear(call) == [kind |-> "clear", call |-> call, hash |-> 0]
Hashed22(call) == [kind |-> "hash22", call |-> NoCall, hash |-> Hash[call]]
Hashed12(call) == [kind |-> "hash12", call |-> NoCall, hash |-> Hash[call] \div Divisor12]
NotACall == [kind |-> "bad", call |-> NoCall, hash |-> 0]

Fields ==
    {Token, NotACall} \union {Clear(c) : c \in Calls}
        \union [kind : {"hash22", "hash12"}, call : {NoCall}, hash : Nat]

(***************************************************************************)
(* Any bits of 58 or 12 give a callsign or a hash in a non-standard        *)
(* message; free text has no fields.                                       *)
(***************************************************************************)
ASSUME PayloadAssumption ==
    /\ NoMessage \notin Payloads
    /\ \A m \in Payloads :
          /\ m.crc \in Nat /\ m.to \in Fields /\ m.de \in Fields
          /\ m.type = "nonstd" => m.to # NotACall
          /\ m.type = "free" => m.to = Token /\ m.de = Token

(***************************************************************************)
(* What is printed of a field. A callsign looked up is in brackets, "<...>"*)
(* if the table does not have it.                                          *)
(***************************************************************************)
Printed(call, brackets) == [call |-> call, brackets |-> brackets]

Printeds == [call : Calls \union {NoCall}, brackets : BOOLEAN]

(***************************************************************************)
(* The texts that are compared are those either decoder may print.         *)
(***************************************************************************)
ASSUME TextAssumption ==
    /\ [to : Printeds, de : Printeds, extra : {m.extra : m \in Payloads}] \subseteq Messages
    /\ Jt9Lists \subseteq Seq(Result)

SavedBy(field, tab) == IF field.kind = "clear" THEN save_callsign(tab, field.call) ELSE tab

TextOf(field, tab) ==
    CASE field.kind = "hash22" -> Printed(lookup_callsign(tab, field.hash, 1), TRUE)
      [] field.kind = "hash12" -> Printed(lookup_callsign(tab, field.hash, Divisor12), TRUE)
      [] OTHER -> Printed(field.call, FALSE)

(***************************************************************************)
(* The fields are unpacked one after the other: a callsign in "to" is      *)
(* already saved when "de" is looked up, and stays saved if "de" is no     *)
(* callsign.                                                               *)
(***************************************************************************)
ftx_message_decode_std(m, tab) ==
    LET after_to == SavedBy(m.to, tab)
        after_de == SavedBy(m.de, after_to)
    IN  IF m.to.kind = "bad" THEN [ok |-> FALSE, table |-> tab]
        ELSE IF m.de.kind = "bad" THEN [ok |-> FALSE, table |-> after_to]
        ELSE [ok |-> TRUE, table |-> after_de,
              to |-> TextOf(m.to, tab), de |-> TextOf(m.de, after_to)]

(***************************************************************************)
(* One field is in clear and the other a 12-bit hash; the one in clear is  *)
(* unpacked and saved first, wherever it stands. With icq, "to" is CQ.     *)
(***************************************************************************)
ftx_message_decode_nonstd(m, tab) ==
    LET after == SavedBy(m.de, SavedBy(m.to, tab))
    IN  [ok |-> TRUE, table |-> after,
         to |-> IF m.cq THEN TextOf(Token, tab) ELSE TextOf(m.to, after),
         de |-> TextOf(m.de, after)]

(***************************************************************************)
(* Free text and telemetry have no callsigns. The contest types are not    *)
(* handled.                                                                *)
(***************************************************************************)
ftx_message_decode(m, tab) ==
    CASE m.type = "std" -> ftx_message_decode_std(m, tab)
      [] m.type = "nonstd" -> ftx_message_decode_nonstd(m, tab)
      [] m.type = "free" -> [ok |-> TRUE, table |-> tab,
                             to |-> TextOf(Token, tab), de |-> TextOf(Token, tab)]
      [] OTHER -> [ok |-> FALSE, table |-> tab]

(***************************************************************************)
(* The transmitter is that of a second decode of the same payload, with    *)
(* the table as the first one left it.                                     *)
(***************************************************************************)
decode_report_fields(m, tab) ==
    LET d == ftx_message_decode(m, tab)
    IN  [table |-> d.table,
         call |-> IF m.type # "free" /\ d.ok /\ d.de.call \in Reportable
                  THEN d.de.call ELSE NoCall]

-----------------------------------------------------------------------------
(***************************************************************************)
(* The payloads of this frame, an open-addressed table as well. A full one *)
(* counts every payload as decoded already.                                *)
(***************************************************************************)
MessageSlots == 0 .. Capacity - 1

MessageProbe(m, p) == (m.crc + p) % Capacity

FirstFree(m) ==
    CHOOSE p \in MessageSlots :
        /\ decoded[MessageProbe(m, p)] = NoMessage
        /\ \A q \in 0 .. p - 1 : decoded[MessageProbe(m, q)] # NoMessage

HasFree == \E i \in MessageSlots : decoded[i] = NoMessage

\* Mutant: only the slot the CRC names is looked at.
already_decoded_at_home(m) == ~HasFree \/ decoded[MessageProbe(m, 0)] = m

already_decoded(m) ==
    \/ ~HasFree
    \/ \E p \in 0 .. FirstFree(m) : decoded[MessageProbe(m, p)] = m

retain_message(m) == [decoded EXCEPT ![MessageProbe(m, FirstFree(m))] = m]

\* Buckets of 4 Hz: one decode of a bucket in a pass.
Bucket(frequency) == frequency \div 4

ClearCalls(m) ==
    LET tried == IF m.to.kind = "bad" THEN {} ELSE {m.to, m.de}
    IN  {field.call : field \in {f \in tried : f.kind = "clear"}}

-----------------------------------------------------------------------------
Ft8Init ==
    /\ primary = <<>> /\ given = <<>> /\ additional = <<>> /\ addition = 0
    /\ table = [i \in Slots |-> Empty]
    /\ decoded = [i \in MessageSlots |-> NoMessage]
    /\ pass = 0 /\ buckets = {} /\ at = "decode"
    /\ heard = [c \in Calls |-> MaxAge + 2]

(***************************************************************************)
(* One candidate of a pass that decodes; one that does not changes nothing.*)
(***************************************************************************)
DecodeCandidate(frequency, m) ==
    LET text == ftx_message_decode(m, table)
        report == decode_report_fields(m, text.table)
    IN  /\ at = "decode" /\ Len(primary) < Capacity
        /\ Bucket(frequency) \notin buckets
        /\ buckets' = buckets \union {Bucket(frequency)}
        /\ \/ /\ already_decoded(m)
              /\ UNCHANGED <<table, decoded, primary, heard>>
           \/ /\ ~already_decoded(m) /\ ~text.ok
              /\ table' = text.table
              /\ UNCHANGED <<decoded, primary>>
              /\ heard' = [c \in Calls |->
                              IF m.type = "std" /\ c \in ClearCalls(m) THEN 0 ELSE heard[c]]
           \/ /\ ~already_decoded(m) /\ text.ok
              /\ decoded' = retain_message(m)
              /\ table' = report.table
              /\ primary' = Append(primary,
                     [message |-> [to |-> text.to, de |-> text.de, extra |-> m.extra],
                      frequency |-> frequency, call |-> report.call])
              /\ heard' = [c \in Calls |-> IF c \in ClearCalls(m) THEN 0 ELSE heard[c]]
        /\ given' = primary'
        /\ UNCHANGED <<additional, addition, pass, at>>

NextPass ==
    /\ at = "decode" /\ pass + 1 < Passes /\ Len(primary) < Capacity
    /\ pass' = pass + 1
    /\ buckets' = {}
    /\ UNCHANGED <<vars, table, decoded, at, heard>>

(***************************************************************************)
(* The entries age, and jt9's decodes of the frame are merged: none, if it *)
(* is not there or failed.                                                 *)
(***************************************************************************)
EndFrame ==
    /\ at = "decode" /\ (pass + 1 = Passes \/ Len(primary) = Capacity)
    /\ table' = callsign_table_age(table)
    /\ heard' = [c \in Calls |-> IF heard[c] > MaxAge + 1 THEN heard[c] ELSE heard[c] + 1]
    /\ at' = "merge" /\ pass' = 0 /\ buckets' = {}
    /\ decoded' = [i \in MessageSlots |-> NoMessage]
    /\ additional' \in Jt9Lists
    /\ addition' = 0
    /\ UNCHANGED <<primary, given>>

Merge ==
    /\ at = "merge"
    /\ Turn
    /\ UNCHANGED <<table, decoded, pass, buckets, at, heard>>

\* The results are reported, and the next frame is decoded.
NextFrame ==
    /\ at = "merge" /\ (addition = Len(additional) \/ ~HasRoom)
    /\ at' = "decode"
    /\ primary' = <<>> /\ given' = <<>> /\ additional' = <<>> /\ addition' = 0
    /\ UNCHANGED <<table, decoded, pass, buckets, heard>>

Ft8Next ==
    \/ \E frequency \in Frequencies, m \in Payloads : DecodeCandidate(frequency, m)
    \/ NextPass
    \/ EndFrame
    \/ Merge
    \/ NextFrame

Ft8Spec == Ft8Init /\ [][Ft8Next]_ft8Vars

-----------------------------------------------------------------------------
Retained == {decoded[i] : i \in MessageSlots} \ {NoMessage}

(***************************************************************************)
(* A printed field says what was sent: the callsign in clear, or one with  *)
(* the hash that was sent and last heard in clear at most MaxAge + 1       *)
(* frames ago.                                                             *)
(***************************************************************************)
Says(printed, field) ==
    CASE field.kind = "hash22" ->
            /\ printed.brackets
            /\ printed.call # NoCall =>
                  /\ Hash[printed.call] = field.hash
                  /\ heard[printed.call] <= MaxAge + 1
      [] field.kind = "hash12" ->
            /\ printed.brackets
            /\ printed.call # NoCall =>
                  /\ Hash[printed.call] \div Divisor12 = field.hash
                  /\ heard[printed.call] <= MaxAge + 1
      [] OTHER -> printed = Printed(field.call, FALSE)

(***************************************************************************)
(* Every result is that of a payload of this frame; no hash is resolved to *)
(* a callsign that was not heard lately; and the transmitter credited with *)
(* it (found by the second decode) is the one the text (of the first) was  *)
(* printed with.                                                           *)
(***************************************************************************)
ResultsFaithful ==
    at = "decode" =>
        \A i \in 1 .. Len(primary) :
            LET r == primary[i] IN
            /\ \E m \in Retained :
                  /\ r.message.extra = m.extra
                  /\ Says(r.message.de, m.de)
                  /\ (m.type = "nonstd" /\ m.cq) \/ Says(r.message.to, m.to)
            /\ r.call = IF r.message.de.call \in Reportable THEN r.message.de.call
                        ELSE NoCall

(***************************************************************************)
(* A callsign heard in clear in this frame can be looked up in this frame, *)
(* by either hash, wherever clearing has left holes in the table, unless   *)
(* the table is full: the lookup gives a callsign with that hash.          *)
(***************************************************************************)
HeardResolvable ==
    (\E i \in Slots : table[i].call = NoCall) =>
        \A c \in {d \in Calls : at = "decode" /\ heard[d] = 0} :
            /\ LET found == lookup_callsign(table, Hash[c], 1)
               IN  found # NoCall /\ Hash[found] = Hash[c]
            /\ LET found == lookup_callsign(table, Hash[c] \div Divisor12, Divisor12)
               IN  found # NoCall /\ Hash[found] \div Divisor12 = Hash[c] \div Divisor12

(***************************************************************************)
(* A payload is one result of its frame, however many passes and buckets   *)
(* decode it, also when another with its CRC took its place in decoded[].  *)
(***************************************************************************)
OneResultEach ==
    at = "decode" =>
        \A i, j \in MessageSlots : decoded[i] = decoded[j] => i = j \/ decoded[i] = NoMessage

=============================================================================
