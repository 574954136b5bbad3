----------------------------- MODULE Ft8Message -----------------------------
(***************************************************************************)
(* FT8's source coding (ft8_lib/ft8/message.c on ft8_lib/ft8/text.c): a    *)
(* message of two callsigns and a grid or report, free text or telemetry   *)
(* to the 77 bits on the air and back.                                     *)
(*                                                                         *)
(* A payload is the record of the fields the bits are cut into, with the   *)
(* integers the code computes; the 58-bit callsign is the sequence of its  *)
(* base-38 digits, because it exceeds TLC's integers. The hash table is    *)
(* behind the callbacks of ftx_callsign_hash_interface_t: heard is the set *)
(* of the calls it holds, and Hash22 the 22-bit multiplicative hash.       *)
(***************************************************************************)
EXTENDS Integers, Sequences, SequencesExt, FiniteSetsExt

CONSTANT Hash22(_)       \* a callsign's 22-bit hash

MAX22 == 4194304
NTOKENS == 2063592
MAXGRID4 == 32400

-----------------------------------------------------------------------------
(* text.c *)

(***************************************************************************)
(* A character of a C string; past its end, the terminating NUL.           *)
(***************************************************************************)
At(s, i) == IF i \in 1 .. Len(s) THEN SubSeq(s, i, i) ELSE ""

Digits == "0123456789"
Letters == "ABCDEFGHIJKLMNOPQRSTUVWXYZ"

LETTERS_SPACE == " " \o Letters
ALPHANUM == Digits \o Letters
ALPHANUM_SPACE == " " \o ALPHANUM
ALPHANUM_SPACE_SLASH == ALPHANUM_SPACE \o "/"
FULL == ALPHANUM_SPACE \o "+-./?"

(***************************************************************************)
(* A character table is the string of its characters: charn reads it at an *)
(* index, "_" beyond the end, and nchar finds a character, -1 if absent.   *)
(***************************************************************************)
charn(c, table) == IF c < Len(table) THEN At(table, c + 1) ELSE "_"

nchar(ch, table) ==
    LET places == {i \in 1 .. Len(table) : At(table, i) = ch}
    IN IF places = {} THEN -1 ELSE Min(places) - 1

is_digit(ch) == nchar(ch, Digits) >= 0
is_letter(ch) == nchar(ch, Letters) >= 0

starts_with(s, prefix) ==
    Len(s) >= Len(prefix) /\ SubSeq(s, 1, Len(prefix)) = prefix
ends_with(s, suffix) ==
    Len(s) >= Len(suffix) /\ SubSeq(s, Len(s) - Len(suffix) + 1, Len(s)) = suffix

NotSpaces(s) == {i \in 1 .. Len(s) : At(s, i) # " "}

trim(s) ==
    IF NotSpaces(s) = {} THEN "" ELSE SubSeq(s, Min(NotSpaces(s)), Max(NotSpaces(s)))

trim_front(s) ==
    IF NotSpaces(s) = {} THEN "" ELSE SubSeq(s, Min(NotSpaces(s)), Len(s))

(***************************************************************************)
(* The characters up to the first space, and what follows the spaces.      *)
(***************************************************************************)
TokenEnd(s) ==
    LET spaces == (1 .. Len(s)) \ NotSpaces(s)
    IN IF spaces = {} THEN Len(s) ELSE Min(spaces) - 1

copy_token(s) == SubSeq(s, 1, TokenEnd(s))
AfterToken(s) == trim_front(SubSeq(s, TokenEnd(s) + 1, Len(s)))

(***************************************************************************)
(* A sign and then digits, up to length characters or the first that is no *)
(* digit.                                                                  *)
(***************************************************************************)
dd_to_int(s, length) ==
    LET signed == Len(s) > 0 /\ At(s, 1) \in {"-", "+"}
        first  == IF signed THEN 2 ELSE 1
        stops  == {i \in first .. Len(s) : i > length \/ ~is_digit(At(s, i))}
        last   == IF stops = {} THEN Len(s) ELSE Min(stops) - 1
        value[i \in 0 .. 3] ==
            IF i < first THEN 0 ELSE 10 * value[i - 1] + nchar(At(s, i), Digits)
        result == IF last < first THEN 0 ELSE value[last]
    IN IF signed /\ At(s, 1) = "-" THEN -result ELSE result

(***************************************************************************)
(* The leading digit is '0' + value / divisor, whatever that character is. *)
(***************************************************************************)
FromZero == Digits \o ":;<=>?@" \o Letters

int_to_dd(value, width, full_sign) ==
    LET v    == IF value < 0 THEN -value ELSE value
        sign == IF value < 0 THEN "-" ELSE IF full_sign THEN "+" ELSE ""
    IN IF width = 2
       THEN sign \o charn(v \div 10, FromZero) \o charn(v % 10, FromZero)
       ELSE sign \o charn(v \div 100, FromZero)
                 \o charn((v \div 10) % 10, FromZero) \o charn(v % 10, FromZero)

-----------------------------------------------------------------------------
(* Callsigns *)

trim_brackets(call) ==
    IF Len(call) > 1 /\ starts_with(call, "<") /\ ends_with(call, ">")
    THEN SubSeq(call, 2, Len(call) - 1) ELSE call

(***************************************************************************)
(* Only these characters hash; 12- and 10-bit hashes are the 22-bit one's  *)
(* leading bits.                                                           *)
(***************************************************************************)
save_callsign(call) ==
    \A i \in 1 .. Len(call) : nchar(At(call, i), ALPHANUM_SPACE_SLASH) >= 0

lookup_callsign(heard, bits, hash) ==
    LET match == {c \in heard : Hash22(c) \div 2 ^ (22 - bits) = hash}
    IN IF match = {} THEN "<...>" ELSE "<" \o (CHOOSE c \in match : TRUE) \o ">"

(***************************************************************************)
(* The six characters a standard call is packed from: its digit comes      *)
(* third, 3DA0 and 3X? take the place of 3D0 and Q?. "" if there are none. *)
(***************************************************************************)
BaseCall(call) ==
    IF starts_with(call, "3DA0") /\ Len(call) \in 5 .. 7 THEN
           "3D0" \o SubSeq(call, 5, Len(call))
    ELSE IF starts_with(call, "3X") /\ is_letter(At(call, 3)) /\ Len(call) <= 7 THEN
           "Q" \o SubSeq(call, 3, Len(call))
    ELSE IF is_digit(At(call, 3)) /\ Len(call) <= 6 THEN call
    ELSE IF is_digit(At(call, 2)) /\ Len(call) <= 5 THEN " " \o call
    ELSE ""

BaseTables ==
    <<ALPHANUM_SPACE, ALPHANUM, Digits, LETTERS_SPACE, LETTERS_SPACE, LETTERS_SPACE>>

pack_basecall(call) ==
    LET c6   == SubSeq(BaseCall(call) \o "      ", 1, 6)
        i[k \in 1 .. 6] == nchar(At(c6, k), BaseTables[k])
        n[k \in 0 .. 6] == IF k = 0 THEN 0 ELSE n[k - 1] * Len(BaseTables[k]) + i[k]
    IN IF Len(call) > 2 /\ \A k \in 1 .. 6 : i[k] >= 0 THEN n[6] ELSE -1

Tokens == <<"DE", "QRZ", "CQ">>

Packed(n28, ip) == [n28 |-> n28, ip |-> ip]
Unpackable == Packed(-1, 0)

pack28(call) ==
    LET suffixed == ends_with(call, "/P") \/ ends_with(call, "/R")
        base == IF suffixed THEN SubSeq(call, 1, Len(call) - 2) ELSE call
        n28  == pack_basecall(base)
    IN IF \E k \in 1 .. 3 : call = Tokens[k] THEN
              Packed((CHOOSE k \in 1 .. 3 : call = Tokens[k]) - 1, 0)
       ELSE IF starts_with(call, "CQ_") /\ Len(call) < 8 THEN Unpackable
       ELSE IF ~save_callsign(call) THEN Unpackable
       ELSE IF n28 >= 0 THEN Packed(NTOKENS + MAX22 + n28, IF suffixed THEN 1 ELSE 0)
       ELSE IF Len(call) \in 3 .. 11 THEN Packed(NTOKENS + Hash22(call), 0)
       ELSE Unpackable

(***************************************************************************)
(* The six characters of a standard call, from the last to the first.      *)
(***************************************************************************)
BaseText(n) ==
    LET rest[k \in 1 .. 6] ==
            IF k = 6 THEN n ELSE rest[k + 1] \div Len(BaseTables[k + 1])
        ch(k) == charn(rest[k] % Len(BaseTables[k]), BaseTables[k])
    IN ch(1) \o ch(2) \o ch(3) \o ch(4) \o ch(5) \o ch(6)

(***************************************************************************)
(* Unpacking without the two prefix work-arounds.                          *)
(***************************************************************************)
ExpandNone(c6) == trim(c6)

(***************************************************************************)
(* 3D0 and Q? are printed as the prefixes they stand for.                  *)
(***************************************************************************)
ExpandBase(c6) ==
    CASE starts_with(c6, "3D0") /\ At(c6, 4) # " " -> "3DA0" \o trim(SubSeq(c6, 4, 6))
      [] At(c6, 1) = "Q" /\ is_letter(At(c6, 2)) -> "3X" \o trim(SubSeq(c6, 2, 6))
      [] OTHER -> trim(c6)

(***************************************************************************)
(* "CQ" with the three digits or up to four letters of a directed call.    *)
(***************************************************************************)
DirectedCq(n28) ==
    LET n  == n28 - 1003
        ch(k) == charn((n \div 27 ^ k) % 27, LETTERS_SPACE)
    IN IF n28 <= 1002 THEN "CQ " \o int_to_dd(n28 - 3, 3, FALSE)
       ELSE "CQ " \o trim_front(ch(3) \o ch(2) \o ch(1) \o ch(0))

Suffix(i3) == IF i3 = 1 THEN "/R" ELSE "/P"

(***************************************************************************)
(* The text of a 28-bit callsign field; "" stands for the error returns.   *)
(***************************************************************************)
unpack28(n28, ip, i3, heard) ==
    LET call == ExpandBase(BaseText(n28 - NTOKENS - MAX22))
    IN CASE n28 <= 2 -> Tokens[n28 + 1]
         [] n28 \in 3 .. 532443 -> DirectedCq(n28)
         [] n28 \in 532444 .. NTOKENS - 1 -> ""
         [] n28 \in NTOKENS .. NTOKENS + MAX22 - 1 ->
              lookup_callsign(heard, 22, n28 - NTOKENS)
         [] OTHER ->
              IF Len(call) < 3 \/ (ip # 0 /\ i3 \notin {1, 2}) THEN ""
              ELSE IF ip # 0 THEN call \o Suffix(i3) ELSE call

(***************************************************************************)
(* Eleven base-38 digits. A leading "<" is skipped, and another would end  *)
(* the call.                                                               *)
(***************************************************************************)
pack58(call) ==
    LET s   == IF starts_with(call, "<") THEN SubSeq(call, 2, Len(call)) ELSE call
        ends == {i \in 1 .. Len(s) : At(s, i) = "<" \/ i > 11}
        len == IF ends = {} THEN Len(s) ELSE Min(ends) - 1
    IN [k \in 1 .. 11 |->
           IF k + len <= 11 THEN 0 ELSE nchar(At(s, k + len - 11), ALPHANUM_SPACE_SLASH)]

unpack58(n58) ==
    trim(FoldLeft(LAMBDA s, d : s \o charn(d, ALPHANUM_SPACE_SLASH), "", n58))

-----------------------------------------------------------------------------
(* Grids and reports *)

IsGrid4(s) ==
    /\ Len(s) >= 4
    /\ nchar(At(s, 1), Letters) \in 0 .. 17 /\ nchar(At(s, 2), Letters) \in 0 .. 17
    /\ is_digit(At(s, 3)) /\ is_digit(At(s, 4))

Acks == <<"", "RRR", "RR73", "73">>

(***************************************************************************)
(* 16 bits, the most significant one is ir.                                *)
(***************************************************************************)
packgrid(extra) ==
    IF \E k \in 1 .. 4 : extra = Acks[k] THEN
           MAXGRID4 + (CHOOSE k \in 1 .. 4 : extra = Acks[k])
    ELSE IF IsGrid4(extra) THEN
           ((nchar(At(extra, 1), Letters) * 18 + nchar(At(extra, 2), Letters)) * 10
              + nchar(At(extra, 3), Digits)) * 10 + nchar(At(extra, 4), Digits)
    ELSE IF starts_with(extra, "R") THEN
           2 ^ 15 + ((MAXGRID4 + 35 + dd_to_int(SubSeq(extra, 2, Len(extra)), 3)) % 2 ^ 15)
    ELSE (MAXGRID4 + 35 + dd_to_int(extra, 3)) % 2 ^ 16

unpackgrid(igrid4, ir) ==
    LET irpt == igrid4 - MAXGRID4
        lead(s) == IF ir > 0 THEN s ELSE ""
    IN CASE irpt <= 0 ->
              lead("R ") \o charn((igrid4 \div 1800) % 18, Letters)
                         \o charn((igrid4 \div 100) % 18, Letters)
                         \o charn((igrid4 \div 10) % 10, Digits)
                         \o charn(igrid4 % 10, Digits)
         [] irpt \in 1 .. 4 -> Acks[irpt]
         [] OTHER -> lead("R") \o int_to_dd(irpt - 35, 2, TRUE)

-----------------------------------------------------------------------------
(* Messages *)

Error(rc) == [rc |-> rc]

encode_std(call_to, call_de, extra) ==
    LET a == pack28(call_to)
        b == pack28(call_de)
        P(c) == ends_with(c, "/P")
        R(c) == ends_with(c, "/R")
        igrid4 == packgrid(extra)
    IN IF a.n28 < 0 THEN Error("CALLSIGN1")
       ELSE IF b.n28 < 0 THEN Error("CALLSIGN2")
       ELSE IF (P(call_to) \/ P(call_de)) /\ (R(call_to) \/ R(call_de)) THEN Error("SUFFIX")
       ELSE [rc |-> "OK", i3 |-> IF P(call_to) \/ P(call_de) THEN 2 ELSE 1,
                      n28a |-> a.n28, n28b |-> b.n28, ipb |-> b.ip,
                      ipa |-> IF R(call_to) \/ P(call_to) THEN 1 ELSE a.ip,
                      ir |-> igrid4 \div 2 ^ 15, igrid4 |-> igrid4 % 2 ^ 15]

encode_nonstd(call_to, call_de, extra) ==
    LET icq    == call_to = "CQ"
        iflip  == /\ ~icq /\ starts_with(call_de, "<")
                  /\ Len(call_to) <= Len(call_de) /\ At(call_de, Len(call_to)) = ">"
        call12 == IF iflip THEN call_de ELSE call_to
        call58 == IF iflip THEN call_to ELSE call_de
        acks   == {k \in 2 .. 4 : extra = Acks[k]}
    IN IF ~icq /\ Len(call_to) < 3 THEN Error("CALLSIGN1")
       ELSE IF Len(call_de) < 3 THEN Error("CALLSIGN2")
       ELSE IF ~icq /\ ~save_callsign(call12) THEN Error("CALLSIGN1")
       ELSE IF \E k \in 1 .. 11 : pack58(call58)[k] < 0 THEN Error("CALLSIGN2")
       ELSE [rc |-> "OK", i3 |-> 4, iflip |-> iflip, icq |-> icq,
                      n12 |-> IF icq THEN 0 ELSE Hash22(call12) \div 2 ^ 10,
                      n58 |-> pack58(call58),
                      nrpt |-> IF icq \/ acks = {} THEN 0 ELSE Min(acks) - 1]

(***************************************************************************)
(* The first three tokens, as a standard message if they make one.         *)
(***************************************************************************)
encode(text) ==
    LET to    == copy_token(text)
        de    == copy_token(AfterToken(text))
        extra == copy_token(AfterToken(AfterToken(text)))
        std   == encode_std(to, de, extra)
    IN IF Len(to) > 11 THEN Error("CALLSIGN1")
       ELSE IF Len(de) > 11 THEN Error("CALLSIGN2")
       ELSE IF Len(extra) > 19 THEN Error("GRID")
       ELSE IF std.rc = "OK" THEN std ELSE encode_nonstd(to, de, extra)

Fields(to, de, extra) == [rc |-> "OK", to |-> to, de |-> de, extra |-> extra]

decode_std(msg, heard) ==
    LET to == unpack28(msg.n28a, msg.ipa, msg.i3, heard)
        de == unpack28(msg.n28b, msg.ipb, msg.i3, heard)
    IN IF to = "" THEN Error("CALLSIGN1")
       ELSE IF de = "" THEN Error("CALLSIGN2")
       ELSE Fields(to, de, unpackgrid(msg.igrid4, msg.ir))

decode_nonstd(msg, heard) ==
    LET plain  == unpack58(msg.n58)
        hashed == lookup_callsign(heard, 12, msg.n12)
    IN Fields(IF msg.icq THEN "CQ" ELSE IF msg.iflip THEN plain ELSE hashed,
              IF msg.iflip THEN hashed ELSE plain,
              IF msg.icq THEN "" ELSE Acks[msg.nrpt + 1])

(***************************************************************************)
(* The nine bytes of a message that has no fields, moved right by a bit.   *)
(***************************************************************************)
decode_telemetry(bytes) ==
    [i \in 1 .. 9 |-> (IF i = 1 THEN 0 ELSE bytes[i - 1] % 2) * 128 + bytes[i] \div 2]

(***************************************************************************)
(* One step of the long division by 42: the quotient's bytes and the       *)
(* remainder.                                                              *)
(***************************************************************************)
DivideBy42(b71) ==
    FoldLeft(LAMBDA q, b : [quot |-> Append(q.quot, (q.rem * 256 + b) \div 42),
                            rem  |-> (q.rem * 256 + b) % 42],
             [quot |-> <<>>, rem |-> 0], b71)

decode_free(bytes) ==
    LET step[k \in 0 .. 13] ==
            IF k = 0 THEN [quot |-> decode_telemetry(bytes), rem |-> 0]
            ELSE DivideBy42(step[k - 1].quot)
    IN trim(FoldLeft(LAMBDA s, k : s \o charn(step[14 - k].rem, FULL), "",
                     [k \in 1 .. 13 |-> k]))

decode_telemetry_hex(bytes) ==
    FoldLeft(LAMBDA s, b : s \o charn(b \div 16, ALPHANUM) \o charn(b % 16, ALPHANUM),
             "", decode_telemetry(bytes))

(***************************************************************************)
(* i3 selects the layout, and n3 the one of a message without callsigns.   *)
(***************************************************************************)
decode(msg, heard) ==
    CASE msg.i3 \in {1, 2} -> decode_std(msg, heard)
      [] msg.i3 = 4 -> decode_nonstd(msg, heard)
      [] msg.i3 = 0 /\ msg.n3 = 0 -> Fields(decode_free(msg.bytes), "", "")
      [] msg.i3 = 0 /\ msg.n3 = 5 -> Fields(decode_telemetry_hex(msg.bytes), "", "")
      [] OTHER -> Error("TYPE")

-----------------------------------------------------------------------------
(***************************************************************************)
(* A report is a sign and two digits, behind an R or not. packgrid does    *)
(* not check its range (message.c:926): -31 to -34 get the codes of 73,    *)
(* RR73, RRR and nothing, and from -35 on the codes of grids.              *)
(***************************************************************************)
Signed(extra) == IF starts_with(extra, "R") THEN SubSeq(extra, 2, Len(extra)) ELSE extra

IsReport(extra) == Len(Signed(extra)) = 3 /\ At(Signed(extra), 1) \in {"-", "+"}

TooWeak(extra) == IsReport(extra) /\ dd_to_int(Signed(extra), 3) < -30

(***************************************************************************)
(* What was encoded is what is printed: the same callsigns, bracketed when *)
(* they travelled as a hash, and the same grid, acknowledgement or report, *)
(* which a message with a spelled-out 58-bit call carries only if it is an *)
(* acknowledgement. Reports below -30 are left out, as packgrid lets them  *)
(* run into the codes beside theirs; but no report is printed as another.  *)
(***************************************************************************)
PrintedAsSent(to, de, extra, msg, out) ==
    LET kept == msg.i3 # 4 \/ (to # "CQ" /\ \E k \in 2 .. 4 : extra = Acks[k])
    IN /\ msg.rc = "OK" /\ out.rc = "OK"
       /\ trim_brackets(out.to) = to /\ trim_brackets(out.de) = de
       /\ IF kept /\ TooWeak(extra) THEN ~IsReport(out.extra)
          ELSE out.extra = IF kept THEN extra ELSE ""

RoundTrips(to, de, extra) ==
    LET msg == encode(to \o " " \o de \o " " \o extra)
    IN PrintedAsSent(to, de, extra, msg, decode(msg, {to, de}))

(***************************************************************************)
(* Thirteen characters as the number they are in base 42, in nine bytes    *)
(* whose last bit is n3's first: what a transmitter sends as free text.    *)
(***************************************************************************)
FreeBytes(text) ==
    LET digit(b, a) == [bytes |-> <<(b * 42 + a.carry) % 256>> \o a.bytes,
                        carry |-> (b * 42 + a.carry) \div 256]
        step(bytes, ch) ==      \* bytes * 42 + the character
            FoldRight(digit, bytes, [bytes |-> << >>, carry |-> nchar(ch, FULL)]).bytes
        b71 == FoldLeft(step, [i \in 1 .. 9 |-> 0], [i \in 1 .. Len(text) |-> At(text, i)])
    IN [i \in 1 .. 9 |-> ((b71[i] * 2) % 256) + (IF i = 9 THEN 0 ELSE b71[i + 1] \div 128)]

FreeTextPrinted(text) ==
    decode([i3 |-> 0, n3 |-> 0, bytes |-> FreeBytes(text)], {}).to = trim(text)
=============================================================================
