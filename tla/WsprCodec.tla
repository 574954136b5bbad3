----------------------------- MODULE WsprCodec -----------------------------
(***************************************************************************)
(* WSPR's source coding in the vendored decoder: unpacking a decoded       *)
(* payload into the line that is printed (core/wsprd_utils.c), and packing *)
(* that line again to know which signal to subtract                        *)
(* (core/wsprsim_utils.c).                                                 *)
(*                                                                         *)
(* A payload is the pair of the 28 bits n1 and the 22 bits n2. A printed   *)
(* line is [call, grid, power], without a grid in some messages; Blank is  *)
(* the line nothing was written to. Text is a sequence of characters. The  *)
(* hash table is a function from hashes to calls, empty ones where it has  *)
(* none, on the hashes the instance knows.                                 *)
(***************************************************************************)
EXTENDS Integers, Sequences, FiniteSets, FiniteSetsExt

CONSTANT
    NHash(_)      \* nhash: a callsign's 15-bit hash

(***************************************************************************)
(* A character is its code: 0 to 9 the digits, 10 to 35 the letters, then  *)
(* space and the four that a packed callsign cannot have. Beyond the end   *)
(* of a string there is NUL, as in the arrays the code copies from.        *)
(***************************************************************************)
Space == 36
SlashChar == 37
Less == 38
Greater == 39
Dot == 40
NUL == -1

At(s, i) == IF i \in 1 .. Len(s) THEN s[i] ELSE NUL

Values28 == 256 * 1024 * 1024
Values22 == 4 * 1024 * 1024
CallValues == 37 * 36 * 10 * 27 * 27 * 27    \* 262177560
GridValues == 180 * 180                      \* 32400
PrefixValues == 60000
Carry == 32768

isdigit(ch) == ch \in 0 .. 9
isalpha(ch) == ch \in 10 .. 35

(***************************************************************************)
(* What takes the place of a character in a packed callsign, space where   *)
(* the string has ended; and in a locator.                                 *)
(***************************************************************************)
CodeOf(ch) == IF ch = NUL THEN Space ELSE IF ch <= Space THEN ch ELSE -1

LocatorCode(ch) ==
    IF isdigit(ch) \/ ch = Space THEN ch ELSE IF ch \in 10 .. 27 THEN ch - 10 ELSE -1

(***************************************************************************)
(* A C string ends at its first NUL; a space stands for the NULs that      *)
(* unpackcall puts in the place of spaces.                                 *)
(***************************************************************************)
CString(s) ==
    LET ends == {i \in 1 .. Len(s) : s[i] = Space}
    IN IF ends = {} THEN s ELSE SubSeq(s, 1, Min(ends) - 1)

Blank == [call |-> << >>, grid |-> << >>, power |-> 0]

-----------------------------------------------------------------------------
(* Unpacking *)

(***************************************************************************)
(* The six characters of the callsign buffer, none if the value is no      *)
(* call. A leading space is dropped.                                       *)
(***************************************************************************)
unpackcall(n1) ==
    LET n  == n1 \div (27 * 27 * 27)
        c6 == <<n \div 360, (n \div 10) % 36, n % 10, ((n1 \div 729) % 27) + 10,
                ((n1 \div 27) % 27) + 10, (n1 % 27) + 10>>
    IN IF n1 >= CallValues THEN << >>
       ELSE IF c6[1] = Space THEN <<c6[2], c6[3], c6[4], c6[5], c6[6], Space>> ELSE c6

(***************************************************************************)
(* Fifteen bits of n2: longitude from the east in steps of two degrees,    *)
(* latitude in steps of one. Empty if the value is no grid.                *)
(***************************************************************************)
unpackgrid(n2) ==
    LET ngrid == n2 \div 128
        lon == 179 - ngrid \div 180
        lat == ngrid % 180
    IN IF ngrid >= GridValues THEN << >>
       ELSE <<10 + lon \div 10, 10 + lat \div 10, lon % 10, lat % 10>>

(***************************************************************************)
(* The call with the prefix or suffix of the value, empty if it has none.  *)
(***************************************************************************)
unpackpfx(nprefix, call) ==
    LET pfx == <<(nprefix \div (37 * 37)) % 37, (nprefix \div 37) % 37, nprefix % 37>>
        spaces == {i \in 1 .. 3 : pfx[i] = Space}
        start  == IF spaces = {} THEN 1 ELSE Max(spaces) + 1
        nc  == nprefix - PrefixValues
    IN IF nprefix < PrefixValues THEN SubSeq(pfx, start, 3) \o <<SlashChar>> \o call
       ELSE IF nc <= 35 THEN call \o <<SlashChar, nc>>
       ELSE IF nc <= 125 THEN call \o <<SlashChar, (nc - 26) \div 10, (nc - 26) % 10>>
       ELSE << >>

PowerDigit(p) == p % 10 \in {0, 3, 7}

Unpacked(noprint, line, hashtab) ==
    [noprint |-> noprint, line |-> line, hashtab |-> hashtab]

Heard(hashtab, call) == [hashtab EXCEPT ![NHash(call)] = call]

(***************************************************************************)
(* A message with callsign, grid and power (type 1), with a prefixed or    *)
(* suffixed callsign and power (type 2), or with a hash, six characters of *)
(* grid and power (type 3). The first two leave their callsign in the hash *)
(* table.                                                                  *)
(***************************************************************************)
unpk_type1(call, grid, ntype, hashtab) ==
    Unpacked(FALSE, [call |-> call, grid |-> grid, power |-> ntype], Heard(hashtab, call))

Nadd(nu) == CASE nu > 7 -> nu - 7 [] nu \in 4 .. 7 -> nu - 3 [] OTHER -> nu

unpk_type2(call, n2, ntype, hashtab) ==
    LET nadd  == Nadd(ntype % 10)
        full  == unpackpfx(n2 \div 128 + Carry * (nadd - 1), call)
        line  == [call |-> full, grid |-> << >>, power |-> ntype - nadd]
    IN IF full = << >> THEN Unpacked(TRUE, Blank, hashtab)
       ELSE IF PowerDigit(ntype - nadd) THEN Unpacked(FALSE, line, Heard(hashtab, full))
       ELSE Unpacked(TRUE, line, hashtab)

Bracketed(call) == <<Less>> \o call \o <<Greater>>
Unresolved == <<Less, Dot, Dot, Dot, Greater>>

unpk_type3(buffer, n2, ntype, hashtab) ==
    LET grid6  == <<buffer[6]>> \o CString(SubSeq(buffer, 1, 5))
        known  == hashtab[n2 \div 128]
        wrong  == \/ ~PowerDigit(-(ntype + 1))
                  \/ ~isalpha(At(grid6, 1)) \/ ~isalpha(At(grid6, 2))
                  \/ ~isdigit(At(grid6, 3)) \/ ~isdigit(At(grid6, 4))
    IN Unpacked(wrong \/ ntype = -64,
                [call |-> IF known # << >> THEN Bracketed(known) ELSE Unresolved,
                 grid |-> grid6, power |-> -(ntype + 1)],
                hashtab)

Ntype(n2) == (n2 % 128) - 64

unpk_(n1, n2, hashtab) ==
    LET buffer == unpackcall(n1)
        call   == CString(buffer)
        ntype  == Ntype(n2)
    IN IF buffer = << >> \/ unpackgrid(n2) = << >> THEN Unpacked(TRUE, Blank, hashtab)
       ELSE IF ntype \in 0 .. 62 /\ PowerDigit(ntype) THEN
              unpk_type1(call, unpackgrid(n2), ntype, hashtab)
       ELSE IF ntype \in 0 .. 62 /\ ~PowerDigit(ntype) THEN unpk_type2(call, n2, ntype, hashtab)
       ELSE IF ntype < 0 THEN unpk_type3(buffer, n2, ntype, hashtab)
       ELSE Unpacked(FALSE, Blank, hashtab)

-----------------------------------------------------------------------------
(* Packing *)

(***************************************************************************)
(* Six characters with the digit third; a longer call gives 0, and one     *)
(* without a digit in its place six spaces.                                *)
(***************************************************************************)
pack_call(call) ==
    LET shift == IF isdigit(At(call, 3)) THEN 0 ELSE IF isdigit(At(call, 2)) THEN 1 ELSE 6
        code(i) == CodeOf(At(call, i - shift))
    IN IF Len(call) > 6 THEN 0
       ELSE ((((code(1) * 36 + code(2)) * 10 + code(3)) * 27 + code(4) - 10) * 27
               + code(5) - 10) * 27 + code(6) - 10

pack_grid4_power(grid, power) ==
    LET code(i) == LocatorCode(At(grid, i))
    IN ((179 - 10 * code(1) - code(3)) * 180 + 10 * code(2) + code(4)) * 128
         + power + 64

Slash(call) ==
    LET places == {i \in 1 .. Len(call) : call[i] = SlashChar}
    IN IF places = {} THEN Len(call) + 1 ELSE Min(places)

(***************************************************************************)
(* A character's distance from '0' in ASCII.                               *)
(***************************************************************************)
FromZero(ch) == IF isalpha(ch) THEN ch + 7 ELSE ch

Packed(n, m, nadd) == [n |-> n, m |-> m, nadd |-> nadd]

(***************************************************************************)
(* Packing that forgets to carry the prefix's sixteenth bit into nadd.     *)
(***************************************************************************)
PackedPrefixShort(call, m) == Packed(call, m % Carry, 0)

(***************************************************************************)
(* The sixteenth bit of a prefix's value goes into nadd.                   *)
(***************************************************************************)
PackedPrefix(call, m) ==
    IF m > Carry THEN Packed(call, m - Carry, 1) ELSE Packed(call, m, 0)

pack_prefix(call) ==
    LET i1   == Slash(call)
        head == SubSeq(call, 1, i1 - 1)
        rest == SubSeq(call, i1 + 1, Len(call))
        code(i) == CodeOf(At(head, i + Len(head) - 3))   \* filled up in front
    IN IF Len(rest) = 1 THEN Packed(pack_call(head), PrefixValues - Carry + CodeOf(rest[1]), 1)
       ELSE IF Len(rest) = 2 THEN
              Packed(pack_call(head),
                     PrefixValues + 26 + 10 * FromZero(rest[1]) + FromZero(rest[2]), 1)
       ELSE PackedPrefix(pack_call(rest), (code(1) * 37 + code(2)) * 37 + code(3))

(***************************************************************************)
(* A power is moved to the nearest one the protocol has.                   *)
(***************************************************************************)
Rounded(power) ==
    LET nu == <<0, -1, 1, 0, -1, 2, 1, 0, -1, 1>>
        p  == IF power > 60 THEN 60 ELSE power
    IN p + nu[(p % 10) + 1]

(***************************************************************************)
(* The payload of a printed line, by what the line looks like; << >> when  *)
(* it looks like no message. n and m are cut to the 28 and 22 bits sent.   *)
(***************************************************************************)
get_wspr_channel_symbols(line) ==
    LET call  == line.call
        plain == \A i \in 1 .. Len(call) : call[i] \notin {SlashChar, Less}
        inner == SubSeq(call, 2, Len(call) - 1)
        grid  == line.grid
        turned == SubSeq(grid, 2, Len(grid)) \o (IF Len(grid) = 6 THEN <<grid[1]>> ELSE << >>)
        pfx   == pack_prefix(call)
        payload(n, m) == <<n % Values28, m % Values22>>
    IN IF Len(call) \in 3 .. 6 /\ plain THEN
            payload(pack_call(call), pack_grid4_power(grid, line.power))
       ELSE IF At(call, 1) = Less THEN
            payload(pack_call(turned), 128 * NHash(inner) - (Rounded(line.power) + 1) + 64)
       ELSE IF Slash(call) \in 2 .. Len(call) THEN
            payload(pfx.n, 128 * pfx.m + Rounded(line.power) + 1 + pfx.nadd + 64)
       ELSE << >>

-----------------------------------------------------------------------------
(***************************************************************************)
(* A message of type 2, and the value of its prefix or suffix.             *)
(***************************************************************************)
Affixed(n2) == Ntype(n2) \in 0 .. 62 /\ ~PowerDigit(Ntype(n2))

Nprefix(n2) == n2 \div 128 + Carry * (Nadd(Ntype(n2) % 10) - 1)

(***************************************************************************)
(* The payloads whose printed line says all of them: a callsign without a  *)
(* gap and of at least three characters, a prefix without a gap whose      *)
(* value is neither Carry (packing would need nadd for it) nor past ZZZ,   *)
(* and a hash that the table resolves, with a grid of six characters.      *)
(***************************************************************************)
Canonical(n1, n2, hashtab) ==
    LET buffer == unpackcall(n1)
        nprefix == Nprefix(n2)
    IN /\ \A i \in 2 .. 6 : At(buffer, i - 1) = Space => At(buffer, i) = Space
       /\ Ntype(n2) >= 0 => Len(CString(buffer)) >= 3
       /\ Ntype(n2) < 0 => /\ hashtab[n2 \div 128] # << >>
                           /\ Len(CString(buffer)) = 6
       /\ (Affixed(n2) /\ nprefix < PrefixValues) =>
             /\ nprefix # Carry /\ nprefix < 37 * 37 * 37 /\ nprefix % 37 # 36
             /\ (nprefix \div 37) % 37 = 36 => nprefix \div (37 * 37) = 36

(***************************************************************************)
(* The payload that is generated again from a printed line, to subtract    *)
(* its signal, is the payload that was decoded.                            *)
(***************************************************************************)
PacksBack(n1, n2, hashtab) ==
    LET u == unpk_(n1, n2, hashtab)
    IN (~u.noprint /\ u.line # Blank /\ Canonical(n1, n2, hashtab)) =>
          get_wspr_channel_symbols(u.line) = <<n1, n2>>

(***************************************************************************)
(* The payloads whose printed line is generated as a message of the same   *)
(* callsign, with gaps or without. The two others are a prefix of the      *)
(* value Carry (NYN, generated as the prefix 000), and a prefix in front   *)
(* of a callsign of the two characters 0 and a digit (K1/03, generated as  *)
(* the callsign K1 with a letter for suffix).                              *)
(***************************************************************************)
Regenerable(n1, n2) ==
    LET call == CString(unpackcall(n1))
    IN Affixed(n2) => /\ Nprefix(n2) # Carry
                      /\ Nprefix(n2) < PrefixValues => ~(Len(call) = 2 /\ call[1] = 0)
=============================================================================
