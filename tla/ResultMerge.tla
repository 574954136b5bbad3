---------------------------- MODULE ResultMerge -----------------------------
(***************************************************************************)
(* jt9_merge_results (src/jt9_decoder.c): the decodes of jt9 are added to  *)
(* those of ft8_lib, in place. One step is one turn of the outer loop.     *)
(*                                                                         *)
(* A decode is what the merge looks at: its text, its audio frequency and  *)
(* the transmitter's callsign, NoCall where it was not resolved. The grid  *)
(* goes with the callsign. Nothing is assumed of the two lists but that    *)
(* ft8_lib's fits the array: it may hold the same text twice (two          *)
(* payloads with an unresolved hash), and jt9 may print a line twice.      *)
(***************************************************************************)
EXTENDS Integers, Sequences

CONSTANTS
    Messages, Calls, NoCall,
    Frequencies,      \* in Hz; the code's are floats
    Tolerance,        \* 10 Hz
    Capacity,         \* FT8_MAX_RESULTS
    MaxAdditional     \* decodes of jt9, at most FT8_MAX_RESULTS

ASSUME MergeAssumption ==
    /\ NoCall \notin Calls
    /\ Frequencies \subseteq Int
    /\ Tolerance \in Nat
    /\ Capacity \in Nat
    /\ MaxAdditional \in Nat

VARIABLES
    primary,      \* the first primary_count entries of the array
    additional,   \* jt9's decodes
    addition,     \* how many of them have been looked at
    given         \* history: what ft8_lib had decoded

vars == <<primary, additional, addition, given>>

-----------------------------------------------------------------------------
Result == [message : Messages, frequency : Frequencies, call : Calls \union {NoCall}]

Lists(n) == UNION {[1 .. m -> Result] : m \in 0 .. n}

Init ==
    /\ given \in Lists(Capacity)
    /\ additional \in Lists(MaxAdditional)
    /\ primary = given
    /\ addition = 0

\* Mutant: the text alone decides.
SameText(a, b) == a.message = b.message

(***************************************************************************)
(* The same text within the tolerance.                                     *)
(***************************************************************************)
Same(a, b) ==
    /\ a.message = b.message
    /\ a.frequency - b.frequency \in -Tolerance .. Tolerance

(***************************************************************************)
(* The entry at which the inner loop breaks.                               *)
(***************************************************************************)
IsFirst(i, result) ==
    /\ i \in 1 .. Len(primary)
    /\ Same(primary[i], result)
    /\ \A j \in 1 .. i - 1 : ~Same(primary[j], result)

(***************************************************************************)
(* A callsign is taken over only where there was none.                     *)
(***************************************************************************)
Completed(existing, result) ==
    IF existing.call = NoCall THEN [existing EXCEPT !.call = result.call] ELSE existing

HasRoom == Len(primary) < Capacity

(***************************************************************************)
(* A turn ends at the first duplicate, or appends. The loop ends when the  *)
(* array is full.                                                          *)
(***************************************************************************)
Turn ==
    /\ addition < Len(additional) /\ HasRoom
    /\ LET result == additional[addition + 1]
       IN  \/ \E i \in 1 .. Len(primary) :
                 /\ IsFirst(i, result)
                 /\ primary' = [primary EXCEPT ![i] = Completed(primary[i], result)]
           \/ /\ \A i \in 1 .. Len(primary) : ~Same(primary[i], result)
              /\ primary' = Append(primary, result)
    /\ addition' = addition + 1
    /\ UNCHANGED <<additional, given>>

Spec == Init /\ [][Turn]_vars

-----------------------------------------------------------------------------
(***************************************************************************)
(* Types: the array is never overrun.                                      *)
(***************************************************************************)
MergeTypeOK ==
    /\ primary \in Seq(Result) /\ Len(primary) <= Capacity
    /\ given \in Seq(Result) /\ Len(given) <= Len(primary)
    /\ additional \in Seq(Result)
    /\ addition \in 0 .. Len(additional)

(***************************************************************************)
(* What "the same decode" means to a reader: one text, at most 10 Hz apart *)
(* either way.                                                             *)
(***************************************************************************)
Duplicates(a, b) ==
    /\ a.message = b.message
    /\ a.frequency <= b.frequency + Tolerance
    /\ b.frequency <= a.frequency + Tolerance

(***************************************************************************)
(* Deduplicated: nothing that was added repeats an entry before it. Only   *)
(* repetitions within ft8_lib's own list remain.                           *)
(***************************************************************************)
NothingAddedTwice ==
    \A j \in Len(given) + 1 .. Len(primary) : \A i \in 1 .. j - 1 :
        ~Duplicates(primary[i], primary[j])

(***************************************************************************)
(* A union: every decode of jt9 looked at so far is in the list, with a    *)
(* callsign if jt9 resolved it.                                            *)
(***************************************************************************)
NothingMissed ==
    \A a \in 1 .. addition : \E i \in 1 .. Len(primary) :
        /\ Duplicates(primary[i], additional[a])
        /\ additional[a].call # NoCall => primary[i].call # NoCall

(***************************************************************************)
(* ft8_lib's decodes keep their place, their text, their frequency and the *)
(* callsign they had.                                                      *)
(***************************************************************************)
GivenKept ==
    \A i \in 1 .. Len(given) :
        /\ i \in 1 .. Len(primary)
        /\ primary[i].message = given[i].message
        /\ primary[i].frequency = given[i].frequency
        /\ given[i].call # NoCall => primary[i].call = given[i].call

(***************************************************************************)
(* No transmitter is credited with another's decode: a callsign in the     *)
(* list was resolved by one of the decoders for this text, near this       *)
(* frequency.                                                              *)
(***************************************************************************)
CallsAttributed ==
    \A i \in 1 .. Len(primary) :
        primary[i].call # NoCall =>
            \/ i <= Len(given) /\ given[i].call = primary[i].call
            \/ \E a \in 1 .. addition :
                  /\ additional[a].call = primary[i].call
                  /\ Duplicates(primary[i], additional[a])

=============================================================================
